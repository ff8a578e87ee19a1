---------------------------- MODULE ImagePathProofs ----------------------------
(***************************************************************************)
(* Proofs about ImagePath, for bitmaps of any width, height and depth and  *)
(* any number of messages on the way.                                      *)
(***************************************************************************)
EXTENDS ImagePath, TLAPS

-----------------------------------------------------------------------------
(* Arithmetic on places.                                                   *)

\* The place <<x, y>> of a picture is in its array, row by row.
LEMMA PlaceInArray ==
  ASSUME NEW w \in Nat, NEW h \in Nat,
         NEW x \in 0..(w - 1), NEW y \in 0..(h - 1)
  PROVE  /\ w * h \in Nat /\ w * y \in Nat
         /\ w * y + x \in 0..(w * h - 1)
         /\ w * (h - 1 - y) = w * h - w - w * y
<1>1. w * h \in Nat /\ w * y \in Nat
  OBVIOUS
<1>2. PICK d \in Nat : h = y + 1 + d
  <2>1. h - 1 - y \in Nat
    OBVIOUS
  <2>2. QED
    BY <2>1
<1>3. w * h = w * y + w + w * d /\ w * d \in Nat
  BY <1>2
<1>4. QED
  BY <1>1, <1>2, <1>3

LEMMA ProductInNat ==
  ASSUME NEW a \in Nat, NEW b \in Nat
  PROVE  a * b \in Nat /\ (a > 0 /\ b > 0 => a * b > 0)
OBVIOUS

\* The row above begins as many places earlier as a row has.
LEMMA OneRowLess ==
  ASSUME NEW w \in Int, NEW y \in Int
  PROVE  w * (y - 1) = w * y - w
OBVIOUS

\* Rows of 8 bit pixels whose width is a multiple of 4 are not filled up,
\* neither in the file nor in the bitmap.
LEMMA NoFill ==
  ASSUME NEW w \in Nat, w % 4 = 0
  PROVE  /\ ((w * 8 + 31) \div 32) * 4 = w
         /\ ((w + 3) \div 4) * 4 = w
OBVIOUS

-----------------------------------------------------------------------------
(* The image the server grabs.                                             *)

LEMMA BitmapFacts ==
  ASSUME NEW b \in Bitmaps
  PROVE  /\ b.width \in Nat /\ b.width > 0
         /\ b.height \in Int
         /\ Rows(b) \in Nat /\ Rows(b) > 0
         /\ b.bits \in {1, 4, 8, 24, 32}
         /\ b.palette \in Nat
         /\ b.bits = 8 => b.palette > 0
<1>1. /\ b.width \in Widths
      /\ b.height \in Heights \union {-h : h \in Heights}
      /\ b.bits \in Depths
      /\ b.palette \in Palettes \union {0}
      /\ b.palette = 0 <=> b.bits > 8
  BY DEF Bitmaps
<1>2. b.width \in Nat /\ b.width > 0
  <2>1. b.width \in Nat \ {0}
    BY <1>1, SidesAssumption, Zenon
  <2>2. QED
    BY <2>1
<1>3. PICK h \in Heights : b.height = h \/ b.height = -h
  BY <1>1
<1>4. h \in Nat /\ h > 0
  BY SidesAssumption
<1>5. b.height \in Int /\ Rows(b) \in Nat /\ Rows(b) > 0
  BY <1>3, <1>4 DEF Rows
<1>6. b.bits \in {1, 4, 8, 24, 32}
  BY <1>1, DepthsAssumption
<1>7. b.palette \in Nat /\ (b.bits = 8 => b.palette > 0)
  <2>1. b.palette \in (Nat \ {0}) \union {0}
    BY <1>1, PalettesAssumption, Zenon
  <2>2. b.bits = 8 => b.palette # 0
    BY <1>1
  <2>3. QED
    BY <2>1, <2>2
<1>8. QED
  BY <1>2, <1>5, <1>6, <1>7

\* What there is of a grabbed image; one of 8 bits has a byte for each pixel.
LEMMA GrabbedFacts ==
  ASSUME bmp \in Bitmaps \union {NoFile}
  PROVE  LET img == MockGrabImage IN
         /\ img.width \in Nat /\ img.width > 0
         /\ img.height \in Nat /\ img.height > 0
         /\ img.channels \in Nat
         /\ bmp = NoFile \/ bmp.bits = 8 => img.channels = 1
         /\ bmp # NoFile => /\ img.width = bmp.width
                            /\ img.height = Rows(bmp)
         /\ DOMAIN img.data = 0..(img.width * img.height - 1)
<1>1. CASE bmp = NoFile
  BY <1>1, SidesAssumption DEF MockGrabImage, GrabNothing
<1>2. CASE bmp # NoFile
  <2>1. bmp \in Bitmaps
    BY <1>2
  <2>2. MockGrabImage = GrabFile(bmp)
    BY <1>2 DEF MockGrabImage
  <2>3. bmp.bits \div 8 \in Nat /\ (bmp.bits = 8 => bmp.bits \div 8 = 1)
    BY <2>1, BitmapFacts
  <2>4. DOMAIN GrabFile(bmp).data = 0..(bmp.width * Rows(bmp) - 1)
    BY DEF GrabFile, Reversed, ReadPixels
  <2>5. QED
    BY <1>2, <2>1, <2>2, <2>3, <2>4, BitmapFacts DEF GrabFile
<1>3. QED
  BY <1>1, <1>2

-----------------------------------------------------------------------------
(* What the server sends of it.                                            *)

Sent(type) == Packed(MockGrabImage, type)

LEMMA SentFacts ==
  ASSUME bmp \in Bitmaps \union {NoFile}, NEW type \in Types
  PROVE  LET img == MockGrabImage IN
         /\ Sent(type).type = type
         /\ Sent(type).w = img.width /\ Sent(type).h = img.height
         /\ Sent(type).channels = img.channels
         /\ type = "JPEG" =>
              /\ Sent(type).payload = EncodeImageToJpegByteStream(img)
              /\ DOMAIN Sent(type).payload = Places(img.width, img.height)
         /\ type = "BMP" =>
              /\ Sent(type).payload = RawBytes(img)
              /\ Len(RawBytes(img)) = img.width * img.height * img.channels
              /\ img.width * img.height * img.channels \in Nat
<1> DEFINE img == MockGrabImage
<1> DEFINE n == img.width * img.height * img.channels
<1>1. n \in Nat
  <2>1. img.width * img.height \in Nat
    BY GrabbedFacts, ProductInNat
  <2>2. QED
    BY <2>1, GrabbedFacts, ProductInNat
<1>2. Len(RawBytes(img)) = n
  <2>1. RawBytes(img) = [i \in 1..n |-> ByteAt(img, i - 1)]
    BY DEF RawBytes
  <2> HIDE DEF n, img
  <2>2. QED
    BY <2>1, <1>1
<1>3. DOMAIN EncodeImageToJpegByteStream(img) = Places(img.width, img.height)
  BY DEF EncodeImageToJpegByteStream
<1>4. QED
  BY <1>1, <1>2, <1>3 DEF Sent, Packed, Types

-----------------------------------------------------------------------------
(* The invariant: whatever is on the way or shown was made of the one file *)
(* there is.                                                               *)

\* What the two controls show of a raw image.
RawPicture ==
  RotateNoneFlipX(SaveByteArr2Bitmap(Sent("BMP").payload, Sent("BMP").w,
                                     Sent("BMP").h), Sent("BMP").w)
RawWindow ==
  ConvertByteArr2HImage(Sent("BMP").payload, Sent("BMP").w, Sent("BMP").h)

AllSent == {Sent(type) : type \in Types}

MessagesSent ==
  /\ messages \in Seq(AllSent)
  /\ shownAs \in Types \union {"none"}

ControlsShow ==
  /\ shownAs = "none" => picture = NoPicture
  /\ shownAs = "BMP" => picture = RawPicture
  /\ shownAs = "JPEG" => picture = Sent("JPEG").payload
  /\ window # NoPicture => window = RawWindow /\ shownAs # "none"

\* Each end has its reason in the file.
EndsExplained ==
  /\ fault \in {"none", "encoder", "overrun", "copy"}
  /\ fault = "encoder" => MockGrabImage.channels = 0
  /\ fault = "overrun" => MockGrabImage.channels > 1
  /\ fault = "copy" => CopyLength(Sent("BMP")) > Len(Sent("BMP").payload)

IInv ==
  /\ bmp \in Bitmaps \union {NoFile}
  /\ MessagesSent
  /\ ControlsShow
  /\ EndsExplained

\* Everything IInv says the picture is made of comes from bmp, which stays.
LEMMA FileStays ==
  ASSUME UNCHANGED bmp
  PROVE  /\ MockGrabImage' = MockGrabImage
         /\ \A type \in Types : Sent(type)' = Sent(type)
         /\ AllSent' = AllSent
         /\ RawPicture' = RawPicture /\ RawWindow' = RawWindow
BY DEF MockGrabImage, Sent, AllSent, RawPicture, RawWindow

LEMMA HeadSent ==
  ASSUME MessagesSent, messages # <<>>, bmp \in Bitmaps \union {NoFile}
  PROVE  /\ Head(messages) = Sent(Head(messages).type)
         /\ Head(messages).type \in Types
         /\ Tail(messages) \in Seq(AllSent)
<1>1. /\ Head(messages) \in AllSent
      /\ Tail(messages) \in Seq(AllSent)
  BY DEF MessagesSent
<1>2. PICK type \in Types : Head(messages) = Sent(type)
  BY <1>1 DEF AllSent
<1>3. Sent(type).type = type
  BY SentFacts
<1>4. QED
  BY <1>1, <1>2, <1>3

LEMMA InitIInv == Init => IInv
BY DEF Init, IInv, MessagesSent, ControlsShow, EndsExplained

LEMMA SendImageIInv ==
  ASSUME IInv, NEW type \in Types, SendImage(type)
  PROVE  IInv'
<1>1. /\ messages' = Append(messages, Sent(type))
      /\ UNCHANGED <<bmp, picture, window, shownAs, fault>>
  BY DEF SendImage, Sent
<1>2. AllSent' = AllSent
  BY <1>1, FileStays
<1>3. MessagesSent'
  <2>1. messages \in Seq(AllSent) /\ Sent(type) \in AllSent
    BY DEF IInv, MessagesSent, AllSent
  <2>2. messages' \in Seq(AllSent)
    BY <1>1, <2>1
  <2>3. QED
    BY <1>1, <1>2, <2>2 DEF IInv, MessagesSent
<1>4. ControlsShow' /\ EndsExplained'
  BY <1>1, FileStays DEF IInv, ControlsShow, EndsExplained, Types, CopyLength
<1>5. QED
  BY <1>1, <1>3, <1>4 DEF IInv

LEMMA EndIInv ==
  ASSUME IInv, SendImageEnds \/ CopyThrows
  PROVE  IInv'
<1>1. UNCHANGED <<bmp, messages, picture, window, shownAs>>
  BY DEF SendImageEnds, CopyThrows
<1>2. AllSent' = AllSent
  BY <1>1, FileStays
<1>3. MessagesSent'
  BY <1>1, <1>2 DEF IInv, MessagesSent
<1>4. ControlsShow'
  BY <1>1, FileStays DEF IInv, ControlsShow, Types
<1>5. EndsExplained
  BY DEF IInv
<1>6. CASE SendImageEnds
  <2>1. \/ MockGrabImage.channels = 0 /\ fault' = "encoder"
        \/ MockGrabImage.channels > 1 /\ fault' = "overrun"
    BY <1>6 DEF SendImageEnds
  <2>2. MockGrabImage' = MockGrabImage
    BY <1>1, FileStays
  <2>3. EndsExplained'
    BY <2>1, <2>2 DEF EndsExplained
  <2>4. QED
    BY <1>1, <1>3, <1>4, <2>3 DEF IInv
<1>7. CASE CopyThrows
  <2>1. /\ fault' = "copy" /\ messages # <<>>
        /\ Head(messages).type = "BMP"
        /\ CopyLength(Head(messages)) > Len(Head(messages).payload)
    BY <1>7 DEF CopyThrows
  <2>2. Head(messages) = Sent("BMP")
    BY <2>1, HeadSent DEF IInv
  <2>3. Sent("BMP")' = Sent("BMP")
    BY <1>1, FileStays DEF Types
  <2>4. EndsExplained'
    BY <2>1, <2>2, <2>3 DEF EndsExplained, CopyLength
  <2>5. QED
    BY <1>1, <1>3, <1>4, <2>4 DEF IInv
<1>8. QED
  BY <1>6, <1>7

LEMMA ShowIInv ==
  ASSUME IInv, ShowRaw \/ ShowJpeg
  PROVE  IInv'
<1>1. /\ messages # <<>> /\ messages' = Tail(messages)
      /\ UNCHANGED <<bmp, fault>>
  BY DEF ShowRaw, ShowJpeg
<1>2. /\ AllSent' = AllSent
      /\ \A t \in Types : Sent(t)' = Sent(t)
      /\ RawPicture' = RawPicture /\ RawWindow' = RawWindow
      /\ MockGrabImage' = MockGrabImage
  BY <1>1, FileStays
<1>3. EndsExplained'
  BY <1>1, <1>2 DEF IInv, EndsExplained, Types, CopyLength
<1>4. /\ Head(messages) = Sent(Head(messages).type)
      /\ messages' \in Seq(AllSent)'
  BY <1>1, <1>2, HeadSent DEF IInv
<1>5. CASE ShowRaw
  <2>1. /\ Head(messages) = Sent("BMP")
        /\ picture' = RawPicture /\ window' = RawWindow /\ shownAs' = "BMP"
    BY <1>4, <1>5 DEF ShowRaw, RawPicture, RawWindow
  <2>2. QED
    BY <1>1, <1>2, <1>3, <1>4, <2>1
       DEF IInv, MessagesSent, ControlsShow, Types
<1>6. CASE ShowJpeg
  <2>1. /\ picture' = Sent("JPEG").payload
        /\ window' = window /\ shownAs' = "JPEG"
    BY <1>4, <1>6 DEF ShowJpeg
  <2>2. QED
    BY <1>1, <1>2, <1>3, <1>4, <2>1
       DEF IInv, MessagesSent, ControlsShow, Types
<1>7. QED
  BY <1>5, <1>6

LEMMA NextIInv ==
  ASSUME IInv, [Next]_vars
  PROVE  IInv'
<1>1. CASE UNCHANGED vars
  <2>1. UNCHANGED <<bmp, messages, picture, window, shownAs, fault>>
    BY <1>1 DEF vars
  <2>2. AllSent' = AllSent
    BY <2>1, FileStays
  <2>3. MessagesSent'
    BY <2>1, <2>2 DEF IInv, MessagesSent
  <2>4. ControlsShow' /\ EndsExplained'
    BY <2>1, FileStays DEF IInv, ControlsShow, EndsExplained, Types, CopyLength
  <2>5. QED
    BY <2>1, <2>3, <2>4 DEF IInv
<1>2. QED
  BY <1>1, SendImageIInv, EndIInv, ShowIInv
     DEF Next, ReceiveServerRawData, Ended

\* What is on the way and what is shown is made of the file, and the programs
\* end only for the reasons the file gives them.
THEOREM PathInvariant == Spec => []IInv
<1>1. IInv /\ [Next]_vars => IInv'
  BY NextIInv
<1>2. QED
  BY InitIInv, <1>1, PTL DEF Spec

-----------------------------------------------------------------------------
(* What follows from it.                                                   *)

\* Messages are of one of the two formats and hold what their header says.
THEOREM TypeCorrect == Spec => []TypeOK
<1>1. ASSUME IInv PROVE TypeOK
  <2>1. ASSUME NEW i \in 1..Len(messages)
        PROVE  LET m == messages[i]
               IN  /\ m.type \in Types /\ m.w > 0 /\ m.h > 0
                   /\ m.type = "BMP" => Len(m.payload) = m.w * m.h * m.channels
                   /\ m.type = "JPEG" => DOMAIN m.payload = Places(m.w, m.h)
    <3>1. messages[i] \in AllSent
      BY <1>1 DEF IInv, MessagesSent
    <3>2. PICK type \in Types : messages[i] = Sent(type)
      BY <3>1 DEF AllSent
    <3>3. QED
      BY <3>2, <1>1, SentFacts, GrabbedFacts DEF IInv
  <2>2. QED
    BY <1>1, <2>1 DEF IInv, MessagesSent, EndsExplained, TypeOK
<1>2. IInv => TypeOK
  BY <1>1
<1>3. QED
  BY <1>2, PathInvariant, PTL

\* Neither program ends over a file of 8 bits, or none: a raw message of one
\* channel has exactly the bytes the client copies.
THEOREM GrayAlwaysPasses == Spec => []GrayNeverFails
<1>1. ASSUME IInv, bmp = NoFile \/ bmp.bits = 8
      PROVE  fault = "none"
  <2>1. /\ bmp \in Bitmaps \union {NoFile} /\ "BMP" \in Types
        /\ EndsExplained
    BY <1>1 DEF IInv, Types
  <2>2. MockGrabImage.channels = 1
    BY <1>1, <2>1, GrabbedFacts
  <2>3. Len(Sent("BMP").payload) = CopyLength(Sent("BMP"))
    <3>1. MockGrabImage.width * MockGrabImage.height \in Nat
      BY <2>1, GrabbedFacts, ProductInNat
    <3>2. MockGrabImage.width * MockGrabImage.height * MockGrabImage.channels
            = MockGrabImage.width * MockGrabImage.height
      BY <2>2, <3>1
    <3>3. QED
      BY <3>2, <2>1, SentFacts DEF CopyLength
  <2>4. CopyLength(Sent("BMP")) \in Nat
    BY <2>1, SentFacts, GrabbedFacts, ProductInNat DEF CopyLength
  <2>5. QED
    BY <2>1, <2>2, <2>3, <2>4 DEF EndsExplained
<1>2. IInv => GrayNeverFails
  BY <1>1 DEF GrayNeverFails
<1>3. QED
  BY <1>2, PathInvariant, PTL

\* Of a gray image whose rows are not filled up the raw message has a byte for
\* each place, and the bitmap has it at that place, mirrored.
LEMMA RawPlaces ==
  ASSUME bmp \in Bitmaps \union {NoFile}, Plain,
         NEW x \in 0..(bmp.width - 1), NEW y \in 0..(Rows(bmp) - 1)
  PROVE  LET w == bmp.width
             i == w * y + x
             j == w * y + (w - 1 - x)
             data == MockGrabImage.data
         IN  /\ RawWindow[<<x, y>>] = <<data[i]>>
             /\ RawPicture[<<x, y>>] = <<data[j]>>
             /\ Sent("JPEG").payload[<<x, y>>] = <<data[i]>>
             /\ i \in DOMAIN data /\ j \in DOMAIN data
<1> DEFINE w == bmp.width
<1> DEFINE h == Rows(bmp)
<1> DEFINE img == MockGrabImage
<1> DEFINE i == w * y + x
<1> DEFINE j == w * y + (w - 1 - x)
<1> DEFINE raw == RawBytes(img)
<1>1. /\ bmp \in Bitmaps /\ bmp # NoFile /\ bmp.bits = 8 /\ w % 4 = 0
      /\ w \in Nat /\ w > 0 /\ h \in Nat /\ h > 0
  BY BitmapFacts DEF Plain
<1>2. /\ img.width = w /\ img.height = h /\ img.channels = 1
      /\ DOMAIN img.data = 0..(w * h - 1)
  BY <1>1, GrabbedFacts
<1>3. /\ w * h \in Nat /\ w * y \in Nat
      /\ i \in 0..(w * h - 1) /\ j \in 0..(w * h - 1)
  <2>1. w - 1 - x \in 0..(w - 1)
    BY <1>1
  <2>2. QED
    BY <2>1, <1>1, PlaceInArray
<1>4. /\ Sent("BMP").w = w /\ Sent("BMP").h = h /\ Sent("BMP").payload = raw
      /\ Sent("JPEG").payload = EncodeImageToJpegByteStream(img)
  BY <1>1, <1>2, SentFacts DEF Types
<1>5. \A k \in 0..(w * h - 1) : raw[k + 1] = img.data[k]
  <2>1. w * h * 1 = w * h
    BY <1>3
  <2>2. raw = [k \in 1..(w * h) |-> ByteAt(img, k - 1)]
    BY <2>1, <1>2 DEF RawBytes
  <2>3. ASSUME NEW k \in 0..(w * h - 1)
        PROVE  raw[k + 1] = img.data[k]
    <3>1. k + 1 \in 1..(w * h) /\ (k + 1) - 1 = k
      BY <1>3
    <3>2. raw[k + 1] = ByteAt(img, k)
      BY <2>2, <3>1
    <3>3. QED
      BY <3>2, <1>2 DEF ByteAt
  <2>4. QED
    BY <2>3
<1>6. <<x, y>> \in Places(w, h) /\ <<w - 1 - x, y>> \in Places(w, h)
  BY <1>1 DEF Places
<1>7. RawWindow[<<x, y>>] = <<img.data[i]>>
  <2>1. RawWindow = [p \in Places(w, h) |-> <<raw[w * p[2] + p[1] + 1]>>]
    BY <1>4 DEF RawWindow, ConvertByteArr2HImage
  <2>2. RawWindow[<<x, y>>] = <<raw[w * y + x + 1]>>
    BY <2>1, <1>6
  <2>3. raw[i + 1] = img.data[i]
    BY <1>3, <1>5
  <2>4. QED
    BY <2>2, <2>3
<1>8. RawPicture[<<x, y>>] = <<img.data[j]>>
  <2> DEFINE saved == SaveByteArr2Bitmap(raw, w, h)
  <2> DEFINE At(k) == IF k < w * h THEN raw[k + 1] ELSE Blank
  <2>1. saved = [p \in Places(w, h) |-> <<At(w * p[2] + p[1])>>]
    <3>1. ((w + 3) \div 4) * 4 = w
      BY <1>1, NoFill
    <3>2. QED
      BY <3>1 DEF SaveByteArr2Bitmap
  <2>2. DOMAIN saved = Places(w, h)
    BY <2>1
  <2>3. saved[<<w - 1 - x, y>>] = <<At(j)>>
    BY <2>1, <1>6
  <2>4. At(j) = img.data[j]
    BY <1>3, <1>5
  <2>5. RawPicture = [p \in DOMAIN saved |-> saved[<<w - 1 - p[1], p[2]>>]]
    BY <1>4 DEF RawPicture, RotateNoneFlipX
  <2> HIDE DEF saved
  <2>6. RawPicture[<<x, y>>] = saved[<<w - 1 - x, y>>]
    BY <2>2, <2>5, <1>6
  <2>7. QED
    BY <2>3, <2>4, <2>6
<1>9. Sent("JPEG").payload[<<x, y>>] = <<img.data[i]>>
  <2>1. Sent("JPEG").payload[<<x, y>>] = Scanned(img, x, y)
    BY <1>2, <1>4, <1>6 DEF EncodeImageToJpegByteStream
  <2>2. Scanned(img, x, y) = <<ByteAt(img, i)>>
    <3>1. img.width * img.channels * y + x * img.channels = i
      BY <1>1, <1>2
    <3>2. img.channels \notin {3, 4}
      BY <1>2
    <3>3. QED
      BY <3>1, <3>2 DEF Scanned
  <2>3. ByteAt(img, i) = img.data[i]
    BY <1>2, <1>3 DEF ByteAt
  <2>4. QED
    BY <2>1, <2>2, <2>3
<1>10. QED
  BY <1>2, <1>3, <1>7, <1>8, <1>9

\* What is shown is a function on the places of the file's picture.
LEMMA RawFunctions ==
  ASSUME bmp \in Bitmaps \union {NoFile}, Plain
  PROVE  LET D == Places(bmp.width, Rows(bmp)) IN
         /\ RawWindow = [p \in D |-> RawWindow[p]]
         /\ RawPicture = [p \in D |-> RawPicture[p]] /\ DOMAIN RawPicture = D
         /\ Sent("JPEG").payload = [p \in D |-> Sent("JPEG").payload[p]]
<1> DEFINE D == Places(bmp.width, Rows(bmp))
<1>1. /\ Sent("BMP").w = bmp.width /\ Sent("BMP").h = Rows(bmp)
      /\ MockGrabImage.width = bmp.width /\ MockGrabImage.height = Rows(bmp)
      /\ Sent("JPEG").payload = EncodeImageToJpegByteStream(MockGrabImage)
  BY SentFacts, GrabbedFacts DEF Plain, Types
<1>2. RawWindow = [p \in D |-> RawWindow[p]]
  BY <1>1 DEF RawWindow, ConvertByteArr2HImage
<1>3. RawPicture = [p \in D |-> RawPicture[p]] /\ DOMAIN RawPicture = D
  BY <1>1 DEF RawPicture, RotateNoneFlipX, SaveByteArr2Bitmap
<1>4. Sent("JPEG").payload = [p \in D |-> Sent("JPEG").payload[p]]
  BY <1>1 DEF EncodeImageToJpegByteStream
<1>5. QED
  BY <1>2, <1>3, <1>4

\* Once a raw image was shown, the Halcon window is the mirror image of the
\* picture box if the last image came raw, and the same if it came as a JPEG.
THEOREM ControlsAlwaysDiffer == Spec => []ControlsDiffer
<1>1. ASSUME IInv, Plain, window # NoPicture
      PROVE  window = IF shownAs = "BMP" THEN RotateNoneFlipX(picture, bmp.width)
                      ELSE picture
  <2> DEFINE w == bmp.width
  <2> DEFINE D == Places(w, Rows(bmp))
  <2>1. /\ bmp \in Bitmaps /\ bmp \in Bitmaps \union {NoFile}
        /\ window = RawWindow /\ shownAs \in Types
        /\ w \in Nat /\ w > 0 /\ Rows(bmp) \in Nat
    BY <1>1, BitmapFacts DEF IInv, MessagesSent, ControlsShow, Plain
  <2>2. ASSUME NEW p \in D
        PROVE  /\ p = <<p[1], p[2]>>
               /\ p[1] \in 0..(w - 1) /\ p[2] \in 0..(Rows(bmp) - 1)
               /\ w - 1 - p[1] \in 0..(w - 1) /\ w - 1 - (w - 1 - p[1]) = p[1]
               /\ <<w - 1 - p[1], p[2]>> \in D
    BY <2>1 DEF Places
  <2>3. CASE shownAs = "BMP"
    <3>1. picture = RawPicture
      BY <1>1, <2>3 DEF IInv, ControlsShow
    <3>2. ASSUME NEW p \in D
          PROVE  RawWindow[p] = RawPicture[<<w - 1 - p[1], p[2]>>]
      <4> DEFINE x == p[1]
      <4> DEFINE y == p[2]
      <4> DEFINE z == w - 1 - p[1]
      <4>1. /\ p = <<x, y>> /\ x \in 0..(w - 1) /\ y \in 0..(Rows(bmp) - 1)
            /\ z \in 0..(w - 1) /\ w - 1 - z = x
        BY <2>2
      <4> HIDE DEF x, y, z
      <4>2. RawWindow[<<x, y>>] = <<MockGrabImage.data[w * y + x]>>
        BY <1>1, <2>1, <4>1, RawPlaces
      <4>3. RawPicture[<<z, y>>] = <<MockGrabImage.data[w * y + (w - 1 - z)]>>
        BY <1>1, <2>1, <4>1, RawPlaces
      <4>4. RawWindow[<<x, y>>] = RawPicture[<<z, y>>]
        BY <4>1, <4>2, <4>3
      <4>5. QED
        BY <4>1, <4>4 DEF y, z
    <3>3. /\ RawWindow = [p \in D |-> RawWindow[p]] /\ DOMAIN RawPicture = D
      BY <1>1, <2>1, RawFunctions
    <3>4. RotateNoneFlipX(picture, w) = [p \in D |-> RawPicture[<<w - 1 - p[1], p[2]>>]]
      BY <3>1, <3>3 DEF RotateNoneFlipX
    <3>5. RawWindow = RotateNoneFlipX(picture, w)
      BY <3>2, <3>3, <3>4
    <3>6. QED
      BY <2>1, <2>3, <3>5
  <2>4. CASE shownAs = "JPEG"
    <3> DEFINE jpeg == Sent("JPEG").payload
    <3>1. picture = jpeg
      BY <1>1, <2>4 DEF IInv, ControlsShow
    <3>2. ASSUME NEW p \in D PROVE RawWindow[p] = jpeg[p]
      <4> DEFINE x == p[1]
      <4> DEFINE y == p[2]
      <4>1. p = <<x, y>> /\ x \in 0..(w - 1) /\ y \in 0..(Rows(bmp) - 1)
        BY <2>2
      <4> HIDE DEF x, y
      <4>2. RawWindow[<<x, y>>] = jpeg[<<x, y>>]
        BY <1>1, <2>1, <4>1, RawPlaces
      <4>3. QED
        BY <4>1, <4>2
    <3>3. RawWindow = [p \in D |-> RawWindow[p]] /\ jpeg = [p \in D |-> jpeg[p]]
      BY <1>1, <2>1, RawFunctions
    <3> HIDE DEF jpeg
    <3>4. RawWindow = jpeg
      BY <3>2, <3>3
    <3>5. QED
      BY <2>1, <2>4, <3>1, <3>4
  <2>5. QED
    BY <2>1, <2>3, <2>4 DEF Types
<1>2. IInv => ControlsDiffer
  BY <1>1 DEF ControlsDiffer
<1>3. QED
  BY <1>2, PathInvariant, PTL

\* In the array of an upright file are the bytes of the file from its end, the
\* last of them one place past the pixels.
LEMMA UprightData ==
  ASSUME bmp \in Bitmaps, bmp # NoFile, bmp.bits = 8, bmp.width % 4 = 0,
         bmp.height > 0,
         NEW i \in 0..(bmp.width * bmp.height - 1), i # 0
  PROVE  MockGrabImage.data[i] = 54 + bmp.width * bmp.height - i
<1> DEFINE size == bmp.width * bmp.height
<1> DEFINE temp == ReadPixels(bmp, size)
<1>1. /\ bmp.width \in Nat /\ bmp.height \in Nat /\ Rows(bmp) = bmp.height
      /\ bmp.palette \in Nat /\ bmp.palette > 0
  BY BitmapFacts DEF Rows
<1>2. size \in Nat /\ ~(bmp.height < 0)
  BY <1>1, ProductInNat
<1>3. MockGrabImage.data = Reversed(temp, size)
  <2>1. MockGrabImage = GrabFile(bmp)
    BY DEF MockGrabImage
  <2>2. GrabFile(bmp).data = Reversed(temp, size)
    BY <1>1, <1>2 DEF GrabFile
  <2>3. QED
    BY <2>1, <2>2
<1>4. FileLength(bmp) = 54 + bmp.palette + size
  <2>1. RowBytes(bmp) = bmp.width
    BY <1>1, NoFill DEF RowBytes
  <2>2. QED
    BY <1>1, <2>1 DEF FileLength
<1>5. size - i \in 0..(size - 1) /\ i \in 0..(size - 1)
  BY <1>2
<1> HIDE DEF size
<1>6. temp[size - i] = 54 + (size - i)
  <2>1. 54 + (size - i) < FileLength(bmp)
    BY <1>1, <1>2, <1>4, <1>5
  <2>2. temp = [k \in 0..(size - 1) |->
                  IF 54 + k < FileLength(bmp) THEN 54 + k ELSE Unknown]
    BY DEF ReadPixels
  <2> HIDE DEF temp
  <2>3. QED
    BY <2>1, <2>2, <1>5
<1>7. Reversed(temp, size)[i] = temp[size - i]
  BY <1>5 DEF Reversed
<1>8. QED
  BY <1>2, <1>3, <1>5, <1>6, <1>7 DEF size

\* Of a file with the usual order of rows a raw image shows the bytes after the
\* header upright and one place off, ...
LEMMA UprightShown ==
  ASSUME IInv, Plain, bmp.height > 0, shownAs = "BMP",
         NEW p \in DOMAIN picture \ {<<bmp.width - 1, 0>>}
  PROVE  picture[p] = FilePicture(bmp, 54)[Before(p, bmp.width)]
<1> DEFINE w == bmp.width
<1> DEFINE h == bmp.height
<1> DEFINE x == p[1]
<1> DEFINE y == p[2]
<1> DEFINE j == w * y + (w - 1 - x)
<1>1. /\ bmp \in Bitmaps /\ bmp \in Bitmaps \union {NoFile}
      /\ bmp # NoFile /\ bmp.bits = 8 /\ w % 4 = 0
      /\ picture = RawPicture
      /\ w \in Nat /\ w > 0 /\ h \in Nat /\ h > 0 /\ Rows(bmp) = h
  BY BitmapFacts DEF IInv, ControlsShow, Plain, Rows
<1>2. p \in Places(w, h)
  BY <1>1, RawFunctions
<1>3. /\ p = <<x, y>> /\ x \in 0..(w - 1) /\ y \in 0..(h - 1)
      /\ ~(x = w - 1 /\ y = 0)
  BY <1>1, <1>2 DEF Places
<1> HIDE DEF x, y
<1>4. picture[p] = <<MockGrabImage.data[j]>>
  BY <1>1, <1>3, RawPlaces
<1>5. /\ w * h \in Nat /\ w * y \in Nat /\ j \in 0..(w * h - 1)
      /\ w * (h - 1 - y) = w * h - w - w * y
  <2>1. w - 1 - x \in 0..(w - 1)
    BY <1>1, <1>3
  <2>2. QED
    BY <2>1, <1>1, <1>3, PlaceInArray
<1>6. j # 0
  <2> DEFINE top == w * y
  <2>1. CASE y = 0
    <3>1. top = 0 /\ x # w - 1
      BY <2>1, <1>1, <1>3
    <3> HIDE DEF top
    <3>2. w - 1 - x \in Nat /\ (x # w - 1 => w - 1 - x # 0)
      BY <1>1, <1>3
    <3>3. top + (w - 1 - x) # 0
      BY <3>1, <3>2
    <3>4. QED
      BY <3>3 DEF top
  <2>2. CASE y # 0
    <3>1. top \in Nat /\ top > 0
      BY <2>2, <1>1, <1>3, ProductInNat
    <3> HIDE DEF top
    <3>2. w - 1 - x \in Nat /\ (x # w - 1 => w - 1 - x # 0)
      BY <1>1, <1>3
    <3>3. top + (w - 1 - x) # 0
      BY <3>1, <3>2
    <3>4. QED
      BY <3>3 DEF top
  <2>3. QED
    BY <2>1, <2>2
<1>7. MockGrabImage.data[j] = 54 + w * h - j
  BY <1>1, <1>5, <1>6, UprightData
<1> DEFINE file == FilePicture(bmp, 54)
<1>8. ASSUME NEW a \in 0..(w - 1), NEW b \in 0..(h - 1)
      PROVE  file[<<a, b>>] = <<54 + (w * h - w - w * b) + a>>
  <2>1. <<a, b>> \in Places(w, Rows(bmp))
    BY <1>1 DEF Places
  <2>2. RowBytes(bmp) = w
    BY <1>1, NoFill DEF RowBytes
  <2>3. ~(bmp.height < 0)
    BY <1>1
  <2>4. file[<<a, b>>] = <<54 + w * (h - 1 - b) + a>>
    BY <2>1, <2>2, <2>3, <1>1 DEF FilePicture
  <2>5. w * (h - 1 - b) = w * h - w - w * b
    BY <1>1, PlaceInArray
  <2>6. QED
    BY <2>4, <2>5
<1> HIDE DEF file
<1>9. CASE x = w - 1
  <2>1. Before(p, w) = <<0, y - 1>>
    BY <1>9, <1>3 DEF Before, y, x
  <2>2. y - 1 \in 0..(h - 1) /\ 0 \in 0..(w - 1)
    BY <1>9, <1>1, <1>3
  <2>3. w * (y - 1) = w * y - w
    BY <1>1, <1>3, OneRowLess
  <2>4. file[<<0, y - 1>>] = <<54 + w * h - w * y>>
    BY <2>2, <2>3, <1>1, <1>5, <1>8
  <2>5. 54 + w * h - j = 54 + w * h - w * y
    BY <1>9, <1>1, <1>5
  <2>6. QED
    BY <2>1, <2>4, <2>5, <1>4, <1>7 DEF file
<1>10. CASE x # w - 1
  <2>1. Before(p, w) = <<x + 1, y>>
    BY <1>10, <1>3 DEF Before, y, x
  <2>2. x + 1 \in 0..(w - 1)
    BY <1>10, <1>1, <1>3
  <2>3. file[<<x + 1, y>>] = <<54 + (w * h - w - w * y) + (x + 1)>>
    BY <2>2, <1>3, <1>8
  <2>4. 54 + w * h - j = 54 + (w * h - w - w * y) + (x + 1)
    BY <1>1, <1>3, <1>5, SMTT(30)
  <2>5. QED
    BY <2>1, <2>3, <2>4, <1>4, <1>7 DEF file
<1>11. QED
  BY <1>9, <1>10

\* ... but for the corner, which shows what lies after the array.
LEMMA CornerShown ==
  ASSUME IInv, Plain, bmp.height > 0, shownAs = "BMP"
  PROVE  picture[<<bmp.width - 1, 0>>] = <<Unknown>>
<1> DEFINE w == bmp.width
<1>1. /\ bmp \in Bitmaps /\ bmp \in Bitmaps \union {NoFile}
      /\ bmp # NoFile
      /\ picture = RawPicture
      /\ w \in Nat /\ w > 0 /\ Rows(bmp) \in Nat /\ Rows(bmp) > 0
  BY BitmapFacts DEF IInv, ControlsShow, Plain
<1>2. w - 1 \in 0..(w - 1) /\ 0 \in 0..(Rows(bmp) - 1)
  BY <1>1
<1>3. /\ picture[<<w - 1, 0>>] = <<MockGrabImage.data[w * 0 + (w - 1 - (w - 1))]>>
      /\ w * 0 + (w - 1 - (w - 1)) \in DOMAIN MockGrabImage.data
  BY <1>1, <1>2, RawPlaces
<1>4. w * 0 + (w - 1 - (w - 1)) = 0
  BY <1>1
<1>5. MockGrabImage.data[0] = Unknown
  <2>1. ~(bmp.height < 0)
    BY <1>1, BitmapFacts
  <2>2. MockGrabImage.data
          = Reversed(ReadPixels(bmp, w * Rows(bmp)), w * Rows(bmp))
    BY <1>1, <2>1 DEF MockGrabImage, GrabFile
  <2>3. 0 \in DOMAIN MockGrabImage.data
    BY <1>3, <1>4
  <2>4. QED BY <2>2, <2>3 DEF Reversed
<1>6. QED BY <1>3, <1>4, <1>5

\* Of a file stored top down the bytes after the header are shown mirrored.
LEMMA TopDownShown ==
  ASSUME IInv, Plain, ~(bmp.height > 0), shownAs = "BMP"
  PROVE  picture = RotateNoneFlipX(FilePicture(bmp, 54), bmp.width)
<1> DEFINE w == bmp.width
<1> DEFINE h == Rows(bmp)
<1> DEFINE D == Places(w, h)
<1> DEFINE size == w * h
<1> DEFINE read == FilePicture(bmp, 54)
<1>1. /\ bmp \in Bitmaps /\ bmp \in Bitmaps \union {NoFile}
      /\ bmp # NoFile /\ bmp.bits = 8 /\ w % 4 = 0
      /\ picture = RawPicture
      /\ w \in Nat /\ w > 0 /\ h \in Nat /\ h > 0
      /\ bmp.height < 0 /\ bmp.palette \in Nat
  <2>1. bmp \in Bitmaps /\ picture = RawPicture
    BY DEF IInv, ControlsShow, Plain
  <2>2. bmp.height \in Int /\ Rows(bmp) > 0
    BY <2>1, BitmapFacts
  <2>3. QED BY <2>1, <2>2, BitmapFacts DEF Plain, Rows
<1>2. RowBytes(bmp) = w
  BY <1>1, NoFill DEF RowBytes
<1>3. size \in Nat /\ FileLength(bmp) = 54 + bmp.palette + size
  BY <1>1, <1>2, ProductInNat DEF FileLength
<1>4. MockGrabImage.data = ReadPixels(bmp, size)
  BY <1>1 DEF MockGrabImage, GrabFile
<1>5. ASSUME NEW i \in 0..(size - 1)
      PROVE  MockGrabImage.data[i] = 54 + i
  <2>1. 54 + i < FileLength(bmp)
    <3> HIDE DEF size
    <3>1. QED BY <1>1, <1>3, <1>5
  <2>2. QED BY <1>4, <1>5, <2>1 DEF ReadPixels
<1>6. read = [p \in D |-> <<54 + w * p[2] + p[1]>>]
  BY <1>1, <1>2 DEF FilePicture
<1>7. ASSUME NEW p \in D
      PROVE  RawPicture[p] = read[<<w - 1 - p[1], p[2]>>]
  <2>1. PICK x \in 0..(w - 1), y \in 0..(h - 1) : p = <<x, y>>
    BY <1>7 DEF Places
  <2>2. p[1] = x /\ p[2] = y
    BY <2>1
  <2>3. w - 1 - x \in 0..(w - 1)
    BY <1>1
  <2>4. <<w - 1 - x, y>> \in D
    BY <2>1, <2>3 DEF Places
  <2>5. read[<<w - 1 - x, y>>] = <<54 + w * y + (w - 1 - x)>>
    BY <1>6, <2>4
  <2>6. RawPicture[<<x, y>>] = <<MockGrabImage.data[w * y + (w - 1 - x)]>>
    BY <1>1, <2>1, RawPlaces
  <2>7. w * y \in Nat /\ w * y + (w - 1 - x) \in 0..(size - 1)
    BY <1>1, <2>1, <2>3, PlaceInArray
  <2>8. MockGrabImage.data[w * y + (w - 1 - x)] = 54 + w * y + (w - 1 - x)
    <3>1. MockGrabImage.data[w * y + (w - 1 - x)]
            = 54 + (w * y + (w - 1 - x))
      BY <1>5, <2>7
    <3>2. QED BY <3>1, <2>3, <2>7
  <2>9. QED BY <2>1, <2>2, <2>5, <2>6, <2>8
<1>8. /\ RawPicture = [p \in D |-> RawPicture[p]]
  BY <1>1, RawFunctions
<1>9. DOMAIN read = D
  BY <1>6
<1> HIDE DEF read, D
<1>10. RotateNoneFlipX(read, w) = [p \in D |-> read[<<w - 1 - p[1], p[2]>>]]
  BY <1>9 DEF RotateNoneFlipX
<1>11. QED BY <1>1, <1>7, <1>8, <1>10 DEF read

\* A raw image shows the bytes after the header of the file, the palette taken
\* for pixels, at the places RawShowsBytesRead names.
THEOREM BytesReadShown == Spec => []RawShowsBytesRead
<1>1. IInv => RawShowsBytesRead
  BY UprightShown, CornerShown, TopDownShown DEF RawShowsBytesRead
<1>2. QED
  BY <1>1, PathInvariant, PTL
=============================================================================
