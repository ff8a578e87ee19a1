------------------------------- MODULE ImagePath -------------------------------
(***************************************************************************)
(* What happens to the pixels of an image: MockGrabImage reads a bitmap    *)
(* file, SendImage packs it, raw or as a JPEG, ReceiveServerRawData        *)
(* unpacks it and shows it in the picture box and, if raw, in the Halcon   *)
(* window.                                                                 *)
(*                                                                         *)
(* A byte of the file is its offset in the file, so that where it comes    *)
(* from can be read off wherever it goes.  A picture is a function from    *)
(* places <<x, y>>, the top left one <<0, 0>>, to pixels, and a pixel is   *)
(* the tuple of its bytes.  The JPEG codec is taken to lose nothing.       *)
(***************************************************************************)
EXTENDS Integers, Sequences

CONSTANTS
  Widths,      \* widths of bitmap files
  Heights,     \* their heights; a file may store its rows top down
  Depths,      \* their bits per pixel
  Palettes,    \* bytes of the palettes of those of 8 bits or less
  MockSide,    \* width and height used when the file is not there
  MaxQueued,   \* bound: messages sent and not handled
  NoFile,      \* no bitmap file
  NoPicture    \* nothing shown yet

ASSUME SidesAssumption ==
  /\ Widths \subseteq Nat \ {0}
  /\ Heights \subseteq Nat \ {0}
  /\ MockSide \in Nat \ {0}
ASSUME DepthsAssumption == Depths \subseteq {1, 4, 8, 24, 32}
ASSUME PalettesAssumption == Palettes \subseteq Nat \ {0}

VARIABLES
  bmp,         \* the bitmap file
  messages,    \* sent by the server and not handled by the client
  picture,     \* what picDisp shows, ...
  window,      \* ... and what hswDisplay shows
  shownAs,     \* history: the type of the message shown last
  fault        \* why the server or the client has ended, or "none"

vars == <<bmp, messages, picture, window, shownAs, fault>>

\* A byte no program wrote: memory outside an array, or never written to.
Unknown == -1

\* The memory of a new Bitmap.
Blank == -2

Types == {"BMP", "JPEG"}
Places(w, h) == (0..(w - 1)) \X (0..(h - 1))

-----------------------------------------------------------------------------
(* The file.  Its header is 54 bytes, followed by the palette and the rows, *)
(* each filled up to a multiple of 4 bytes, the lowest row first unless     *)
(* the height is negative.                                                  *)

Bitmaps ==
  {b \in [width : Widths, height : Heights \union {-h : h \in Heights},
          bits : Depths, palette : Palettes \union {0}] :
     b.palette = 0 <=> b.bits > 8}

Rows(b) == IF b.height < 0 THEN -b.height ELSE b.height
RowBytes(b) == ((b.width * b.bits + 31) \div 32) * 4
FileLength(b) == 54 + b.palette + RowBytes(b) * Rows(b)

\* The picture in a file of 8 bits per pixel whose rows begin at base.
FilePicture(b, base) ==
  [p \in Places(b.width, Rows(b)) |->
     LET row == IF b.height < 0 THEN p[2] ELSE Rows(b) - 1 - p[2]
     IN  <<base + RowBytes(b) * row + p[1]>>]

-----------------------------------------------------------------------------
(* The server.                                                             *)

\* fread of size bytes after the header; palette and row ends are read like
\* pixels.
ReadPixels(b, size) ==
  [i \in 0..(size - 1) |-> IF 54 + i < FileLength(b) THEN 54 + i ELSE Unknown]

\* The same one place further off.
ReversedFurtherOff(temp, size) ==
  [i \in 0..(size - 1) |-> IF i <= 1 THEN Unknown ELSE temp[size - i + 1]]

\* The loop of MockGrabImage that reverses the array: its first round reads
\* one place past the end of temp.
Reversed(temp, size) ==
  [i \in 0..(size - 1) |-> IF i = 0 THEN Unknown ELSE temp[size - i]]

\* A negative height taken as it is.
GrabSigned(b) ==
  LET size == b.width * Rows(b)
  IN  [width |-> b.width, height |-> b.height, channels |-> b.bits \div 8,
       data |-> ReadPixels(b, size)]

\* The file is there: a RorzeImage with one byte for each pixel, however many
\* channels it has.
GrabFile(b) ==
  LET size == b.width * Rows(b)
      pixels == ReadPixels(b, size)
  IN  [width |-> b.width, height |-> Rows(b), channels |-> b.bits \div 8,
       data |-> IF b.height < 0 THEN pixels ELSE Reversed(pixels, size)]

\* It is not: an array nobody writes to.
GrabNothing ==
  [width |-> MockSide, height |-> MockSide, channels |-> 1,
   data |-> [i \in 0..(MockSide * MockSide - 1) |-> Unknown]]

MockGrabImage == IF bmp = NoFile THEN GrabNothing ELSE GrabFile(bmp)

\* A byte at or past the array of the image.
ByteAt(img, i) == IF i \in DOMAIN img.data THEN img.data[i] ELSE Unknown

\* One pixel of a scanline given to the JPEG encoder: blue, green and red
\* are exchanged and a fourth channel is dropped.
Scanned(img, x, y) ==
  LET at == img.width * img.channels * y + x * img.channels
  IN  IF img.channels \in {3, 4}
        THEN <<ByteAt(img, at + 2), ByteAt(img, at + 1), ByteAt(img, at)>>
        ELSE <<ByteAt(img, at)>>

EncodeImageToJpegByteStream(img) ==
  [p \in Places(img.width, img.height) |-> Scanned(img, p[1], p[2])]

RawBytes(img) ==
  [i \in 1..(img.width * img.height * img.channels) |-> ByteAt(img, i - 1)]

Packed(img, type) ==
  [type |-> type, w |-> img.width, h |-> img.height, channels |-> img.channels,
   payload |-> IF type = "JPEG" THEN EncodeImageToJpegByteStream(img)
                                ELSE RawBytes(img)]

\* Test and TestJpeg: grab, send.
SendImage(type) ==
  /\ fault = "none"
  /\ Len(messages) < MaxQueued
  /\ type = "JPEG" => MockGrabImage.channels # 0
  /\ messages' = Append(messages, Packed(MockGrabImage, type))
  /\ UNCHANGED <<bmp, picture, window, shownAs, fault>>

\* The encoder refuses an image of no channels and ends the process.  What is
\* read past the array of an image of several may not be mapped.
SendImageEnds ==
  /\ fault = "none"
  /\ \/ MockGrabImage.channels = 0 /\ fault' = "encoder"
     \/ MockGrabImage.channels > 1 /\ fault' = "overrun"
  /\ UNCHANGED <<bmp, messages, picture, window, shownAs>>

-----------------------------------------------------------------------------
(* The client.                                                             *)

RotateNoneFlipX(pic, w) == [p \in DOMAIN pic |-> pic[<<w - 1 - p[1], p[2]>>]]

\* The bitmap has rows of a multiple of 4 bytes; the data are copied into it
\* without regard to that.
SaveByteArr2Bitmap(data, w, h) ==
  LET Stride == ((w + 3) \div 4) * 4
      At(i) == IF i < w * h THEN data[i + 1] ELSE Blank
  IN  [p \in Places(w, h) |-> <<At(Stride * p[2] + p[1])>>]

ConvertByteArr2HImage(data, w, h) ==
  [p \in Places(w, h) |-> <<data[w * p[2] + p[1] + 1]>>]

\* Array.Copy takes width * height bytes, whatever the number of channels.
CopyAllChannels(message) == message.w * message.h * 3
CopyLength(message) == message.w * message.h

\* A raw image shown in the picture box as it came.
ShowUnflipped ==
  /\ fault = "none"
  /\ messages # <<>>
  /\ LET m == Head(messages)
     IN  /\ m.type = "BMP"
         /\ CopyLength(m) <= Len(m.payload)
         /\ picture' = SaveByteArr2Bitmap(m.payload, m.w, m.h)
         /\ window' = ConvertByteArr2HImage(m.payload, m.w, m.h)
  /\ messages' = Tail(messages)
  /\ shownAs' = "BMP"
  /\ UNCHANGED <<bmp, fault>>

\* ReceiveServerRawData of a raw image.
ShowRaw ==
  /\ fault = "none"
  /\ messages # <<>>
  /\ LET m == Head(messages)
     IN  /\ m.type = "BMP"
         /\ CopyLength(m) <= Len(m.payload)
         /\ picture' =
              RotateNoneFlipX(SaveByteArr2Bitmap(m.payload, m.w, m.h), m.w)
         /\ window' = ConvertByteArr2HImage(m.payload, m.w, m.h)
  /\ messages' = Tail(messages)
  /\ shownAs' = "BMP"
  /\ UNCHANGED <<bmp, fault>>

\* ReceiveServerRawData of a JPEG: nothing is turned, and the Halcon window
\* goes on showing the raw image before.
ShowJpeg ==
  /\ fault = "none"
  /\ messages # <<>>
  /\ Head(messages).type = "JPEG"
  /\ picture' = Head(messages).payload
  /\ messages' = Tail(messages)
  /\ shownAs' = "JPEG"
  /\ UNCHANGED <<bmp, window, fault>>

\* Array.Copy has not enough to copy and throws.
CopyThrows ==
  /\ fault = "none"
  /\ messages # <<>>
  /\ Head(messages).type = "BMP"
  /\ CopyLength(Head(messages)) > Len(Head(messages).payload)
  /\ fault' = "copy"
  /\ UNCHANGED <<bmp, messages, picture, window, shownAs>>

ReceiveServerRawData == ShowRaw \/ ShowJpeg \/ CopyThrows

-----------------------------------------------------------------------------
Init ==
  /\ bmp \in Bitmaps \union {NoFile}
  /\ messages = <<>>
  /\ picture = NoPicture
  /\ window = NoPicture
  /\ shownAs = "none"
  /\ fault = "none"

Ended == fault # "none" /\ UNCHANGED vars

Next ==
  \/ \E type \in Types : SendImage(type)
  \/ SendImageEnds
  \/ ReceiveServerRawData
  \/ Ended

Spec == Init /\ [][Next]_vars

-----------------------------------------------------------------------------
(* Properties.                                                             *)

\* A message is of one of the two formats, its picture has a place for each
\* pixel, and its raw payload a byte for each channel of each.
TypeOK ==
  /\ bmp \in Bitmaps \union {NoFile}
  /\ \A i \in 1..Len(messages) :
       LET m == messages[i]
       IN  /\ m.type \in Types /\ m.w > 0 /\ m.h > 0
           /\ m.type = "BMP" => Len(m.payload) = m.w * m.h * m.channels
           /\ m.type = "JPEG" => DOMAIN m.payload = Places(m.w, m.h)
  /\ shownAs \in Types \union {"none"}
  /\ fault \in {"none", "encoder", "overrun", "copy"}

\* A gray file whose rows have no bytes to fill them up.
Plain == bmp # NoFile /\ bmp.bits = 8 /\ bmp.width % 4 = 0

\* The place before <<x, y>>, row by row from the top right to the left.
Before(p, w) == IF p[1] = w - 1 THEN <<0, p[2] - 1>> ELSE <<p[1] + 1, p[2]>>

\* What is shown of a raw image is the bytes after the header of the file, as
\* many as there are pixels, which are its palette and all of the pixels but the
\* last.  Taken for pixels they are upright if the file has the usual order of
\* rows: the reversal of the array and the mirroring of the bitmap, at the two
\* ends of the connection, are the two halves of this.  But each place shows the
\* byte of the one before it, and the corner what lies after the array.  A file
\* whose rows are stored top down is not reversed, and is shown mirrored.
RawShowsBytesRead ==
  Plain /\ shownAs = "BMP" =>
    LET read == FilePicture(bmp, 54)
        corner == <<bmp.width - 1, 0>>
    IN  IF bmp.height > 0
        THEN /\ picture[corner] = <<Unknown>>
             /\ \A p \in DOMAIN picture \ {corner} :
                  picture[p] = read[Before(p, bmp.width)]
        ELSE picture = RotateNoneFlipX(read, bmp.width)

\* When the Halcon window shows something, which only raw images get to, it
\* shows the mirror image of the picture box if the image shown last came raw,
\* and the same picture if it came as a JPEG.
ControlsDiffer ==
  Plain /\ window # NoPicture =>
    window = IF shownAs = "BMP" THEN RotateNoneFlipX(picture, bmp.width)
                                ELSE picture

\* Neither program ends over an image of one byte for each pixel: what one
\* packs is enough for what the other copies.
GrayNeverFails == bmp = NoFile \/ bmp.bits = 8 => fault = "none"

\* The picture shown is the picture in the file, in some orientation.
MocksGrabbing ==
  Plain /\ picture # NoPicture =>
    LET file == FilePicture(bmp, 54 + bmp.palette)
        Turned(fx, fy) ==
          [p \in DOMAIN file |->
             file[<<IF fx THEN bmp.width - 1 - p[1] ELSE p[1],
                    IF fy THEN Rows(bmp) - 1 - p[2] ELSE p[2]>>]]
    IN  \E fx, fy \in BOOLEAN : picture = Turned(fx, fy)
=============================================================================
