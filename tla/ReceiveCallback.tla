--------------------------- MODULE ReceiveCallback ---------------------------
(***************************************************************************)
(* The client's reassembly of images from the TCP stream                   *)
(* (ClientAysncReceive, StateObject) over the messages the server writes   *)
(* with SendImage.                                                         *)
(*                                                                         *)
(* TCP is a byte stream: the frames the server sends are laid end to end,  *)
(* and a receive returns any non-empty piece of what has been written, up  *)
(* to the size of the receive buffer.  A byte is its offset in the stream, *)
(* so a buffer of the program is an interval of offsets.  Of the contents  *)
(* only the 32-bit words the code reads as a length matter: the first word *)
(* of a frame is its `total' field; a word read anywhere else is image     *)
(* data, which may be any integer the image contains.                      *)
(***************************************************************************)
EXTENDS Integers, Sequences

CONSTANTS
  BufferSize,     \* StateObject.BufferSize, 1024 in the code
  FrameLengths,   \* the values `total' takes: header plus encoded image
  PixelWords,     \* what four bytes of image data may read as
  MaxImages,      \* bound: images sent in a behaviour
  MaxHandled      \* bound: images handed over in a behaviour

HeaderSize == 17  \* sizeof(struct img_hdr), packed
IntSize == 4      \* what BitConverter.ToInt32 needs

ASSUME BufferSizeAssumption == BufferSize \in Nat \ {0}
ASSUME FrameLengthsAssumption ==
  \A n \in FrameLengths : n \in Nat /\ n >= HeaderSize
ASSUME PixelWordsAssumption == PixelWords \subseteq Int
ASSUME BoundsAssumption == MaxImages \in Nat /\ MaxHandled \in Nat

VARIABLES
  sent,           \* the frames written by the server, in stream order
  link,           \* the server's end: open, closed in order, or reset
  arrived,        \* how many bytes of the stream the callback has received
  RawData,        \* state.RawData: length of its first chunk and of them all
  TargetLength,   \* state.TargetLength
  CurrentLength,  \* state.CurrentLength
  rawData,        \* offset of the first byte of the local array rawData,
                  \* which always ends at the last byte received
  pc,             \* where the receiving side is
  fault,          \* the exception that ended the client, if any
  handled         \* what the handler of ReplyWithRawDataEvent was given and
                  \* has shown, in order

vars == <<sent, link, arrived, RawData, TargetLength, CurrentLength,
          rawData, pc, fault, handled>>

buffers == <<arrived, RawData, TargetLength, CurrentLength, rawData>>

-----------------------------------------------------------------------------
(* The stream.                                                             *)

End(f) == f.start + f.len

\* How many bytes the server has written.
Written == IF sent = <<>> THEN 0 ELSE End(sent[Len(sent)])

Covers(f, p) == f.start <= p /\ p < End(f)

\* The word at offset p, as BitConverter.ToInt32 returns it.
Word(p) ==
  LET f == sent[CHOOSE i \in DOMAIN sent : Covers(sent[i], p)]
  IN  IF p = f.start THEN f.len ELSE f.pixel

\* p is where a frame begins: what starts there is a header.
IsHeader(p) == \E i \in DOMAIN sent : sent[i].start = p

NoData == [first |-> 0, length |-> 0]

\* state.RawData.Add(tempData), with n bytes in tempData.
AddChunk(n) ==
  [first  |-> IF RawData.length = 0 THEN n ELSE RawData.first,
   length |-> RawData.length + n]

-----------------------------------------------------------------------------
Init ==
  /\ sent = <<>>
  /\ link = "open"
  /\ arrived = 0
  /\ RawData = NoData
  /\ TargetLength = 0
  /\ CurrentLength = 0
  /\ rawData = 0
  /\ pc = "idle"
  /\ fault = "none"
  /\ handled = <<>>

\* The connection is made and the first BeginReceive is posted.
ConnectServer ==
  /\ pc = "idle"
  /\ pc' = "receive"
  /\ UNCHANGED <<sent, link, buffers, fault, handled>>

\* The server writes one whole frame: SendData is a single blocking send.
SendImage(len, pixel) ==
  /\ pc \in {"receive", "decode"}
  /\ link = "open"
  /\ Len(sent) < MaxImages
  /\ sent' = Append(sent, [start |-> Written, len |-> len, pixel |-> pixel])
  /\ UNCHANGED <<link, buffers, pc, fault, handled>>

\* The server process ends.  The kernel closes the connection in order, or
\* resets it when commands of the client are left unread.
ServerExits ==
  /\ pc \in {"receive", "decode"}
  /\ link = "open"
  /\ link' \in {"closed", "reset"}
  /\ UNCHANGED <<sent, buffers, pc, fault, handled>>

-----------------------------------------------------------------------------
(* ReceiveCallback.  No exception is caught in the callback, so one ends   *)
(* the client process.                                                     *)

Throw(exception) == pc' = "crashed" /\ fault' = exception

\* The bytes received become one more chunk of RawData.
StoreChunk(n) ==
  /\ pc = "receive"
  /\ n <= Written - arrived
  /\ arrived' = arrived + n
  /\ RawData' = AddChunk(n)
  /\ CurrentLength' = CurrentLength + n
  /\ UNCHANGED <<sent, link, handled>>

\* Then the length is read from the first chunk alone, which must hold it.
HeaderSplit ==
  /\ RawData'.first < IntSize
  /\ Throw("splitHeader")
  /\ UNCHANGED <<TargetLength, rawData>>

ReadLength ==
  /\ RawData'.first >= IntSize
  /\ TargetLength' = Word(arrived' - RawData'.length)
  /\ UNCHANGED fault

\* A strict comparison, which waits for a byte too many.
FrameWholeLate == TargetLength' < CurrentLength'

FrameWhole == TargetLength' <= CurrentLength'

\* As many bytes as that are there: they are marshalled for the loop.
FrameComplete ==
  /\ ReadLength
  /\ FrameWhole
  /\ pc' = "decode"
  /\ rawData' = arrived' - RawData'.length

\* A receiver that does not post the next BeginReceive.
FrameIncompleteNoRearm ==
  /\ ReadLength
  /\ ~FrameWhole
  /\ pc' = "ended"
  /\ UNCHANGED rawData

\* They are not: BeginReceive is posted again.
FrameIncomplete ==
  /\ ReadLength
  /\ ~FrameWhole
  /\ UNCHANGED <<pc, rawData>>

Receive(n) ==
  /\ StoreChunk(n)
  /\ HeaderSplit \/ FrameComplete \/ FrameIncomplete

\* EndReceive returns 0: the callback returns without another BeginReceive.
EndOfStream ==
  /\ pc = "receive"
  /\ link = "closed"
  /\ arrived = Written
  /\ pc' = "ended"
  /\ UNCHANGED <<sent, link, buffers, fault, handled>>

\* EndReceive throws.
ConnectionReset ==
  /\ pc = "receive"
  /\ link = "reset"
  /\ Throw("reset")
  /\ UNCHANGED <<sent, link, buffers, handled>>

\* The condition of the while loop.
LoopContinues == arrived - rawData >= TargetLength

\* The loop is left by its condition, and BeginReceive is posted.
LoopEnds ==
  /\ pc = "decode"
  /\ ~LoopContinues
  /\ pc' = "receive"
  /\ UNCHANGED <<sent, link, buffers, fault, handled>>

\* new byte[state.TargetLength] with a negative length.
NegativeLength ==
  /\ pc = "decode"
  /\ LoopContinues
  /\ TargetLength < 0
  /\ Throw("negativeLength")
  /\ UNCHANGED <<sent, link, buffers, handled>>

\* An iteration that gets to ReplyWithRawDataEvent.Invoke(rawData).  The
\* handler gets everything in rawData and finds the image by the header it
\* starts with.
Invoke ==
  /\ pc = "decode"
  /\ LoopContinues
  /\ TargetLength >= 0

\* What rawData begins with is a header alone: the image has no channels.
\* (A JPEG without a byte would be another; the encoder makes none.)
NoImageData == IsHeader(rawData) /\ Word(rawData) = HeaderSize

\* The handler returns.  It copies width * height bytes from behind the
\* header: those of an image without data are what happens to follow it.
Show ==
  /\ Invoke
  /\ Len(handled) < MaxHandled
  /\ NoImageData => arrived - rawData > HeaderSize
  /\ handled' = Append(handled, [start |-> rawData, len |-> Word(rawData),
                                 upto |-> arrived])

\* The handler throws: there is not enough to copy behind the header, or
\* image data has been taken for one.
HandlerThrows ==
  /\ Invoke
  /\ \/ NoImageData /\ Throw("noImage")
     \/ ~IsHeader(rawData) /\ Throw("badHeader")
  /\ UNCHANGED <<sent, link, buffers, handled>>

\* The first byte after the bytes this iteration consumes, and how many
\* bytes (remainBytes) there are from it on.
Rest == rawData + TargetLength
RemainBytes == arrived - Rest

\* The next image taken for whole when only its length field is there.
NextIsWholeUnchecked == RemainBytes >= IntSize

\* The rest begins with a length field, and holds that many bytes.
NextIsWhole == RemainBytes >= IntSize /\ RemainBytes >= Word(Rest)

\* The list of chunks, or its length, not cleared.
TakeLastKeepsData ==
  /\ Show
  /\ RemainBytes = 0
  /\ TargetLength' = 0
  /\ CurrentLength' = 0
  /\ pc' = "receive"
  /\ UNCHANGED <<sent, link, arrived, RawData, rawData, fault>>

TakeLastKeepsLength ==
  /\ Show
  /\ RemainBytes = 0
  /\ RawData' = NoData
  /\ TargetLength' = 0
  /\ pc' = "receive"
  /\ UNCHANGED <<sent, link, arrived, CurrentLength, rawData, fault>>

\* Nothing is left: the lengths are cleared and the loop is left.
TakeLast ==
  /\ Show
  /\ RemainBytes = 0
  /\ RawData' = NoData
  /\ TargetLength' = 0
  /\ CurrentLength' = 0
  /\ pc' = "receive"
  /\ UNCHANGED <<sent, link, arrived, rawData, fault>>

\* The rest kept: n bytes of it, counted as current.
KeepRest(n, current) ==
  /\ Show
  /\ RemainBytes > 0
  /\ ~NextIsWhole
  /\ RawData' = [first |-> n, length |-> n]
  /\ CurrentLength' = current
  /\ pc' = "receive"
  /\ UNCHANGED <<sent, link, arrived, TargetLength, rawData, fault>>

\* The rest copied from one byte too far on, or counted against the
\* image handed over.
KeepShiftedRest == KeepRest(RemainBytes - 1, RemainBytes - 1)
KeepMiscountedRest == KeepRest(RemainBytes, RemainBytes - TargetLength)

\* The rest is less than a length field or than the next image: it becomes
\* the first chunk of RawData and the loop is left.
TakeAndKeepRest == KeepRest(RemainBytes, RemainBytes)

\* The rest holds the next image whole: the loop goes on with it.  The code
\* leaves TargetLength and CurrentLength as they are.
TakeAndContinue ==
  /\ Show
  /\ RemainBytes > 0
  /\ NextIsWhole
  /\ RawData' = NoData
  /\ rawData' = Rest
  /\ UNCHANGED <<sent, link, arrived, TargetLength, CurrentLength, pc, fault>>

\* The client is gone, or has stopped receiving for good.
Stopped == pc \in {"ended", "crashed"} /\ UNCHANGED vars

Decode ==
  \/ LoopEnds \/ NegativeLength \/ HandlerThrows
  \/ TakeLast \/ TakeAndKeepRest \/ TakeAndContinue

Callback ==
  \/ \E n \in 1..BufferSize : Receive(n)
  \/ EndOfStream
  \/ ConnectionReset
  \/ Decode

Next ==
  \/ ConnectServer
  \/ \E len \in FrameLengths, pixel \in PixelWords : SendImage(len, pixel)
  \/ ServerExits
  \/ Callback
  \/ Stopped

Spec == Init /\ [][Next]_vars

\* TCP delivers what was written and the thread pool runs the callback.
FairSpec == Spec /\ WF_vars(Callback)

-----------------------------------------------------------------------------
(* Properties.                                                             *)

TypeOK ==
  /\ sent \in Seq([start : Nat, len : FrameLengths, pixel : PixelWords])
  /\ link \in {"open", "closed", "reset"}
  /\ arrived \in 0..Written
  /\ RawData \in [first : Nat, length : Nat]
  /\ TargetLength \in Int
  /\ CurrentLength \in Nat
  /\ rawData \in Nat
  /\ pc \in {"idle", "receive", "decode", "ended", "crashed"}
  /\ fault \in {"none", "splitHeader", "reset", "negativeLength",
                "noImage", "badHeader"}
  /\ handled \in Seq([start : Nat, len : Int, upto : Nat])

\* What the loop needs of the frames and does not check: TargetLength is
\* not set again for the next image in the buffer, so two frames of
\* different lengths must never fit in one receive buffer.
LoopIsSafe == \A m, n \in FrameLengths : m # n => n >= BufferSize

\* The images handed over are the images sent, in order, each once and
\* each with all its bytes (ReceiveCallback cuts the stream correctly).
InOrderDelivery ==
  /\ Len(handled) <= Len(sent)
  /\ \A i \in DOMAIN handled :
       /\ handled[i].start = sent[i].start
       /\ handled[i].len = sent[i].len
       /\ End(sent[i]) <= handled[i].upto

\* Whenever the callback waits for data, every image that has arrived whole
\* has been handed over: none waits for bytes of a later one.
NothingHeldBack ==
  pc = "receive" =>
    \A i \in DOMAIN sent : End(sent[i]) <= arrived => i <= Len(handled)

\* Whenever the callback waits for data, CurrentLength counts exactly the
\* bytes RawData holds, and these begin where the last image handed over
\* ended: no byte is dropped or counted twice.
BytesAccountedFor ==
  pc = "receive" =>
    /\ CurrentLength = RawData.length
    /\ arrived - RawData.length =
         IF handled = <<>> THEN 0 ELSE End(handled[Len(handled)])

\* Where the first frame not yet handed over begins.
NextStart == IF Len(handled) = 0 THEN 0 ELSE End(sent[Len(handled)])

\* Where frames meet LoopIsSafe, two things can end the client, short of the
\* connection failing, and both lie in the image due next, which is a true
\* one: its data is missing, or a receive ended within its length field.
FailuresHaveCause ==
  /\ fault \in {"none", "reset", "noImage", "splitHeader"}
  /\ fault # "none" <=> pc = "crashed"
  /\ fault \in {"noImage", "splitHeader"} => Len(handled) < Len(sent)
  /\ fault = "noImage" => sent[Len(handled) + 1].len = HeaderSize
  /\ fault = "splitHeader" =>
       /\ RawData.first \in 1..(IntSize - 1)
       /\ arrived - RawData.length = NextStart

\* For any frames: what is handed over with a header at its beginning holds
\* that whole image, so the handler never shows part of an image.
ImagesAreWhole ==
  \A i \in DOMAIN handled : \A j \in DOMAIN sent :
    handled[i].start = sent[j].start => End(sent[j]) <= handled[i].upto

\* For any frames, and whatever image data reads as: an image is never shown
\* again, nor after one that was sent later; and what is taken for an image
\* does not begin before what was taken for one earlier.
NeverTwice ==
  \A i, j \in DOMAIN handled : i < j =>
    /\ handled[i].start <= handled[j].start
    /\ IsHeader(handled[j].start) => handled[i].start < handled[j].start

\* Every image sent is handed over, unless the client breaks down.
EveryImageShown ==
  \A i \in 1..MaxImages :
    i <= Len(sent) ~> (i <= Len(handled) \/ pc = "crashed")

\* What the comment `There  might be more data, so store the data received
\* so far' promises: a frame may arrive in any pieces, so a receive that
\* ends inside a length field does not end the client.
AnyPiecesAccepted == fault # "splitHeader"

-----------------------------------------------------------------------------
(* The inductive invariant, for frames that meet LoopIsSafe.               *)

\* Frames lie end to end from offset 0.
StreamLaidOut ==
  /\ \A i \in DOMAIN sent :
       sent[i].start = IF i = 1 THEN 0 ELSE End(sent[i - 1])
  /\ \A i, j \in DOMAIN sent : i < j => End(sent[i]) <= sent[j].start

\* Between callbacks the buffer holds a proper part of the next frame.
Waiting ==
  /\ CurrentLength = RawData.length
  /\ RawData.first <= RawData.length
  /\ RawData.first = 0 => RawData.length = 0
  /\ arrived - RawData.length = NextStart
  /\ Len(handled) < Len(sent) =>
       RawData.length < sent[Len(handled) + 1].len

\* In the loop rawData begins with the next frame, whole, TargetLength is
\* its length, and what follows it came with the last receive.
Decoding ==
  /\ rawData = NextStart
  /\ Len(handled) < Len(sent)
  /\ TargetLength = sent[Len(handled) + 1].len
  /\ LoopContinues
  /\ RemainBytes < BufferSize

\* Holds of every reachable state, and of the next when it holds of one.
IInv ==
  /\ TypeOK
  /\ StreamLaidOut
  /\ InOrderDelivery
  /\ FailuresHaveCause
  /\ pc \in {"idle", "receive"} => Waiting
  /\ pc = "decode" => Decoding

-----------------------------------------------------------------------------
(* The abstract promise, and how it is kept: an image is identified by the *)
(* place of its frame in the stream.                                       *)

Delivery == INSTANCE ImageDelivery WITH
  Image  <- [start : Nat, len : Int],
  sent   <- [i \in DOMAIN sent |->
               [start |-> sent[i].start, len |-> sent[i].len]],
  shown  <- [i \in DOMAIN handled |->
               [start |-> handled[i].start, len |-> handled[i].len]],
  broken <- pc = "crashed"

\* The receiver implements ImageDelivery, liveness included.
ImplementsDelivery == Delivery!Spec
=============================================================================
