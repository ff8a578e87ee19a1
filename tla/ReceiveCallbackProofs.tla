------------------------ MODULE ReceiveCallbackProofs ------------------------
(***************************************************************************)
(* Proofs about ReceiveCallback, for every buffer size and any number of   *)
(* images: with frame lengths that meet LoopIsSafe, that it delivers; with *)
(* any at all, in the last section, what it never does.                    *)
(***************************************************************************)
EXTENDS ReceiveCallback, TLAPS

Frame == [start : Nat, len : FrameLengths, pixel : PixelWords]
Handed == [start : Nat, len : Int, upto : Nat]

-----------------------------------------------------------------------------
(* The stream.                                                             *)

\* A frame is at least a header long, and ends at a natural offset.
LEMMA FrameFacts ==
  ASSUME NEW f \in Frame
  PROVE  /\ f.start \in Nat
         /\ f.len \in FrameLengths
         /\ f.len \in Nat
         /\ f.len >= 17
         /\ End(f) = f.start + f.len
         /\ End(f) \in Nat
BY FrameLengthsAssumption DEF Frame, End, HeaderSize

\* The stream ends where the last frame ends, and no frame goes past it.
LEMMA WrittenFacts ==
  ASSUME sent \in Seq(Frame), StreamLaidOut
  PROVE  /\ Written \in Nat
         /\ sent = <<>> => Written = 0
         /\ sent # <<>> => Written = End(sent[Len(sent)])
         /\ \A i \in DOMAIN sent : End(sent[i]) <= Written
<1>1. CASE sent = <<>>
  BY <1>1 DEF Written
<1>2. CASE sent # <<>>
  <2>1. Len(sent) \in Nat /\ Len(sent) > 0 /\ DOMAIN sent = 1..Len(sent)
    BY <1>2
  <2>2. sent[Len(sent)] \in Frame
    BY <2>1
  <2>3. Written = End(sent[Len(sent)]) /\ Written \in Nat
    BY <1>2, <2>2, FrameFacts DEF Written
  <2>4. ASSUME NEW i \in DOMAIN sent
        PROVE  End(sent[i]) <= Written
    <3>1. CASE i = Len(sent)
      BY <3>1, <2>3
    <3>2. CASE i < Len(sent)
      <4>1. End(sent[i]) <= sent[Len(sent)].start
        BY <3>2, <2>1 DEF StreamLaidOut
      <4>2. sent[i] \in Frame
        BY <2>1
      <4>3. sent[Len(sent)].start \in Nat /\ sent[Len(sent)].len \in Nat
            /\ Written = sent[Len(sent)].start + sent[Len(sent)].len
        BY <2>2, <2>3, FrameFacts
      <4>4. End(sent[i]) \in Nat
        BY <4>2, FrameFacts
      <4>5. QED
        BY <4>1, <4>3, <4>4
    <3>3. QED
      BY <3>1, <3>2, <2>1
  <2>5. QED
    BY <1>2, <2>3, <2>4
<1>3. QED
  BY <1>1, <1>2

\* The word read where a frame begins is the length of that frame.
LEMMA WordAtHeader ==
  ASSUME sent \in Seq(Frame), StreamLaidOut, NEW i \in DOMAIN sent
  PROVE  Word(sent[i].start) = sent[i].len
<1> DEFINE p == sent[i].start
<1> DEFINE k == CHOOSE j \in DOMAIN sent : Covers(sent[j], p)
<1>1. ASSUME NEW j \in DOMAIN sent
      PROVE  /\ sent[j] \in Frame
             /\ sent[j].start \in Nat
             /\ sent[j].len \in Nat
             /\ sent[j].len > 0
             /\ End(sent[j]) = sent[j].start + sent[j].len
  <2>1. sent[j] \in Frame
    OBVIOUS
  <2>2. QED
    BY <2>1, FrameFacts
<1>2. Covers(sent[i], p)
  BY <1>1 DEF Covers
<1>3. k \in DOMAIN sent /\ Covers(sent[k], p)
  BY <1>2
<1>4. \A j \in DOMAIN sent : Covers(sent[j], p) => j = i
  <2>1. SUFFICES ASSUME NEW j \in DOMAIN sent, Covers(sent[j], p)
                 PROVE  j = i
    OBVIOUS
  <2>2. sent[j].start <= sent[i].start /\ sent[i].start < End(sent[j])
    BY <2>1 DEF Covers
  <2>3. ~(j < i)
    BY <1>1, <2>2 DEF StreamLaidOut
  <2>4. ~(i < j)
    BY <1>1, <2>2 DEF StreamLaidOut
  <2>5. QED
    BY <2>3, <2>4
<1>5. k = i
  BY <1>3, <1>4
<1>6. QED
  BY <1>5 DEF Word

\* The first frame not handed over begins at NextStart.
LEMMA NextFrame ==
  ASSUME sent \in Seq(Frame), handled \in Seq(Handed), StreamLaidOut,
         Len(handled) < Len(sent)
  PROVE  /\ Len(handled) + 1 \in DOMAIN sent
         /\ sent[Len(handled) + 1] \in Frame
         /\ sent[Len(handled) + 1].start = NextStart
         /\ NextStart \in Nat
<1>1. Len(handled) \in Nat /\ Len(sent) \in Nat /\ DOMAIN sent = 1..Len(sent)
  OBVIOUS
<1>2. Len(handled) + 1 \in DOMAIN sent /\ sent[Len(handled) + 1] \in Frame
  BY <1>1
<1>3. sent[Len(handled) + 1].start = NextStart
  BY <1>1, <1>2 DEF StreamLaidOut, NextStart
<1>4. QED
  BY <1>2, <1>3, FrameFacts

\* When every frame has been handed over, NextStart is the end of the stream.
LEMMA AllHandled ==
  ASSUME sent \in Seq(Frame), handled \in Seq(Handed), StreamLaidOut,
         Len(handled) = Len(sent)
  PROVE  NextStart = Written
<1>1. Len(sent) = 0 <=> sent = <<>>
  OBVIOUS
<1>2. QED
  BY <1>1, WrittenFacts DEF NextStart, Written

-----------------------------------------------------------------------------
(* The invariant: what holds of every frame of sent and handled.           *)

\* The parts of IInv that talk only of sent and handled stay true when the
\* two do not change.
LEMMA StreamUnchanged ==
  ASSUME UNCHANGED <<sent, handled>>
  PROVE  /\ Written' = Written
         /\ NextStart' = NextStart
         /\ StreamLaidOut' = StreamLaidOut
         /\ InOrderDelivery' = InOrderDelivery
BY DEF Written, NextStart, StreamLaidOut, InOrderDelivery, End

\* As long as nothing ends the client nothing has to be accounted for.
LEMMA NoFailure ==
  ASSUME FailuresHaveCause, pc # "crashed", pc' # "crashed", fault' = fault
  PROVE  FailuresHaveCause'
<1>1. fault = "none"
  BY DEF FailuresHaveCause
<1>2. QED
  BY <1>1 DEF FailuresHaveCause

\* The types the arithmetic of the steps needs, free of sets.
LEMMA Numbers ==
  ASSUME TypeOK, StreamLaidOut
  PROVE  /\ sent \in Seq(Frame)
         /\ handled \in Seq(Handed)
         /\ Len(sent) \in Nat /\ DOMAIN sent = 1..Len(sent)
         /\ Len(handled) \in Nat /\ DOMAIN handled = 1..Len(handled)
         /\ Written \in Nat
         /\ arrived \in Nat /\ arrived <= Written
         /\ RawData \in [first : Nat, length : Nat]
         /\ RawData.first \in Nat /\ RawData.length \in Nat
         /\ TargetLength \in Int /\ CurrentLength \in Nat /\ rawData \in Nat
<1>1. sent \in Seq(Frame) /\ handled \in Seq(Handed)
  BY DEF TypeOK, Frame, Handed
<1>2. Written \in Nat
  BY <1>1, WrittenFacts
<1>3. /\ Len(sent) \in Nat /\ DOMAIN sent = 1..Len(sent)
      /\ Len(handled) \in Nat /\ DOMAIN handled = 1..Len(handled)
  BY <1>1
<1>4. /\ arrived \in 0..Written
      /\ RawData \in [first : Nat, length : Nat]
      /\ TargetLength \in Int /\ CurrentLength \in Nat /\ rawData \in Nat
  BY ZenonT(20) DEF TypeOK
<1>5. arrived \in Nat /\ arrived <= Written
  BY <1>2, <1>4
<1>6. QED
  BY <1>1, <1>2, <1>3, <1>4, <1>5

LEMMA InitIInv == Init => IInv
<1> SUFFICES ASSUME Init PROVE IInv
  OBVIOUS
<1> USE DEF Init
<1>1. TypeOK
  BY DEF TypeOK, Written, NoData
<1>2. StreamLaidOut /\ InOrderDelivery /\ FailuresHaveCause
  BY DEF StreamLaidOut, InOrderDelivery, FailuresHaveCause
<1>3. Waiting
  BY DEF Waiting, NoData, NextStart
<1>4. QED
  BY <1>1, <1>2, <1>3 DEF IInv

LEMMA ConnectServerIInv ==
  ASSUME IInv, ConnectServer
  PROVE  IInv'
<1> USE DEF IInv, ConnectServer, buffers
<1>1. TypeOK'
  BY StreamUnchanged DEF TypeOK
<1>2. Waiting'
  BY StreamUnchanged DEF Waiting
<1>3. FailuresHaveCause'
  BY NoFailure
<1>4. QED
  BY <1>1, <1>2, <1>3, StreamUnchanged

\* The exits and the reset change nothing the invariant relates.
LEMMA ServerExitsIInv ==
  ASSUME IInv, ServerExits
  PROVE  IInv'
<1> USE DEF IInv, ServerExits, buffers
<1>1. TypeOK'
  BY StreamUnchanged DEF TypeOK
<1>2. pc' \in {"idle", "receive"} => Waiting'
  BY StreamUnchanged DEF Waiting
<1>3. pc' = "decode" => Decoding'
  BY StreamUnchanged DEF Decoding, LoopContinues, RemainBytes, Rest
<1>4. FailuresHaveCause'
  BY NoFailure
<1>5. QED
  BY <1>1, <1>2, <1>3, <1>4, StreamUnchanged

LEMMA EndOfStreamIInv ==
  ASSUME IInv, EndOfStream
  PROVE  IInv'
<1> USE DEF IInv, EndOfStream, buffers
<1>1. TypeOK'
  BY StreamUnchanged DEF TypeOK
<1>2. FailuresHaveCause'
  BY NoFailure
<1>3. QED
  BY <1>1, <1>2, StreamUnchanged

LEMMA ConnectionResetIInv ==
  ASSUME IInv, ConnectionReset
  PROVE  IInv'
<1> USE DEF IInv, ConnectionReset, Throw, buffers
<1>1. TypeOK'
  BY StreamUnchanged DEF TypeOK
<1>2. QED
  BY <1>1, StreamUnchanged DEF FailuresHaveCause

LEMMA StutterIInv ==
  ASSUME IInv, UNCHANGED vars
  PROVE  IInv'
<1> USE DEF IInv, vars
<1>1. TypeOK'
  BY StreamUnchanged DEF TypeOK
<1>2. pc' \in {"idle", "receive"} => Waiting'
  BY StreamUnchanged DEF Waiting
<1>3. pc' = "decode" => Decoding'
  BY StreamUnchanged DEF Decoding, LoopContinues, RemainBytes, Rest
<1>4. FailuresHaveCause'
  BY StreamUnchanged DEF FailuresHaveCause
<1>5. QED
  BY <1>1, <1>2, <1>3, <1>4, StreamUnchanged

\* A new frame goes to the end of the stream.
LEMMA SendImageStream ==
  ASSUME TypeOK, StreamLaidOut, NEW len \in FrameLengths,
         NEW pixel \in PixelWords, SendImage(len, pixel)
  PROVE  LET f == [start |-> Written, len |-> len, pixel |-> pixel] IN
         /\ UNCHANGED <<link, buffers, pc, fault, handled>>
         /\ pc \in {"receive", "decode"}
         /\ f \in Frame /\ f.start = Written /\ f.len \in Nat /\ f.len >= 17
         /\ sent' = Append(sent, f) /\ sent' \in Seq(Frame)
         /\ DOMAIN sent = 1..Len(sent)
         /\ DOMAIN sent' = 1..(Len(sent) + 1)
         /\ sent'[Len(sent) + 1] = f
         /\ \A i \in DOMAIN sent : sent'[i] = sent[i]
         /\ Written \in Nat /\ Written' = Written + f.len
         /\ TypeOK' /\ StreamLaidOut'
<1> DEFINE f == [start |-> Written, len |-> len, pixel |-> pixel]
<1>1. sent \in Seq(Frame) /\ handled \in Seq(Handed)
  BY DEF TypeOK, Frame, Handed
<1>2. /\ sent' = Append(sent, f)
      /\ UNCHANGED <<link, buffers, pc, fault, handled>>
      /\ pc \in {"receive", "decode"}
  BY DEF SendImage
<1>3. f \in Frame /\ f.start = Written /\ f.len \in Nat /\ f.len >= 17
      /\ End(f) = Written + f.len
  BY <1>1, WrittenFacts, FrameFacts DEF Frame
<1>4. /\ sent' \in Seq(Frame)
      /\ Len(sent') = Len(sent) + 1
      /\ sent'[Len(sent) + 1] = f
      /\ \A i \in DOMAIN sent : sent'[i] = sent[i]
      /\ DOMAIN sent = 1..Len(sent)
      /\ DOMAIN sent' = 1..(Len(sent) + 1)
      /\ Len(sent) \in Nat /\ Len(handled) \in Nat
      /\ DOMAIN handled = 1..Len(handled)
  BY <1>1, <1>2, <1>3
<1>5. sent' # <<>> /\ Written' = Written + f.len
  BY <1>3, <1>4 DEF Written, End
<1>6. TypeOK'
  <2>1. arrived' \in 0..Written'
    BY <1>2, <1>3, <1>5, Numbers DEF buffers
  <2>2. sent' \in Seq([start : Nat, len : FrameLengths, pixel : PixelWords])
    BY <1>4 DEF Frame
  <2>3. QED
    BY <2>1, <2>2, <1>2 DEF TypeOK, buffers
<1>7. StreamLaidOut'
  <2>1. ASSUME NEW i \in DOMAIN sent'
        PROVE  sent'[i].start = IF i = 1 THEN 0 ELSE End(sent'[i - 1])
    <3>1. CASE i \in DOMAIN sent
      BY <3>1, <1>4 DEF StreamLaidOut
    <3>2. CASE i = Len(sent) + 1
      <4>1. CASE Len(sent) = 0
        BY <4>1, <3>2, <1>1, <1>3, <1>4, WrittenFacts
      <4>2. CASE Len(sent) > 0
        <5>1. Written = End(sent[Len(sent)])
          BY <4>2, <1>1, WrittenFacts
        <5>2. QED
          BY <5>1, <4>2, <3>2, <1>3, <1>4
      <4>3. QED
        BY <4>1, <4>2, <1>4
    <3>3. QED
      BY <3>1, <3>2, <1>4
  <2>2. ASSUME NEW i \in DOMAIN sent', NEW j \in DOMAIN sent', i < j
        PROVE  End(sent'[i]) <= sent'[j].start
    <3>1. i \in DOMAIN sent
      BY <2>2, <1>4
    <3>2. CASE j \in DOMAIN sent
      BY <3>1, <3>2, <2>2, <1>4 DEF StreamLaidOut
    <3>3. CASE j = Len(sent) + 1
      BY <3>1, <3>3, <1>1, <1>3, <1>4, WrittenFacts
    <3>4. QED
      BY <3>2, <3>3, <1>4
  <2>3. QED
    BY <2>1, <2>2 DEF StreamLaidOut, End
<1>8. Written \in Nat
  BY <1>1, WrittenFacts
<1>9. QED
  BY <1>2, <1>3, <1>4, <1>5, <1>6, <1>7, <1>8

\* It comes after all that were handed over.
LEMMA SendImageIInv ==
  ASSUME IInv, NEW len \in FrameLengths, NEW pixel \in PixelWords,
         SendImage(len, pixel)
  PROVE  IInv'
<1> DEFINE f == [start |-> Written, len |-> len, pixel |-> pixel]
<1> USE DEF IInv
<1>1. /\ TypeOK /\ StreamLaidOut
      /\ sent \in Seq(Frame) /\ handled \in Seq(Handed)
  BY Numbers
<1>2. /\ sent' = Append(sent, f)
      /\ UNCHANGED <<link, buffers, pc, fault, handled>>
      /\ pc \in {"receive", "decode"}
  BY DEF SendImage
<1>3. f \in Frame /\ f.start = Written /\ f.len \in Nat /\ f.len >= 17
  BY <1>1, SendImageStream
<1>4. /\ sent' \in Seq(Frame)
      /\ Len(sent') = Len(sent) + 1
      /\ sent'[Len(sent) + 1] = f
      /\ \A i \in DOMAIN sent : sent'[i] = sent[i]
      /\ DOMAIN sent = 1..Len(sent)
      /\ DOMAIN sent' = 1..(Len(sent) + 1)
      /\ Len(sent) \in Nat /\ Len(handled) \in Nat
      /\ DOMAIN handled = 1..Len(handled)
  BY <1>1, <1>2, <1>3
<1>6. TypeOK' /\ StreamLaidOut'
  BY <1>1, SendImageStream
<1>8. InOrderDelivery'
  BY <1>2, <1>4 DEF InOrderDelivery, End
<1>9. NextStart' = NextStart
  <2>1. Len(handled) # 0 => Len(handled) \in DOMAIN sent
    BY <1>4 DEF InOrderDelivery
  <2>2. handled' = handled
    BY <1>2
  <2>3. QED
    BY <2>1, <2>2, <1>4 DEF NextStart, End
<1>10. pc = "receive" => Waiting'
  <2>1. SUFFICES ASSUME Waiting PROVE Waiting'
    BY <1>2
  <2>2. CASE Len(handled) < Len(sent)
    BY <2>1, <2>2, <1>2, <1>4, <1>9 DEF Waiting, buffers
  <2>3. CASE Len(handled) = Len(sent)
    <3>1. NextStart = Written
      BY <2>3, <1>1, AllHandled
    <3>2. RawData.length = 0
      BY <3>1, <2>1, Numbers DEF Waiting
    <3>3. RawData.length < sent'[Len(handled) + 1].len
      BY <3>2, <2>3, <1>3, <1>4
    <3>4. QED
      BY <3>3, <2>1, <1>2, <1>4, <1>9 DEF Waiting, buffers
  <2>4. Len(handled) <= Len(sent)
    BY DEF InOrderDelivery
  <2>5. Len(handled) \in Nat /\ Len(sent) \in Nat
    BY Numbers
  <2>6. Len(handled) < Len(sent) \/ Len(handled) = Len(sent)
    BY <2>4, <2>5
  <2>7. QED
    BY <2>2, <2>3, <2>6
<1>11. pc = "decode" => Decoding'
  BY <1>2, <1>4, <1>9 DEF Decoding, LoopContinues, RemainBytes, Rest, buffers
<1>12. QED
  BY <1>2, <1>6, <1>8, <1>10, <1>11, NoFailure

-----------------------------------------------------------------------------
(* The callback.                                                           *)

\* r bytes of a frame of l bytes from s on were there, and n more have come:
\* fewer than n of them lie behind the frame.
LEMMA OverrunBound ==
  ASSUME NEW a \in Nat, NEW s \in Nat, NEW l \in Nat, NEW r \in Nat,
         NEW n \in Nat, NEW b \in Nat,
         a - s = r + n, r < l, n <= b
  PROVE  a - (s + l) < b
OBVIOUS

\* A chunk is added to what is buffered: the word at its beginning is the
\* length of the next frame, so the frame is recognised when it is whole.
LEMMA ReceiveIInv ==
  ASSUME IInv, NEW n \in 1..BufferSize, Receive(n)
  PROVE  IInv'
<1> DEFINE next == sent[Len(handled) + 1]
<1>1. /\ TypeOK /\ StreamLaidOut /\ InOrderDelivery /\ FailuresHaveCause
      /\ Waiting /\ pc = "receive"
  BY DEF IInv, Receive, StoreChunk
<1>2. /\ n <= Written - arrived
      /\ arrived' = arrived + n
      /\ RawData' = AddChunk(n)
      /\ CurrentLength' = CurrentLength + n
      /\ UNCHANGED <<sent, link, handled>>
  BY ZenonT(20) DEF Receive, StoreChunk
<1>3. n \in Nat /\ n > 0 /\ n <= BufferSize /\ BufferSize \in Nat
  BY BufferSizeAssumption
<1>4. /\ RawData.length \in Nat /\ RawData.first \in Nat
      /\ RawData.first <= RawData.length
      /\ RawData.first = 0 => RawData.length = 0
      /\ arrived \in Nat /\ Written \in Nat
      /\ arrived - RawData.length = NextStart
      /\ CurrentLength = RawData.length
  BY <1>1, Numbers DEF Waiting
<1>5. RawData' \in [first : Nat, length : Nat]
      /\ RawData'.length = RawData.length + n
      /\ RawData'.first <= RawData'.length
      /\ RawData'.first \in Nat /\ RawData'.first > 0
  BY <1>2, <1>3, <1>4 DEF AddChunk
<1>6. /\ arrived' \in Nat /\ arrived' \in 0..Written
      /\ arrived' - RawData'.length = NextStart
      /\ CurrentLength' \in Nat /\ CurrentLength' = RawData'.length
      /\ arrived' - NextStart = RawData.length + n
  BY <1>2, <1>3, <1>4, <1>5
<1>7. Len(handled) < Len(sent)
  <2>1. Len(handled) # Len(sent)
    <3>1. arrived < Written
      BY <1>2, <1>3, <1>4
    <3>2. NextStart # Written
      BY <3>1, <1>4
    <3>3. sent \in Seq(Frame) /\ handled \in Seq(Handed)
      BY <1>1, Numbers
    <3>4. QED
      BY <3>2, <3>3, <1>1, AllHandled
  <2>2. Len(handled) <= Len(sent)
    BY <1>1 DEF InOrderDelivery
  <2>3. Len(handled) \in Nat /\ Len(sent) \in Nat
    BY <1>1, Numbers
  <2>4. QED
    BY <2>1, <2>2, <2>3
<1>8. /\ Len(handled) + 1 \in DOMAIN sent
      /\ next \in Frame /\ next.start = NextStart /\ NextStart \in Nat
  BY <1>1, <1>7, NextFrame, Numbers
<1>9. next.len \in Nat
  BY <1>8, FrameFacts
<1>10. Word(arrived' - RawData'.length) = next.len
  <2>1. Word(next.start) = next.len
    BY <1>1, <1>8, WordAtHeader, Numbers
  <2>2. QED
    BY <2>1, <1>6, <1>8
<1>11. /\ StreamLaidOut' /\ InOrderDelivery' /\ NextStart' = NextStart
       /\ Written' = Written
  BY <1>1, <1>2, StreamUnchanged
\* Word reads sent, which does not change.
<1>12. ASSUME ReadLength
       PROVE  TargetLength' = next.len /\ fault' = fault
  BY <1>10, <1>12 DEF ReadLength
<1>13. TypeOK' <=> /\ TargetLength' \in Int /\ rawData' \in Nat
                   /\ pc' \in {"idle", "receive", "decode", "ended", "crashed"}
                   /\ fault' \in {"none", "splitHeader", "reset",
                                  "negativeLength", "noImage", "badHeader"}
  BY <1>1, <1>2, <1>5, <1>6, <1>11, ZenonT(30) DEF TypeOK
<1>14. CASE HeaderSplit
  <2>1. pc' = "crashed" /\ fault' = "splitHeader"
        /\ TargetLength' = TargetLength /\ rawData' = rawData
    BY <1>14 DEF HeaderSplit, Throw
  <2>2. TypeOK'
    BY <2>1, <1>1, <1>13, Numbers
  <2>3. RawData'.first < 4
    BY <1>14 DEF HeaderSplit, IntSize
  <2>4. RawData'.first \in 1..(4 - 1)
    BY <2>3, <1>5
  <2>5. FailuresHaveCause'
    BY <2>1, <2>4, <1>2, <1>6, <1>7, <1>11 DEF FailuresHaveCause, IntSize
  <2>6. QED
    BY <2>1, <2>2, <2>5, <1>11 DEF IInv
<1>15. CASE FrameComplete
  <2>1. /\ TargetLength' = next.len /\ fault' = fault
        /\ pc' = "decode" /\ rawData' = NextStart
        /\ TargetLength' <= CurrentLength'
    BY <1>6, <1>12, <1>15 DEF FrameComplete, FrameWhole
  <2>2. TypeOK'
    BY <2>1, <1>1, <1>8, <1>9, <1>13 DEF FailuresHaveCause
  <2>3. LoopContinues'
    <3>1. arrived' - rawData' = CurrentLength'
      BY <2>1, <1>6
    <3>2. CurrentLength' >= TargetLength'
      BY <2>1, <1>6, <1>9
    <3>3. QED
      BY <3>1, <3>2 DEF LoopContinues
  <2>4. RemainBytes' < BufferSize
    <3>1. RawData.length < next.len
      BY <1>1, <1>7 DEF Waiting
    <3>2. RemainBytes' = arrived' - (NextStart + next.len)
      BY <2>1 DEF RemainBytes, Rest
    <3>3. /\ RawData.length \in Nat /\ arrived' \in Nat /\ NextStart \in Nat
          /\ arrived' - NextStart = RawData.length + n
      BY <1>4, <1>6, <1>8
    <3>4. arrived' - (NextStart + next.len) < BufferSize
      BY <3>1, <3>3, <1>3, <1>9, OverrunBound
    <3>5. QED
      BY <3>2, <3>4
  <2>5. Decoding'
    BY <2>1, <2>3, <2>4, <1>2, <1>7, <1>11 DEF Decoding
  <2>6. FailuresHaveCause'
    BY <2>1, <1>1, NoFailure
  <2>7. QED
    BY <2>1, <2>2, <2>5, <2>6, <1>1, <1>11 DEF IInv
<1>16. CASE FrameIncomplete
  <2>1. /\ TargetLength' = next.len /\ fault' = fault
        /\ pc' = "receive" /\ rawData' = rawData
        /\ ~(TargetLength' <= CurrentLength')
    BY <1>1, <1>12, <1>16 DEF FrameIncomplete, FrameWhole
  <2>2. TypeOK'
    <3>1. rawData \in Nat
      BY <1>1, Numbers
    <3>2. QED
      BY <2>1, <3>1, <1>1, <1>9, <1>13 DEF FailuresHaveCause
  <2>3. RawData'.length < next.len
    BY <2>1, <1>6, <1>9
  <2>4. Waiting'
    BY <2>3, <1>2, <1>5, <1>6, <1>11 DEF Waiting
  <2>5. FailuresHaveCause'
    BY <2>1, <1>1, NoFailure
  <2>6. QED
    BY <2>1, <2>2, <2>4, <2>5, <1>1, <1>11 DEF IInv
<1>17. QED
  BY <1>14, <1>15, <1>16 DEF Receive

\* In the loop rawData begins with the header of the next frame, whole.
LEMMA DecodingFacts ==
  ASSUME IInv, pc = "decode"
  PROVE  LET next == sent[Len(handled) + 1] IN
         /\ Len(handled) + 1 \in DOMAIN sent
         /\ next \in Frame
         /\ rawData = next.start
         /\ TargetLength = next.len
         /\ TargetLength \in FrameLengths
         /\ TargetLength \in Nat /\ TargetLength >= 17
         /\ Word(rawData) = TargetLength
         /\ Rest = End(next) /\ Rest \in Nat
         /\ RemainBytes \in Nat /\ arrived = Rest + RemainBytes
         /\ RemainBytes < BufferSize
         /\ LoopContinues
<1> DEFINE next == sent[Len(handled) + 1]
<1>1. TypeOK /\ StreamLaidOut /\ Decoding
  BY DEF IInv
<1>2. /\ Len(handled) + 1 \in DOMAIN sent
      /\ next \in Frame
      /\ rawData = next.start
      /\ TargetLength = next.len
  BY <1>1, NextFrame, Numbers DEF Decoding
<1>3. /\ TargetLength \in FrameLengths
      /\ TargetLength \in Nat /\ TargetLength >= 17
      /\ End(next) = Rest /\ Rest \in Nat
  BY <1>2, FrameFacts DEF Rest
<1>4. Word(rawData) = TargetLength
  BY <1>1, <1>2, WordAtHeader, Numbers
<1>5. RemainBytes \in Nat /\ arrived = Rest + RemainBytes
  <2>1. arrived \in Nat /\ rawData \in Nat
    BY <1>1, Numbers
  <2>2. arrived - rawData >= TargetLength
    BY <1>1 DEF Decoding, LoopContinues
  <2>3. QED
    BY <1>3, <2>1, <2>2 DEF RemainBytes, Rest
<1>6. QED
  BY <1>1, <1>2, <1>3, <1>4, <1>5 DEF Decoding

\* The loop never meets a false condition or a negative length.
LEMMA LoopNeverFails ==
  ASSUME IInv
  PROVE  ~LoopEnds /\ ~NegativeLength
<1>1. ~LoopEnds
  BY DecodingFacts DEF LoopEnds
<1>2. ~NegativeLength
  <2>1. pc = "decode" => TargetLength \in Nat
    BY DecodingFacts
  <2>2. NegativeLength => pc = "decode" /\ TargetLength < 0
    BY ZenonT(20) DEF NegativeLength
  <2>3. QED
    BY <2>1, <2>2
<1>3. QED
  BY <1>1, <1>2

\* The handler never meets a wrong header: when it throws, the frame due next
\* has no image data.
LEMMA HandlerThrowsIInv ==
  ASSUME IInv, HandlerThrows
  PROVE  IInv'
<1>1. /\ pc = "decode" /\ pc' = "crashed"
      /\ UNCHANGED <<sent, link, arrived, RawData, TargetLength, CurrentLength,
                     rawData, handled>>
  BY DEF HandlerThrows, Invoke, Throw, buffers
<1>2. /\ IsHeader(rawData) /\ Word(rawData) = TargetLength
      /\ TargetLength = sent[Len(handled) + 1].len
  BY <1>1, DecodingFacts DEF IsHeader
<1>3. fault' = "noImage" /\ sent[Len(handled) + 1].len = HeaderSize
  BY <1>2 DEF HandlerThrows, NoImageData, Throw
<1>4. Len(handled) < Len(sent)
  BY <1>1 DEF IInv, Decoding
<1>5. FailuresHaveCause'
  BY <1>1, <1>3, <1>4 DEF FailuresHaveCause
<1>6. TypeOK /\ Written' = Written
  BY <1>1, StreamUnchanged DEF IInv
<1>7. TypeOK'
  BY <1>1, <1>3, <1>6, ZenonT(30) DEF TypeOK
<1>8. QED
  BY <1>1, <1>5, <1>7, StreamUnchanged DEF IInv

\* What an iteration hands over is the next frame, so that afterwards the
\* next frame begins where the iteration stopped consuming.
LEMMA ShowFacts ==
  ASSUME IInv, Show, UNCHANGED sent
  PROVE  /\ handled' \in Seq(Handed)
         /\ Len(handled') = Len(handled) + 1
         /\ StreamLaidOut'
         /\ InOrderDelivery'
         /\ NextStart' = Rest
         /\ Written' = Written
<1> DEFINE h == [start |-> rawData, len |-> Word(rawData), upto |-> arrived]
<1>1. TypeOK /\ StreamLaidOut /\ InOrderDelivery /\ pc = "decode"
  BY DEF IInv, Show, Invoke
<1>2. handled' = Append(handled, h)
  BY DEF Show
<1>3. h \in Handed
  BY <1>1, DecodingFacts, Numbers DEF Handed
<1>4. /\ handled' \in Seq(Handed)
      /\ Len(handled') = Len(handled) + 1
      /\ DOMAIN handled' = 1..(Len(handled) + 1)
      /\ handled'[Len(handled) + 1] = h
      /\ \A i \in DOMAIN handled : handled'[i] = handled[i]
  BY <1>1, <1>2, <1>3, Numbers
<1>5. InOrderDelivery'
  <2>1. Len(handled') <= Len(sent')
    BY <1>1, <1>4, DecodingFacts, Numbers
  <2>2. ASSUME NEW i \in DOMAIN handled'
        PROVE  /\ handled'[i].start = sent'[i].start
               /\ handled'[i].len = sent'[i].len
               /\ End(sent'[i]) <= handled'[i].upto
    <3>1. CASE i \in DOMAIN handled
      BY <3>1, <1>1, <1>4 DEF InOrderDelivery, End
    <3>2. CASE i = Len(handled) + 1
      <4>1. h.start = rawData /\ h.len = TargetLength /\ h.upto = arrived
        BY <1>1, DecodingFacts
      <4>2. End(sent[i]) <= arrived
        BY <3>2, <1>1, DecodingFacts
      <4>3. QED
        BY <4>1, <4>2, <3>2, <1>1, <1>4, DecodingFacts DEF End
    <3>3. QED
      BY <3>1, <3>2, <1>1, <1>4, Numbers
  <2>3. QED
    BY <2>1, <2>2 DEF InOrderDelivery, End
<1>6. NextStart' = Rest
  BY <1>1, <1>4, DecodingFacts, Numbers DEF NextStart, End
<1>7. StreamLaidOut' /\ Written' = Written
  BY <1>1 DEF StreamLaidOut, Written, End
<1>8. QED
  BY <1>4, <1>5, <1>6, <1>7

\* When bytes are left after the frame handed over, they begin with the
\* header of the frame after it.
LEMMA RestFacts ==
  ASSUME IInv, pc = "decode", RemainBytes > 0
  PROVE  LET next == sent[Len(handled) + 2] IN
         /\ Len(handled) + 2 \in DOMAIN sent
         /\ next \in Frame
         /\ next.start = Rest
         /\ next.len \in FrameLengths /\ next.len \in Nat
         /\ Word(Rest) = next.len
<1> DEFINE k == Len(handled) + 1
<1>1. /\ TypeOK /\ StreamLaidOut
      /\ sent \in Seq(Frame)
      /\ Len(sent) \in Nat /\ Len(handled) \in Nat
      /\ DOMAIN sent = 1..Len(sent)
  BY Numbers DEF IInv
<1>2. k \in DOMAIN sent /\ Rest = End(sent[k])
  BY DecodingFacts
<1>3. Rest < Written
  <2>1. Rest \in Nat /\ RemainBytes \in Nat /\ arrived = Rest + RemainBytes
    BY DecodingFacts
  <2>2. arrived <= Written /\ Written \in Nat
    BY <1>1, Numbers
  <2>3. QED
    BY <2>1, <2>2
<1>4. k # Len(sent)
  <2>1. sent # <<>>
    BY <1>1, <1>2
  <2>2. Written = End(sent[Len(sent)])
    BY <2>1, <1>1, WrittenFacts
  <2>3. Rest # Written
    BY <1>3, DecodingFacts
  <2>4. QED
    BY <2>2, <2>3, <1>2
<1>5. k + 1 \in DOMAIN sent /\ k + 1 = Len(handled) + 2 /\ k + 1 # 1
      /\ (k + 1) - 1 = k
  <2>1. k \in 1..Len(sent) /\ Len(sent) \in Nat /\ Len(handled) \in Nat
    BY <1>1, <1>2
  <2>2. k + 1 \in 1..Len(sent)
    BY <2>1, <1>4
  <2>3. QED
    BY <2>1, <2>2, <1>1
<1>6. sent[k + 1].start = Rest
  BY <1>1, <1>2, <1>5 DEF StreamLaidOut
<1>7. sent[k + 1] \in Frame
  BY <1>1, <1>5
<1>8. sent[k + 1].len \in FrameLengths /\ sent[k + 1].len \in Nat
  BY <1>7, FrameFacts
<1>9. Word(Rest) = sent[k + 1].len
  BY <1>1, <1>5, <1>6, WordAtHeader
<1>10. QED
  BY <1>5, <1>6, <1>7, <1>8, <1>9

\* What the three ways out of an iteration have in common.
LEMMA IterationFacts ==
  ASSUME IInv, Show, UNCHANGED <<sent, link, arrived, fault>>,
         TypeOK, RawData' \in [first : Nat, length : Nat],
         TargetLength' \in Int, CurrentLength' \in Nat, rawData' \in Nat,
         pc' \in {"receive", "decode"}
  PROVE  TypeOK' /\ StreamLaidOut' /\ InOrderDelivery' /\ FailuresHaveCause'
<1>1. StreamLaidOut' /\ InOrderDelivery' /\ Written' = Written
      /\ handled' \in Seq(Handed)
  BY ShowFacts
<1>2. arrived' \in 0..Written'
  BY <1>1, ZenonT(20) DEF TypeOK
<1>3. sent' = sent /\ link' = link /\ fault' = fault
      /\ pc' \in {"idle", "receive", "decode", "ended", "crashed"}
  OBVIOUS
<1>4. TypeOK'
  BY <1>1, <1>2, <1>3, ZenonT(20) DEF TypeOK, Handed
<1>5. FailuresHaveCause'
  BY <1>3, NoFailure DEF IInv, Show, Invoke
<1>6. QED
  BY <1>1, <1>4, <1>5

LEMMA TakeLastIInv ==
  ASSUME IInv, TakeLast
  PROVE  IInv'
<1>1. /\ Show /\ pc = "decode" /\ RemainBytes = 0 /\ TypeOK
      /\ RawData' = NoData /\ TargetLength' = 0 /\ CurrentLength' = 0
      /\ pc' = "receive" /\ rawData' = rawData
      /\ UNCHANGED <<sent, link, arrived, fault>>
  BY DEF TakeLast, Show, Invoke, IInv
<1>2. RawData' \in [first : Nat, length : Nat]
      /\ RawData'.length = 0 /\ RawData'.first = 0
  BY <1>1 DEF NoData
<1>3. rawData' \in Nat
  BY <1>1, Numbers DEF IInv
<1>4. TypeOK' /\ StreamLaidOut' /\ InOrderDelivery' /\ FailuresHaveCause'
  BY <1>1, <1>2, <1>3, IterationFacts
<1>5. arrived' - RawData'.length = NextStart'
  <2>1. arrived = Rest + RemainBytes /\ Rest \in Nat
    BY <1>1, DecodingFacts
  <2>2. NextStart' = Rest
    BY <1>1, ShowFacts
  <2>3. QED
    BY <2>1, <2>2, <1>1, <1>2
<1>6. Len(handled') < Len(sent') => RawData'.length < sent'[Len(handled') + 1].len
  <2>1. SUFFICES ASSUME Len(handled') < Len(sent')
                 PROVE  0 < sent[Len(handled') + 1].len
    BY <1>1, <1>2
  <2>2. Len(handled') = Len(handled) + 1 /\ Len(handled) \in Nat
        /\ sent \in Seq(Frame) /\ Len(sent) \in Nat
    BY <1>1, ShowFacts, Numbers DEF IInv
  <2>3. sent[Len(handled') + 1] \in Frame
    BY <2>1, <2>2, <1>1
  <2>4. QED
    BY <2>3, FrameFacts
<1>7. Waiting'
  BY <1>1, <1>2, <1>5, <1>6 DEF Waiting
<1>8. QED
  BY <1>1, <1>4, <1>7 DEF IInv

LEMMA TakeAndKeepRestIInv ==
  ASSUME IInv, TakeAndKeepRest
  PROVE  IInv'
<1>1. /\ Show /\ pc = "decode" /\ RemainBytes > 0 /\ TypeOK
      /\ ~NextIsWhole
      /\ RawData' = [first |-> RemainBytes, length |-> RemainBytes]
      /\ CurrentLength' = RemainBytes /\ TargetLength' = TargetLength
      /\ pc' = "receive" /\ rawData' = rawData
      /\ UNCHANGED <<sent, link, arrived, fault>>
  BY DEF TakeAndKeepRest, KeepRest, Show, Invoke, IInv
<1>2. RemainBytes \in Nat /\ Rest \in Nat /\ arrived = Rest + RemainBytes
  BY <1>1, DecodingFacts
<1>3. RawData' \in [first : Nat, length : Nat]
      /\ RawData'.length = RemainBytes /\ RawData'.first = RemainBytes
  BY <1>1, <1>2
<1>4. TargetLength' \in Int /\ CurrentLength' \in Nat /\ rawData' \in Nat
  BY <1>1, <1>2, Numbers DEF IInv
<1>5. TypeOK' /\ StreamLaidOut' /\ InOrderDelivery' /\ FailuresHaveCause'
  BY <1>1, <1>3, <1>4, IterationFacts
<1>6. arrived' - RawData'.length = NextStart'
  <2>1. NextStart' = Rest
    BY <1>1, ShowFacts
  <2>2. QED
    BY <2>1, <1>1, <1>2, <1>3
<1>7. RawData'.length < sent'[Len(handled') + 1].len
  <2>1. Len(handled') + 1 = Len(handled) + 2
    <3>1. Len(handled') = Len(handled) + 1
      BY <1>1, ShowFacts
    <3>2. Len(handled) \in Nat
      BY Numbers DEF IInv
    <3>3. QED
      BY <3>1, <3>2
  <2>2. /\ sent[Len(handled) + 2] \in Frame
        /\ Word(Rest) = sent[Len(handled) + 2].len
    BY <1>1, RestFacts
  <2>3. Word(Rest) \in Nat /\ Word(Rest) >= 17
    BY <2>2, FrameFacts
  <2>4. RemainBytes < Word(Rest)
    BY <2>3, <1>1, <1>2 DEF NextIsWhole, IntSize
  <2>5. QED
    BY <2>1, <2>2, <2>4, <1>1, <1>3
<1>8. Waiting'
  BY <1>1, <1>2, <1>3, <1>6, <1>7 DEF Waiting
<1>9. QED
  BY <1>1, <1>5, <1>8 DEF IInv

\* The step that needs LoopIsSafe: a frame that is whole in what is left is
\* shorter than a receive buffer, so it has the length of the frame before.
LEMMA TakeAndContinueIInv ==
  ASSUME LoopIsSafe, IInv, TakeAndContinue
  PROVE  IInv'
<1> DEFINE next == sent[Len(handled) + 2]
<1>1. /\ Show /\ pc = "decode" /\ TypeOK
      /\ RemainBytes >= IntSize /\ RemainBytes >= Word(Rest)
      /\ RawData' = NoData /\ rawData' = Rest
      /\ TargetLength' = TargetLength /\ CurrentLength' = CurrentLength
      /\ pc' = pc
      /\ UNCHANGED <<sent, link, arrived, fault>>
  BY DEF TakeAndContinue, NextIsWhole, Show, Invoke, IInv
<1>2. /\ RemainBytes \in Nat /\ Rest \in Nat /\ arrived = Rest + RemainBytes
      /\ RemainBytes < BufferSize
      /\ TargetLength \in FrameLengths /\ TargetLength \in Nat
      /\ TargetLength >= 17
  BY <1>1, DecodingFacts
<1>3. RemainBytes > 0 /\ BufferSize \in Nat
  BY <1>1, <1>2, BufferSizeAssumption DEF IntSize
<1>4. /\ Len(handled) + 2 \in DOMAIN sent
      /\ next.start = Rest
      /\ next.len \in FrameLengths /\ next.len \in Nat
      /\ Word(Rest) = next.len
  BY <1>1, <1>3, RestFacts
<1>5. next.len = TargetLength
  <2>1. next.len < BufferSize
    BY <1>1, <1>2, <1>3, <1>4
  <2>2. ~(next.len >= BufferSize)
    BY <2>1, <1>3, <1>4
  <2>3. QED
    BY <2>2, <1>2, <1>4 DEF LoopIsSafe
<1>6. RawData' \in [first : Nat, length : Nat]
  BY <1>1 DEF NoData
<1>7. TargetLength' \in Int /\ CurrentLength' \in Nat /\ rawData' \in Nat
  BY <1>1, <1>2, Numbers DEF IInv
<1>8. TypeOK' /\ StreamLaidOut' /\ InOrderDelivery' /\ FailuresHaveCause'
  BY <1>1, <1>6, <1>7, IterationFacts
<1>9. /\ Len(handled') + 1 = Len(handled) + 2
      /\ Len(handled') < Len(sent')
      /\ NextStart' = Rest
  <2>1. Len(handled') = Len(handled) + 1 /\ NextStart' = Rest
    BY <1>1, ShowFacts
  <2>2. Len(handled) \in Nat /\ Len(sent) \in Nat /\ DOMAIN sent = 1..Len(sent)
    BY Numbers DEF IInv
  <2>3. Len(handled) + 2 <= Len(sent)
    BY <2>2, <1>4
  <2>4. sent' = sent
    BY <1>1
  <2>5. QED
    BY <2>1, <2>2, <2>3, <2>4
<1>10. arrived' - rawData' = RemainBytes
  BY <1>1, <1>2
<1>11. LoopContinues'
  <2>1. RemainBytes >= TargetLength
    BY <1>1, <1>4, <1>5
  <2>2. QED
    BY <2>1, <1>1, <1>10 DEF LoopContinues
<1>12. RemainBytes' < BufferSize
  <2>1. RemainBytes' = arrived' - (rawData' + TargetLength)
    BY <1>1 DEF RemainBytes, Rest
  <2>2. RemainBytes' = RemainBytes - TargetLength
    BY <2>1, <1>1, <1>2
  <2>3. QED
    BY <2>2, <1>2, <1>3
<1>13. Decoding'
  BY <1>1, <1>5, <1>9, <1>11, <1>12 DEF Decoding
<1>14. QED
  BY <1>1, <1>8, <1>13 DEF IInv

-----------------------------------------------------------------------------
(* The theorems.                                                           *)

\* Every step keeps the invariant.
LEMMA NextIInv ==
  ASSUME LoopIsSafe, IInv, [Next]_vars
  PROVE  IInv'
<1>1. CASE ConnectServer
  BY <1>1, ConnectServerIInv
<1>2. CASE \E len \in FrameLengths, pixel \in PixelWords : SendImage(len, pixel)
  BY <1>2, SendImageIInv
<1>3. CASE ServerExits
  BY <1>3, ServerExitsIInv
<1>4. CASE Callback
  <2>1. CASE \E n \in 1..BufferSize : Receive(n)
    BY <2>1, ReceiveIInv
  <2>2. CASE EndOfStream
    BY <2>2, EndOfStreamIInv
  <2>3. CASE ConnectionReset
    BY <2>3, ConnectionResetIInv
  <2>4. CASE Decode
    BY <2>4, LoopNeverFails, HandlerThrowsIInv, TakeLastIInv,
       TakeAndKeepRestIInv, TakeAndContinueIInv DEF Decode
  <2>5. QED
    BY <2>1, <2>2, <2>3, <2>4, <1>4 DEF Callback
<1>5. CASE Stopped \/ UNCHANGED vars
  BY <1>5, StutterIInv DEF Stopped
<1>6. QED
  BY <1>1, <1>2, <1>3, <1>4, <1>5 DEF Next

\* IInv is an invariant of the receiver of safe frames, however the network
\* cuts the stream and whatever the images contain.
THEOREM InvariantHolds ==
  ASSUME LoopIsSafe
  PROVE  Spec => []IInv
<1>1. IInv /\ [Next]_vars => IInv'
  BY NextIInv
<1>2. QED
  BY InitIInv, <1>1, PTL DEF Spec

\* ReceiveCallback hands over the images sent, in order, each once and whole.
THEOREM DeliveryInOrder ==
  ASSUME LoopIsSafe
  PROVE  Spec => []InOrderDelivery
<1>1. IInv => InOrderDelivery
  BY DEF IInv
<1>2. QED
  BY <1>1, InvariantHolds, PTL

\* The callback never waits for data while a whole image is in its buffer.
THEOREM NoImageHeldBack ==
  ASSUME LoopIsSafe
  PROVE  Spec => []NothingHeldBack
<1>1. ASSUME IInv PROVE NothingHeldBack
  <2>1. SUFFICES ASSUME pc = "receive", NEW i \in DOMAIN sent,
                        End(sent[i]) <= arrived, ~(i <= Len(handled))
                 PROVE  FALSE
    BY DEF NothingHeldBack
  <2>2. TypeOK /\ StreamLaidOut /\ Waiting
    BY <1>1, <2>1 DEF IInv
  <2>3. /\ Len(sent) \in Nat /\ DOMAIN sent = 1..Len(sent)
        /\ Len(handled) \in Nat
        /\ arrived \in Nat /\ RawData.length \in Nat /\ sent \in Seq(Frame)
    BY <2>2, Numbers
  <2>4. Len(handled) < Len(sent) /\ Len(handled) + 1 <= i
    BY <2>1, <2>3
  <2>5. /\ sent[Len(handled) + 1] \in Frame
        /\ sent[Len(handled) + 1].start = NextStart
        /\ Len(handled) + 1 \in DOMAIN sent
    BY <2>2, <2>4, NextFrame, Numbers
  <2>6. /\ NextStart \in Nat /\ sent[Len(handled) + 1].len \in Nat
        /\ End(sent[Len(handled) + 1]) =
             NextStart + sent[Len(handled) + 1].len
    BY <2>5, FrameFacts
  <2>7. arrived < End(sent[Len(handled) + 1])
    <3>1. arrived - RawData.length = NextStart
      BY <2>2 DEF Waiting
    <3>2. RawData.length < sent[Len(handled) + 1].len
      BY <2>2, <2>4 DEF Waiting
    <3>3. QED
      <4>1. arrived \in Nat /\ RawData.length \in Nat
        BY <2>3
      <4>2. QED
        BY <3>1, <3>2, <4>1, <2>6
  <2>8. End(sent[Len(handled) + 1]) <= End(sent[i])
    <3>1. sent[i] \in Frame
      BY <2>3
    <3>2. CASE Len(handled) + 1 = i
      BY <3>1, <3>2, FrameFacts
    <3>3. CASE Len(handled) + 1 < i
      <4>1. End(sent[Len(handled) + 1]) <= sent[i].start
        BY <2>2, <2>5, <3>3 DEF StreamLaidOut
      <4>2. /\ sent[i].start \in Nat /\ sent[i].len \in Nat
            /\ End(sent[i]) = sent[i].start + sent[i].len
        BY <3>1, FrameFacts
      <4>3. End(sent[Len(handled) + 1]) \in Nat
        BY <2>5, FrameFacts
      <4>4. QED
        BY <4>1, <4>2, <4>3
    <3>4. QED
      BY <3>2, <3>3, <2>3, <2>4
  <2>9. End(sent[i]) \in Nat /\ End(sent[Len(handled) + 1]) \in Nat
    BY <2>3, <2>5, FrameFacts
  <2>10. QED
    BY <2>1, <2>3, <2>7, <2>8, <2>9
<1>2. IInv => NothingHeldBack
  BY <1>1
<1>3. QED
  BY <1>2, InvariantHolds, PTL

\* No byte of the stream is dropped or counted twice.
THEOREM BytesKept ==
  ASSUME LoopIsSafe
  PROVE  Spec => []BytesAccountedFor
<1>1. ASSUME IInv PROVE BytesAccountedFor
  <2>1. SUFFICES ASSUME pc = "receive" PROVE BytesAccountedFor
    BY DEF BytesAccountedFor
  <2>2. TypeOK /\ StreamLaidOut /\ Waiting /\ InOrderDelivery
    BY <1>1, <2>1 DEF IInv
  <2>3. /\ Len(sent) \in Nat /\ DOMAIN sent = 1..Len(sent)
        /\ Len(handled) \in Nat /\ DOMAIN handled = 1..Len(handled)
        /\ handled \in Seq(Handed)
    BY <2>2, Numbers
  <2>4. handled = <<>> <=> Len(handled) = 0
    BY <2>3
  <2>5. handled # <<>> => End(handled[Len(handled)]) = End(sent[Len(handled)])
    BY <2>2, <2>3, <2>4 DEF InOrderDelivery, End
  <2>6. QED
    BY <2>2, <2>4, <2>5 DEF BytesAccountedFor, Waiting, NextStart
<1>2. IInv => BytesAccountedFor
  BY <1>1
<1>3. QED
  BY <1>2, InvariantHolds, PTL

\* What ends the client, short of the connection failing, lies in the image
\* due next: it has no data, or a receive ended within its length field.
THEOREM FailuresKnown ==
  ASSUME LoopIsSafe
  PROVE  Spec => []FailuresHaveCause
<1>1. IInv => FailuresHaveCause
  BY DEF IInv
<1>2. QED
  BY <1>1, InvariantHolds, PTL

-----------------------------------------------------------------------------
(* The refinement of ImageDelivery.                                        *)

SentImages == [i \in DOMAIN sent |->
                 [start |-> sent[i].start, len |-> sent[i].len]]
ShownImages == [i \in DOMAIN handled |->
                  [start |-> handled[i].start, len |-> handled[i].len]]
Image == [start : Nat, len : Int]

\* The images of the refinement mapping are sequences of images.
LEMMA ImageSequences ==
  ASSUME sent \in Seq(Frame), handled \in Seq(Handed)
  PROVE  /\ SentImages \in Seq(Image) /\ Len(SentImages) = Len(sent)
         /\ ShownImages \in Seq(Image) /\ Len(ShownImages) = Len(handled)
<1>1. /\ DOMAIN sent = 1..Len(sent) /\ Len(sent) \in Nat
      /\ DOMAIN handled = 1..Len(handled) /\ Len(handled) \in Nat
  OBVIOUS
<1>2. ASSUME NEW i \in 1..Len(sent)
      PROVE  [start |-> sent[i].start, len |-> sent[i].len] \in Image
  <2>1. sent[i] \in Frame
    BY <1>1
  <2>2. QED
    BY <2>1, FrameFacts DEF Image
<1>3. ASSUME NEW i \in 1..Len(handled)
      PROVE  [start |-> handled[i].start, len |-> handled[i].len] \in Image
  <2>1. handled[i] \in Handed
    BY <1>1
  <2>2. QED
    BY <2>1 DEF Image, Handed
<1>4. SentImages \in Seq(Image) /\ Len(SentImages) = Len(sent)
  BY <1>1, <1>2 DEF SentImages
<1>5. ShownImages \in Seq(Image) /\ Len(ShownImages) = Len(handled)
  BY <1>1, <1>3 DEF ShownImages
<1>6. QED
  BY <1>4, <1>5

\* A step that leaves what was sent and handled, and does not end the
\* client, is a stutter of ImageDelivery; one that ends it is a Break.
LEMMA QuietStep ==
  ASSUME UNCHANGED <<sent, handled>>, pc # "crashed"
  PROVE  /\ pc' # "crashed" => UNCHANGED Delivery!vars
         /\ pc' = "crashed" => Delivery!Break
<1>1. SentImages' = SentImages /\ ShownImages' = ShownImages
  BY DEF SentImages, ShownImages
<1>2. (pc' = "crashed") = TRUE \/ (pc' = "crashed") = FALSE
  OBVIOUS
<1>3. QED
  BY <1>1, <1>2 DEF Delivery!vars, Delivery!Break, SentImages, ShownImages

\* A frame sent is an image sent.
LEMMA SendImageRefines ==
  ASSUME IInv, NEW len \in FrameLengths, NEW pixel \in PixelWords,
         SendImage(len, pixel)
  PROVE  Delivery!Send
<1> DEFINE f == [start |-> Written, len |-> len, pixel |-> pixel]
<1>1. /\ TypeOK /\ StreamLaidOut /\ sent \in Seq(Frame)
      /\ handled \in Seq(Handed) /\ Written \in Nat
  BY Numbers DEF IInv
<1>2. /\ sent' = Append(sent, f) /\ handled' = handled
      /\ pc' = pc /\ pc # "crashed"
  BY DEF SendImage
<1>3. f \in Frame
  BY <1>1 DEF Frame
<1>4. /\ sent' \in Seq(Frame) /\ Len(sent') = Len(sent) + 1
      /\ DOMAIN sent \subseteq DOMAIN sent'
      /\ \A i \in DOMAIN sent : sent'[i] = sent[i]
      /\ DOMAIN sent = DOMAIN SentImages
  BY <1>1, <1>2, <1>3 DEF SentImages
<1>5. SentImages' \in Seq(Image) /\ Len(SentImages') = Len(sent')
  <2>1. \A i \in DOMAIN sent' : sent'[i] \in Frame
    BY <1>4
  <2>2. \A i \in DOMAIN sent' :
          [start |-> sent'[i].start, len |-> sent'[i].len] \in Image
    BY <2>1, FrameFacts DEF Image
  <2>3. DOMAIN sent' = 1..Len(sent') /\ Len(sent') \in Nat
    BY <1>4
  <2>4. QED
    BY <2>2, <2>3 DEF SentImages
<1>6. Len(SentImages') = Len(SentImages) + 1
  BY <1>1, <1>4, <1>5, ImageSequences
<1>7. \A i \in DOMAIN SentImages : SentImages'[i] = SentImages[i]
  BY <1>4 DEF SentImages
<1>8. ShownImages' = ShownImages
  BY <1>2 DEF ShownImages
<1>9. (pc = "crashed") = FALSE /\ (pc' = "crashed") = FALSE
  BY <1>2
<1>10. QED
  BY <1>5, <1>6, <1>7, <1>8, <1>9
     DEF Delivery!Send, SentImages, ShownImages, Image

\* An iteration of the loop shows the first image not shown.
LEMMA ShowRefines ==
  ASSUME IInv, Show, sent' = sent, pc' # "crashed"
  PROVE  Delivery!Show
<1> DEFINE k == Len(handled) + 1
<1> DEFINE h == [start |-> rawData, len |-> Word(rawData), upto |-> arrived]
<1> DEFINE image == [start |-> rawData, len |-> TargetLength]
<1>1. /\ TypeOK /\ StreamLaidOut /\ sent \in Seq(Frame)
      /\ handled \in Seq(Handed)
      /\ Len(handled) \in Nat /\ Len(sent) \in Nat
      /\ DOMAIN sent = 1..Len(sent) /\ DOMAIN handled = 1..Len(handled)
  BY Numbers DEF IInv
<1>2. pc = "decode" /\ handled' = Append(handled, h)
  BY DEF Show, Invoke
<1>3. /\ k \in DOMAIN sent /\ rawData = sent[k].start
      /\ TargetLength = sent[k].len /\ Word(rawData) = TargetLength
  BY <1>2, DecodingFacts
<1>4. /\ handled' \in Seq(Handed) /\ Len(handled') = k
      /\ DOMAIN handled' = 1..k
      /\ handled'[k] = h
      /\ \A i \in DOMAIN handled : handled'[i] = handled[i]
  <2>1. handled' \in Seq(Handed) /\ Len(handled') = k
    BY <1>2, ShowFacts
  <2>2. QED
    BY <2>1, <1>1, <1>2
<1>5. /\ ShownImages \in Seq(Image) /\ Len(ShownImages) = Len(handled)
      /\ Len(SentImages) = Len(sent)
  BY <1>1, ImageSequences
<1>6. SentImages[k] = image
  BY <1>3 DEF SentImages
<1>7. ShownImages' = Append(ShownImages, image)
  <2>1. DOMAIN ShownImages' = 1..k
    BY <1>4 DEF ShownImages
  <2>2. ShownImages'[k] = image
    BY <1>1, <1>3, <1>4 DEF ShownImages
  <2>3. \A i \in 1..Len(handled) : ShownImages'[i] = ShownImages[i]
    BY <1>1, <1>4 DEF ShownImages
  <2>4. ShownImages' = [i \in 1..k |-> ShownImages'[i]]
    BY <2>1 DEF ShownImages
  <2>5. /\ DOMAIN Append(ShownImages, image) = 1..k
        /\ Append(ShownImages, image)[k] = image
        /\ \A i \in 1..Len(handled) :
             Append(ShownImages, image)[i] = ShownImages[i]
        /\ Append(ShownImages, image) =
             [i \in 1..k |-> Append(ShownImages, image)[i]]
    BY <1>1, <1>5
  <2>6. ASSUME NEW i \in 1..k
        PROVE  ShownImages'[i] = Append(ShownImages, image)[i]
    <3>1. i \in 1..Len(handled) \/ i = k
      BY <1>1
    <3>2. QED
      BY <3>1, <2>2, <2>3, <2>5
  <2>7. QED
    BY <2>4, <2>5, <2>6
<1>8. Len(ShownImages) < Len(SentImages)
  BY <1>1, <1>3, <1>5
<1>9. ShownImages' = Append(ShownImages, SentImages[Len(ShownImages) + 1])
  BY <1>5, <1>6, <1>7
<1>10. SentImages' = SentImages
  BY DEF SentImages
<1>11. (pc = "crashed") = FALSE /\ (pc' = "crashed") = FALSE
  BY <1>2
<1>12. QED
  BY <1>8, <1>9, <1>10, <1>11 DEF Delivery!Show, SentImages, ShownImages

LEMMA InitRefines == Init => Delivery!Init
<1>1. SUFFICES ASSUME Init PROVE Delivery!Init
  OBVIOUS
<1>2. sent = <<>> /\ handled = <<>> /\ (pc = "crashed") = FALSE
  BY <1>1 DEF Init
<1>3. /\ sent \in Seq(Frame) /\ Len(sent) = 0
      /\ handled \in Seq(Handed) /\ Len(handled) = 0
  BY <1>2
<1>4. /\ SentImages \in Seq(Image) /\ Len(SentImages) = 0
      /\ ShownImages \in Seq(Image) /\ Len(ShownImages) = 0
  BY <1>3, ImageSequences
<1>5. SentImages = <<>> /\ ShownImages = <<>>
  BY <1>4
<1>6. QED
  BY <1>2, <1>5 DEF Delivery!Init, SentImages, ShownImages

LEMMA NextRefines ==
  ASSUME IInv, [Next]_vars
  PROVE  [Delivery!Next]_(Delivery!vars)
<1> USE DEF Delivery!Next
<1>1. CASE ConnectServer
  <2>1. UNCHANGED <<sent, handled>> /\ pc # "crashed" /\ pc' # "crashed"
    BY <1>1 DEF ConnectServer
  <2>2. QED
    BY <2>1, QuietStep
<1>2. CASE \E len \in FrameLengths, pixel \in PixelWords : SendImage(len, pixel)
  BY <1>2, SendImageRefines
<1>3. CASE ServerExits
  <2>1. UNCHANGED <<sent, handled>> /\ pc # "crashed" /\ pc' # "crashed"
    BY <1>3 DEF ServerExits
  <2>2. QED
    BY <2>1, QuietStep
<1>4. CASE Callback
  <2>1. CASE \E n \in 1..BufferSize : Receive(n)
    <3>1. UNCHANGED <<sent, handled>> /\ pc # "crashed"
      BY <2>1 DEF Receive, StoreChunk
    <3>2. QED
      BY <3>1, QuietStep
  <2>2. CASE EndOfStream
    <3>1. UNCHANGED <<sent, handled>> /\ pc # "crashed"
      BY <2>2 DEF EndOfStream
    <3>2. QED
      BY <3>1, QuietStep
  <2>3. CASE ConnectionReset
    <3>1. UNCHANGED <<sent, handled>> /\ pc # "crashed"
      BY <2>3 DEF ConnectionReset
    <3>2. QED
      BY <3>1, QuietStep
  <2>4. CASE Decode
    <3>1. CASE HandlerThrows
      <4>1. UNCHANGED <<sent, handled>> /\ pc # "crashed"
        BY <3>1 DEF HandlerThrows, Invoke
      <4>2. QED
        BY <4>1, QuietStep
    <3>2. CASE TakeLast \/ TakeAndKeepRest \/ TakeAndContinue
      <4>1. Show /\ sent' = sent /\ pc' # "crashed"
        BY <3>2 DEF TakeLast, TakeAndKeepRest, KeepRest, TakeAndContinue, Show,
           Invoke
      <4>2. QED
        BY <4>1, ShowRefines
    <3>3. QED
      BY <2>4, <3>1, <3>2, LoopNeverFails DEF Decode
  <2>5. QED
    BY <2>1, <2>2, <2>3, <2>4, <1>4 DEF Callback
<1>5. CASE UNCHANGED vars
  BY <1>5 DEF vars, Delivery!vars
<1>6. QED
  BY <1>1, <1>2, <1>3, <1>4, <1>5 DEF Next, Stopped

\* The receiver of safe frames implements the safety part of ImageDelivery.
THEOREM ImplementsDeliverySafely ==
  ASSUME LoopIsSafe
  PROVE  Spec => Delivery!SafeSpec
<1>1. IInv /\ [Next]_vars => [Delivery!Next]_(Delivery!vars)
  BY NextRefines
<1>2. QED
  BY InitRefines, <1>1, InvariantHolds, PTL DEF Spec, Delivery!SafeSpec

-----------------------------------------------------------------------------
(* Frames of any lengths, as far as the receiver is right about them.  The *)
(* invariant does not say where in the stream rawData begins: TargetLength *)
(* may be the length of an earlier frame, or image data.                   *)

HandledBefore(p) == \A i \in DOMAIN handled : handled[i].start < p

\* Nothing handed over began after p, nor at p if a frame begins there.
HandledUpTo(p) ==
  \A i \in DOMAIN handled :
    handled[i].start <= p /\ (IsHeader(p) => handled[i].start < p)

\* Every byte written belongs to a frame, so a word read there is one of its.
StreamCovered ==
  \A p \in 0..(Written - 1) : \E i \in DOMAIN sent : Covers(sent[i], p)

BufferInStream ==
  /\ RawData.first <= RawData.length
  /\ RawData.length <= arrived

\* A frame that begins where rawData does is whole, or TargetLength says how
\* many bytes it wants.
FrameAtLoop ==
  \A j \in DOMAIN sent : sent[j].start = rawData =>
    TargetLength = sent[j].len \/ sent[j].len <= arrived - rawData

LoopPlaced ==
  /\ rawData < arrived
  /\ rawData <= arrived - RawData.length
  /\ TargetLength = 0 => ~IsHeader(rawData)
  /\ FrameAtLoop

\* The receiver never goes back, and stays at a place only where no frame
\* begins, for there alone a length of zero can be read.
OnlyForward ==
  /\ pc \in {"idle", "receive"} => HandledUpTo(arrived - RawData.length)
  /\ pc = "decode" => HandledUpTo(rawData)

AnyFramesIInv ==
  /\ TypeOK /\ StreamLaidOut /\ StreamCovered
  /\ BufferInStream
  /\ HandledBefore(arrived)
  /\ pc = "decode" => LoopPlaced
  /\ OnlyForward
  /\ ImagesAreWhole /\ NeverTwice

\* A word that is read is an integer.
LEMMA WordInStream ==
  ASSUME sent \in Seq(Frame), StreamCovered, Written \in Nat,
         NEW p \in Nat, p < Written
  PROVE  Word(p) \in Int
<1> DEFINE k == CHOOSE i \in DOMAIN sent : Covers(sent[i], p)
<1>1. \E i \in DOMAIN sent : Covers(sent[i], p)
  BY DEF StreamCovered
<1>2. k \in DOMAIN sent
  BY <1>1
<1>3. sent[k] \in Frame
  BY <1>2
<1>4. sent[k].len \in Int /\ sent[k].pixel \in Int
  <2>1. sent[k].len \in Nat
    BY <1>3, FrameFacts
  <2>2. sent[k].pixel \in PixelWords
    BY <1>3 DEF Frame
  <2>3. sent[k].pixel \in Int
    BY <2>2, PixelWordsAssumption
  <2> HIDE DEF k
  <2>4. QED
    BY <2>1, <2>3
<1>5. Word(p) \in {sent[k].len, sent[k].pixel}
  BY DEF Word
<1>6. QED
  BY <1>4, <1>5

\* Where a frame begins the word is not zero, being its length.
LEMMA HeaderNotZero ==
  ASSUME sent \in Seq(Frame), StreamLaidOut, NEW p \in Nat, IsHeader(p)
  PROVE  Word(p) # 0
<1>1. PICK j \in DOMAIN sent : sent[j].start = p
  BY DEF IsHeader
<1>2. sent[j] \in Frame
  OBVIOUS
<1>3. Word(p) = sent[j].len
  BY <1>1, WordAtHeader
<1>4. sent[j].len \in Nat /\ sent[j].len >= 17
  BY <1>2, FrameFacts
<1>5. QED
  BY <1>3, <1>4

LEMMA InitAnyFrames == Init => AnyFramesIInv
<1> SUFFICES ASSUME Init PROVE AnyFramesIInv
  OBVIOUS
<1>1. TypeOK /\ StreamLaidOut
  BY InitIInv DEF IInv
<1>2. StreamCovered
  BY DEF StreamCovered, Written, Init
<1>3. QED
  BY <1>1, <1>2 DEF Init, AnyFramesIInv, BufferInStream, HandledBefore,
     HandledUpTo, OnlyForward, ImagesAreWhole, NeverTwice, NoData

\* Steps that touch neither the stream nor the buffers.
LEMMA QuietAnyFrames ==
  ASSUME AnyFramesIInv, UNCHANGED <<sent, buffers, handled>>,
         link' \in {"open", "closed", "reset"},
         fault' \in {fault, "reset", "negativeLength", "noImage", "badHeader"},
         \/ pc' = pc
         \/ pc' \in {"ended", "crashed"}
         \/ pc' = "receive" /\ pc \in {"idle", "decode"}
  PROVE  AnyFramesIInv'
<1> USE DEF AnyFramesIInv, buffers
<1>1. /\ StreamLaidOut' /\ Written' = Written
  BY StreamUnchanged
<1>2. TypeOK'
  BY <1>1, ZenonT(30) DEF TypeOK
<1>3. StreamCovered'
  BY <1>1 DEF StreamCovered, Covers, End
<1>4. BufferInStream' /\ HandledBefore(arrived)'
  BY DEF BufferInStream, HandledBefore
<1>5. pc' = "decode" => LoopPlaced'
  BY DEF LoopPlaced, FrameAtLoop, IsHeader
<1>6. ImagesAreWhole' /\ NeverTwice'
  BY DEF ImagesAreWhole, NeverTwice, End, IsHeader
<1>7. \A p : HandledUpTo(p)' <=> HandledUpTo(p)
  BY DEF HandledUpTo, IsHeader
<1>8. OnlyForward'
  <2>1. CASE pc' = pc \/ pc' \in {"ended", "crashed"}
    BY <2>1 DEF OnlyForward, HandledUpTo, IsHeader
  <2>2. CASE pc' = "receive" /\ pc = "idle"
    BY <2>2 DEF OnlyForward, HandledUpTo, IsHeader
  <2>3. CASE pc' = "receive" /\ pc = "decode"
    <3>1. /\ rawData \in Nat /\ arrived \in Nat /\ RawData.length \in Nat
          /\ rawData <= arrived - RawData.length
          /\ handled \in Seq(Handed)
      BY <2>3, Numbers DEF LoopPlaced
    <3>2. ASSUME NEW i \in DOMAIN handled
          PROVE  /\ handled[i].start <= arrived - RawData.length
                 /\ IsHeader(arrived - RawData.length) =>
                      handled[i].start < arrived - RawData.length
      <4>1. handled[i].start \in Nat
        <5>1. handled[i] \in Handed
          BY <3>1
        <5>2. QED
          BY <5>1 DEF Handed
      <4>2. /\ handled[i].start <= rawData
            /\ IsHeader(rawData) => handled[i].start < rawData
        BY <2>3 DEF OnlyForward, HandledUpTo
      <4>3. CASE rawData = arrived - RawData.length
        BY <4>2, <4>3
      <4>4. CASE rawData < arrived - RawData.length
        BY <3>1, <4>1, <4>2, <4>4
      <4>5. QED
        BY <3>1, <4>3, <4>4
    <3>3. QED
      BY <2>3, <3>2 DEF OnlyForward, HandledUpTo, IsHeader
  <2>4. QED
    BY <2>1, <2>2, <2>3
<1>9. QED
  BY <1>1, <1>2, <1>3, <1>4, <1>5, <1>6, <1>8

\* Nothing handed over begins where the new frame does, so that it adds
\* nothing to what ImagesAreWhole asks.
LEMMA SendImageAnyFrames ==
  ASSUME AnyFramesIInv, NEW len \in FrameLengths, NEW pixel \in PixelWords,
         SendImage(len, pixel)
  PROVE  AnyFramesIInv'
<1> DEFINE f == [start |-> Written, len |-> len, pixel |-> pixel]
<1> DEFINE last == Len(sent) + 1
<1>1. TypeOK /\ StreamLaidOut
  BY DEF AnyFramesIInv
<1>2. /\ UNCHANGED <<link, arrived, RawData, TargetLength, CurrentLength,
                     rawData, pc, fault, handled>>
      /\ f.start = Written /\ f.len \in Nat
      /\ DOMAIN sent' = DOMAIN sent \union {last}
      /\ sent'[last] = f
      /\ \A i \in DOMAIN sent : sent'[i] = sent[i]
      /\ Written \in Nat /\ Written' = Written + f.len
      /\ TypeOK' /\ StreamLaidOut'
  <2>1. /\ UNCHANGED <<link, buffers, pc, fault, handled>>
        /\ f.start = Written /\ f.len \in Nat
        /\ DOMAIN sent = 1..Len(sent)
        /\ DOMAIN sent' = 1..(Len(sent) + 1)
        /\ sent'[Len(sent) + 1] = f
        /\ \A i \in DOMAIN sent : sent'[i] = sent[i]
        /\ Written \in Nat /\ Written' = Written + f.len
        /\ TypeOK' /\ StreamLaidOut'
    BY <1>1, SendImageStream
  <2>2. Len(sent) \in Nat
    BY <1>1, Numbers
  <2>3. QED
    BY <2>1, <2>2 DEF buffers
<1>3. arrived \in Nat /\ arrived <= Written /\ handled \in Seq(Handed)
      /\ RawData.length \in Nat /\ rawData \in Nat
  BY <1>1, Numbers
<1>4. StreamCovered'
  <2>1. SUFFICES ASSUME NEW p \in 0..(Written' - 1)
                 PROVE  \E i \in DOMAIN sent' : Covers(sent'[i], p)
    BY DEF StreamCovered, Covers, End
  <2>2. CASE p < Written
    <3>1. p \in 0..(Written - 1)
      BY <2>2, <1>2
    <3>2. PICK i \in DOMAIN sent : Covers(sent[i], p)
      BY <3>1 DEF AnyFramesIInv, StreamCovered
    <3>3. QED
      BY <3>2, <1>2
  <2>3. CASE ~(p < Written)
    <3>1. Covers(sent'[last], p)
      BY <2>3, <1>2 DEF Covers, End
    <3>2. QED
      BY <3>1, <1>2
  <2>4. QED
    BY <2>2, <2>3
<1>5. BufferInStream' /\ HandledBefore(arrived)'
  BY <1>2 DEF AnyFramesIInv, BufferInStream, HandledBefore
<1>6. \A p : IsHeader(p)' => IsHeader(p) \/ p = Written
  BY <1>2 DEF IsHeader
<1>7. ASSUME NEW i \in DOMAIN handled
      PROVE  handled[i].start \in Nat /\ handled[i].start < arrived
  <2>1. handled[i] \in Handed
    BY <1>3
  <2>2. QED
    BY <2>1 DEF Handed, AnyFramesIInv, HandledBefore
<1>8. ASSUME pc = "decode" PROVE LoopPlaced'
  <2>1. LoopPlaced
    BY <1>8 DEF AnyFramesIInv
  <2>2. sent'[last].start # rawData /\ rawData # Written
    BY <2>1, <1>2, <1>3 DEF LoopPlaced
  <2>3. TargetLength = 0 => ~IsHeader(rawData)'
    <3>1. IsHeader(rawData)' => IsHeader(rawData)
      BY <2>2, <1>2 DEF IsHeader
    <3>2. QED
      BY <3>1, <2>1 DEF LoopPlaced
  <2>4. FrameAtLoop'
    BY <2>1, <2>2, <1>2 DEF LoopPlaced, FrameAtLoop
  <2>5. QED
    BY <2>1, <2>3, <2>4, <1>2 DEF LoopPlaced, IsHeader
<1>9. OnlyForward'
  <2>1. ASSUME NEW p \in Int, HandledUpTo(p), p = Written => p = arrived
        PROVE  HandledUpTo(p)'
    <3>1. SUFFICES ASSUME NEW i \in DOMAIN handled
                   PROVE  /\ handled[i].start <= p
                          /\ IsHeader(p)' => handled[i].start < p
      BY <1>2 DEF HandledUpTo
    <3>2. /\ handled[i].start <= p
          /\ IsHeader(p) => handled[i].start < p
      BY <2>1 DEF HandledUpTo
    <3>3. p = Written => handled[i].start < p
      BY <2>1, <1>7
    <3>4. QED
      BY <3>2, <3>3, <1>6
  <2>2. CASE pc \in {"idle", "receive"}
    <3>1. HandledUpTo(arrived - RawData.length)
      BY <2>2 DEF AnyFramesIInv, OnlyForward
    <3>2. /\ arrived - RawData.length \in Int
          /\ arrived - RawData.length = Written =>
               arrived - RawData.length = arrived
      BY <1>2, <1>3
    <3>3. HandledUpTo(arrived - RawData.length)'
      BY <3>1, <3>2, <2>1, <1>2 DEF HandledUpTo, IsHeader
    <3>4. QED
      BY <3>3, <2>2, <1>2 DEF OnlyForward
  <2>3. CASE pc = "decode"
    <3>1. HandledUpTo(rawData) /\ rawData < arrived
      BY <2>3 DEF AnyFramesIInv, OnlyForward, LoopPlaced
    <3>2. rawData \in Int /\ rawData # Written
      BY <3>1, <1>2, <1>3
    <3>3. HandledUpTo(rawData)'
      BY <3>1, <3>2, <2>1, <1>2 DEF HandledUpTo, IsHeader
    <3>4. QED
      BY <3>3, <2>3, <1>2 DEF OnlyForward
  <2>4. QED
    BY <2>2, <2>3, <1>2 DEF OnlyForward
<1>10. \A i \in DOMAIN handled : handled[i].start # Written
  BY <1>2, <1>3, <1>7
<1>11. ImagesAreWhole'
  BY <1>2, <1>10 DEF AnyFramesIInv, ImagesAreWhole, End
<1>12. NeverTwice'
  BY <1>2, <1>6, <1>10 DEF AnyFramesIInv, NeverTwice
<1>13. QED
  BY <1>2, <1>4, <1>5, <1>8, <1>9, <1>11, <1>12 DEF AnyFramesIInv

\* A chunk is added in front of the loop, which begins where the buffer does.
LEMMA ReceiveAnyFrames ==
  ASSUME AnyFramesIInv, NEW n \in 1..BufferSize, Receive(n)
  PROVE  AnyFramesIInv'
<1> DEFINE p == arrived' - RawData'.length
<1>1. /\ TypeOK /\ StreamLaidOut /\ StreamCovered /\ BufferInStream
      /\ HandledBefore(arrived) /\ ImagesAreWhole /\ NeverTwice
  BY DEF AnyFramesIInv
<1>2. /\ pc = "receive" /\ n <= Written - arrived
      /\ arrived' = arrived + n
      /\ RawData' = AddChunk(n)
      /\ CurrentLength' = CurrentLength + n
      /\ UNCHANGED <<sent, link, handled>>
  BY ZenonT(20) DEF Receive, StoreChunk
<1>3. n \in Nat /\ n > 0
  BY BufferSizeAssumption
<1>4. /\ RawData.length \in Nat /\ RawData.first \in Nat
      /\ RawData.first <= RawData.length /\ RawData.length <= arrived
      /\ arrived \in Nat /\ Written \in Nat /\ CurrentLength \in Nat
      /\ rawData \in Nat /\ TargetLength \in Int
      /\ sent \in Seq(Frame) /\ handled \in Seq(Handed)
      /\ DOMAIN sent = 1..Len(sent)
  BY <1>1, Numbers DEF BufferInStream
<1>5. /\ RawData' \in [first : Nat, length : Nat]
      /\ RawData'.length = RawData.length + n
      /\ RawData'.first <= RawData'.length
  BY <1>2, <1>3, <1>4 DEF AddChunk
<1>6. /\ arrived' \in 0..Written /\ arrived' \in Nat
      /\ p = arrived - RawData.length /\ p \in Nat
      /\ p < arrived' /\ p < Written
      /\ RawData'.length <= arrived'
      /\ CurrentLength' \in Nat
  BY <1>2, <1>3, <1>4, <1>5
<1>7. StreamLaidOut' /\ Written' = Written
  BY <1>1, <1>2 DEF StreamLaidOut, Written, End
<1>8. /\ StreamCovered' /\ BufferInStream' /\ ImagesAreWhole' /\ NeverTwice'
  BY <1>1, <1>2, <1>5, <1>6, <1>7
     DEF StreamCovered, Covers, End, BufferInStream, ImagesAreWhole, NeverTwice,
         IsHeader
<1>9. HandledBefore(arrived)'
  <2>1. ASSUME NEW i \in DOMAIN handled PROVE handled[i].start < arrived'
    <3>1. handled[i] \in Handed /\ handled[i].start < arrived
      BY <1>1, <1>4 DEF HandledBefore
    <3>2. handled[i].start \in Nat
      BY <3>1 DEF Handed
    <3>3. QED
      BY <3>1, <3>2, <1>2, <1>3, <1>4
  <2>2. QED
    BY <2>1, <1>2 DEF HandledBefore
<1>10. HandledUpTo(p)
  BY <1>2, <1>6 DEF AnyFramesIInv, OnlyForward
<1>11. /\ Word(p) \in Int
       /\ Word(p) = 0 => ~IsHeader(p)
       /\ \A j \in DOMAIN sent : sent[j].start = p => Word(p) = sent[j].len
  BY <1>1, <1>4, <1>6, WordInStream, WordAtHeader, HeaderNotZero
<1>12. TypeOK' <=> /\ TargetLength' \in Int /\ rawData' \in Nat
                   /\ pc' \in {"idle", "receive", "decode", "ended", "crashed"}
                   /\ fault' \in {"none", "splitHeader", "reset",
                                  "negativeLength", "noImage", "badHeader"}
  BY <1>1, <1>2, <1>5, <1>6, <1>7, ZenonT(30) DEF TypeOK
<1>13. ASSUME ReadLength
       PROVE  TargetLength' = Word(p) /\ fault' = fault
  BY <1>13 DEF ReadLength
<1>14. fault \in {"none", "splitHeader", "reset", "negativeLength", "noImage", "badHeader"}
  BY <1>1 DEF TypeOK
<1> HIDE DEF p
<1>15. CASE HeaderSplit
  <2>1. pc' = "crashed" /\ fault' = "splitHeader"
        /\ TargetLength' = TargetLength /\ rawData' = rawData
    BY <1>15 DEF HeaderSplit, Throw
  <2>2. TypeOK'
    BY <2>1, <1>4, <1>12
  <2>3. QED
    BY <2>1, <2>2, <1>7, <1>8, <1>9 DEF AnyFramesIInv, OnlyForward
<1>16. CASE FrameComplete
  <2>1. /\ TargetLength' = Word(p) /\ fault' = fault
        /\ pc' = "decode" /\ rawData' = p
    BY <1>13, <1>16 DEF FrameComplete, p
  <2>2. TypeOK'
    BY <2>1, <1>6, <1>11, <1>12, <1>14
  <2>3. LoopPlaced'
    BY <2>1, <1>2, <1>6, <1>11 DEF LoopPlaced, FrameAtLoop, IsHeader, p
  <2>4. OnlyForward'
    BY <2>1, <1>2, <1>10 DEF OnlyForward, HandledUpTo, IsHeader
  <2>5. QED
    BY <2>2, <2>3, <2>4, <1>7, <1>8, <1>9 DEF AnyFramesIInv
<1>17. CASE FrameIncomplete
  <2>1. /\ TargetLength' = Word(p) /\ fault' = fault
        /\ pc' = "receive" /\ rawData' = rawData
    BY <1>2, <1>13, <1>17 DEF FrameIncomplete
  <2>2. TypeOK'
    BY <2>1, <1>4, <1>11, <1>12, <1>14
  <2>3. OnlyForward'
    BY <2>1, <1>2, <1>10 DEF OnlyForward, HandledUpTo, IsHeader, p
  <2>4. QED
    BY <2>1, <2>2, <2>3, <1>7, <1>8, <1>9 DEF AnyFramesIInv
<1>18. QED
  BY <1>15, <1>16, <1>17 DEF Receive

\* An iteration hands over the frame at rawData whole, if there is one, and
\* nothing that was handed over before.
LEMMA ShowAnyFrames ==
  ASSUME AnyFramesIInv, Show, UNCHANGED <<sent, link, arrived, fault>>,
         RawData' \in [first : Nat, length : Nat],
         RawData'.first <= RawData'.length, RawData'.length <= arrived,
         TargetLength' \in Int, CurrentLength' \in Nat, rawData' \in Nat,
         pc' \in {"receive", "decode"}
  PROVE  /\ TypeOK' /\ StreamLaidOut' /\ StreamCovered'
         /\ BufferInStream' /\ HandledBefore(arrived)'
         /\ ImagesAreWhole' /\ NeverTwice'
         /\ \A i \in DOMAIN handled' : /\ handled'[i].start \in Nat
                                       /\ handled'[i].start <= rawData
<1> DEFINE h == [start |-> rawData, len |-> Word(rawData), upto |-> arrived]
<1> DEFINE last == Len(handled) + 1
<1>1. /\ TypeOK /\ StreamLaidOut /\ StreamCovered
      /\ HandledBefore(arrived) /\ ImagesAreWhole /\ NeverTwice
      /\ pc = "decode" /\ LoopPlaced /\ HandledUpTo(rawData)
  BY DEF AnyFramesIInv, OnlyForward, Show, Invoke
<1>2. /\ arrived \in Nat /\ rawData \in Nat /\ Written \in Nat
      /\ arrived <= Written /\ TargetLength \in Int
      /\ sent \in Seq(Frame) /\ handled \in Seq(Handed)
      /\ Len(handled) \in Nat /\ DOMAIN handled = 1..Len(handled)
      /\ DOMAIN sent = 1..Len(sent)
  BY <1>1, Numbers
<1>3. /\ handled' = Append(handled, h)
      /\ arrived - rawData >= TargetLength /\ TargetLength >= 0
  BY DEF Show, Invoke, LoopContinues
<1>4. rawData < arrived
  BY <1>1 DEF LoopPlaced
<1>5. Word(rawData) \in Int
  BY <1>1, <1>2, <1>4, WordInStream
<1>6. h \in Handed
  BY <1>2, <1>5 DEF Handed
<1>7. /\ handled' \in Seq(Handed)
      /\ DOMAIN handled' = DOMAIN handled \union {last}
      /\ last \notin DOMAIN handled
      /\ \A i \in DOMAIN handled : i < last
      /\ handled'[last] = h
      /\ \A i \in DOMAIN handled : handled'[i] = handled[i]
  BY <1>2, <1>3, <1>6
<1>8. \A i \in DOMAIN handled : handled[i] \in Handed /\ handled[i].start \in Nat
  <2>1. ASSUME NEW i \in DOMAIN handled PROVE handled[i] \in Handed
    BY <1>2
  <2>2. QED
    BY <2>1 DEF Handed
<1>9. StreamLaidOut' /\ Written' = Written /\ StreamCovered'
  BY <1>1 DEF StreamLaidOut, Written, StreamCovered, Covers, End
<1>10. BufferInStream'
  BY DEF BufferInStream
<1>11. HandledBefore(arrived)'
  BY <1>1, <1>4, <1>7 DEF HandledBefore
<1>12. TypeOK'
  BY <1>1, <1>7, <1>9, ZenonT(60) DEF TypeOK, Handed
<1>13. ImagesAreWhole'
  <2>1. ASSUME NEW j \in DOMAIN sent, sent[j].start = rawData
        PROVE  End(sent[j]) <= arrived
    <3>1. sent[j] \in Frame
      BY <1>2
    <3>2. sent[j].len \in Nat /\ End(sent[j]) = rawData + sent[j].len
      BY <2>1, <3>1, FrameFacts
    <3>3. sent[j].len <= arrived - rawData
      BY <2>1, <1>1, <1>3, <1>2, <3>2 DEF LoopPlaced, FrameAtLoop
    <3>4. QED
      BY <3>2, <3>3, <1>2
  <2>2. QED
    BY <2>1, <1>1, <1>7 DEF ImagesAreWhole, End
<1>14. \A p : IsHeader(p)' <=> IsHeader(p)
  BY DEF IsHeader
<1>15. NeverTwice'
  <2>1. SUFFICES ASSUME NEW i \in DOMAIN handled', NEW j \in DOMAIN handled',
                        i < j
                 PROVE  /\ handled'[i].start <= handled'[j].start
                        /\ IsHeader(handled'[j].start) =>
                             handled'[i].start < handled'[j].start
    BY <1>14 DEF NeverTwice
  <2>2. i \in DOMAIN handled
    BY <2>1, <1>2, <1>7
  <2>3. CASE j \in DOMAIN handled
    BY <2>1, <2>2, <2>3, <1>1, <1>7 DEF NeverTwice
  <2>4. CASE j = last
    BY <2>2, <2>4, <1>1, <1>7 DEF HandledUpTo
  <2>5. QED
    BY <2>3, <2>4, <1>7
<1>16. ASSUME NEW i \in DOMAIN handled'
       PROVE  handled'[i].start \in Nat /\ handled'[i].start <= rawData
  <2>1. CASE i \in DOMAIN handled
    BY <2>1, <1>1, <1>7, <1>8 DEF HandledUpTo
  <2>2. CASE i = last
    BY <2>2, <1>2, <1>7
  <2>3. QED
    BY <2>1, <2>2, <1>7
<1>17. QED
  BY <1>9, <1>10, <1>11, <1>12, <1>13, <1>15, <1>16

\* After an iteration the receiver is TargetLength further on: at the same
\* place only if no frame begins there.
LEMMA IterationAnyFrames ==
  ASSUME AnyFramesIInv, TakeLast \/ TakeAndKeepRest \/ TakeAndContinue
  PROVE  AnyFramesIInv'
<1>1. /\ TypeOK /\ StreamLaidOut /\ StreamCovered /\ BufferInStream
      /\ pc = "decode" /\ LoopPlaced /\ Show /\ UNCHANGED sent
  BY DEF AnyFramesIInv, TakeLast, TakeAndKeepRest, KeepRest,
     TakeAndContinue, Show, Invoke
<1>2. /\ arrived \in Nat /\ rawData \in Nat /\ TargetLength \in Int
      /\ CurrentLength \in Nat /\ RawData \in [first : Nat, length : Nat]
      /\ RawData.first <= RawData.length /\ RawData.length <= arrived
      /\ rawData < arrived
      /\ sent \in Seq(Frame) /\ DOMAIN sent = 1..Len(sent)
  BY <1>1, Numbers DEF BufferInStream, LoopPlaced
<1>3. /\ TargetLength \in Nat /\ arrived - rawData >= TargetLength
      /\ Rest = rawData + TargetLength /\ Rest \in Nat
      /\ RemainBytes = arrived - Rest /\ RemainBytes \in Nat
      /\ RemainBytes <= arrived
  <2>1. TargetLength >= 0 /\ arrived - rawData >= TargetLength
    BY <1>1 DEF Show, Invoke, LoopContinues
  <2>2. QED
    BY <2>1, <1>2 DEF Rest, RemainBytes
<1>4. ASSUME \A i \in DOMAIN handled' : /\ handled'[i].start \in Nat
                                       /\ handled'[i].start <= rawData
      PROVE  \A i \in DOMAIN handled' :
               /\ handled'[i].start <= Rest
               /\ IsHeader(Rest) => handled'[i].start < Rest
  <2>1. SUFFICES ASSUME NEW i \in DOMAIN handled'
                 PROVE  /\ handled'[i].start <= Rest
                        /\ IsHeader(Rest) => handled'[i].start < Rest
    OBVIOUS
  <2>2. handled'[i].start \in Nat /\ handled'[i].start <= rawData
    BY <1>4
  <2>3. CASE TargetLength = 0
    <3>1. Rest = rawData /\ ~IsHeader(rawData)
      BY <2>3, <1>1, <1>2, <1>3 DEF LoopPlaced
    <3>2. QED
      BY <3>1, <2>2
  <2>4. CASE TargetLength > 0
    BY <2>2, <2>4, <1>2, <1>3
  <2>5. QED
    BY <2>3, <2>4, <1>3
<1>5. CASE TakeLast
  <2>1. /\ UNCHANGED <<sent, link, arrived, rawData, fault>>
        /\ RawData' = [first |-> 0, length |-> 0]
        /\ TargetLength' = 0 /\ CurrentLength' = 0
        /\ pc' = "receive"
    BY <1>5 DEF TakeLast, NoData
  <2>2. /\ TypeOK' /\ StreamLaidOut' /\ StreamCovered' /\ BufferInStream'
        /\ HandledBefore(arrived)' /\ ImagesAreWhole' /\ NeverTwice'
        /\ \A i \in DOMAIN handled' : handled'[i].start \in Nat
    BY <2>1, <1>1, <1>2, ShowAnyFrames
  <2>3. arrived' - RawData'.length = arrived'
    BY <2>1, <1>2
  <2>4. \A i \in DOMAIN handled' : handled'[i].start < arrived'
    BY <2>2 DEF HandledBefore
  <2>5. HandledUpTo(arrived - RawData.length)'
    BY <2>1, <2>2, <2>3, <2>4, <1>2 DEF HandledUpTo
  <2>6. QED
    BY <2>1, <2>2, <2>5 DEF AnyFramesIInv, OnlyForward
<1>6. CASE TakeAndKeepRest
  <2>1. /\ UNCHANGED <<sent, link, arrived, TargetLength, rawData, fault>>
        /\ RawData' = [first |-> RemainBytes, length |-> RemainBytes]
        /\ CurrentLength' = RemainBytes
        /\ pc' = "receive"
    BY <1>6 DEF TakeAndKeepRest, KeepRest
  <2>2. /\ TypeOK' /\ StreamLaidOut' /\ StreamCovered' /\ BufferInStream'
        /\ HandledBefore(arrived)' /\ ImagesAreWhole' /\ NeverTwice'
        /\ \A i \in DOMAIN handled' : /\ handled'[i].start \in Nat
                                      /\ handled'[i].start <= rawData
    BY <2>1, <1>1, <1>2, <1>3, ShowAnyFrames
  <2>3. arrived' - RawData'.length = Rest
    BY <2>1, <1>2, <1>3
  <2>4. HandledUpTo(arrived - RawData.length)'
    BY <2>2, <2>3, <1>1, <1>4 DEF HandledUpTo, IsHeader
  <2>5. QED
    BY <2>1, <2>2, <2>4 DEF AnyFramesIInv, OnlyForward
<1>7. CASE TakeAndContinue
  <2>1. /\ UNCHANGED <<sent, link, arrived, TargetLength, CurrentLength, pc,
                       fault>>
        /\ RawData' = [first |-> 0, length |-> 0]
        /\ rawData' = Rest
        /\ RemainBytes > 0 /\ RemainBytes >= Word(Rest)
    BY <1>7 DEF TakeAndContinue, NextIsWhole, NoData
  <2>2. /\ TypeOK' /\ StreamLaidOut' /\ StreamCovered' /\ BufferInStream'
        /\ HandledBefore(arrived)' /\ ImagesAreWhole' /\ NeverTwice'
        /\ \A i \in DOMAIN handled' : /\ handled'[i].start \in Nat
                                      /\ handled'[i].start <= rawData
    BY <2>1, <1>1, <1>2, <1>3, ShowAnyFrames
  <2>3. LoopPlaced'
    <3>1. ASSUME NEW j \in DOMAIN sent, sent[j].start = Rest
          PROVE  sent[j].len <= arrived - Rest
      BY <3>1, <2>1, <1>1, <1>2, <1>3, WordAtHeader
    <3>2. TargetLength = 0 => ~IsHeader(Rest)
      <4>1. TargetLength = 0 => Rest = rawData
        BY <1>2, <1>3
      <4>2. QED
        BY <4>1, <1>1 DEF LoopPlaced
    <3>3. FrameAtLoop'
      BY <3>1, <2>1 DEF FrameAtLoop
    <3>4. rawData' < arrived' /\ rawData' <= arrived' - RawData'.length
      BY <2>1, <1>2, <1>3
    <3>5. QED
      BY <2>1, <3>2, <3>3, <3>4 DEF LoopPlaced, IsHeader
  <2>4. HandledUpTo(rawData)'
    BY <2>1, <2>2, <1>1, <1>4 DEF HandledUpTo, IsHeader
  <2>5. OnlyForward'
    BY <2>1, <2>4, <1>1 DEF OnlyForward
  <2>6. QED
    BY <2>2, <2>3, <2>5 DEF AnyFramesIInv
<1>8. QED
  BY <1>5, <1>6, <1>7

LEMMA NextAnyFrames ==
  ASSUME AnyFramesIInv, [Next]_vars
  PROVE  AnyFramesIInv'
<1>1. link \in {"open", "closed", "reset"}
  BY DEF AnyFramesIInv, TypeOK
<1>2. CASE \E len \in FrameLengths, pixel \in PixelWords : SendImage(len, pixel)
  BY <1>2, SendImageAnyFrames
<1>3. CASE \E n \in 1..BufferSize : Receive(n)
  BY <1>3, ReceiveAnyFrames
<1>4. CASE TakeLast \/ TakeAndKeepRest \/ TakeAndContinue
  BY <1>4, IterationAnyFrames
<1>5. CASE ConnectServer \/ ServerExits \/ EndOfStream \/ LoopEnds
  BY <1>1, <1>5, QuietAnyFrames
     DEF ConnectServer, ServerExits, EndOfStream, LoopEnds
<1>6. CASE ConnectionReset \/ NegativeLength \/ HandlerThrows
  BY <1>1, <1>6, QuietAnyFrames
     DEF ConnectionReset, NegativeLength, HandlerThrows, Throw
<1>7. CASE Stopped \/ UNCHANGED vars
  BY <1>1, <1>7, QuietAnyFrames DEF Stopped, vars, buffers
<1>8. QED
  BY <1>2, <1>3, <1>4, <1>5, <1>6, <1>7 DEF Next, Callback, Decode

\* AnyFramesIInv is an invariant of the receiver of any frames.
THEOREM AnyFramesInvariant == Spec => []AnyFramesIInv
<1>1. AnyFramesIInv /\ [Next]_vars => AnyFramesIInv'
  BY NextAnyFrames
<1>2. QED
  BY InitAnyFrames, <1>1, PTL DEF Spec

\* The variables of the receiver keep their types, whatever the frames.
THEOREM TypeCorrect == Spec => []TypeOK
<1>1. AnyFramesIInv => TypeOK
  BY DEF AnyFramesIInv
<1>2. QED
  BY <1>1, AnyFramesInvariant, PTL

\* Even when frames are cut in the wrong places, what ReceiveCallback hands
\* over for an image has all of it.
THEOREM ImagesAlwaysWhole == Spec => []ImagesAreWhole
<1>1. AnyFramesIInv => ImagesAreWhole
  BY DEF AnyFramesIInv
<1>2. QED
  BY <1>1, AnyFramesInvariant, PTL

\* Nor does it hand over an image twice or after a later one, even when it
\* goes round without getting on because image data reads as a length of zero.
THEOREM NoImageTwice == Spec => []NeverTwice
<1>1. AnyFramesIInv => NeverTwice
  BY DEF AnyFramesIInv
<1>2. QED
  BY <1>1, AnyFramesInvariant, PTL
=============================================================================
