------------------------------- MODULE JpegBits -------------------------------
(***************************************************************************)
(* How the sequential Huffman encoder (jchuff.c) turns codes into bytes,   *)
(* and how these leave through a data destination (jdatadst.c) that may be *)
(* memory that grows, as in EncodeImageToJpegByteStream, a file, or an     *)
(* application's buffer that has to be emptied before the encoder can go   *)
(* on.  An MCU is encoded on a copy of the state, which is taken over only *)
(* when all of it is in the buffer.                                        *)
(*                                                                         *)
(* A byte has ByteBits bits, and with it every other width: put_buffer     *)
(* holds three bytes, an int four, and a code at most two.  Which codes an *)
(* MCU has is any choice of Codes.                                         *)
(***************************************************************************)
EXTENDS Integers, SequencesExt

CONSTANTS
  ByteBits,
  Codes,            \* records [code, size]; code may be negative
  MaxCodes,         \* bound: codes of an MCU
  MaxMcus,          \* bound: MCUs of the image
  RstMarkers,       \* restart markers (8 of them) are 1..RstMarkers
  Eoi,              \* the byte of the end marker
  Setups,           \* destinations and restart intervals (SetupsAssumption)
  Blank             \* memory nothing was written to

\* 1 << n; the provers know nothing of 2^n.
Pow2[n \in Nat] == IF n = 0 THEN 1 ELSE 2 * Pow2[n - 1]

ASSUME WidthsAssumption ==
  /\ ByteBits \in Nat /\ ByteBits >= 2
  /\ \A c \in Codes : c.size \in 1..(2 * ByteBits) /\ c.code \in Int
  /\ MaxCodes \in Nat /\ MaxMcus \in Nat
  /\ RstMarkers \in 1..(Pow2[ByteBits] - 2) /\ Eoi \in 1..(Pow2[ByteBits] - 2)
\* size is OUTPUT_BUF_SIZE, or that of the application's buffer; interval is
\* restart_interval, or 0.
ASSUME SetupsAssumption ==
  \A s \in Setups :
    /\ s.manager \in {"memory", "file", "suspending"}
    /\ s.size \in Nat \ {0}
    /\ s.interval \in Nat

VARIABLES
  setup,            \* one of Setups
  pc,               \* what is being done
  saved,            \* put_buffer and put_bits after the MCUs written
  cur,              \* those of the MCU being written
  local,            \* those of the call of emit_bits
  todo,             \* what is still to be written of it
  stuffing,         \* the byte written last was all ones and wants a zero
  mcu,              \* its codes
  restarts,         \* restarts_to_go and next_restart_num
  dest,             \* next byte and room in the buffer, and its size
  work,             \* next byte and room while the MCU is written
  buffer,           \* the bytes of the buffer, from 0
  file,             \* what has left the buffer
  segments          \* history: the bits of the MCUs, by restart interval

mcuVars == <<cur, local, todo, stuffing, mcu>>
vars == <<setup, pc, saved, mcuVars, restarts, dest, work, buffer, file, segments>>

AllOnes == Pow2[ByteBits] - 1
NoBits == [put_buffer |-> 0, put_bits |-> 0]

Init ==
  /\ setup \in Setups
  /\ pc = "idle"
  /\ saved = NoBits /\ cur = NoBits /\ local = NoBits
  /\ todo = <<>> /\ stuffing = FALSE /\ mcu = <<>>
  /\ restarts = [to_go |-> setup.interval, next_num |-> 0]
  /\ dest = [next |-> 0, free |-> setup.size, size |-> setup.size]
  /\ work = [next |-> 0, free |-> setup.size]
  /\ buffer = [i \in 0..(setup.size - 1) |-> Blank]
  /\ file = <<>>
  /\ segments = <<<<>>>>

Written == [i \in 1..dest.next |-> buffer[i - 1]]

-----------------------------------------------------------------------------
(* encode_mcu_huff.  What an MCU writes is a sequence of operations: codes, *)
(* bytes that are no data, and the reset of the bit buffer after a flush.  *)

Code(code, size) == [op |-> "code", code |-> code, size |-> size]
Byte(val) == [op |-> "byte", val |-> val]
Reset == [op |-> "reset"]

\* flush_bits_s: any partial byte is filled up with ones.
Flush == <<Code(AllOnes \div 2, ByteBits - 1), Reset>>

\* emit_restart_s
Restart == Flush \o <<Byte(AllOnes), Byte(1 + restarts.next_num)>>

RestartDue == setup.interval > 0 /\ restarts.to_go = 0

\* The copy of the state is made.
Load(codes, operations) ==
  /\ mcu' = codes
  /\ todo' = operations
  /\ cur' = saved
  /\ work' = [next |-> dest.next, free |-> dest.free]
  /\ pc' = "emit"
  /\ UNCHANGED <<setup, saved, local, stuffing, restarts, dest, buffer, file, segments>>

Operations(codes) ==
  (IF RestartDue THEN Restart ELSE <<>>)
    \o [i \in DOMAIN codes |-> Code(codes[i].code, codes[i].size)]

StartMcu(codes) ==
  /\ pc = "idle"
  /\ Len(FlattenSeq(segments)) < MaxMcus
  /\ Load(codes, Operations(codes))

\* The application gives the line again without making room.
RetryFull ==
  /\ pc = "suspended"
  /\ Load(mcu, Operations(mcu))

\* The application has made room and gives the line again that was not taken.
RetryMcu ==
  /\ pc = "suspended"
  /\ dest.next = 0
  /\ Load(mcu, Operations(mcu))

\* emit_bits_s up to its loop: the bits are put after those that wait, where
\* cur.put_buffer has zeros (TypeOK), so that | is an addition.
EmitBits ==
  /\ pc = "emit"
  /\ todo # <<>> /\ Head(todo).op = "code"
  /\ LET size == Head(todo).size
         masked == Head(todo).code % Pow2[size]
         put_bits == size + cur.put_bits
         aligned == masked * Pow2[3 * ByteBits - put_bits]
     IN  local' = [put_buffer |-> aligned + cur.put_buffer,
                   put_bits |-> put_bits]
  /\ pc' = "shift"
  /\ UNCHANGED <<setup, saved, cur, todo, stuffing, mcu, restarts, dest, work, buffer,
                 file, segments>>

\* A byte too many is awaited.
ByteReadyLate == local.put_bits > ByteBits

ByteReady == local.put_bits >= ByteBits

\* Its byte, the topmost of the three.
TopByte == (local.put_buffer \div Pow2[2 * ByteBits]) % Pow2[ByteBits]

\* put_buffer <<= 8 in a word of four bytes
Shifted ==
  [put_buffer |-> (local.put_buffer * Pow2[ByteBits]) % Pow2[4 * ByteBits],
   put_bits |-> local.put_bits - ByteBits]

\* What emit_byte_s puts into the buffer now.
NextByte == IF pc = "emit" THEN Head(todo).val
            ELSE IF stuffing THEN 0 ELSE TopByte

WantsByte ==
  \/ pc = "emit" /\ todo # <<>> /\ Head(todo).op = "byte"
  \/ pc = "shift" /\ (stuffing \/ ByteReady)

\* After it.
ByteEmitted ==
  IF pc = "emit"
  THEN todo' = Tail(todo) /\ UNCHANGED <<local, stuffing>>
  ELSE IF ~stuffing /\ TopByte = AllOnes
  THEN stuffing' = TRUE /\ UNCHANGED <<local, todo>>
  ELSE stuffing' = FALSE /\ local' = Shifted /\ UNCHANGED todo

Stored == [buffer EXCEPT ![work.next] = NextByte]

\* emit_byte_s with room left after it.
EmitByte ==
  /\ WantsByte
  /\ work.free > 1
  /\ buffer' = Stored
  /\ work' = [next |-> work.next + 1, free |-> work.free - 1]
  /\ ByteEmitted
  /\ UNCHANGED <<setup, pc, saved, cur, mcu, restarts, dest, file, segments>>

\* empty_mem_output_buffer: twice the size, with what there is in front.
GrowBuffer ==
  /\ WantsByte
  /\ work.free = 1
  /\ setup.manager = "memory"
  /\ buffer' = [i \in 0..(2 * dest.size - 1) |->
                  IF i < dest.size THEN Stored[i] ELSE Blank]
  /\ dest' = [next |-> dest.size, free |-> dest.size, size |-> 2 * dest.size]
  /\ work' = [next |-> dest.size, free |-> dest.size]
  /\ ByteEmitted
  /\ UNCHANGED <<setup, pc, saved, cur, mcu, restarts, file, segments>>

\* empty_output_buffer: all of it goes to the file.
WriteBuffer ==
  /\ WantsByte
  /\ work.free = 1
  /\ setup.manager = "file"
  /\ file' = file \o [i \in 1..setup.size |-> Stored[i - 1]]
  /\ buffer' = Stored
  /\ dest' = [dest EXCEPT !.next = 0, !.free = setup.size]
  /\ work' = [next |-> 0, free |-> setup.size]
  /\ ByteEmitted
  /\ UNCHANGED <<setup, pc, saved, cur, mcu, restarts, segments>>

\* The bits of the MCU are kept though its bytes are not.
SuspendKeepsBits ==
  /\ WantsByte
  /\ work.free = 1
  /\ setup.manager = "suspending"
  /\ buffer' = Stored
  /\ pc' = IF mcu = <<>> THEN "failed" ELSE "suspended"
  /\ todo' = <<>> /\ stuffing' = FALSE
  /\ saved' = cur
  /\ UNCHANGED <<setup, cur, local, mcu, restarts, dest, work, file, segments>>

\* The application's returns FALSE.  What was written of the MCU is forgotten;
\* in finish_pass_huff and for markers that is an error.
SuspendMcu ==
  /\ WantsByte
  /\ work.free = 1
  /\ setup.manager = "suspending"
  /\ buffer' = Stored
  /\ pc' = IF mcu = <<>> THEN "failed" ELSE "suspended"
  /\ todo' = <<>> /\ stuffing' = FALSE
  /\ UNCHANGED <<setup, saved, cur, local, mcu, restarts, dest, work, file, segments>>

\* The end of emit_bits_s.
BitsEmitted ==
  /\ pc = "shift"
  /\ ~stuffing /\ ~ByteReady
  /\ cur' = local
  /\ todo' = Tail(todo)
  /\ pc' = "emit"
  /\ UNCHANGED <<setup, saved, local, stuffing, mcu, restarts, dest, work, buffer,
                 file, segments>>

ResetBits ==
  /\ pc = "emit"
  /\ todo # <<>> /\ Head(todo).op = "reset"
  /\ cur' = NoBits
  /\ todo' = Tail(todo)
  /\ UNCHANGED <<setup, pc, saved, local, stuffing, mcu, restarts, dest, work, buffer,
                 file, segments>>

\* "Completed MCU, so update state".
RestartsAfterMcu ==
  IF setup.interval = 0 THEN restarts
  ELSE IF RestartDue
  THEN [to_go |-> setup.interval - 1,
        next_num |-> (restarts.next_num + 1) % RstMarkers]
  ELSE [restarts EXCEPT !.to_go = @ - 1]

TakeOver ==
  /\ saved' = cur
  /\ dest' = [dest EXCEPT !.next = work.next, !.free = work.free]

SegmentsAfterMcu ==
  IF RestartDue THEN Append(segments, <<mcu>>)
  ELSE [segments EXCEPT ![Len(segments)] = Append(@, mcu)]

CompleteMcu ==
  /\ pc = "emit"
  /\ todo = <<>> /\ mcu # <<>>
  /\ TakeOver
  /\ restarts' = RestartsAfterMcu
  /\ segments' = SegmentsAfterMcu
  /\ pc' = "idle"
  /\ UNCHANGED <<setup, mcuVars, work, buffer, file>>

\* finish_pass_huff and write_file_trailer
FinishPass ==
  /\ pc = "idle"
  /\ segments # <<<<>>>>
  /\ Load(<<>>, Flush \o <<Byte(AllOnes), Byte(Eoi)>>)

\* term_destination writes what is left; *outsize is the same for memory.
TermDestination ==
  /\ pc = "emit"
  /\ todo = <<>> /\ mcu = <<>>
  /\ TakeOver
  /\ pc' = "done"
  /\ UNCHANGED <<setup, mcuVars, restarts, work, buffer, file, segments>>

\* The application empties its buffer, up to where the library says.
EmptyBuffer ==
  /\ setup.manager = "suspending"
  /\ pc \in {"idle", "suspended"}
  /\ dest.next > 0
  /\ file' = file \o Written
  /\ dest' = [dest EXCEPT !.next = 0, !.free = setup.size]
  /\ UNCHANGED <<setup, pc, saved, mcuVars, restarts, work, buffer, segments>>

Over ==
  /\ pc \in {"done", "failed"}
  /\ UNCHANGED vars

Next ==
  \/ \E n \in 1..MaxCodes : \E codes \in [1..n -> Codes] : StartMcu(codes)
  \/ RetryMcu
  \/ EmitBits \/ EmitByte \/ BitsEmitted \/ ResetBits
  \/ GrowBuffer \/ WriteBuffer \/ SuspendMcu
  \/ CompleteMcu \/ FinishPass \/ TermDestination
  \/ EmptyBuffer
  \/ Over

Spec == Init /\ [][Next]_vars

\* The encoder and the application go on as long as they can.
FairSpec == Spec /\ WF_vars(Next)

-----------------------------------------------------------------------------
(* Properties.                                                             *)

\* put_buffer never needs more than its three bytes and is zero below the bits
\* that wait, these are fewer than a byte between codes, and there is always
\* room for a byte.
TypeOK ==
  /\ pc \in {"idle", "emit", "shift", "suspended", "done", "failed"}
  /\ saved.put_bits \in 0..(ByteBits - 1) /\ cur.put_bits \in 0..(ByteBits - 1)
  /\ local.put_bits \in 0..(3 * ByteBits - 1)
  /\ \A s \in {saved, cur, local} : s.put_buffer \in 0..(Pow2[4 * ByteBits] - 1)
  /\ \A s \in {saved, cur, local} : s.put_buffer % Pow2[3 * ByteBits - s.put_bits] = 0
  /\ restarts.to_go \in 0..setup.interval
  /\ restarts.next_num \in 0..(RstMarkers - 1)
  /\ DOMAIN buffer = 0..(dest.size - 1)
  /\ dest.free \in 1..dest.size /\ dest.next + dest.free = dest.size
  /\ work.free \in 1..dest.size /\ work.next + work.free = dest.size

\* The bits of a code, of an MCU and of a restart interval.
CodeBits(c) == [i \in 1..c.size |-> (c.code \div Pow2[c.size - i]) % 2]
McuBits(codes) == FlattenSeq([i \in DOMAIN codes |-> CodeBits(codes[i])])
IntervalBits(interval) == FlattenSeq([m \in DOMAIN interval |-> McuBits(interval[m])])

\* The number with these bits.
Value(bits) ==
  LET value[i \in 0..Len(bits)] ==
        IF i = 0 THEN 0 ELSE 2 * value[i - 1] + bits[i]
  IN  value[Len(bits)]
BytesOf(bits) ==
  [i \in 1..(Len(bits) \div ByteBits) |->
     Value(SubSeq(bits, (i - 1) * ByteBits + 1, i * ByteBits))]
PaddedBits(bits) ==
  bits \o [i \in 1..((-Len(bits)) % ByteBits) |-> 1]
StuffedBytes(bytes) ==
  FlattenSeq([i \in DOMAIN bytes |->
                IF bytes[i] = AllOnes THEN <<AllOnes, 0>> ELSE <<bytes[i]>>])

\* The restart intervals that are complete, with their markers.
CompleteIntervals ==
  FlattenSeq([s \in 1..(Len(segments) - 1) |->
    StuffedBytes(BytesOf(PaddedBits(IntervalBits(segments[s]))))
      \o <<AllOnes, 1 + ((s - 1) % RstMarkers)>>])

\* Whenever the application has the thread, what has left the buffer and what
\* the library says is in it are the bits of the MCUs it has taken, padded
\* before markers, with a zero after each byte of ones; and the bits that do
\* not make a byte wait at the left of put_buffer.  The markers are where the
\* decoder counts on them.  Suspending, growing and
\* writing again change nothing of this.
StreamRight ==
  LET bits == IntervalBits(Last(segments))
      waiting == Len(bits) % ByteBits
  IN  /\ pc \in {"idle", "suspended"} =>
           /\ file \o Written = CompleteIntervals \o StuffedBytes(BytesOf(bits))
           /\ saved.put_bits = waiting
           /\ (saved.put_buffer \div Pow2[3 * ByteBits - waiting]) % Pow2[waiting]
                = Value(SubSeq(bits, Len(bits) - waiting + 1, Len(bits)))
      /\ \A s \in DOMAIN segments :
           setup.interval > 0 => Len(segments[s]) <= setup.interval
      /\ \A s \in 1..(Len(segments) - 1) : Len(segments[s]) = setup.interval
      /\ pc = "done" =>
           file \o Written = CompleteIntervals
             \o StuffedBytes(BytesOf(PaddedBits(bits))) \o <<AllOnes, Eoi>>

\* With a buffer that is larger than every MCU, each MCU suspended is written in
\* the end, although all of it is made anew.
SuspendedMcuWritten == pc = "suspended" ~> pc \in {"idle", "done"}
=============================================================================
