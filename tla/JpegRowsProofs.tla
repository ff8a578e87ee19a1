--------------------------- MODULE JpegRowsProofs ---------------------------
(***************************************************************************)
(* Proofs about JpegRows, for images of any height, sampling and number of *)
(* scans, with one pass or several, whatever lines come in a call and      *)
(* wherever the encoder is suspended: no line is lost between the          *)
(* application and the preprocessor, none is refused when the destination  *)
(* has room, every scan has got all its MCUs when the encoder is done, and *)
(* the ranges of the variables.                                            *)
(***************************************************************************)
EXTENDS JpegRows, SequenceTheorems, TLAPS

-----------------------------------------------------------------------------
(* The first pass: lines and row groups.                                   *)

FirstPass == pc \in {"app", "fill", "compress"}
InCall == pc \in {"fill", "compress"}

Counters ==
  /\ image \in Images
  /\ pc \in {"app", "fill", "compress", "between", "crank", "finished",
             "failed"}
  /\ next_scanline \in 0..image.height
  /\ in_rows_avail \in 0..MaxLines
  /\ in_row_ctr \in 0..in_rows_avail
  /\ main \in [cur_iMCU_row : 0..total_iMCU_rows, rowgroup_ctr : 0..DctSize,
               suspended : BOOLEAN]
  /\ prep \in [rows_to_go : 0..image.height, next_buf_row : Nat,
               this_row_group : Nat, next_buf_stop : Nat]

\* The lines of a call are lines of the image, and outside a call there are
\* none.
CallInv ==
  IF InCall
  THEN in_rows_avail \in 1..(image.height - next_scanline)
  ELSE in_rows_avail = 0

\* A full strip is under way, or waits for room and holds the line back.
StripInv ==
  /\ StripFull => ~ImageDone
  /\ pc = "compress" => StripFull
  /\ main.suspended => StripFull /\ in_row_ctr = 0
  /\ StripFull /\ ~main.suspended => InCall /\ in_row_ctr >= 1

\* Where the preprocessor goes on in its rows.
RingInv ==
  IF need_context_rows
  THEN /\ prep.this_row_group \in {0, MaxV, 2 * MaxV}
       /\ prep.next_buf_stop \in {MaxV, 2 * MaxV, 3 * MaxV}
       /\ prep.next_buf_row < prep.next_buf_stop
       /\ prep.next_buf_stop <= prep.next_buf_row + 2 * MaxV
  ELSE /\ prep.next_buf_row < MaxV
       /\ prep.this_row_group = 0
       /\ prep.next_buf_stop = 2 * MaxV

\* The lines that were read are those of the strips before, of the row groups
\* of this strip, and those that wait for the next row group; one row group is
\* more when context rows are kept.
RowsPlaced ==
  prep.rows_to_go > 0 =>
    image.height - prep.rows_to_go
      = main.cur_iMCU_row * (MaxV * DctSize) + main.rowgroup_ctr * MaxV
          + prep.next_buf_row
          + (IF need_context_rows THEN 2 * MaxV - prep.next_buf_stop ELSE 0)

\* When the last line was read the last strip is at hand; the encoder gives up
\* before the first line or after the last strip.
BottomInv ==
  /\ prep.rows_to_go = 0 /\ ~need_context_rows =>
       \/ ImageDone
       \/ StripFull /\ main.cur_iMCU_row = total_iMCU_rows - 1
  /\ prep.rows_to_go = 0 /\ ~InCall /\ ~main.suspended => ImageDone
  /\ ~FirstPass /\ pc # "failed" => ImageDone
  /\ pc = "failed" =>
       image.suspends /\ (prep.rows_to_go = image.height \/ ImageDone)

IInv1 ==
  /\ Counters
  /\ CallInv
  /\ StripInv
  /\ RowsAccountedFor
  /\ RingInv
  /\ RowsPlaced
  /\ BottomInv

-----------------------------------------------------------------------------
(* Numbers.                                                                *)

\* What rounding up means.
LEMMA CeilDivBounds ==
  ASSUME NEW a \in Nat \ {0}, NEW b \in Nat \ {0}
  PROVE  /\ CeilDiv(a, b) \in Nat \ {0}
         /\ a <= CeilDiv(a, b) * b
         /\ (CeilDiv(a, b) - 1) * b < a
BY DEF CeilDiv

\* The lesser of two numbers is one of them.
LEMMA LesserBounds ==
  ASSUME NEW a \in Int, NEW b \in Int
  PROVE  /\ Lesser(a, b) \in Int
         /\ Lesser(a, b) <= a /\ Lesser(a, b) <= b
         /\ Lesser(a, b) = a \/ Lesser(a, b) = b
BY DEF Lesser

\* The largest sampling factor is one of them.
LEMMA MaxVIsLargest ==
  ASSUME image \in Images
  PROVE  /\ MaxV \in 1..4
         /\ \A c \in Components :
              image.factors[c] \in 1..4 /\ image.factors[c] <= MaxV
         /\ \E c \in Components : MaxV = image.factors[c]
<1> DEFINE fs == {image.factors[c] : c \in Components}
           Largest(m) ==
             m \in fs /\ \A c \in Components : image.factors[c] <= m
<1>1. image.factors \in Seq(1..4) /\ image.factors # <<>>
  BY ImagesAssumption
<1>2. \A c \in Components : image.factors[c] \in 1..4
  BY <1>1 DEF Components
<1>3. 1 \in Components
  BY <1>1 DEF Components
<1>4. \E m : Largest(m)
  <2>1. CASE 4 \in fs
    <3>1. Largest(4)
      BY <2>1, <1>2
    <3>2. QED BY <3>1
  <2>2. CASE 4 \notin fs /\ 3 \in fs
    <3>1. Largest(3)
      BY <2>2, <1>2
    <3>2. QED BY <3>1
  <2>3. CASE 4 \notin fs /\ 3 \notin fs /\ 2 \in fs
    <3>1. Largest(2)
      BY <2>3, <1>2
    <3>2. QED BY <3>1
  <2>4. CASE 4 \notin fs /\ 3 \notin fs /\ 2 \notin fs
    <3>1. Largest(1)
      BY <2>4, <1>2, <1>3
    <3>2. QED BY <3>1
  <2>5. QED BY <2>1, <2>2, <2>3, <2>4
<1>5. MaxV = CHOOSE m : Largest(m)
  BY DEF MaxV
<1>6. Largest(MaxV)
  BY <1>4, <1>5
<1>7. QED BY <1>2, <1>6

\* The sizes of an image.
LEMMA Sizes ==
  ASSUME image \in Images
  PROVE  /\ image.height \in Nat \ {0}
         /\ DctSize \in Nat \ {0}
         /\ MaxV \in 1..4
         /\ MaxV * DctSize \in Nat \ {0}
         /\ total_iMCU_rows \in Nat \ {0}
         /\ image.height <= total_iMCU_rows * (MaxV * DctSize)
         /\ (total_iMCU_rows - 1) * (MaxV * DctSize) < image.height
<1>1. /\ image.height \in Nat \ {0} /\ DctSize \in Nat \ {0}
      /\ MaxV \in 1..4
  BY ImagesAssumption, SizesAssumption, MaxVIsLargest
<1>2. MaxV * DctSize \in Nat \ {0}
  BY <1>1
<1>3. QED BY <1>1, <1>2, CeilDivBounds DEF total_iMCU_rows

\* Sizes do not change.
LEMMA SizesStay ==
  ASSUME image' = image
  PROVE  /\ MaxV' = MaxV
         /\ need_context_rows' = need_context_rows
         /\ total_iMCU_rows' = total_iMCU_rows
         /\ Components' = Components
<1>1. Components' = Components
  BY DEF Components
<1>2. MaxV' = MaxV
  BY DEF MaxV, Components
<1>3. total_iMCU_rows' = total_iMCU_rows
  BY <1>2 DEF total_iMCU_rows
<1>4. need_context_rows' = need_context_rows
  BY <1>1, <1>2
  DEF need_context_rows, Smoothed, v_expand, rowgroup_height, Ssize
<1>5. QED BY <1>1, <1>2, <1>3, <1>4

-----------------------------------------------------------------------------
(* The first pass, action by action.                                       *)

\* The application gives lines.
LEMMA WriteScanlinesKeeps ==
  ASSUME IInv1, NEW n \in 1..MaxLines, WriteScanlines(n)
  PROVE  IInv1'
<1>1. /\ image' = image /\ pc = "app" /\ pc' = "fill"
      /\ next_scanline < image.height
      /\ in_rows_avail' = Lesser(n, image.height - next_scanline)
      /\ UNCHANGED <<next_scanline, in_row_ctr, main, prep>>
  BY DEF WriteScanlines, prepVars
<1>2. /\ MaxV' = MaxV /\ need_context_rows' = need_context_rows
      /\ total_iMCU_rows' = total_iMCU_rows
  BY <1>1, SizesStay
<1>3. /\ Counters /\ CallInv /\ StripInv /\ RowsAccountedFor /\ RingInv
      /\ RowsPlaced /\ BottomInv
  BY DEF IInv1
<1>4. /\ image.height \in Nat \ {0} /\ MaxLines \in Nat \ {0}
      /\ next_scanline \in Nat /\ in_row_ctr = 0
  BY <1>1, <1>3, Sizes, SizesAssumption DEF Counters, CallInv, InCall
<1>5. in_rows_avail' \in 1..(image.height - next_scanline)
      /\ in_rows_avail' \in 0..MaxLines
  BY <1>1, <1>4 DEF Lesser
<1>6. Counters'
  BY <1>1, <1>2, <1>3, <1>4, <1>5 DEF Counters
<1>7. CallInv'
  BY <1>1, <1>5 DEF CallInv, InCall
<1>8. StripInv'
  BY <1>1, <1>2, <1>3 DEF StripInv, StripFull, ImageDone, InCall
<1>9. RowsAccountedFor'
  BY <1>1, <1>3 DEF RowsAccountedFor
<1>10. RingInv'
  BY <1>1, <1>2, <1>3 DEF RingInv
<1>11. RowsPlaced'
  BY <1>1, <1>2, <1>3 DEF RowsPlaced
<1>12. BottomInv'
  BY <1>1, <1>2, <1>3
  DEF BottomInv, StripFull, ImageDone, InCall, FirstPass
<1>13. QED BY <1>6, <1>7, <1>8, <1>9, <1>10, <1>11, <1>12 DEF IInv1

\* The call has no lines left.
LEMMA NeedMoreRowsKeeps ==
  ASSUME IInv1, NeedMoreRows
  PROVE  IInv1'
<1>1. /\ image' = image /\ pc = "fill" /\ pc' = "app"
      /\ ~MoreToFill /\ (ImageDone \/ ~StripFull)
      /\ next_scanline' = next_scanline + in_row_ctr
      /\ in_row_ctr' = 0 /\ in_rows_avail' = 0
      /\ UNCHANGED <<main, prep>>
  BY DEF NeedMoreRows, prepVars, Return
<1>2. /\ MaxV' = MaxV /\ need_context_rows' = need_context_rows
      /\ total_iMCU_rows' = total_iMCU_rows
  BY <1>1, SizesStay
<1>3. /\ Counters /\ CallInv /\ StripInv /\ RowsAccountedFor /\ RingInv
      /\ RowsPlaced /\ BottomInv
  BY DEF IInv1
<1>4. /\ image.height \in Nat \ {0} /\ next_scanline \in Nat
      /\ in_row_ctr \in 0..in_rows_avail
      /\ in_rows_avail \in 1..(image.height - next_scanline)
      /\ MaxLines \in Nat
  BY <1>1, <1>3, Sizes, SizesAssumption DEF Counters, CallInv, InCall
<1>5. ~StripFull /\ ~main.suspended
  BY <1>1, <1>3 DEF StripInv
<1>6. Counters'
  BY <1>1, <1>2, <1>3, <1>4 DEF Counters
<1>7. CallInv'
  BY <1>1 DEF CallInv, InCall
<1>8. StripInv'
  BY <1>1, <1>2, <1>3, <1>5 DEF StripInv, StripFull, ImageDone, InCall
<1>9. RowsAccountedFor'
  BY <1>1, <1>3, <1>4, <1>5 DEF RowsAccountedFor
<1>10. RingInv'
  BY <1>1, <1>2, <1>3 DEF RingInv
<1>11. RowsPlaced'
  BY <1>1, <1>2, <1>3 DEF RowsPlaced
<1>12. BottomInv'
  <2>1. prep.rows_to_go = 0 => ImageDone
    BY <1>1, <1>3, <1>5 DEF BottomInv, MoreToFill
  <2>2. QED BY <1>1, <1>2, <2>1
            DEF BottomInv, StripFull, ImageDone, InCall, FirstPass
<1>13. QED BY <1>6, <1>7, <1>8, <1>9, <1>10, <1>11, <1>12 DEF IInv1

\* The strip goes to the coefficient controller.
LEMMA StartCompressKeeps ==
  ASSUME IInv1, StartCompress
  PROVE  IInv1'
<1>1. /\ image' = image /\ pc = "fill" /\ pc' = "compress" /\ StripFull
      /\ UNCHANGED <<next_scanline, in_row_ctr, in_rows_avail, main, prep>>
  BY DEF StartCompress, prepVars, callVars
<1>2. /\ MaxV' = MaxV /\ need_context_rows' = need_context_rows
      /\ total_iMCU_rows' = total_iMCU_rows
  BY <1>1, SizesStay
<1>3. /\ Counters /\ CallInv /\ StripInv /\ RowsAccountedFor /\ RingInv
      /\ RowsPlaced /\ BottomInv
  BY DEF IInv1
<1>6. Counters'
  BY <1>1, <1>2, <1>3 DEF Counters
<1>7. CallInv'
  BY <1>1, <1>3 DEF CallInv, InCall
<1>8. StripInv'
  BY <1>1, <1>2, <1>3 DEF StripInv, StripFull, ImageDone, InCall
<1>9. RowsAccountedFor'
  BY <1>1, <1>3 DEF RowsAccountedFor
<1>10. RingInv'
  BY <1>1, <1>2, <1>3 DEF RingInv
<1>11. RowsPlaced'
  BY <1>1, <1>2, <1>3 DEF RowsPlaced
<1>12. BottomInv'
  BY <1>1, <1>2, <1>3
  DEF BottomInv, StripFull, ImageDone, InCall, FirstPass
<1>13. QED BY <1>6, <1>7, <1>8, <1>9, <1>10, <1>11, <1>12 DEF IInv1

\* An MCU that is not the last of its strip.
LEMMA CompressMcuKeeps ==
  ASSUME IInv1, CompressMcu
  PROVE  IInv1'
<1>1. /\ image' = image /\ pc' = pc
      /\ UNCHANGED <<next_scanline, in_row_ctr, in_rows_avail, main, prep>>
  BY DEF CompressMcu, EncodeMcu, prepVars
<1>2. /\ MaxV' = MaxV /\ need_context_rows' = need_context_rows
      /\ total_iMCU_rows' = total_iMCU_rows
  BY <1>1, SizesStay
<1>3. /\ Counters /\ CallInv /\ StripInv /\ RowsAccountedFor /\ RingInv
      /\ RowsPlaced /\ BottomInv
  BY DEF IInv1
<1>6. Counters'
  BY <1>1, <1>2, <1>3 DEF Counters
<1>7. CallInv' /\ StripInv' /\ RowsAccountedFor'
  BY <1>1, <1>2, <1>3
  DEF CallInv, InCall, StripInv, StripFull, ImageDone, RowsAccountedFor
<1>10. RingInv'
  BY <1>1, <1>2, <1>3 DEF RingInv
<1>11. RowsPlaced'
  BY <1>1, <1>2, <1>3 DEF RowsPlaced
<1>12. BottomInv'
  BY <1>1, <1>2, <1>3
  DEF BottomInv, StripFull, ImageDone, InCall, FirstPass
<1>13. QED BY <1>6, <1>7, <1>10, <1>11, <1>12 DEF IInv1

\* The last MCU of a strip: the line held back is taken.
LEMMA CompressLastMcuKeeps ==
  ASSUME IInv1, CompressLastMcu
  PROVE  IInv1'
<1>1. /\ image' = image /\ pc = "compress" /\ pc' = "fill"
      /\ in_row_ctr' = IF main.suspended THEN in_row_ctr + 1 ELSE in_row_ctr
      /\ main' = [cur_iMCU_row |-> main.cur_iMCU_row + 1, rowgroup_ctr |-> 0,
                  suspended |-> FALSE]
      /\ UNCHANGED <<next_scanline, in_rows_avail, prep>>
  BY DEF CompressLastMcu, EncodeMcu, prepVars
<1>2. /\ MaxV' = MaxV /\ need_context_rows' = need_context_rows
      /\ total_iMCU_rows' = total_iMCU_rows
  BY <1>1, SizesStay
<1>3. /\ Counters /\ CallInv /\ StripInv /\ RowsAccountedFor /\ RingInv
      /\ RowsPlaced /\ BottomInv
  BY DEF IInv1
<1>4. /\ main.cur_iMCU_row \in 0..(total_iMCU_rows - 1)
      /\ main.rowgroup_ctr = DctSize
      /\ total_iMCU_rows \in Nat \ {0} /\ DctSize \in Nat \ {0}
      /\ MaxV \in 1..4 /\ image.height \in Nat
      /\ in_rows_avail >= 1 /\ in_rows_avail \in Nat
      /\ in_row_ctr \in 0..in_rows_avail
      /\ main.suspended => in_row_ctr = 0
      /\ prep.rows_to_go \in 0..image.height
      /\ prep.next_buf_row \in Nat /\ prep.next_buf_stop \in Nat
      /\ next_scanline \in Nat
  <2>1. /\ total_iMCU_rows \in Nat \ {0} /\ DctSize \in Nat \ {0}
        /\ MaxV \in 1..4 /\ image.height \in Nat /\ MaxLines \in Nat
    BY <1>3, Sizes, SizesAssumption DEF Counters
  <2>2. /\ next_scanline \in Nat /\ in_rows_avail \in Nat
        /\ in_row_ctr \in 0..in_rows_avail
        /\ prep.rows_to_go \in 0..image.height
        /\ prep.next_buf_row \in Nat /\ prep.next_buf_stop \in Nat
        /\ main.cur_iMCU_row \in 0..total_iMCU_rows
    BY <1>3, <2>1 DEF Counters
  <2>3. in_rows_avail >= 1
    BY <1>1, <1>3, <2>1, <2>2 DEF CallInv, InCall
  <2>4. /\ main.rowgroup_ctr = DctSize
        /\ main.cur_iMCU_row # total_iMCU_rows
        /\ main.suspended => in_row_ctr = 0
    BY <1>1, <1>3 DEF StripInv, StripFull, ImageDone
  <2>5. QED BY <2>1, <2>2, <2>3, <2>4
<1>5. /\ main'.cur_iMCU_row = main.cur_iMCU_row + 1
      /\ main'.rowgroup_ctr = 0 /\ main'.suspended = FALSE
  BY <1>1
<1>6. Counters'
  <2>1. in_row_ctr' \in 0..in_rows_avail'
    BY <1>1, <1>4
  <2>2. main' \in [cur_iMCU_row : 0..total_iMCU_rows,
                   rowgroup_ctr : 0..DctSize, suspended : BOOLEAN]
    BY <1>1, <1>4
  <2>3. QED BY <1>1, <1>2, <1>3, <2>1, <2>2 DEF Counters
<1>7. CallInv'
  BY <1>1, <1>3 DEF CallInv, InCall
<1>8. StripInv'
  BY <1>1, <1>4, <1>5 DEF StripInv, StripFull
<1>9. RowsAccountedFor'
  BY <1>1, <1>3, <1>4, <1>5 DEF RowsAccountedFor
<1>10. RingInv'
  BY <1>1, <1>2, <1>3 DEF RingInv
<1>11. RowsPlaced'
  <2>1. (main.cur_iMCU_row + 1) * (MaxV * DctSize) + 0 * MaxV
          = main.cur_iMCU_row * (MaxV * DctSize) + main.rowgroup_ctr * MaxV
    BY <1>4
  <2>2. QED BY <1>1, <1>2, <1>3, <1>5, <2>1 DEF RowsPlaced
<1>12. BottomInv'
  <2>1. prep.rows_to_go = 0 /\ ~need_context_rows
          => main.cur_iMCU_row + 1 = total_iMCU_rows
    BY <1>3, <1>4 DEF BottomInv, ImageDone
  <2>2. QED BY <1>1, <1>2, <1>5, <2>1
            DEF BottomInv, ImageDone, InCall, FirstPass
<1>13. QED BY <1>6, <1>7, <1>8, <1>9, <1>10, <1>11, <1>12 DEF IInv1

\* No room: the call returns, and keeps one line back the first time.
LEMMA SuspendKeeps ==
  ASSUME IInv1, Suspend
  PROVE  IInv1'
<1>1. /\ image' = image /\ pc = "compress" /\ pc' = "app"
      /\ next_scanline' = next_scanline
                            + (IF main.suspended THEN in_row_ctr
                               ELSE in_row_ctr - 1)
      /\ in_row_ctr' = 0 /\ in_rows_avail' = 0
      /\ main' = [main EXCEPT !.suspended = TRUE]
      /\ prep' = prep
  BY DEF Suspend, Return, prepVars
<1>2. /\ MaxV' = MaxV /\ need_context_rows' = need_context_rows
      /\ total_iMCU_rows' = total_iMCU_rows
  BY <1>1, SizesStay
<1>3. /\ Counters /\ CallInv /\ StripInv /\ RowsAccountedFor /\ RingInv
      /\ RowsPlaced /\ BottomInv
  BY DEF IInv1
<1>4. /\ StripFull /\ ~ImageDone
      /\ image.height \in Nat /\ MaxLines \in Nat /\ next_scanline \in Nat
      /\ in_rows_avail \in 1..(image.height - next_scanline)
      /\ in_row_ctr \in 0..in_rows_avail
      /\ main.suspended => in_row_ctr = 0
      /\ ~main.suspended => in_row_ctr >= 1
  BY <1>1, <1>3, Sizes, SizesAssumption
  DEF Counters, CallInv, StripInv, InCall
<1>5. /\ main'.cur_iMCU_row = main.cur_iMCU_row
      /\ main'.rowgroup_ctr = main.rowgroup_ctr /\ main'.suspended = TRUE
  BY <1>1, <1>3 DEF Counters
<1>6. Counters'
  <2>1. main' \in [cur_iMCU_row : 0..total_iMCU_rows,
                   rowgroup_ctr : 0..DctSize, suspended : BOOLEAN]
    BY <1>1, <1>3 DEF Counters
  <2>2. next_scanline' \in 0..image.height
    BY <1>1, <1>4
  <2>3. QED BY <1>1, <1>2, <1>3, <1>4, <2>1, <2>2 DEF Counters
<1>7. CallInv'
  BY <1>1 DEF CallInv, InCall
<1>8. StripInv'
  BY <1>1, <1>2, <1>4, <1>5 DEF StripInv, StripFull, ImageDone
<1>9. RowsAccountedFor'
  BY <1>1, <1>3, <1>4, <1>5 DEF RowsAccountedFor, Counters
<1>10. RingInv'
  BY <1>1, <1>2, <1>3 DEF RingInv
<1>11. RowsPlaced'
  BY <1>1, <1>2, <1>3, <1>5 DEF RowsPlaced
<1>12. BottomInv'
  BY <1>1, <1>2, <1>3, <1>5
  DEF BottomInv, StripFull, ImageDone, FirstPass
<1>13. QED BY <1>6, <1>7, <1>8, <1>9, <1>10, <1>11, <1>12 DEF IInv1

\* These lines are there, and room for them.
LinesThere(numrows) ==
  /\ pc = "fill" /\ ~need_context_rows /\ ~ImageDone /\ ~StripFull
  /\ ~main.suspended
  /\ prep.next_buf_row + numrows <= MaxV
  /\ numrows <= in_rows_avail - in_row_ctr
  /\ numrows <= prep.rows_to_go

\* They are read.
LinesMoved(numrows) ==
  LET filled == prep.next_buf_row + numrows
      bottom == prep.rows_to_go = numrows
      groupDone == filled = MaxV \/ bottom
  IN  /\ image' = image /\ pc' = pc
      /\ UNCHANGED <<next_scanline, in_rows_avail>>
      /\ in_row_ctr' = in_row_ctr + numrows
      /\ prep' = [prep EXCEPT !.rows_to_go = @ - numrows,
                              !.next_buf_row = IF groupDone THEN 0 ELSE filled]
      /\ main' = [main EXCEPT !.rowgroup_ctr =
                    IF bottom THEN DctSize
                    ELSE IF groupDone THEN @ + 1 ELSE @]

\* What PreProcess does to the counters: it reads some lines, which are there.
LEMMA PreProcessCounts ==
  ASSUME IInv1, PreProcess
  PROVE  \E numrows \in Nat \ {0} :
           LinesThere(numrows) /\ LinesMoved(numrows)
<1>1. /\ pc = "fill" /\ MoreToFill /\ ~need_context_rows
      /\ ~ImageDone /\ ~StripFull /\ in_row_ctr < in_rows_avail
  BY DEF PreProcess, MoreToFill
<1>2. /\ Counters /\ CallInv /\ StripInv /\ RowsAccountedFor /\ RingInv
  BY DEF IInv1
<1>3. ~main.suspended
  BY <1>1, <1>2 DEF StripInv
<1>4. /\ image.height \in Nat /\ MaxLines \in Nat /\ MaxV \in 1..4
  BY <1>2, Sizes, SizesAssumption DEF Counters
<1>5. /\ next_scanline \in Nat /\ in_rows_avail \in Nat
      /\ in_row_ctr \in Nat /\ prep.rows_to_go \in Nat
      /\ prep.next_buf_row \in Nat /\ prep.next_buf_row < MaxV
      /\ in_rows_avail <= image.height - next_scanline
  BY <1>1, <1>2, <1>4 DEF Counters, CallInv, InCall, RingInv
<1>6. prep.rows_to_go = image.height - next_scanline - in_row_ctr
  BY <1>2, <1>3, <1>4, <1>5 DEF RowsAccountedFor
<1> DEFINE numrows == Lesser(MaxV - prep.next_buf_row,
                             in_rows_avail - in_row_ctr)
<1>7. /\ numrows \in Nat \ {0}
      /\ prep.next_buf_row + numrows <= MaxV
      /\ numrows <= in_rows_avail - in_row_ctr
  BY <1>1, <1>4, <1>5 DEF Lesser
<1>8. numrows <= prep.rows_to_go
  BY <1>5, <1>6, <1>7, <1>4
<1>9. LinesMoved(numrows)
  BY <1>1 DEF PreProcess, LinesMoved
<1> HIDE DEF numrows
<1>10. QED BY <1>1, <1>3, <1>7, <1>8, <1>9 DEF LinesThere

\* A round of pre_process_data: lines are read, and at the last one the strip
\* is filled up.
LEMMA PreProcessKeeps ==
  ASSUME IInv1, PreProcess
  PROVE  IInv1'
<1>1. PICK numrows \in Nat \ {0} : LinesThere(numrows) /\ LinesMoved(numrows)
  BY PreProcessCounts
<1>2. /\ image' = image /\ pc = "fill" /\ pc' = "fill"
      /\ UNCHANGED <<next_scanline, in_rows_avail>>
      /\ in_row_ctr' = in_row_ctr + numrows
  BY <1>1 DEF LinesThere, LinesMoved
<1>3. /\ ~need_context_rows /\ ~main.suspended
      /\ ~ImageDone /\ ~StripFull
      /\ prep.next_buf_row + numrows <= MaxV
      /\ numrows <= in_rows_avail - in_row_ctr
      /\ numrows <= prep.rows_to_go
  BY <1>1 DEF LinesThere
<1>4. /\ MaxV' = MaxV /\ need_context_rows' = need_context_rows
      /\ total_iMCU_rows' = total_iMCU_rows
  BY <1>2, SizesStay
<1>5. /\ Counters /\ CallInv /\ StripInv /\ RowsAccountedFor /\ RingInv
      /\ RowsPlaced /\ BottomInv
  BY DEF IInv1
<1>6. /\ image.height \in Nat \ {0} /\ DctSize \in Nat \ {0}
      /\ MaxV \in 1..4 /\ MaxLines \in Nat
      /\ total_iMCU_rows \in Nat \ {0}
  BY <1>5, Sizes, SizesAssumption DEF Counters
<1>7. /\ next_scanline \in Nat /\ in_rows_avail \in Nat
      /\ in_row_ctr \in Nat
      /\ prep.rows_to_go \in 0..image.height /\ prep.next_buf_row \in Nat
      /\ main.cur_iMCU_row \in 0..(total_iMCU_rows - 1)
      /\ main.rowgroup_ctr \in 0..(DctSize - 1)
  <2>1. /\ next_scanline \in Nat /\ in_rows_avail \in Nat
        /\ in_row_ctr \in Nat
        /\ prep.rows_to_go \in 0..image.height /\ prep.next_buf_row \in Nat
    BY <1>5, <1>6 DEF Counters
  <2>2. /\ main.cur_iMCU_row \in 0..total_iMCU_rows
        /\ main.rowgroup_ctr \in 0..DctSize
    BY <1>5, <1>6 DEF Counters
  <2>3. QED BY <1>3, <1>6, <2>1, <2>2 DEF ImageDone, StripFull
<1>8. /\ prep'.rows_to_go = prep.rows_to_go - numrows
      /\ prep'.this_row_group = prep.this_row_group
      /\ prep'.next_buf_stop = prep.next_buf_stop
      /\ main'.cur_iMCU_row = main.cur_iMCU_row
      /\ main'.suspended = main.suspended
  BY <1>1, <1>5 DEF Counters, LinesMoved
\* The last line, the last one of a row group, or another.
<1>9. \/ /\ prep'.rows_to_go = 0 /\ prep.rows_to_go = numrows
         /\ prep'.next_buf_row = 0 /\ main'.rowgroup_ctr = DctSize
      \/ /\ prep.next_buf_row + numrows = MaxV
         /\ prep'.next_buf_row = 0
         /\ main'.rowgroup_ctr = main.rowgroup_ctr + 1
      \/ /\ prep.next_buf_row + numrows < MaxV
         /\ prep'.next_buf_row = prep.next_buf_row + numrows
         /\ main'.rowgroup_ctr = main.rowgroup_ctr
  <2>1. /\ prep'.next_buf_row = IF \/ prep.next_buf_row + numrows = MaxV
                                  \/ prep.rows_to_go = numrows
                                THEN 0 ELSE prep.next_buf_row + numrows
        /\ main'.rowgroup_ctr = IF prep.rows_to_go = numrows THEN DctSize
                                ELSE IF prep.next_buf_row + numrows = MaxV
                                THEN main.rowgroup_ctr + 1
                                ELSE main.rowgroup_ctr
    BY <1>1, <1>5 DEF Counters, LinesMoved
  <2>2. QED BY <2>1, <1>3, <1>6, <1>7, <1>8
<1>10. /\ main'.rowgroup_ctr \in 0..DctSize
       /\ prep'.next_buf_row \in Nat /\ prep'.next_buf_row < MaxV
       /\ prep'.rows_to_go \in 0..image.height
       /\ in_row_ctr' \in 1..in_rows_avail
  BY <1>2, <1>3, <1>6, <1>7, <1>8, <1>9
<1>11. Counters'
  <2>1. prep' = [rows_to_go |-> prep'.rows_to_go,
                 next_buf_row |-> prep'.next_buf_row,
                 this_row_group |-> prep.this_row_group,
                 next_buf_stop |-> prep.next_buf_stop]
    BY <1>1, <1>5, <1>8 DEF Counters, LinesMoved
  <2>2. prep' \in [rows_to_go : 0..image.height, next_buf_row : Nat,
                   this_row_group : Nat, next_buf_stop : Nat]
    BY <2>1, <1>5, <1>10 DEF Counters
  <2>3. main' = [main EXCEPT !.rowgroup_ctr = main'.rowgroup_ctr]
    BY <1>1, <1>5 DEF Counters, LinesMoved
  <2>4. main' \in [cur_iMCU_row : 0..total_iMCU_rows,
                   rowgroup_ctr : 0..DctSize, suspended : BOOLEAN]
    BY <2>3, <1>5, <1>10 DEF Counters
  <2>5. in_row_ctr' \in 0..in_rows_avail
    BY <1>7, <1>10
  <2>6. QED BY <1>2, <1>4, <1>5, <2>2, <2>4, <2>5 DEF Counters
<1>12. CallInv'
  BY <1>2, <1>5 DEF CallInv, InCall
<1>13. StripInv'
  BY <1>2, <1>3, <1>4, <1>7, <1>8, <1>10
  DEF StripInv, StripFull, ImageDone, InCall
<1>14. RowsAccountedFor'
  BY <1>2, <1>3, <1>5, <1>6, <1>7, <1>8 DEF RowsAccountedFor
<1>15. RingInv'
  BY <1>3, <1>4, <1>5, <1>8, <1>10 DEF RingInv
<1>16. image.height - prep.rows_to_go
         = main.cur_iMCU_row * (MaxV * DctSize) + main.rowgroup_ctr * MaxV
             + prep.next_buf_row
  <2>1. prep.rows_to_go > 0
    BY <1>3, <1>7
  <2>2. /\ main.cur_iMCU_row * (MaxV * DctSize) \in Nat
        /\ main.rowgroup_ctr * MaxV \in Nat
    BY <1>6, <1>7
  <2>3. QED BY <2>1, <2>2, <1>3, <1>5, <1>7 DEF RowsPlaced
<1> DEFINE above == main.cur_iMCU_row * (MaxV * DctSize)
           groups == main.rowgroup_ctr * MaxV
<1>17. /\ (main.rowgroup_ctr + 1) * MaxV = groups + MaxV
       /\ above \in Nat /\ groups \in Nat
  BY <1>6, <1>7
<1>18. RowsPlaced'
  <2>1. SUFFICES ASSUME prep'.rows_to_go > 0
                 PROVE  image.height - prep'.rows_to_go
                          = above + main'.rowgroup_ctr * MaxV
                              + prep'.next_buf_row + 0
    BY <1>2, <1>3, <1>4, <1>8 DEF RowsPlaced
  <2> HIDE DEF above, groups
  <2>2. image.height - prep'.rows_to_go
          = above + groups + prep.next_buf_row + numrows
    BY <1>6, <1>7, <1>8, <1>16, <1>17 DEF above, groups
  <2>3. main'.rowgroup_ctr * MaxV + prep'.next_buf_row
          = groups + prep.next_buf_row + numrows
    <3>1. CASE /\ prep.next_buf_row + numrows = MaxV
               /\ prep'.next_buf_row = 0
               /\ main'.rowgroup_ctr = main.rowgroup_ctr + 1
      BY <3>1, <1>6, <1>7, <1>17
    <3>2. CASE /\ prep'.next_buf_row = prep.next_buf_row + numrows
               /\ main'.rowgroup_ctr = main.rowgroup_ctr
      BY <3>2, <1>6, <1>7, <1>17 DEF groups
    <3>3. QED BY <2>1, <3>1, <3>2, <1>9
  <2>4. main'.rowgroup_ctr * MaxV \in Nat
    BY <1>6, <1>10
  <2>5. QED BY <2>2, <2>3, <2>4, <1>7, <1>10, <1>17
<1>19. prep'.rows_to_go = 0 => /\ main'.rowgroup_ctr = DctSize
                               /\ main.cur_iMCU_row = total_iMCU_rows - 1
  <2>1. SUFFICES ASSUME prep'.rows_to_go = 0
                 PROVE  /\ main'.rowgroup_ctr = DctSize
                        /\ main.cur_iMCU_row = total_iMCU_rows - 1
    OBVIOUS
  <2>2. prep.rows_to_go = numrows
    BY <2>1, <1>7, <1>8
  <2>3. main'.rowgroup_ctr = DctSize
    BY <2>2, <1>1, <1>5 DEF Counters, LinesMoved
  <2>4. ASSUME main.cur_iMCU_row < total_iMCU_rows - 1
        PROVE  FALSE
    <3>1. image.height <= above + groups + MaxV
      BY <2>2, <1>3, <1>6, <1>7, <1>16, <1>17
    <3>2. groups + MaxV <= MaxV * DctSize
      BY <1>6, <1>7
    <3>3. (main.cur_iMCU_row + 1) * (MaxV * DctSize)
            <= (total_iMCU_rows - 1) * (MaxV * DctSize)
      BY <2>4, <1>6, <1>7
    <3>4. (main.cur_iMCU_row + 1) * (MaxV * DctSize)
            = above + MaxV * DctSize
      BY <1>6, <1>7
    <3>5. MaxV * DctSize \in Nat
          /\ (total_iMCU_rows - 1) * (MaxV * DctSize) \in Nat
      BY <1>6
    <3>6. (total_iMCU_rows - 1) * (MaxV * DctSize) < image.height
      BY <1>5, Sizes DEF Counters
    <3> HIDE DEF above, groups
    <3>7. QED BY <3>1, <3>2, <3>3, <3>4, <3>5, <3>6, <1>6, <1>17
  <2>5. QED BY <2>3, <2>4, <1>6, <1>7
<1>20. BottomInv'
  BY <1>2, <1>3, <1>4, <1>8, <1>19
  DEF BottomInv, StripFull, ImageDone, InCall, FirstPass
<1>21. QED BY <1>11, <1>12, <1>13, <1>14, <1>15, <1>18, <1>20 DEF IInv1

\* A row group is complete, or it is not.
LEMMA ContextGroupMoves ==
  ASSUME Counters, RingInv, need_context_rows, MaxV \in 1..4,
         NEW rows, NEW filled \in Nat, prep.next_buf_row < filled,
         filled <= prep.next_buf_stop, NEW to_go \in 0..image.height,
         ContextGroup(rows, filled, to_go)
  PROVE  /\ prep' \in [rows_to_go : 0..image.height, next_buf_row : Nat,
                        this_row_group : Nat, next_buf_stop : Nat]
         /\ prep'.rows_to_go = to_go
         /\ prep'.this_row_group \in {0, MaxV, 2 * MaxV}
         /\ prep'.next_buf_stop \in {MaxV, 2 * MaxV, 3 * MaxV}
         /\ prep'.next_buf_row < prep'.next_buf_stop
         /\ prep'.next_buf_stop <= prep'.next_buf_row + 2 * MaxV
         /\ main'.cur_iMCU_row = main.cur_iMCU_row
         /\ main'.suspended = main.suspended
         /\ main' = [main EXCEPT !.rowgroup_ctr = main'.rowgroup_ctr]
         /\ \/ /\ filled = prep.next_buf_stop
               /\ main'.rowgroup_ctr = main.rowgroup_ctr + 1
               /\ prep'.next_buf_stop = prep'.next_buf_row + MaxV
            \/ /\ filled # prep.next_buf_stop
               /\ main'.rowgroup_ctr = main.rowgroup_ctr
               /\ prep'.next_buf_row = filled
               /\ prep'.next_buf_stop = prep.next_buf_stop
<1>1. /\ prep.this_row_group \in {0, MaxV, 2 * MaxV}
      /\ prep.next_buf_stop \in {MaxV, 2 * MaxV, 3 * MaxV}
      /\ prep.next_buf_row < prep.next_buf_stop
      /\ prep.next_buf_stop <= prep.next_buf_row + 2 * MaxV
      /\ prep.next_buf_row \in Nat
  BY DEF RingInv, Counters
<1>2. CASE filled = prep.next_buf_stop
  <2> DEFINE next == IF filled >= 3 * MaxV THEN 0 ELSE filled
             this == prep.this_row_group + MaxV
             group == IF this >= 3 * MaxV THEN 0 ELSE this
  <2>1. /\ main' = [main EXCEPT !.rowgroup_ctr = @ + 1]
        /\ prep' = [rows_to_go |-> to_go, next_buf_row |-> next,
                    this_row_group |-> group, next_buf_stop |-> next + MaxV]
    BY <1>2 DEF ContextGroup
  <2>2. /\ next \in {0, MaxV, 2 * MaxV} /\ group \in {0, MaxV, 2 * MaxV}
        /\ next \in Nat /\ group \in Nat
    BY <1>1, <1>2
  <2>3. /\ main'.cur_iMCU_row = main.cur_iMCU_row
        /\ main'.suspended = main.suspended
        /\ main'.rowgroup_ctr = main.rowgroup_ctr + 1
        /\ main' = [main EXCEPT !.rowgroup_ctr = main'.rowgroup_ctr]
    BY <2>1 DEF Counters
  <2> HIDE DEF next, group
  <2>4. /\ next + MaxV \in {MaxV, 2 * MaxV, 3 * MaxV} /\ next + MaxV \in Nat
        /\ next < next + MaxV /\ next + MaxV <= next + 2 * MaxV
    BY <2>2
  <2>5. QED BY <1>2, <2>1, <2>2, <2>3, <2>4
<1>3. CASE filled # prep.next_buf_stop
  <2>1. /\ main' = main
        /\ prep' = [prep EXCEPT !.rows_to_go = to_go, !.next_buf_row = filled]
    BY <1>3 DEF ContextGroup, Counters
  <2>2. /\ prep' \in [rows_to_go : 0..image.height, next_buf_row : Nat,
                       this_row_group : Nat, next_buf_stop : Nat]
        /\ prep'.rows_to_go = to_go /\ prep'.next_buf_row = filled
        /\ prep'.this_row_group = prep.this_row_group
        /\ prep'.next_buf_stop = prep.next_buf_stop
    BY <2>1 DEF Counters
  <2>3. /\ filled < prep.next_buf_stop
        /\ prep.next_buf_stop <= filled + 2 * MaxV
    BY <1>1, <1>3
  <2>4. main' = [main EXCEPT !.rowgroup_ctr = main'.rowgroup_ctr]
    BY <2>1 DEF Counters
  <2>5. QED BY <1>1, <1>3, <2>1, <2>2, <2>3, <2>4
<1>4. QED BY <1>2, <1>3

\* The steps of pre_process_context: numrows lines are read, or the rows are
\* filled up when all were read.
LEMMA ContextKeeps ==
  ASSUME IInv1, pc = "fill", pc' = "fill", image' = image,
         UNCHANGED <<next_scanline, in_rows_avail>>,
         need_context_rows, ~ImageDone, ~StripFull,
         NEW numrows \in Nat, numrows <= in_rows_avail - in_row_ctr,
         in_row_ctr' = in_row_ctr + numrows, in_row_ctr' >= 1,
         NEW filled \in Nat, prep.next_buf_row < filled,
         filled <= prep.next_buf_stop,
         \/ numrows > 0 /\ filled = prep.next_buf_row + numrows
         \/ numrows = 0 /\ prep.rows_to_go = 0,
         NEW rows, ContextGroup(rows, filled, prep.rows_to_go - numrows)
  PROVE  IInv1'
<1>1. /\ Counters /\ CallInv /\ StripInv /\ RowsAccountedFor /\ RingInv
      /\ RowsPlaced /\ BottomInv
  BY DEF IInv1
<1>2. /\ MaxV' = MaxV /\ need_context_rows' = need_context_rows
      /\ total_iMCU_rows' = total_iMCU_rows
  BY SizesStay
<1>3. /\ image.height \in Nat \ {0} /\ DctSize \in Nat \ {0}
      /\ MaxV \in 1..4 /\ MaxLines \in Nat
      /\ total_iMCU_rows \in Nat \ {0}
  BY <1>1, Sizes, SizesAssumption DEF Counters
<1>4. /\ next_scanline \in Nat /\ in_rows_avail \in Nat
      /\ in_row_ctr \in Nat
      /\ prep.rows_to_go \in 0..image.height /\ prep.next_buf_row \in Nat
      /\ prep.next_buf_stop \in Nat
      /\ in_rows_avail <= image.height - next_scanline
  BY <1>1, <1>3 DEF Counters, CallInv, InCall
<1>5. /\ main.cur_iMCU_row \in 0..(total_iMCU_rows - 1)
      /\ main.rowgroup_ctr \in 0..(DctSize - 1)
      /\ ~main.suspended
  <2>1. /\ main.cur_iMCU_row \in 0..total_iMCU_rows
        /\ main.rowgroup_ctr \in 0..DctSize
    BY <1>1, <1>3 DEF Counters
  <2>2. /\ main.cur_iMCU_row # total_iMCU_rows
        /\ main.rowgroup_ctr # DctSize /\ ~main.suspended
    BY <1>1 DEF StripInv, ImageDone, StripFull
  <2>3. QED BY <1>3, <2>1, <2>2
<1>6. prep.rows_to_go = image.height - next_scanline - in_row_ctr
  BY <1>1, <1>3, <1>4, <1>5 DEF RowsAccountedFor
<1>7. prep.rows_to_go - numrows \in 0..image.height
  BY <1>3, <1>4, <1>6
<1>8. /\ prep' \in [rows_to_go : 0..image.height, next_buf_row : Nat,
                     this_row_group : Nat, next_buf_stop : Nat]
      /\ prep'.rows_to_go = prep.rows_to_go - numrows
      /\ prep'.this_row_group \in {0, MaxV, 2 * MaxV}
      /\ prep'.next_buf_stop \in {MaxV, 2 * MaxV, 3 * MaxV}
      /\ prep'.next_buf_row < prep'.next_buf_stop
      /\ prep'.next_buf_stop <= prep'.next_buf_row + 2 * MaxV
      /\ main'.cur_iMCU_row = main.cur_iMCU_row
      /\ main'.suspended = main.suspended
      /\ main' = [main EXCEPT !.rowgroup_ctr = main'.rowgroup_ctr]
      /\ \/ /\ filled = prep.next_buf_stop
            /\ main'.rowgroup_ctr = main.rowgroup_ctr + 1
            /\ prep'.next_buf_stop = prep'.next_buf_row + MaxV
         \/ /\ filled # prep.next_buf_stop
            /\ main'.rowgroup_ctr = main.rowgroup_ctr
            /\ prep'.next_buf_row = filled
            /\ prep'.next_buf_stop = prep.next_buf_stop
  BY <1>1, <1>3, <1>7, ContextGroupMoves
<1>9. /\ main'.rowgroup_ctr \in 0..DctSize
      /\ prep'.next_buf_row \in Nat /\ prep'.next_buf_stop \in Nat
      /\ in_row_ctr' \in 1..in_rows_avail
  BY <1>3, <1>4, <1>5, <1>8
<1>10. Counters'
  <2>1. main' \in [cur_iMCU_row : 0..total_iMCU_rows,
                   rowgroup_ctr : 0..DctSize, suspended : BOOLEAN]
    BY <1>1, <1>8, <1>9 DEF Counters
  <2>2. in_row_ctr' \in 0..in_rows_avail
    BY <1>4, <1>9
  <2>3. QED BY <1>1, <1>2, <1>8, <2>1, <2>2 DEF Counters
<1>11. CallInv'
  BY <1>1 DEF CallInv, InCall
<1>12. StripInv'
  BY <1>2, <1>4, <1>5, <1>8, <1>9 DEF StripInv, StripFull, ImageDone, InCall
<1>13. RowsAccountedFor'
  <2>1. /\ image'.height = image.height
        /\ next_scanline' = next_scanline
        /\ in_row_ctr' = in_row_ctr + numrows
        /\ prep'.rows_to_go = prep.rows_to_go - numrows
        /\ ~main'.suspended
    BY <1>5, <1>8
  <2>2. QED BY <2>1, <1>3, <1>4, <1>6 DEF RowsAccountedFor
<1>14. RingInv'
  BY <1>2, <1>8 DEF RingInv
<1> DEFINE above == main.cur_iMCU_row * (MaxV * DctSize)
           groups == main.rowgroup_ctr * MaxV
<1>15. /\ (main.rowgroup_ctr + 1) * MaxV = groups + MaxV
       /\ above \in Nat /\ groups \in Nat
  BY <1>3, <1>5
<1>16. RowsPlaced'
  <2>1. SUFFICES ASSUME prep'.rows_to_go > 0
                 PROVE  image.height - prep'.rows_to_go
                          = above + main'.rowgroup_ctr * MaxV
                              + prep'.next_buf_row
                              + (2 * MaxV - prep'.next_buf_stop)
    BY <1>2, <1>8 DEF RowsPlaced
  <2>2. /\ prep.rows_to_go > 0 /\ numrows > 0
        /\ filled = prep.next_buf_row + numrows
    BY <2>1, <1>4, <1>8
  <2>3. image.height - prep.rows_to_go
          = above + groups + prep.next_buf_row
              + (2 * MaxV - prep.next_buf_stop)
    BY <2>2, <1>1 DEF RowsPlaced
  <2> HIDE DEF above, groups
  <2>4. main'.rowgroup_ctr * MaxV + prep'.next_buf_row - prep'.next_buf_stop
          = groups + filled - prep.next_buf_stop
    <3>1. CASE /\ filled = prep.next_buf_stop
               /\ main'.rowgroup_ctr = main.rowgroup_ctr + 1
               /\ prep'.next_buf_stop = prep'.next_buf_row + MaxV
      BY <3>1, <1>3, <1>4, <1>9, <1>15
    <3>2. CASE /\ main'.rowgroup_ctr = main.rowgroup_ctr
               /\ prep'.next_buf_row = filled
               /\ prep'.next_buf_stop = prep.next_buf_stop
      BY <3>2, <1>3, <1>4, <1>9, <1>15 DEF groups
    <3>3. QED BY <3>1, <3>2, <1>8
  <2>5. main'.rowgroup_ctr * MaxV \in Nat
    BY <1>3, <1>9
  <2>6. prep'.rows_to_go = prep.rows_to_go - numrows
    BY <1>8
  <2> DEFINE moved == main'.rowgroup_ctr * MaxV
  <2>7. /\ moved \in Nat
        /\ moved + prep'.next_buf_row - prep'.next_buf_stop
             = groups + filled - prep.next_buf_stop
    BY <2>4, <2>5
  <2> HIDE DEF moved
  <2>8. image.height - (prep.rows_to_go - numrows)
          = above + moved + prep'.next_buf_row
              + (2 * MaxV - prep'.next_buf_stop)
    BY <2>2, <2>3, <2>7, <1>3, <1>4, <1>9, <1>15
  <2>9. QED BY <2>6, <2>8 DEF moved
<1>17. BottomInv'
  BY <1>2 DEF BottomInv, InCall, FirstPass
<1>18. QED BY <1>10, <1>11, <1>12, <1>13, <1>14, <1>16, <1>17 DEF IInv1

\* A round of pre_process_context that reads lines.
LEMMA PreProcessContextKeeps ==
  ASSUME IInv1, PreProcessContext
  PROVE  IInv1'
<1>1. /\ pc = "fill" /\ pc' = "fill" /\ image' = image
      /\ UNCHANGED <<next_scanline, in_rows_avail>>
      /\ need_context_rows /\ ~ImageDone /\ ~StripFull
      /\ in_row_ctr < in_rows_avail
  BY DEF PreProcessContext, MoreToFill
<1>2. Counters /\ RingInv /\ CallInv
  BY DEF IInv1
<1>3. /\ in_row_ctr \in Nat /\ in_rows_avail \in Nat
      /\ prep.next_buf_row \in Nat /\ prep.next_buf_stop \in Nat
      /\ prep.next_buf_row < prep.next_buf_stop
  BY <1>1, <1>2, SizesAssumption DEF Counters, RingInv
<1> DEFINE numrows == Lesser(prep.next_buf_stop - prep.next_buf_row,
                             in_rows_avail - in_row_ctr)
           rows == TopPadded(Converted(numrows))
           filled == prep.next_buf_row + numrows
<1>4. /\ in_row_ctr' = in_row_ctr + numrows
      /\ ContextGroup(rows, filled, prep.rows_to_go - numrows)
  BY DEF PreProcessContext
<1>5. /\ numrows \in Nat \ {0} /\ numrows <= in_rows_avail - in_row_ctr
      /\ filled <= prep.next_buf_stop
  BY <1>1, <1>3 DEF Lesser
<1> HIDE DEF numrows, rows
<1>6. /\ filled \in Nat /\ prep.next_buf_row < filled /\ in_row_ctr' >= 1
  BY <1>3, <1>4, <1>5
<1>7. QED BY <1>1, <1>4, <1>5, <1>6, ContextKeeps

\* A round of pre_process_context that fills the rows up.
LEMMA PadContextKeeps ==
  ASSUME IInv1, PadContext
  PROVE  IInv1'
<1>1. /\ pc = "fill" /\ pc' = "fill" /\ image' = image
      /\ UNCHANGED <<next_scanline, in_rows_avail, in_row_ctr>>
      /\ need_context_rows /\ ~ImageDone /\ ~StripFull
      /\ in_row_ctr >= in_rows_avail
  BY DEF PadContext, MoreToFill, callVars
<1>2. Counters /\ RingInv /\ CallInv
  BY DEF IInv1
<1>3. /\ in_row_ctr \in Nat /\ in_rows_avail \in Nat
      /\ in_row_ctr <= in_rows_avail
      /\ prep.next_buf_row \in Nat /\ prep.next_buf_stop \in Nat
      /\ prep.next_buf_row < prep.next_buf_stop
  BY <1>1, <1>2, SizesAssumption DEF Counters, RingInv
<1>4. in_rows_avail >= 1
  <2>1. image.height \in Nat /\ next_scanline \in Nat
    BY <1>2, Sizes DEF Counters
  <2>2. QED BY <1>1, <1>2, <2>1 DEF CallInv, InCall
<1>5. prep.rows_to_go = 0
  BY <1>1, <1>3 DEF PadContext, MoreToFill
<1> DEFINE rows == RowsPadded(color_buf, prep.next_buf_row, prep.next_buf_stop)
<1>6. ContextGroup(rows, prep.next_buf_stop, prep.rows_to_go - 0)
  BY <1>5 DEF PadContext
<1> HIDE DEF rows
<1>7. in_row_ctr' = in_row_ctr + 0 /\ in_row_ctr' >= 1
      /\ 0 <= in_rows_avail - in_row_ctr
  BY <1>1, <1>3, <1>4
<1>8. QED BY <1>1, <1>3, <1>5, <1>6, <1>7, ContextKeeps

-----------------------------------------------------------------------------
(* The other passes, and all together.                                     *)

\* When the application may call jpeg_finish_compress the image is done.
LEMMA AllGivenAllDone ==
  ASSUME IInv1, pc = "app", next_scanline >= image.height
  PROVE  ImageDone
<1>1. Counters /\ CallInv /\ StripInv /\ RowsAccountedFor /\ BottomInv
  BY DEF IInv1
<1>2. /\ image.height \in Nat \ {0} /\ next_scanline \in 0..image.height
      /\ prep.rows_to_go \in 0..image.height
      /\ in_rows_avail = 0 /\ in_row_ctr \in 0..in_rows_avail
  BY <1>1, Sizes DEF Counters, CallInv, InCall
<1>3. prep.rows_to_go = 0 /\ ~main.suspended
  <2>1. CASE main.suspended
    BY <2>1, <1>1, <1>2 DEF RowsAccountedFor
  <2>2. CASE ~main.suspended
    BY <2>2, <1>1, <1>2 DEF RowsAccountedFor
  <2>3. QED BY <2>1, <2>2
<1>4. QED BY <1>1, <1>3 DEF BottomInv, InCall

\* What the later passes leave alone.
LEMMA LaterKeeps ==
  ASSUME IInv1, ~InCall,
         \/ ImageDone
         \/ pc' = "failed" /\ prep.rows_to_go = image.height,
         pc' \in {"between", "crank", "finished", "failed"},
         pc' = "failed" => image.suspends,
         UNCHANGED <<image, next_scanline, in_row_ctr, in_rows_avail, main,
                     prep>>
  PROVE  IInv1'
<1>1. /\ MaxV' = MaxV /\ need_context_rows' = need_context_rows
      /\ total_iMCU_rows' = total_iMCU_rows
  BY SizesStay
<1>2. /\ Counters /\ CallInv /\ StripInv /\ RowsAccountedFor /\ RingInv
      /\ RowsPlaced /\ BottomInv
  BY DEF IInv1
<1>3. Counters'
  BY <1>1, <1>2 DEF Counters
<1>4. CallInv' /\ StripInv' /\ RowsAccountedFor'
  BY <1>1, <1>2
  DEF CallInv, InCall, StripInv, StripFull, ImageDone, RowsAccountedFor
<1>5. RingInv'
  BY <1>1, <1>2 DEF RingInv
<1>6. RowsPlaced'
  BY <1>1, <1>2 DEF RowsPlaced
<1>7. BottomInv'
  BY <1>1, <1>2 DEF BottomInv, StripFull, ImageDone, InCall, FirstPass
<1>8. QED BY <1>3, <1>4, <1>5, <1>6, <1>7 DEF IInv1

\* Nothing happens.
LEMMA StutterKeeps ==
  ASSUME IInv1, UNCHANGED vars
  PROVE  IInv1'
<1>1. UNCHANGED <<image, pc, next_scanline, in_row_ctr, in_rows_avail, main,
                  prep>>
  BY DEF vars, callVars, prepVars
<1>2. /\ MaxV' = MaxV /\ need_context_rows' = need_context_rows
      /\ total_iMCU_rows' = total_iMCU_rows
  BY <1>1, SizesStay
<1>3. /\ Counters /\ CallInv /\ StripInv /\ RowsAccountedFor /\ RingInv
      /\ RowsPlaced /\ BottomInv
  BY DEF IInv1
<1>4. Counters'
  BY <1>1, <1>2, <1>3 DEF Counters
<1>5. CallInv' /\ StripInv' /\ RowsAccountedFor'
  BY <1>1, <1>2, <1>3
  DEF CallInv, InCall, StripInv, StripFull, ImageDone, RowsAccountedFor
<1>6. RingInv'
  BY <1>1, <1>2, <1>3 DEF RingInv
<1>7. RowsPlaced'
  BY <1>1, <1>2, <1>3 DEF RowsPlaced
<1>8. BottomInv'
  BY <1>1, <1>2, <1>3
  DEF BottomInv, StripFull, ImageDone, InCall, FirstPass
<1>9. QED BY <1>4, <1>5, <1>6, <1>7, <1>8 DEF IInv1

\* Before the first line.
LEMMA InitKeeps ==
  ASSUME Init
  PROVE  IInv1
<1>1. /\ image \in Images /\ pc = "app" /\ next_scanline = 0
      /\ in_row_ctr = 0 /\ in_rows_avail = 0
      /\ main = [cur_iMCU_row |-> 0, rowgroup_ctr |-> 0, suspended |-> FALSE]
      /\ prep = [rows_to_go |-> image.height, next_buf_row |-> 0,
                 this_row_group |-> 0, next_buf_stop |-> 2 * MaxV]
  BY DEF Init, StartPassPrep
<1>2. /\ image.height \in Nat \ {0} /\ DctSize \in Nat \ {0}
      /\ MaxV \in 1..4 /\ total_iMCU_rows \in Nat \ {0}
      /\ MaxLines \in Nat
  BY <1>1, Sizes, SizesAssumption
<1>3. MaxV * DctSize \in Nat
  BY <1>2
<1>4. Counters
  BY <1>1, <1>2 DEF Counters
<1>5. CallInv
  BY <1>1 DEF CallInv, InCall
<1>6. ~StripFull /\ ~ImageDone
  BY <1>1, <1>2 DEF StripFull, ImageDone
<1>7. StripInv
  BY <1>1, <1>6 DEF StripInv
<1>8. RowsAccountedFor
  BY <1>1, <1>2 DEF RowsAccountedFor
<1>9. RingInv
  BY <1>1, <1>2 DEF RingInv
<1>10. RowsPlaced
  <2>1. 0 * (MaxV * DctSize) = 0 /\ 0 * MaxV = 0
    BY <1>2, <1>3
  <2>2. QED BY <2>1, <1>1, <1>2 DEF RowsPlaced
<1>11. BottomInv
  BY <1>1, <1>2 DEF BottomInv, InCall, FirstPass
<1>12. QED BY <1>4, <1>5, <1>7, <1>8, <1>9, <1>10, <1>11 DEF IInv1

\* Every step keeps the invariant.
LEMMA NextKeeps ==
  ASSUME IInv1, [Next]_vars
  PROVE  IInv1'
<1>1. ASSUME NEW n \in 1..MaxLines, WriteScanlines(n)
      PROVE  IInv1'
  BY <1>1, WriteScanlinesKeeps
<1>2. ASSUME FinishFirstPass
      PROVE  IInv1'
  BY <1>2, AllGivenAllDone, LaterKeeps
  DEF FinishFirstPass, FinishPass, InCall, callVars, prepVars
<1>3. ASSUME pc \in {"between", "crank"}
      PROVE  ImageDone /\ ~InCall
  BY <1>3 DEF IInv1, BottomInv, FirstPass, InCall
<1>4. ASSUME PreparePass
      PROVE  IInv1'
  BY <1>3, <1>4, LaterKeeps DEF PreparePass, callVars, prepVars
<1>5. ASSUME CrankMcu
      PROVE  IInv1'
  BY <1>3, <1>5, LaterKeeps DEF CrankMcu, EncodeMcu, prepVars
<1>6. ASSUME CrankFails \/ PreparePassFails \/ FinishCompressFails
      PROVE  IInv1'
  BY <1>3, <1>6, LaterKeeps
  DEF CrankFails, PreparePassFails, FinishCompressFails, CantSuspend, callVars,
      prepVars
<1>11. ASSUME HeadersFail
       PROVE  IInv1'
  BY <1>11, LaterKeeps
  DEF HeadersFail, CantSuspend, InCall, callVars, prepVars
<1>12. ASSUME FinishPassFails
       PROVE  IInv1'
  <2>1. ImageDone /\ ~InCall
    <3>1. CASE pc = "crank"
      BY <1>3, <3>1
    <3>2. CASE pc = "app" /\ next_scanline >= image.height
      BY <3>2, AllGivenAllDone DEF InCall
    <3>3. QED BY <1>12, <3>1, <3>2 DEF FinishPassFails
  <2>2. QED
    BY <1>12, <2>1, LaterKeeps
    DEF FinishPassFails, CantSuspend, callVars, prepVars
<1>7. ASSUME FinishLaterPass
      PROVE  IInv1'
  BY <1>3, <1>7, LaterKeeps DEF FinishLaterPass, FinishPass, callVars, prepVars
<1>8. ASSUME FinishCompress
      PROVE  IInv1'
  BY <1>3, <1>8, LaterKeeps DEF FinishCompress, callVars, prepVars
<1>9. ASSUME Over \/ UNCHANGED vars
      PROVE  IInv1'
  BY <1>9, StutterKeeps DEF Over
<1>10. QED
  BY <1>1, <1>2, <1>4, <1>5, <1>6, <1>7, <1>8, <1>9, <1>11, <1>12,
     NeedMoreRowsKeeps,
     PreProcessKeeps, PreProcessContextKeeps, PadContextKeeps,
     StartCompressKeeps, CompressMcuKeeps, CompressLastMcuKeeps, SuspendKeeps
  DEF Next

\* The first pass is in order, whatever the image and however the lines come.
THEOREM FirstPassInvariant == Spec => []IInv1
<1>1. Init => IInv1
  BY InitKeeps
<1>2. IInv1 /\ [Next]_vars => IInv1'
  BY NextKeeps
<1>3. QED BY <1>1, <1>2, PTL DEF Spec

\* The application and the preprocessor always agree on the lines that were
\* read, but for the one line process_data_simple_main holds back.
THEOREM LinesAccountedFor == Spec => []RowsAccountedFor
<1>1. IInv1 => RowsAccountedFor
  BY DEF IInv1
<1>2. QED BY <1>1, FirstPassInvariant, PTL

\* A call returns with room at the destination only when all its lines are
\* taken.
LEMMA NothingIsLeft ==
  ASSUME IInv1, NeedMoreRows
  PROVE  in_row_ctr = in_rows_avail
<1>1. /\ pc = "fill" /\ ~MoreToFill /\ (ImageDone \/ ~StripFull)
  BY DEF NeedMoreRows
<1>2. /\ Counters /\ CallInv /\ StripInv /\ RowsAccountedFor /\ RowsPlaced
  BY DEF IInv1
<1>3. /\ image.height \in Nat \ {0} /\ next_scanline \in 0..image.height
      /\ in_rows_avail \in 1..(image.height - next_scanline)
      /\ in_row_ctr \in 0..in_rows_avail
      /\ prep.rows_to_go \in 0..image.height
      /\ ~main.suspended
  BY <1>1, <1>2, Sizes DEF Counters, CallInv, InCall, StripInv
<1>4. CASE ~ImageDone
  BY <1>1, <1>3, <1>4 DEF MoreToFill
<1>5. CASE ImageDone
  <2>1. prep.rows_to_go = 0
    <3>1. /\ main.cur_iMCU_row = total_iMCU_rows
          /\ main.rowgroup_ctr \in 0..DctSize
          /\ prep.next_buf_row \in Nat /\ prep.next_buf_stop \in Nat
      BY <1>2, <1>5 DEF ImageDone, Counters
    <3>2. /\ DctSize \in Nat /\ MaxV \in 1..4 /\ total_iMCU_rows \in Nat
          /\ image.height <= total_iMCU_rows * (MaxV * DctSize)
          /\ total_iMCU_rows * (MaxV * DctSize) \in Nat
      BY <1>2, Sizes DEF Counters
    <3> DEFINE all == total_iMCU_rows * (MaxV * DctSize)
               groups == main.rowgroup_ctr * MaxV
               below == IF need_context_rows
                        THEN 2 * MaxV - prep.next_buf_stop ELSE 0
    <3>3. groups \in Nat
      BY <3>1, <3>2
    <3>4. below \in Int /\ prep.next_buf_row + below \in Nat
      BY <3>1, <3>2 DEF IInv1, RingInv
    <3>5. prep.rows_to_go > 0 => image.height - prep.rows_to_go
                                   = all + groups + prep.next_buf_row + below
      BY <1>2, <3>1 DEF RowsPlaced
    <3> HIDE DEF all, groups, below
    <3>6. all \in Nat /\ image.height <= all
      BY <3>2 DEF all
    <3>7. QED BY <1>3, <3>1, <3>3, <3>4, <3>5, <3>6
  <2>2. image.height = next_scanline + in_row_ctr
    BY <2>1, <1>2, <1>3 DEF RowsAccountedFor
  <2>3. QED BY <2>2, <1>3
<1>6. QED BY <1>4, <1>5

\* To a destination that never suspends, as that of main.cpp, every line is
\* written that a call of jpeg_write_scanlines is given.
THEOREM EveryLineTaken == Spec => LinesTaken
<1>1. IInv1 /\ [Next]_vars
        => [pc # "app" /\ pc' = "app" /\ ~image.suspends
              => next_scanline' = next_scanline + in_rows_avail]_vars
  <2>1. SUFFICES ASSUME IInv1, Next, pc # "app", pc' = "app", ~image.suspends
                 PROVE  next_scanline' = next_scanline + in_rows_avail
    OBVIOUS
  <2>2. ~Over
    BY <2>1 DEF Over, vars
  <2>3. ~Suspend
    BY <2>1 DEF Suspend
  <2>4. NeedMoreRows
    BY <2>1, <2>2, <2>3
    DEF Next, WriteScanlines, PreProcess, PreProcessContext, PadContext,
        StartCompress, CompressMcu, CompressLastMcu, FinishFirstPass,
        FinishPass, PreparePass, CrankMcu, CrankFails, FinishLaterPass,
        FinishCompress, HeadersFail, FinishPassFails, PreparePassFails,
        FinishCompressFails, CantSuspend
  <2>5. QED BY <2>1, <2>4, NothingIsLeft DEF NeedMoreRows, Return
<1>2. QED BY <1>1, FirstPassInvariant, PTL DEF Spec, LinesTaken

-----------------------------------------------------------------------------
(* The passes: scans and MCUs.                                             *)

\* The entropy coder writes in this pass.
Writing == ~Gathering

\* The passes: of each scan one, or one to gather statistics and one to write.
MasterInv ==
  /\ master \in [pass_type : {"main_pass", "huff_opt_pass", "output_pass"},
                 pass_number : 0..total_passes,
                 scan_number : 0..Len(image.scans)]
  /\ FirstPass => master.pass_number = 0
  /\ IF image.optimize
     THEN master.pass_number = 2 * master.scan_number
            + (IF master.pass_type = "output_pass" THEN 1 ELSE 0)
     ELSE /\ master.pass_number = master.scan_number
          /\ master.pass_number # 0 => master.pass_type = "output_pass"
  /\ FirstPass \/ pc = "crank" => master.pass_number < total_passes
  /\ pc = "finished" => master.pass_number = total_passes

\* The numbers of the coefficient controller are in their ranges, ...
CoefType ==
  coef \in [iMCU_row_num : 0..total_iMCU_rows, MCU_vert_offset : 0..3,
            MCU_ctr : 0..(Columns - 1)]

\* ... and its next MCU is one of this iMCU row, unless the pass is done.
InPlace ==
  IF PassDone THEN coef.MCU_vert_offset = 0 /\ coef.MCU_ctr = 0
  ELSE coef.MCU_vert_offset < MCU_rows_per_iMCU_row

\* Where the coefficient controller is.
CoefInv ==
  /\ CoefType
  /\ FirstPass => coef.iMCU_row_num = main.cur_iMCU_row
  /\ FirstPass \/ pc = "crank" => InPlace

\* MCUs of the scan that were encoded in this pass.
McusDone ==
  IF PassDone THEN McusOf(Scan)
  ELSE Columns * (coef.iMCU_row_num
                    * (IF Interleaved THEN 1 ELSE image.factors[Scan[1]])
                  + coef.MCU_vert_offset)
       + coef.MCU_ctr

\* Each scan before this one is complete, this one is written so far, and
\* those after it are empty.
WrittenInv ==
  /\ DOMAIN written = DOMAIN image.scans
  /\ pc # "failed" =>
     \A s \in DOMAIN image.scans :
       Len(written[s]) =
         IF s <= master.scan_number THEN McusOf(image.scans[s])
         ELSE IF s = master.scan_number + 1 /\ Writing
                 /\ (FirstPass \/ pc = "crank")
         THEN McusDone
         ELSE 0

IInv2 == MasterInv /\ CoefInv /\ WrittenInv

\* The MCUs of a scan are a sequence of something.
SequencesInv ==
  \A s \in DOMAIN image.scans : \E T : written[s] \in Seq(T)

IInv == IInv1 /\ IInv2 /\ SequencesInv

-----------------------------------------------------------------------------
(* Numbers.                                                                *)

\* h rows in strips of u make t strips; at f for every u they make q, all but
\* the last strip full.
LEMMA LastRows ==
  ASSUME NEW h \in Nat \ {0}, NEW u \in Nat \ {0}, NEW f \in 1..4,
         NEW t \in Nat \ {0}, h <= t * u, (t - 1) * u < h,
         NEW q \in Nat \ {0}, h * f <= q * u, (q - 1) * u < h * f
  PROVE  /\ (IF q % f = 0 THEN f ELSE q % f) \in 1..f
         /\ q = (t - 1) * f + (IF q % f = 0 THEN f ELSE q % f)
<1>1. (t - 1) * f < q
  <2>1. ((t - 1) * u) * f < h * f
    <3>1. (t - 1) * u \in Int
      OBVIOUS
    <3> DEFINE below == (t - 1) * u
    <3> HIDE DEF below
    <3>2. below * f < h * f
      BY <3>1 DEF below
    <3>3. QED BY <3>2 DEF below
  <2>2. ((t - 1) * u) * f = ((t - 1) * f) * u
    OBVIOUS
  <2>3. ((t - 1) * f) * u < q * u
    BY <2>1, <2>2
  <2>4. QED BY <2>3
<1>2. q <= t * f
  <2>1. h * f <= (t * u) * f
    <3>1. t * u \in Int
      OBVIOUS
    <3> DEFINE above == t * u
    <3> HIDE DEF above
    <3>2. h * f <= above * f
      BY <3>1 DEF above
    <3>3. QED BY <3>2 DEF above
  <2>2. (t * u) * f = (t * f) * u
    OBVIOUS
  <2>3. (q - 1) * u < (t * f) * u
    BY <2>1, <2>2
  <2>4. q - 1 < t * f
    BY <2>3
  <2>5. QED BY <2>4
<1>3. CASE f = 1
  BY <1>1, <1>2, <1>3
<1>4. CASE f = 2
  BY <1>1, <1>2, <1>4
<1>5. CASE f = 3
  BY <1>1, <1>2, <1>5
<1>6. CASE f = 4
  BY <1>1, <1>2, <1>6
<1>7. QED BY <1>3, <1>4, <1>5, <1>6

\* The block rows of a component: all strips but the last one are full.
LEMMA BlockRows ==
  ASSUME image \in Images, NEW c \in Components
  PROVE  /\ image.factors[c] \in 1..4
         /\ last_row_height(c) \in 1..image.factors[c]
         /\ height_in_blocks(c)
              = (total_iMCU_rows - 1) * image.factors[c] + last_row_height(c)
<1>1. /\ image.factors[c] \in 1..4 /\ image.height \in Nat \ {0}
      /\ MaxV * DctSize \in Nat \ {0} /\ total_iMCU_rows \in Nat \ {0}
      /\ image.height <= total_iMCU_rows * (MaxV * DctSize)
      /\ (total_iMCU_rows - 1) * (MaxV * DctSize) < image.height
  BY Sizes, MaxVIsLargest
<1>2. image.height * image.factors[c] \in Nat \ {0}
  BY <1>1
<1>3. /\ height_in_blocks(c) \in Nat \ {0}
      /\ image.height * image.factors[c]
           <= height_in_blocks(c) * (MaxV * DctSize)
      /\ (height_in_blocks(c) - 1) * (MaxV * DctSize)
           < image.height * image.factors[c]
  BY <1>1, <1>2, CeilDivBounds DEF height_in_blocks
<1>4. last_row_height(c)
        = IF height_in_blocks(c) % image.factors[c] = 0
          THEN image.factors[c]
          ELSE height_in_blocks(c) % image.factors[c]
  BY DEF last_row_height
<1> DEFINE u == MaxV * DctSize
           q == height_in_blocks(c)
           f == image.factors[c]
<1>5. /\ u \in Nat \ {0} /\ q \in Nat \ {0} /\ f \in 1..4
      /\ image.height \in Nat \ {0} /\ total_iMCU_rows \in Nat \ {0}
      /\ image.height <= total_iMCU_rows * u
      /\ (total_iMCU_rows - 1) * u < image.height
      /\ image.height * f <= q * u /\ (q - 1) * u < image.height * f
      /\ last_row_height(c) = IF q % f = 0 THEN f ELSE q % f
  BY <1>1, <1>3, <1>4
<1> HIDE DEF u, q, f
<1>6. ASSUME NEW h \in Nat \ {0}, NEW t \in Nat \ {0}, h <= t * u,
             (t - 1) * u < h, h * f <= q * u, (q - 1) * u < h * f
      PROVE  /\ (IF q % f = 0 THEN f ELSE q % f) \in 1..f
             /\ q = (t - 1) * f + (IF q % f = 0 THEN f ELSE q % f)
  BY <1>5, <1>6, LastRows
<1>7. /\ (IF q % f = 0 THEN f ELSE q % f) \in 1..f
      /\ q = (total_iMCU_rows - 1) * f + (IF q % f = 0 THEN f ELSE q % f)
  BY <1>5, <1>6
<1>8. QED BY <1>1, <1>5, <1>7 DEF q, f

\* The scans of an image.
LEMMA ScansOf ==
  ASSUME image \in Images
  PROVE  /\ Len(image.scans) \in Nat \ {0}
         /\ DOMAIN image.scans = 1..Len(image.scans)
         /\ image.optimize \in BOOLEAN
         /\ \A s \in DOMAIN image.scans :
              /\ Len(image.scans[s]) \in Nat \ {0}
              /\ image.scans[s][1] \in Components
<1>1. /\ image.scans \in Seq(Seq(Components)) /\ image.scans # <<>>
      /\ \A s \in DOMAIN image.scans : image.scans[s] # <<>>
      /\ image.optimize \in BOOLEAN
  BY ImagesAssumption DEF Components
<1>2. /\ Len(image.scans) \in Nat \ {0}
      /\ DOMAIN image.scans = 1..Len(image.scans)
  BY <1>1
<1>3. ASSUME NEW s \in DOMAIN image.scans
      PROVE  Len(image.scans[s]) \in Nat \ {0}
             /\ image.scans[s][1] \in Components
  <2>1. image.scans[s] \in Seq(Components) /\ image.scans[s] # <<>>
    BY <1>1, <1>3, ElementOfSeq, <1>2
  <2>2. QED BY <2>1
<1>4. QED BY <1>1, <1>2, <1>3

\* A pass is for a scan there is.
LEMMA ScanAtHand ==
  ASSUME image \in Images, MasterInv, master.pass_number < total_passes
  PROVE  master.scan_number + 1 \in DOMAIN image.scans
<1>1. /\ Len(image.scans) \in Nat \ {0}
      /\ DOMAIN image.scans = 1..Len(image.scans)
      /\ image.optimize \in BOOLEAN
  BY ScansOf
<1>2. /\ master.scan_number \in 0..Len(image.scans)
      /\ master.pass_number \in Nat
  BY <1>1 DEF MasterInv, total_passes
<1>3. CASE image.optimize
  <2>1. master.pass_number >= 2 * master.scan_number
    BY <1>2, <1>3 DEF MasterInv
  <2>2. master.pass_number < 2 * Len(image.scans)
    BY <1>1, <1>3 DEF total_passes
  <2>3. QED BY <2>1, <2>2, <1>1, <1>2
<1>4. CASE ~image.optimize
  <2>1. master.pass_number = master.scan_number
    BY <1>4 DEF MasterInv
  <2>2. master.pass_number < Len(image.scans)
    BY <1>1, <1>4 DEF total_passes
  <2>3. QED BY <2>1, <2>2, <1>1, <1>2
<1>5. QED BY <1>3, <1>4

\* How many MCU rows there are in an iMCU row.
LEMMA McuRows ==
  ASSUME image \in Images, master.scan_number + 1 \in DOMAIN image.scans,
         coef.iMCU_row_num \in 0..total_iMCU_rows
  PROVE  /\ MCU_rows_per_iMCU_row \in 1..4
         /\ coef.iMCU_row_num < total_iMCU_rows - 1 =>
              MCU_rows_per_iMCU_row
                = IF Interleaved THEN 1 ELSE image.factors[Scan[1]]
         /\ coef.iMCU_row_num = total_iMCU_rows - 1 =>
              McusOf(Scan)
                = Columns * ((total_iMCU_rows - 1)
                               * (IF Interleaved THEN 1
                                  ELSE image.factors[Scan[1]])
                             + MCU_rows_per_iMCU_row)
         /\ McusOf(Scan) \in Nat
<1>1. Scan[1] \in Components
  BY ScansOf DEF Scan
<1>2. /\ image.factors[Scan[1]] \in 1..4
      /\ last_row_height(Scan[1]) \in 1..image.factors[Scan[1]]
      /\ height_in_blocks(Scan[1])
           = (total_iMCU_rows - 1) * image.factors[Scan[1]]
               + last_row_height(Scan[1])
  BY <1>1, BlockRows
<1>3. total_iMCU_rows \in Nat \ {0} /\ Columns \in Nat
  BY Sizes, SizesAssumption
<1>4. CASE Interleaved
  <2>1. MCU_rows_per_iMCU_row = 1 /\ McusOf(Scan) = Columns * total_iMCU_rows
    BY <1>4 DEF MCU_rows_per_iMCU_row, McusOf, Interleaved
  <2>2. QED BY <2>1, <1>3, <1>4
<1>5. CASE ~Interleaved
  <2>1. /\ MCU_rows_per_iMCU_row
             = IF coef.iMCU_row_num < total_iMCU_rows - 1
               THEN image.factors[Scan[1]] ELSE last_row_height(Scan[1])
        /\ McusOf(Scan) = Columns * height_in_blocks(Scan[1])
    BY <1>5 DEF MCU_rows_per_iMCU_row, McusOf, Interleaved
  <2>2. height_in_blocks(Scan[1]) \in Nat
    BY <1>2, <1>3
  <2>3. McusOf(Scan) \in Nat
    BY <2>1, <2>2, <1>3
  <2>4. QED BY <2>1, <2>3, <1>2, <1>3, <1>5
<1>6. QED BY <1>4, <1>5

-----------------------------------------------------------------------------
(* What depends on the image, or on the pass, alone.                       *)

\* The image alone says how many passes there are and how large the scans are.
LEMMA ScansStay ==
  ASSUME image' = image
  PROVE  /\ total_passes' = total_passes
         /\ \A s : McusOf(image.scans[s])' = McusOf(image.scans[s])
<1>1. total_passes' = total_passes
  BY DEF total_passes
<1>2. ASSUME NEW s
      PROVE  McusOf(image.scans[s])' = McusOf(image.scans[s])
  BY SizesStay DEF McusOf, height_in_blocks
<1>3. QED BY <1>1, <1>2

\* The image and the pass alone say which scan is written.
LEMMA PassStays ==
  ASSUME image' = image, master' = master
  PROVE  /\ Scan' = Scan
         /\ Interleaved' = Interleaved
         /\ Writing' = Writing
         /\ McusOf(Scan)' = McusOf(Scan)
         /\ coef'.iMCU_row_num = coef.iMCU_row_num =>
              MCU_rows_per_iMCU_row' = MCU_rows_per_iMCU_row
<1>1. Scan' = Scan /\ Interleaved' = Interleaved
  BY DEF Scan, Interleaved
<1>2. Writing' = Writing
  BY DEF Writing, Gathering
<1>3. McusOf(Scan)' = McusOf(Scan)
  BY <1>1, SizesStay DEF McusOf, height_in_blocks
<1>4. ASSUME coef'.iMCU_row_num = coef.iMCU_row_num
      PROVE  MCU_rows_per_iMCU_row' = MCU_rows_per_iMCU_row
  BY <1>1, <1>4, SizesStay
  DEF MCU_rows_per_iMCU_row, last_row_height, height_in_blocks
<1>5. QED BY <1>1, <1>2, <1>3, <1>4

\* One MCU more is done.
LEMMA McuCounts ==
  ASSUME image \in Images, master.scan_number + 1 \in DOMAIN image.scans,
         image' = image, master' = master, CoefType, ~PassDone, InPlace,
         coef' = NextMcu
  PROVE  /\ McusDone \in Nat
         /\ McusDone' = McusDone + 1
         /\ CoefType' /\ InPlace'
<1> DEFINE k == IF Interleaved THEN 1 ELSE image.factors[Scan[1]]
           r == coef.iMCU_row_num
           o == coef.MCU_vert_offset
           x == coef.MCU_ctr
           m == MCU_rows_per_iMCU_row
           t == total_iMCU_rows
<1>1. /\ Columns \in Nat \ {0} /\ t \in Nat \ {0} /\ r \in 0..(t - 1)
      /\ o \in 0..3 /\ x \in 0..(Columns - 1) /\ k \in 1..4 /\ m \in 1..4
      /\ o < m /\ McusOf(Scan) \in Nat
  <2>1. Columns \in Nat \ {0} /\ t \in Nat \ {0}
    BY Sizes, SizesAssumption
  <2>2. r \in 0..t /\ o \in 0..3 /\ x \in 0..(Columns - 1)
    BY DEF CoefType
  <2>3. r # t /\ o < m
    BY DEF PassDone, InPlace
  <2>4. m \in 1..4 /\ McusOf(Scan) \in Nat
    BY <2>2, McuRows
  <2>5. k \in 1..4
    <3>1. Scan[1] \in Components
      BY ScansOf DEF Scan
    <3>2. QED BY <3>1, BlockRows
  <2>6. QED BY <2>1, <2>2, <2>3, <2>4, <2>5
<1>2. /\ r < t - 1 => m = k
      /\ r = t - 1 => McusOf(Scan) = Columns * ((t - 1) * k + m)
  BY McuRows DEF CoefType
<1>3. McusDone = Columns * (r * k + o) + x
  BY DEF McusDone
<1>4. /\ t' = t /\ Interleaved' = Interleaved /\ Scan' = Scan
      /\ McusOf(Scan)' = McusOf(Scan)
      /\ coef'.iMCU_row_num = r => MCU_rows_per_iMCU_row' = m
  BY PassStays, SizesStay
<1>5. McusDone' = IF coef'.iMCU_row_num = t THEN McusOf(Scan)
                  ELSE Columns * (coef'.iMCU_row_num * k
                                    + coef'.MCU_vert_offset)
                         + coef'.MCU_ctr
  BY <1>4 DEF McusDone, PassDone
<1>6. /\ PassDone' <=> coef'.iMCU_row_num = t
      /\ CoefType' <=> coef' \in [iMCU_row_num : 0..t, MCU_vert_offset : 0..3,
                                  MCU_ctr : 0..(Columns - 1)]
  BY <1>4 DEF PassDone, CoefType
<1>7. coef = [iMCU_row_num |-> r, MCU_vert_offset |-> o, MCU_ctr |-> x]
  BY DEF CoefType
<1>8. coef' = IF x = Columns - 1 /\ o = m - 1
              THEN [iMCU_row_num |-> r + 1, MCU_vert_offset |-> 0,
                    MCU_ctr |-> 0]
              ELSE IF x = Columns - 1
              THEN [iMCU_row_num |-> r, MCU_vert_offset |-> o + 1,
                    MCU_ctr |-> 0]
              ELSE [iMCU_row_num |-> r, MCU_vert_offset |-> o,
                    MCU_ctr |-> x + 1]
  <2>1. /\ [coef EXCEPT !.MCU_vert_offset = @ + 1, !.MCU_ctr = 0]
             = [iMCU_row_num |-> r, MCU_vert_offset |-> o + 1, MCU_ctr |-> 0]
        /\ [coef EXCEPT !.MCU_ctr = @ + 1]
             = [iMCU_row_num |-> r, MCU_vert_offset |-> o, MCU_ctr |-> x + 1]
    <3>1. [coef EXCEPT !.MCU_vert_offset = o + 1, !.MCU_ctr = 0]
             = [iMCU_row_num |-> r, MCU_vert_offset |-> o + 1, MCU_ctr |-> 0]
      <4> DEFINE moved == [iMCU_row_num |-> r, MCU_vert_offset |-> o + 1,
                           MCU_ctr |-> x]
      <4>1. [coef EXCEPT !.MCU_vert_offset = o + 1] = moved
        BY <1>7
      <4>2. [moved EXCEPT !.MCU_ctr = 0]
              = [iMCU_row_num |-> r, MCU_vert_offset |-> o + 1, MCU_ctr |-> 0]
        OBVIOUS
      <4>3. [coef EXCEPT !.MCU_vert_offset = o + 1, !.MCU_ctr = 0]
              = [[coef EXCEPT !.MCU_vert_offset = o + 1] EXCEPT !.MCU_ctr = 0]
        OBVIOUS
      <4>4. QED BY <4>1, <4>2, <4>3
    <3>2. [coef EXCEPT !.MCU_ctr = x + 1]
             = [iMCU_row_num |-> r, MCU_vert_offset |-> o, MCU_ctr |-> x + 1]
      BY <1>7
    <3>3. QED BY <3>1, <3>2
  <2>2. coef' = IF LastOfIMcuRow
                THEN [iMCU_row_num |-> r + 1, MCU_vert_offset |-> 0,
                      MCU_ctr |-> 0]
                ELSE IF LastInRow
                THEN [coef EXCEPT !.MCU_vert_offset = @ + 1, !.MCU_ctr = 0]
                ELSE [coef EXCEPT !.MCU_ctr = @ + 1]
    BY DEF NextMcu
  <2>3. /\ LastInRow <=> x = Columns - 1
        /\ LastOfIMcuRow <=> x = Columns - 1 /\ o = m - 1
    BY DEF LastOfIMcuRow, LastInRow
  <2> HIDE DEF r, o, x, m
  <2>4. CASE LastOfIMcuRow
    BY <2>2, <2>3, <2>4
  <2>5. CASE ~LastOfIMcuRow /\ LastInRow
    <3>1. coef' = [iMCU_row_num |-> r, MCU_vert_offset |-> o + 1,
                   MCU_ctr |-> 0]
      BY <2>1, <2>2, <2>5, Zenon
    <3>2. QED BY <2>3, <2>5, <3>1
  <2>6. CASE ~LastInRow
    <3>1. coef' = [iMCU_row_num |-> r, MCU_vert_offset |-> o,
                   MCU_ctr |-> x + 1]
      BY <2>1, <2>2, <2>3, <2>6, Zenon
    <3>2. QED BY <2>3, <2>6, <3>1
  <2>7. QED BY <2>4, <2>5, <2>6
<1> DEFINE y == r * k + o
<1>9. y \in Nat /\ McusDone = Columns * y + x /\ McusDone \in Nat
  <2>1. y \in Nat
    BY <1>1
  <2> HIDE DEF y
  <2>2. Columns * y \in Nat
    BY <2>1, <1>1
  <2>3. McusDone = Columns * y + x
    BY <1>3 DEF y
  <2>4. QED BY <2>1, <2>2, <2>3, <1>1
<1> HIDE DEF k, r, o, x, m, t
<1>10. CASE x # Columns - 1
  <2>1. /\ coef' = [iMCU_row_num |-> r, MCU_vert_offset |-> o,
                    MCU_ctr |-> x + 1]
        /\ r # t
    BY <1>1, <1>8, <1>10
  <2>2. /\ coef'.iMCU_row_num = r /\ coef'.MCU_vert_offset = o
        /\ coef'.MCU_ctr = x + 1
    BY <2>1
  <2>3. McusDone' = Columns * y + (x + 1)
    BY <2>1, <2>2, <1>5
  <2>4. McusDone' = McusDone + 1
    <3>1. Columns * y \in Nat
      BY <1>1, <1>9
    <3>2. QED BY <2>3, <3>1, <1>1, <1>9
  <2>5. CoefType'
    BY <2>1, <1>1, <1>6, <1>10
  <2>6. InPlace'
    BY <2>1, <2>2, <1>1, <1>4, <1>6 DEF InPlace
  <2>7. QED BY <2>4, <2>5, <2>6, <1>9
<1>11. CASE x = Columns - 1 /\ o # m - 1
  <2>1. /\ coef' = [iMCU_row_num |-> r, MCU_vert_offset |-> o + 1,
                    MCU_ctr |-> 0]
        /\ r # t
    BY <1>1, <1>8, <1>11
  <2>2. /\ coef'.iMCU_row_num = r /\ coef'.MCU_vert_offset = o + 1
        /\ coef'.MCU_ctr = 0
    BY <2>1
  <2>3. McusDone' = Columns * (r * k + (o + 1)) + 0
    BY <2>1, <2>2, <1>5
  <2>4. McusDone' = McusDone + 1
    <3>1. r * k \in Nat
      BY <1>1
    <3>2. r * k + (o + 1) = y + 1
      BY <3>1, <1>1
    <3> HIDE DEF y
    <3>3. Columns * (y + 1) = Columns * y + Columns
      BY <1>1, <1>9
    <3>4. Columns * y \in Nat
      BY <1>1, <1>9
    <3>5. QED BY <2>3, <3>2, <3>3, <3>4, <1>1, <1>9, <1>11
  <2>5. CoefType'
    BY <2>1, <1>1, <1>6, <1>11
  <2>6. InPlace'
    BY <2>1, <2>2, <1>1, <1>4, <1>6, <1>11 DEF InPlace
  <2>7. QED BY <2>4, <2>5, <2>6, <1>9
<1>12. CASE x = Columns - 1 /\ o = m - 1
  <2>1. coef' = [iMCU_row_num |-> r + 1, MCU_vert_offset |-> 0, MCU_ctr |-> 0]
    BY <1>8, <1>12
  <2>2. /\ coef'.iMCU_row_num = r + 1 /\ coef'.MCU_vert_offset = 0
        /\ coef'.MCU_ctr = 0
    BY <2>1
  <2>3. McusDone + 1 = Columns * (r * k + m)
    <3>1. r * k \in Nat
      BY <1>1
    <3>2. r * k + m = y + 1
      BY <3>1, <1>1, <1>12
    <3> HIDE DEF y
    <3>3. Columns * (y + 1) = Columns * y + Columns
      BY <1>1, <1>9
    <3>4. Columns * y \in Nat
      BY <1>1, <1>9
    <3>5. QED BY <3>2, <3>3, <3>4, <1>1, <1>9, <1>12
  <2>4. McusDone' = McusDone + 1
    <3>1. CASE r = t - 1
      BY <2>2, <2>3, <3>1, <1>1, <1>2, <1>5
    <3>2. CASE r < t - 1
      <4>1. McusDone' = Columns * ((r + 1) * k + 0) + 0
        BY <2>2, <3>2, <1>1, <1>5
      <4>2. m = k /\ (r + 1) * k + 0 = r * k + m
        BY <3>2, <1>1, <1>2
      <4>3. Columns * (r * k + m) \in Int
        BY <1>1
      <4>4. QED BY <2>3, <4>1, <4>2, <4>3
    <3>3. QED BY <3>1, <3>2, <1>1
  <2>5. CoefType'
    BY <2>1, <1>1, <1>6
  <2>6. InPlace'
    <3>1. MCU_rows_per_iMCU_row' \in 1..4
      <4>1. /\ image' \in Images
            /\ master'.scan_number + 1 \in DOMAIN image'.scans
            /\ coef'.iMCU_row_num \in 0..total_iMCU_rows'
        BY <2>2, <1>1, <1>4 DEF t
      <4>2. (/\ image \in Images
             /\ master.scan_number + 1 \in DOMAIN image.scans
             /\ coef.iMCU_row_num \in 0..total_iMCU_rows
             => MCU_rows_per_iMCU_row \in 1..4)'
        BY McuRows, PTL
      <4>3. QED BY <4>1, <4>2
    <3>2. QED BY <2>2, <3>1, <1>6 DEF InPlace
  <2>7. QED BY <2>4, <2>5, <2>6, <1>9
<1>13. QED BY <1>10, <1>11, <1>12

-----------------------------------------------------------------------------
(* The passes, action by action.                                           *)

\* An action of the first pass that encodes nothing.
LEMMA FillKeepsScans ==
  ASSUME IInv, FirstPass, FirstPass',
         UNCHANGED <<image, master, coef, written>>,
         main'.cur_iMCU_row = main.cur_iMCU_row
  PROVE  IInv2' /\ SequencesInv'
<1>1. MasterInv /\ CoefInv /\ WrittenInv /\ SequencesInv
  BY DEF IInv, IInv2
<1>2. /\ total_iMCU_rows' = total_iMCU_rows /\ total_passes' = total_passes
      /\ \A s : McusOf(image.scans[s])' = McusOf(image.scans[s])
      /\ Interleaved' = Interleaved /\ Writing' = Writing /\ Scan' = Scan
      /\ MCU_rows_per_iMCU_row' = MCU_rows_per_iMCU_row
      /\ McusOf(Scan)' = McusOf(Scan)
  BY SizesStay, ScansStay, PassStays
<1>3. PassDone' <=> PassDone
  BY <1>2 DEF PassDone
<1>4. McusDone' = McusDone
  BY <1>2, <1>3 DEF McusDone
<1>5. MasterInv'
  <2>1. pc' # "finished" /\ FirstPass /\ FirstPass'
    BY DEF FirstPass
  <2>2. QED BY <1>1, <1>2, <2>1 DEF MasterInv
<1>6. CoefInv'
  BY <1>1, <1>2, <1>3 DEF CoefInv, CoefType, InPlace
<1>7. WrittenInv'
  <2>1. pc # "failed" /\ pc' # "failed"
    BY DEF FirstPass
  <2>2. QED BY <1>1, <1>2, <1>4, <2>1 DEF WrittenInv
<1>8. SequencesInv'
  BY <1>1 DEF SequencesInv
<1>9. QED BY <1>5, <1>6, <1>7, <1>8 DEF IInv2

\* An MCU is encoded.
LEMMA EncodeKeepsScans ==
  ASSUME IInv, EncodeMcu, ~PassDone, pc \in {"compress", "crank"},
         pc' = pc \/ (pc = "compress" /\ pc' = "fill"),
         FirstPass' => coef'.iMCU_row_num = main'.cur_iMCU_row
  PROVE  IInv2' /\ SequencesInv'
<1>1. MasterInv /\ CoefInv /\ WrittenInv /\ SequencesInv /\ image \in Images
  BY DEF IInv, IInv1, IInv2, Counters
<1>2. /\ image' = image /\ master' = master /\ coef' = NextMcu
      /\ written' = IF Writing
                    THEN [written EXCEPT ![master.scan_number + 1] =
                            Append(@, CurrentMcu)]
                    ELSE written
  BY DEF EncodeMcu, Writing
<1>3. /\ (FirstPass \/ pc = "crank") /\ (FirstPass \/ pc = "crank")'
      /\ FirstPass' => FirstPass
      /\ pc # "failed" /\ pc' # "failed" /\ pc' # "finished"
  BY DEF FirstPass
<1>4. /\ master.pass_number < total_passes
      /\ master.scan_number + 1 \in DOMAIN image.scans
      /\ CoefType /\ InPlace
  <2>1. master.pass_number < total_passes /\ CoefType /\ InPlace
    BY <1>1, <1>3 DEF MasterInv, CoefInv
  <2>2. QED BY <1>1, <2>1, ScanAtHand
<1>5. /\ McusDone \in Nat /\ McusDone' = McusDone + 1
      /\ CoefType' /\ InPlace'
  BY <1>1, <1>2, <1>4, McuCounts
<1>6. /\ total_passes' = total_passes
      /\ \A s : McusOf(image.scans[s])' = McusOf(image.scans[s])
      /\ Writing' = Writing
  BY <1>2, ScansStay, PassStays
<1>7. MasterInv'
  BY <1>1, <1>2, <1>3, <1>4, <1>6 DEF MasterInv
<1>8. CoefInv'
  BY <1>5 DEF CoefInv
<1> DEFINE n == master.scan_number + 1
<1>9. /\ n \in DOMAIN image.scans /\ n \in DOMAIN written
      /\ DOMAIN written = DOMAIN image.scans
      /\ master.scan_number \in Nat
      /\ Writing => Len(written[n]) = McusDone
      /\ ~Writing => Len(written[n]) = 0
  <2>1. DOMAIN written = DOMAIN image.scans /\ n \in DOMAIN image.scans
    BY <1>1, <1>4 DEF WrittenInv
  <2>2. master.scan_number \in Nat
    BY <1>1, ScansOf DEF MasterInv
  <2>3. ~(n <= master.scan_number)
    BY <2>2
  <2>4. Len(written[n]) = IF Writing THEN McusDone ELSE 0
    BY <1>1, <1>3, <2>1, <2>3 DEF WrittenInv
  <2>5. QED BY <2>1, <2>2, <2>4
<1>10. \E T : written'[n] \in Seq(T)
  <2>1. PICK T : written[n] \in Seq(T)
    BY <1>1, <1>9 DEF SequencesInv
  <2>2. CASE Writing
    <3>1. written'[n] = Append(written[n], CurrentMcu)
      BY <1>2, <1>9, <2>2
    <3>2. written[n] \in Seq(T \cup {CurrentMcu})
      BY <2>1, SeqMonotonic
    <3>3. written'[n] \in Seq(T \cup {CurrentMcu})
      BY <3>1, <3>2, AppendProperties
    <3>4. QED BY <3>3
  <2>3. CASE ~Writing
    BY <1>2, <2>1, <2>3
  <2>4. QED BY <2>2, <2>3
<1>11. Len(written'[n]) = IF Writing THEN McusDone' ELSE 0
  <2>1. PICK T : written[n] \in Seq(T)
    BY <1>1, <1>9 DEF SequencesInv
  <2>2. CASE Writing
    <3>1. written'[n] = Append(written[n], CurrentMcu)
      BY <1>2, <1>9, <2>2
    <3>2. written[n] \in Seq(T \cup {CurrentMcu})
      BY <2>1, SeqMonotonic
    <3>3. Len(written'[n]) = Len(written[n]) + 1
      BY <3>1, <3>2, AppendProperties
    <3>4. QED BY <2>2, <3>3, <1>5, <1>9
  <2>3. CASE ~Writing
    BY <1>2, <1>9, <2>3
  <2>4. QED BY <2>2, <2>3
<1>12. /\ DOMAIN written' = DOMAIN written
       /\ \A s \in DOMAIN written : s # n => written'[s] = written[s]
  BY <1>2
<1>13. WrittenInv'
  <2>1. SUFFICES ASSUME NEW s \in DOMAIN image.scans
                 PROVE  Len(written'[s]) =
                          IF s <= master.scan_number
                          THEN McusOf(image.scans[s])
                          ELSE IF s = n /\ Writing THEN McusDone' ELSE 0
    BY <1>2, <1>3, <1>6, <1>9, <1>12 DEF WrittenInv
  <2>2. CASE s = n
    BY <2>2, <1>9, <1>11
  <2>3. CASE s # n
    <3>1. Len(written[s]) = IF s <= master.scan_number
                            THEN McusOf(image.scans[s]) ELSE 0
      BY <2>3, <1>1, <1>3 DEF WrittenInv
    <3>2. written'[s] = written[s]
      BY <2>3, <1>9, <1>12
    <3>3. QED BY <2>3, <3>1, <3>2
  <2>4. QED BY <2>2, <2>3
<1>14. SequencesInv'
  <2>1. SUFFICES ASSUME NEW s \in DOMAIN image.scans
                 PROVE  \E T : written'[s] \in Seq(T)
    BY <1>2 DEF SequencesInv
  <2>2. CASE s = n
    BY <2>2, <1>10
  <2>3. CASE s # n
    BY <2>3, <1>1, <1>9, <1>12 DEF SequencesInv
  <2>4. QED BY <2>2, <2>3
<1>15. QED BY <1>7, <1>8, <1>13, <1>14 DEF IInv2

\* A pass is over.
LEMMA FinishPassKeepsScans ==
  ASSUME IInv, FinishPass, pc \in {"app", "crank"}, PassDone
  PROVE  IInv2' /\ SequencesInv'
<1>1. MasterInv /\ CoefInv /\ WrittenInv /\ SequencesInv /\ image \in Images
  BY DEF IInv, IInv1, IInv2, Counters
<1>2. /\ image' = image /\ coef' = coef /\ written' = written
      /\ pc' = "between"
      /\ master' =
           [pass_type |-> IF master.pass_type = "output_pass" /\ image.optimize
                          THEN "huff_opt_pass" ELSE "output_pass",
            pass_number |-> master.pass_number + 1,
            scan_number |-> IF master.pass_type = "output_pass"
                               \/ ~image.optimize
                            THEN master.scan_number + 1
                            ELSE master.scan_number]
  BY DEF FinishPass
<1>3. /\ Len(image.scans) \in Nat \ {0}
      /\ DOMAIN image.scans = 1..Len(image.scans)
      /\ image.optimize \in BOOLEAN
  BY <1>1, ScansOf
<1>4. FirstPass \/ pc = "crank"
  BY DEF FirstPass
<1>5. /\ master.pass_number < total_passes
      /\ master.scan_number + 1 \in DOMAIN image.scans
  <2>1. master.pass_number < total_passes
    BY <1>1, <1>4 DEF MasterInv
  <2>2. QED BY <1>1, <2>1, ScanAtHand
<1>6. /\ total_passes' = total_passes /\ total_iMCU_rows' = total_iMCU_rows
      /\ \A s : McusOf(image.scans[s])' = McusOf(image.scans[s])
  BY <1>2, ScansStay, SizesStay
<1>7. /\ master.scan_number \in Nat /\ master.pass_number \in Nat
      /\ total_passes \in Nat
  <2>1. total_passes \in Nat
    <3>1. CASE image.optimize
      BY <1>3, <3>1 DEF total_passes
    <3>2. CASE ~image.optimize
      BY <1>3, <3>2 DEF total_passes
    <3>3. QED BY <3>1, <3>2
  <2>2. /\ master.scan_number \in 0..Len(image.scans)
        /\ master.pass_number \in 0..total_passes
    BY <1>1 DEF MasterInv
  <2>3. QED BY <1>3, <2>1, <2>2
<1>8. ~FirstPass' /\ pc' # "crank" /\ pc' # "finished" /\ pc' # "failed"
  BY <1>2 DEF FirstPass
<1>9. MasterInv'
  <2>1. master' \in [pass_type : {"main_pass", "huff_opt_pass", "output_pass"},
                     pass_number : 0..total_passes,
                     scan_number : 0..Len(image.scans)]
    BY <1>2, <1>3, <1>5, <1>7
  <2>2. CASE image.optimize /\ master.pass_type = "output_pass"
    BY <1>1, <1>2, <1>6, <1>7, <1>8, <2>1, <2>2 DEF MasterInv
  <2>3. CASE image.optimize /\ master.pass_type # "output_pass"
    BY <1>1, <1>2, <1>6, <1>7, <1>8, <2>1, <2>3 DEF MasterInv
  <2>4. CASE ~image.optimize
    BY <1>1, <1>2, <1>6, <1>7, <1>8, <2>1, <2>4 DEF MasterInv
  <2>5. QED BY <1>3, <2>2, <2>3, <2>4
<1>10. CoefInv'
  BY <1>1, <1>2, <1>6, <1>8 DEF CoefInv, CoefType
<1>11. WrittenInv'
  <2>1. SUFFICES ASSUME NEW s \in DOMAIN image.scans
                 PROVE  Len(written[s]) = IF s <= master'.scan_number
                                          THEN McusOf(image.scans[s]) ELSE 0
    BY <1>1, <1>2, <1>6, <1>8 DEF WrittenInv
  <2>2. McusDone = McusOf(image.scans[master.scan_number + 1])
    BY DEF McusDone, Scan
  <2>3. /\ Len(written[s]) =
             IF s <= master.scan_number THEN McusOf(image.scans[s])
             ELSE IF s = master.scan_number + 1 /\ Writing
             THEN McusOf(image.scans[master.scan_number + 1])
             ELSE 0
        /\ s \in Nat
    <3>1. pc # "failed"
      OBVIOUS
    <3>2. QED BY <1>1, <1>3, <1>4, <2>2, <3>1 DEF WrittenInv
  <2>4. CASE Writing
    <3>1. master'.scan_number = master.scan_number + 1
      BY <1>2, <2>4 DEF Writing, Gathering
    <3>2. QED BY <2>3, <2>4, <3>1, <1>7
  <2>5. CASE ~Writing
    <3>1. master'.scan_number = master.scan_number
      BY <1>2, <2>5 DEF Writing, Gathering
    <3>2. QED BY <2>3, <2>5, <3>1, <1>7
  <2>6. QED BY <2>4, <2>5
<1>12. SequencesInv'
  BY <1>1, <1>2 DEF SequencesInv
<1>13. QED BY <1>9, <1>10, <1>11, <1>12 DEF IInv2

\* The next pass begins.
LEMMA PrepareKeepsScans ==
  ASSUME IInv, PreparePass
  PROVE  IInv2' /\ SequencesInv'
<1>1. MasterInv /\ CoefInv /\ WrittenInv /\ SequencesInv /\ image \in Images
  BY DEF IInv, IInv1, IInv2, Counters
<1>2. /\ image' = image /\ master' = master /\ written' = written
      /\ pc = "between" /\ pc' = "crank"
      /\ master.pass_number < total_passes
      /\ coef' = [iMCU_row_num |-> 0, MCU_vert_offset |-> 0, MCU_ctr |-> 0]
  BY DEF PreparePass
<1>3. /\ total_passes' = total_passes /\ total_iMCU_rows' = total_iMCU_rows
      /\ \A s : McusOf(image.scans[s])' = McusOf(image.scans[s])
  BY <1>2, ScansStay, SizesStay
<1>4. ~FirstPass' /\ ~FirstPass
  BY <1>2 DEF FirstPass
<1>5. /\ total_iMCU_rows \in Nat \ {0} /\ Columns \in Nat \ {0}
  BY <1>1, Sizes, SizesAssumption
<1>6. master.scan_number + 1 \in DOMAIN image.scans
  BY <1>1, <1>2, ScanAtHand
<1>7. MasterInv'
  BY <1>1, <1>2, <1>3, <1>4 DEF MasterInv
<1>8. CoefType'
  BY <1>2, <1>3, <1>5 DEF CoefType
<1>9. ~PassDone'
  BY <1>2, <1>3, <1>5 DEF PassDone
<1>10. MCU_rows_per_iMCU_row' \in 1..4
  <2>1. /\ image' \in Images
        /\ master'.scan_number + 1 \in DOMAIN image'.scans
        /\ coef'.iMCU_row_num \in 0..total_iMCU_rows'
    BY <1>1, <1>2, <1>3, <1>5, <1>6
  <2>2. (/\ image \in Images
         /\ master.scan_number + 1 \in DOMAIN image.scans
         /\ coef.iMCU_row_num \in 0..total_iMCU_rows
         => MCU_rows_per_iMCU_row \in 1..4)'
    BY McuRows, PTL
  <2>3. QED BY <2>1, <2>2
<1>11. CoefInv'
  BY <1>2, <1>4, <1>8, <1>9, <1>10 DEF CoefInv, InPlace
<1>12. McusDone' = 0
  <2>1. Interleaved' = Interleaved /\ Scan' = Scan
    BY <1>2, PassStays
  <2> DEFINE k == IF Interleaved THEN 1 ELSE image.factors[Scan[1]]
  <2>2. McusDone' = Columns * (0 * k + 0) + 0
    BY <1>2, <1>9, <2>1 DEF McusDone
  <2>3. k \in 1..4
    <3>1. Scan[1] \in Components
      BY <1>1, <1>6, ScansOf DEF Scan
    <3>2. QED BY <1>1, <3>1, BlockRows
  <2> HIDE DEF k
  <2>4. QED BY <2>2, <2>3, <1>5
<1>13. WrittenInv'
  BY <1>1, <1>2, <1>3, <1>4, <1>12 DEF WrittenInv
<1>14. SequencesInv'
  BY <1>1, <1>2 DEF SequencesInv
<1>15. QED BY <1>7, <1>11, <1>13, <1>14 DEF IInv2

\* The encoder ends or gives up, or nothing happens.
LEMMA EndKeepsScans ==
  ASSUME IInv, UNCHANGED <<image, master, coef, written, main>>,
         \/ pc' = "failed"
         \/ pc = "between" /\ pc' = "finished"
              /\ master.pass_number = total_passes
         \/ pc' = pc
  PROVE  IInv2' /\ SequencesInv'
<1>1. MasterInv /\ CoefInv /\ WrittenInv /\ SequencesInv
  BY DEF IInv, IInv2
<1>2. /\ total_iMCU_rows' = total_iMCU_rows /\ total_passes' = total_passes
      /\ \A s : McusOf(image.scans[s])' = McusOf(image.scans[s])
      /\ Interleaved' = Interleaved /\ Writing' = Writing /\ Scan' = Scan
      /\ MCU_rows_per_iMCU_row' = MCU_rows_per_iMCU_row
      /\ McusOf(Scan)' = McusOf(Scan)
  BY SizesStay, ScansStay, PassStays
<1>3. PassDone' <=> PassDone
  BY <1>2 DEF PassDone
<1>4. McusDone' = McusDone
  BY <1>2, <1>3 DEF McusDone
<1>5. /\ FirstPass' => FirstPass
      /\ pc' = "crank" => pc = "crank"
      /\ pc' = "finished" => master.pass_number = total_passes
      /\ pc' # "failed" => pc # "failed"
      /\ pc' # "failed" =>
           ((FirstPass \/ pc = "crank") <=> (FirstPass' \/ pc' = "crank"))
  BY <1>1 DEF FirstPass, MasterInv
<1>6. MasterInv'
  BY <1>1, <1>2, <1>5 DEF MasterInv
<1>7. CoefInv'
  BY <1>1, <1>2, <1>3, <1>5 DEF CoefInv, CoefType, InPlace
<1>8. WrittenInv'
  BY <1>1, <1>2, <1>4, <1>5 DEF WrittenInv
<1>9. SequencesInv'
  BY <1>1 DEF SequencesInv
<1>10. QED BY <1>6, <1>7, <1>8, <1>9 DEF IInv2

\* Before the first line.
LEMMA InitScans ==
  ASSUME Init
  PROVE  IInv2 /\ SequencesInv
<1>1. /\ image \in Images /\ pc = "app" /\ main.cur_iMCU_row = 0
      /\ coef = [iMCU_row_num |-> 0, MCU_vert_offset |-> 0, MCU_ctr |-> 0]
      /\ master = [pass_type |-> "main_pass", pass_number |-> 0,
                   scan_number |-> 0]
      /\ written = [s \in DOMAIN image.scans |-> <<>>]
  BY DEF Init
<1>2. /\ Len(image.scans) \in Nat \ {0}
      /\ DOMAIN image.scans = 1..Len(image.scans)
      /\ image.optimize \in BOOLEAN
      /\ total_iMCU_rows \in Nat \ {0} /\ Columns \in Nat \ {0}
  BY <1>1, ScansOf, Sizes, SizesAssumption
<1>3. total_passes \in Nat \ {0}
  <2>1. CASE image.optimize
    BY <1>2, <2>1 DEF total_passes
  <2>2. CASE ~image.optimize
    BY <1>2, <2>2 DEF total_passes
  <2>3. QED BY <2>1, <2>2
<1>4. master.scan_number + 1 \in DOMAIN image.scans
  BY <1>1, <1>2
<1>5. MasterInv
  BY <1>1, <1>2, <1>3 DEF MasterInv
<1>6. MCU_rows_per_iMCU_row \in 1..4 /\ ~PassDone
  BY <1>1, <1>2, <1>4, McuRows DEF PassDone
<1>7. CoefInv
  BY <1>1, <1>2, <1>6 DEF CoefInv, CoefType, InPlace
<1>8. McusDone = 0
  <2> DEFINE k == IF Interleaved THEN 1 ELSE image.factors[Scan[1]]
  <2>1. McusDone = Columns * (0 * k + 0) + 0
    BY <1>1, <1>6 DEF McusDone
  <2>2. k \in 1..4
    <3>1. Scan[1] \in Components
      BY <1>1, <1>4, ScansOf DEF Scan
    <3>2. QED BY <1>1, <3>1, BlockRows
  <2> HIDE DEF k
  <2>3. QED BY <2>1, <2>2, <1>2
<1>9. WrittenInv
  <2>1. \A s \in DOMAIN image.scans : Len(written[s]) = 0 /\ ~(s <= 0)
    BY <1>1, <1>2
  <2>2. QED BY <1>1, <1>8, <2>1 DEF WrittenInv
<1>10. SequencesInv
  <2>1. \A s \in DOMAIN image.scans : written[s] \in Seq({})
    BY <1>1
  <2>2. QED BY <2>1 DEF SequencesInv
<1>11. QED BY <1>5, <1>7, <1>9, <1>10 DEF IInv2

\* Every step keeps the invariant.
LEMMA NextKeepsAll ==
  ASSUME IInv, [Next]_vars
  PROVE  IInv'
<1>1. IInv1' /\ Counters /\ StripInv /\ BottomInv /\ CoefInv
  BY NextKeeps DEF IInv, IInv1, IInv2
<1>2. SUFFICES IInv2' /\ SequencesInv'
  BY <1>1 DEF IInv
<1>3. ASSUME NEW n \in 1..MaxLines, WriteScanlines(n)
      PROVE  IInv2' /\ SequencesInv'
  BY <1>3, FillKeepsScans DEF WriteScanlines, FirstPass
<1>4. ASSUME NeedMoreRows
      PROVE  IInv2' /\ SequencesInv'
  BY <1>4, FillKeepsScans DEF NeedMoreRows, Return, FirstPass
<1>5. ASSUME PreProcess
      PROVE  IInv2' /\ SequencesInv'
  <2>1. main'.cur_iMCU_row = main.cur_iMCU_row
    BY <1>1, <1>5 DEF PreProcess, Counters
  <2>2. QED BY <1>5, <2>1, FillKeepsScans DEF PreProcess, FirstPass
<1>6. ASSUME NEW rows, NEW filled, NEW to_go, ContextGroup(rows, filled, to_go)
      PROVE  main'.cur_iMCU_row = main.cur_iMCU_row
  BY <1>1, <1>6 DEF ContextGroup, Counters
<1>7. ASSUME PreProcessContext
      PROVE  IInv2' /\ SequencesInv'
  <2>1. main'.cur_iMCU_row = main.cur_iMCU_row
    BY <1>6, <1>7 DEF PreProcessContext
  <2>2. QED BY <1>7, <2>1, FillKeepsScans DEF PreProcessContext, FirstPass
<1>8. ASSUME PadContext
      PROVE  IInv2' /\ SequencesInv'
  <2>1. main'.cur_iMCU_row = main.cur_iMCU_row
    BY <1>6, <1>8 DEF PadContext
  <2>2. QED BY <1>8, <2>1, FillKeepsScans DEF PadContext, FirstPass
<1>9. ASSUME StartCompress
      PROVE  IInv2' /\ SequencesInv'
  BY <1>9, FillKeepsScans DEF StartCompress, FirstPass
<1>10. ASSUME Suspend
       PROVE  IInv2' /\ SequencesInv'
  <2>1. main'.cur_iMCU_row = main.cur_iMCU_row
    BY <1>1, <1>10 DEF Suspend, Counters
  <2>2. QED BY <1>10, <2>1, FillKeepsScans DEF Suspend, Return, FirstPass
<1>11. pc = "compress" => ~PassDone /\ coef.iMCU_row_num = main.cur_iMCU_row
  BY <1>1 DEF StripInv, ImageDone, PassDone, CoefInv, FirstPass
<1>12. ASSUME CompressMcu
       PROVE  IInv2' /\ SequencesInv'
  <2>1. coef'.iMCU_row_num = coef.iMCU_row_num
    BY <1>1, <1>12
    DEF CompressMcu, EncodeMcu, NextMcu, CoefInv, CoefType
  <2>2. /\ EncodeMcu /\ ~PassDone /\ pc \in {"compress", "crank"}
        /\ pc' = pc \/ (pc = "compress" /\ pc' = "fill")
    BY <1>11, <1>12 DEF CompressMcu
  <2>3. FirstPass' => coef'.iMCU_row_num = main'.cur_iMCU_row
    BY <1>11, <1>12, <2>1 DEF CompressMcu
  <2>4. QED BY <2>2, <2>3, EncodeKeepsScans
<1>13. ASSUME CompressLastMcu
       PROVE  IInv2' /\ SequencesInv'
  <2>1. /\ coef'.iMCU_row_num = coef.iMCU_row_num + 1
        /\ main'.cur_iMCU_row = main.cur_iMCU_row + 1
    BY <1>13 DEF CompressLastMcu, EncodeMcu, NextMcu
  <2>2. QED BY <1>11, <1>13, <2>1, EncodeKeepsScans DEF CompressLastMcu
<1>14. ASSUME FinishFirstPass
       PROVE  IInv2' /\ SequencesInv'
  <2>1. ImageDone
    BY <1>14, AllGivenAllDone DEF FinishFirstPass, IInv
  <2>2. PassDone
    BY <1>1, <1>14, <2>1
    DEF FinishFirstPass, ImageDone, PassDone, CoefInv, FirstPass
  <2>3. QED BY <1>14, <2>2, FinishPassKeepsScans DEF FinishFirstPass
<1>15. ASSUME PreparePass
       PROVE  IInv2' /\ SequencesInv'
  BY <1>15, PrepareKeepsScans
<1>16. ASSUME CrankMcu
       PROVE  IInv2' /\ SequencesInv'
  <2>1. pc = "crank" /\ pc' = "crank" /\ EncodeMcu /\ ~PassDone
    BY <1>16 DEF CrankMcu
  <2>2. /\ pc \in {"compress", "crank"}
        /\ pc' = pc \/ (pc = "compress" /\ pc' = "fill")
    BY <2>1
  <2>3. FirstPass' => coef'.iMCU_row_num = main'.cur_iMCU_row
    BY <2>1 DEF FirstPass
  <2>4. QED BY <2>1, <2>2, <2>3, EncodeKeepsScans
<1>17. ASSUME \/ HeadersFail \/ FinishPassFails \/ PreparePassFails
              \/ CrankFails \/ FinishCompressFails
       PROVE  IInv2' /\ SequencesInv'
  BY <1>17, EndKeepsScans
  DEF HeadersFail, FinishPassFails, PreparePassFails, CrankFails,
      FinishCompressFails, CantSuspend
<1>18. ASSUME FinishLaterPass
       PROVE  IInv2' /\ SequencesInv'
  BY <1>18, FinishPassKeepsScans DEF FinishLaterPass
<1>19. ASSUME FinishCompress
       PROVE  IInv2' /\ SequencesInv'
  BY <1>19, EndKeepsScans DEF FinishCompress
<1>20. ASSUME Over \/ UNCHANGED vars
       PROVE  IInv2' /\ SequencesInv'
  BY <1>20, EndKeepsScans DEF Over, vars
<1>21. QED
  BY <1>3, <1>4, <1>5, <1>7, <1>8, <1>9, <1>10, <1>12, <1>13, <1>14, <1>15,
     <1>16, <1>17, <1>18, <1>19, <1>20
  DEF Next

\* All passes are in order.
THEOREM PassesInvariant == Spec => []IInv
<1>1. Init => IInv
  BY InitKeeps, InitScans DEF IInv
<1>2. IInv /\ [Next]_vars => IInv'
  BY NextKeepsAll
<1>3. QED BY <1>1, <1>2, PTL DEF Spec

\* The variables keep their ranges: in_row_ctr, which the main controller
\* counts down when it is suspended, never passes below zero.
THEOREM TypeCorrect == Spec => []TypeOK
<1>1. ASSUME IInv
      PROVE  TypeOK
  <2>1. Counters /\ RingInv /\ MasterInv /\ CoefType
    BY <1>1 DEF IInv, IInv1, IInv2, CoefInv
  <2>2. MaxV \in 1..4
    BY <2>1, Sizes DEF Counters
  <2>3. /\ prep.next_buf_row \in 0..(3 * MaxV - 1)
        /\ prep.this_row_group \in 0..(3 * MaxV - 1)
        /\ prep.next_buf_stop \in 0..(3 * MaxV)
    <3>1. /\ prep.next_buf_row \in Nat /\ prep.this_row_group \in Nat
          /\ prep.next_buf_stop \in Nat
      BY <2>1 DEF Counters
    <3>2. QED BY <2>1, <2>2, <3>1 DEF RingInv
  <2>4. prep \in [rows_to_go : 0..image.height,
                  next_buf_row : 0..(3 * MaxV - 1),
                  this_row_group : 0..(3 * MaxV - 1),
                  next_buf_stop : 0..(3 * MaxV)]
    BY <2>1, <2>3 DEF Counters
  <2>5. QED BY <2>1, <2>4 DEF Counters, MasterInv, CoefType, TypeOK
<1>2. QED BY <1>1, PassesInvariant, PTL

\* Nothing of the first pass is left in the buffers when the application may
\* take the image for done, and every scan is complete at the end.
THEOREM EverythingWritten == Spec => []NothingLeftBehind
<1>1. ASSUME IInv
      PROVE  NothingLeftBehind
  <2>1. /\ IInv1 /\ MasterInv /\ WrittenInv /\ image \in Images
    BY <1>1 DEF IInv, IInv1, IInv2, Counters
  <2>2. /\ Len(image.scans) \in Nat \ {0}
        /\ DOMAIN image.scans = 1..Len(image.scans)
        /\ image.optimize \in BOOLEAN
        /\ image.height \in Nat
    BY <2>1, ScansOf, Sizes
  <2>3. ASSUME pc = "app", next_scanline = image.height
        PROVE  ImageDone
    BY <2>1, <2>2, <2>3, AllGivenAllDone
  <2>4. ASSUME pc = "finished", NEW s \in DOMAIN written
        PROVE  Len(written[s]) = McusOf(image.scans[s])
    <3>1. /\ master.pass_number = total_passes
          /\ master.scan_number \in 0..Len(image.scans)
          /\ DOMAIN written = DOMAIN image.scans
      BY <2>1, <2>4 DEF MasterInv, WrittenInv
    <3>2. master.scan_number = Len(image.scans)
      <4>1. CASE image.optimize
        <5>1. total_passes = 2 * Len(image.scans)
          BY <4>1, <2>2 DEF total_passes
        <5>2. \/ master.pass_number = 2 * master.scan_number
              \/ master.pass_number = 2 * master.scan_number + 1
          BY <4>1, <2>1, <2>2, <3>1 DEF MasterInv
        <5>3. QED BY <5>1, <5>2, <2>2, <3>1
      <4>2. CASE ~image.optimize
        <5>1. total_passes = Len(image.scans)
          BY <4>2, <2>2 DEF total_passes
        <5>2. master.pass_number = master.scan_number
          BY <4>2, <2>1 DEF MasterInv
        <5>3. QED BY <5>1, <5>2, <3>1
      <4>3. QED BY <4>1, <4>2
    <3>3. s <= master.scan_number /\ s \in DOMAIN image.scans
      BY <2>2, <2>4, <3>1, <3>2
    <3>4. pc # "failed"
      BY <2>4
    <3>5. QED BY <2>1, <3>3, <3>4 DEF WrittenInv
  <2>5. QED BY <2>3, <2>4 DEF NothingLeftBehind
<1>2. QED BY <1>1, PassesInvariant, PTL
=============================================================================
