------------------------------- MODULE JpegRows -------------------------------
(***************************************************************************)
(* The way of the rows of an image through the JPEG encoder that           *)
(* EncodeImageToJpegByteStream calls: the main controller (jcmainct.c)     *)
(* fills a strip with the help of the preprocessor (jcprepct.c) and the    *)
(* downsampler (jcsample.c), and the coefficient controller (jccoefct.c)   *)
(* cuts it into MCUs for the entropy coder.  The destination may be full   *)
(* at any MCU; the call then returns, and goes on there in the next one.   *)
(* Where the encoder cannot go on later it gives up instead.               *)
(* With several scans or optimised tables the blocks are kept, and written *)
(* in further passes (jcmaster.c).                                         *)
(*                                                                         *)
(* A row of the image is its number, from 0, and a row of samples the      *)
(* sequence of the rows it is computed from.  Rows are as wide as they     *)
(* are: of the width only the number of MCUs is kept, and the blocks of an *)
(* MCU side by side are one.  A component's h_samp_factor is taken to be   *)
(* its v_samp_factor.                                                      *)
(***************************************************************************)
EXTENDS Integers, Sequences

CONSTANTS
  DctSize,     \* rows of a block: DCTSIZE and block_size
  Images,      \* what is encoded, and how (ImagesAssumption)
  Columns,     \* MCUs_per_row
  MaxLines,    \* lines given in one call at most (the program gives one)
  Blank,       \* memory nothing was written to
  Dummy        \* a block below the image

ASSUME SizesAssumption ==
  /\ DctSize \in Nat \ {0}
  /\ Columns \in Nat \ {0}
  /\ MaxLines \in Nat \ {0}

\* factors are the v_samp_factor of the components, at most MAX_SAMP_FACTOR,
\* in ratios the downsampler takes; scans says which of them each scan holds;
\* suspends, that empty_output_buffer may return FALSE (that of memory does not).
ASSUME ImagesAssumption ==
  \A i \in Images :
    /\ i.height \in Nat \ {0}
    /\ i.factors \in Seq(1..4) /\ i.factors # <<>>
    /\ \A c, d \in DOMAIN i.factors :
         \/ i.factors[c] % i.factors[d] = 0
         \/ i.factors[d] % i.factors[c] = 0
    /\ i.fancy \in BOOLEAN /\ i.smooth \in BOOLEAN /\ i.optimize \in BOOLEAN
    /\ i.suspends \in BOOLEAN
    /\ i.scans \in Seq(Seq(DOMAIN i.factors)) /\ i.scans # <<>>
    /\ \A s \in DOMAIN i.scans : i.scans[s] # <<>>

VARIABLES
  image,          \* the image and the parameters of its encoding
  pc,             \* who has the thread
  next_scanline,
  in_row_ctr,     \* lines of this call that were taken, ...
  in_rows_avail,  \* ... and that were given
  main,           \* the main controller
  prep,           \* the preprocessor
  color_buf,      \* its rows
  buffer,         \* the strip, by component
  coef,           \* the coefficient controller
  whole_image,    \* the block rows it keeps, by component
  master,         \* the pass: pass_type, pass_number, scan_number
  written         \* MCUs given to the entropy coder for output, by scan

callVars == <<next_scanline, in_row_ctr, in_rows_avail>>
prepVars == <<prep, color_buf, buffer>>
vars == <<image, pc, callVars, main, prepVars, coef, whole_image, master,
          written>>

-----------------------------------------------------------------------------
(* The sizes initial_setup, per_scan_setup and jinit_downsampler compute.  *)

Components == DOMAIN image.factors
MaxV == CHOOSE m \in {image.factors[c] : c \in Components} :
          \A c \in Components : image.factors[c] <= m

CeilDiv(a, b) == (a + b - 1) \div b
Lesser(a, b) == IF a < b THEN a ELSE b

\* Chroma is scaled down by a DCT of twice the size, not by the downsampler.
Ssize(c) == IF image.fancy /\ MaxV % (2 * image.factors[c]) = 0 THEN 2 ELSE 1
DCT_v_scaled_size(c) == DctSize * Ssize(c)

rowgroup_height(c) == image.factors[c] * Ssize(c)
v_expand(c) == MaxV \div rowgroup_height(c)
Smoothed(c) == image.smooth /\ v_expand(c) <= 2
need_context_rows == \E c \in Components : Smoothed(c)

total_iMCU_rows == CeilDiv(image.height, MaxV * DctSize)
height_in_blocks(c) ==
  CeilDiv(image.height * image.factors[c], MaxV * DctSize)

Scan == image.scans[master.scan_number + 1]
Interleaved == Len(Scan) > 1
MCU_height(c) == IF Interleaved THEN image.factors[c] ELSE 1

\* A scan of a component whose last rows are forgotten to be fewer.
LastRowAlwaysFull(c) == image.factors[c]

last_row_height(c) ==
  LET tmp == height_in_blocks(c) % image.factors[c]
  IN  IF tmp = 0 THEN image.factors[c] ELSE tmp

\* start_iMCU_row
MCU_rows_per_iMCU_row ==
  IF Interleaved THEN 1
  ELSE IF coef.iMCU_row_num < total_iMCU_rows - 1
  THEN image.factors[Scan[1]]
  ELSE last_row_height(Scan[1])

total_passes == Len(image.scans) * (IF image.optimize THEN 2 ELSE 1)
MultiPass == total_passes > 1

\* The entropy coder collects statistics and writes nothing.
Gathering == image.optimize /\ master.pass_type # "output_pass"

-----------------------------------------------------------------------------
StartPassPrep ==
  [rows_to_go |-> image.height, next_buf_row |-> 0, this_row_group |-> 0,
   next_buf_stop |-> 2 * MaxV]

Init ==
  /\ image \in Images
  /\ pc = "app"
  /\ next_scanline = 0
  /\ in_row_ctr = 0 /\ in_rows_avail = 0
  /\ main = [cur_iMCU_row |-> 0, rowgroup_ctr |-> 0, suspended |-> FALSE]
  /\ prep = StartPassPrep
  /\ color_buf = [r \in 0..(3 * MaxV - 1) |-> Blank]
  /\ buffer = [c \in Components |->
                 [r \in 0..(image.factors[c] * DCT_v_scaled_size(c) - 1) |->
                    Blank]]
  /\ coef = [iMCU_row_num |-> 0, MCU_vert_offset |-> 0, MCU_ctr |-> 0]
  /\ whole_image = [c \in Components |->
                      [b \in 0..(total_iMCU_rows * image.factors[c] - 1) |->
                         Blank]]
  /\ master = [pass_type |-> "main_pass", pass_number |-> 0,
                scan_number |-> 0]
  /\ written = [s \in DOMAIN image.scans |-> <<>>]

-----------------------------------------------------------------------------
(* jpeg_write_scanlines and the loop of the main controller.               *)

\* The application gives the lines from next_scanline on; those below the
\* image are ignored.
WriteScanlines(n) ==
  /\ pc = "app"
  /\ next_scanline < image.height
  /\ in_rows_avail' = Lesser(n, image.height - next_scanline)
  /\ pc' = "fill"
  /\ UNCHANGED <<image, next_scanline, in_row_ctr, main, prepVars, coef,
                 whole_image, master, written>>

\* process_data returns, having taken so many lines.
Return(taken) ==
  /\ pc' = "app"
  /\ next_scanline' = next_scanline + taken
  /\ in_row_ctr' = 0
  /\ in_rows_avail' = 0

ImageDone == main.cur_iMCU_row = total_iMCU_rows
StripFull == main.rowgroup_ctr = DctSize

\* A loop that stops when it has taken lines.
MoreToFillOnce ==
  /\ ~ImageDone
  /\ ~StripFull
  /\ \/ in_row_ctr = 0 /\ in_rows_avail > 0
     \/ need_context_rows /\ prep.rows_to_go = 0

\* What is left of the loop of pre_process_data and pre_process_context.
MoreToFill ==
  /\ ~ImageDone
  /\ ~StripFull
  /\ \/ in_row_ctr < in_rows_avail
     \/ need_context_rows /\ prep.rows_to_go = 0

\* JERR_CANT_SUSPEND: the destination has no room where the encoder could not
\* go on later.
CantSuspend ==
  /\ image.suspends
  /\ pc' = "failed"
  /\ UNCHANGED <<image, callVars, main, prepVars, coef, whole_image, master,
                 written>>

\* The first call writes the headers of the frame and of the first scan, unless
\* these wait for the tables.
HeadersFail ==
  /\ pc = "app"
  /\ prep.rows_to_go = image.height
  /\ ~Gathering
  /\ CantSuspend

NeedMoreRows ==
  /\ pc = "fill"
  /\ ~MoreToFill
  /\ ImageDone \/ ~StripFull
  /\ Return(in_row_ctr)
  /\ UNCHANGED <<image, main, prepVars, coef, whole_image, master, written>>

-----------------------------------------------------------------------------
(* The preprocessor.  With context rows its buffer is a ring of three row  *)
(* groups, whose row pointers go on above and below.                       *)

\* Where the rows above and below a group are not those of its neighbours.
PlaceUnwrapped(i) == IF i < 0 THEN 0 ELSE Lesser(i, 3 * MaxV - 1)

Place(i) == IF need_context_rows THEN (i + 3 * MaxV) % (3 * MaxV) ELSE i

\* The rows of a row group of component c that the downsampler makes of the
\* rows from place "first" on of the buffer "rows".
Downsampled(c, rows, first) ==
  LET above == IF Smoothed(c) THEN 1 ELSE 0
  IN  [j \in 0..(rowgroup_height(c) - 1) |->
         [k \in 1..(v_expand(c) + 2 * above) |->
            rows[Place(first + j * v_expand(c) + k - 1 - above)]]]

\* sep_downsample, for the row group "group" of the strip.
Stored(rows, first, group) ==
  [c \in Components |->
     LET top == group * rowgroup_height(c)
         new == Downsampled(c, rows, first)
     IN  [r \in DOMAIN buffer[c] |->
            IF r \in top..(top + rowgroup_height(c) - 1)
            THEN new[r - top] ELSE buffer[c][r]]]

\* expand_bottom_edge for the strip: everything below its row groups.
StripPadded(strip, groups) ==
  [c \in Components |->
     [r \in DOMAIN strip[c] |->
        strip[c][Lesser(r, groups * rowgroup_height(c) - 1)]]]

\* color_convert of the next "numrows" lines.
Converted(numrows) ==
  [r \in DOMAIN color_buf |->
     IF r \in prep.next_buf_row..(prep.next_buf_row + numrows - 1)
     THEN next_scanline + in_row_ctr + (r - prep.next_buf_row)
     ELSE color_buf[r]]

\* expand_bottom_edge for the rows of the preprocessor.
RowsPadded(rows, from, to) ==
  [r \in DOMAIN rows |->
     IF r \in from..(to - 1) THEN rows[Place(from - 1)] ELSE rows[r]]

\* One round of the loop of pre_process_data.
PreProcess ==
  /\ pc = "fill"
  /\ MoreToFill
  /\ ~need_context_rows
  /\ LET numrows == Lesser(MaxV - prep.next_buf_row,
                           in_rows_avail - in_row_ctr)
         filled == prep.next_buf_row + numrows
         bottom == prep.rows_to_go = numrows
         groupDone == filled = MaxV \/ bottom
         rows == IF bottom THEN RowsPadded(Converted(numrows), filled, MaxV)
                 ELSE Converted(numrows)
         strip == IF groupDone THEN Stored(rows, 0, main.rowgroup_ctr)
                  ELSE buffer
     IN  /\ in_row_ctr' = in_row_ctr + numrows
         /\ prep' = [prep EXCEPT !.rows_to_go = @ - numrows,
                                 !.next_buf_row = IF groupDone THEN 0
                                                  ELSE filled]
         /\ color_buf' = rows
         /\ buffer' = IF bottom THEN StripPadded(strip, main.rowgroup_ctr + 1)
                      ELSE strip
         /\ main' = [main EXCEPT !.rowgroup_ctr =
                       IF bottom THEN DctSize
                       ELSE IF groupDone THEN @ + 1 ELSE @]
  /\ UNCHANGED <<image, pc, next_scanline, in_rows_avail, coef, whole_image,
                 master, written>>

\* "Pad at top of image, if first time through".
TopPadded(rows) ==
  IF prep.rows_to_go = image.height
  THEN [r \in DOMAIN rows |-> IF r >= 2 * MaxV THEN rows[0] ELSE rows[r]]
  ELSE rows

\* The end of a round of pre_process_context, with these rows up to "filled".
ContextGroup(rows, filled, to_go) ==
  LET full == filled = prep.next_buf_stop
      height == 3 * MaxV
      this == prep.this_row_group + MaxV
      next == IF filled >= height THEN 0 ELSE filled
  IN  /\ color_buf' = rows
      /\ buffer' = IF full
                   THEN Stored(rows, prep.this_row_group, main.rowgroup_ctr)
                   ELSE buffer
      /\ main' = [main EXCEPT !.rowgroup_ctr = IF full THEN @ + 1 ELSE @]
      /\ prep' = IF full
                 THEN [rows_to_go |-> to_go,
                       next_buf_row |-> next,
                       this_row_group |-> IF this >= height THEN 0 ELSE this,
                       next_buf_stop |-> next + MaxV]
                 ELSE [prep EXCEPT !.rows_to_go = to_go,
                                   !.next_buf_row = filled]

PreProcessContext ==
  /\ pc = "fill"
  /\ MoreToFill
  /\ need_context_rows
  /\ in_row_ctr < in_rows_avail
  /\ LET numrows == Lesser(prep.next_buf_stop - prep.next_buf_row,
                           in_rows_avail - in_row_ctr)
     IN  /\ in_row_ctr' = in_row_ctr + numrows
         /\ ContextGroup(TopPadded(Converted(numrows)),
                         prep.next_buf_row + numrows,
                         prep.rows_to_go - numrows)
  /\ UNCHANGED <<image, pc, next_scanline, in_rows_avail, coef, whole_image,
                 master, written>>

\* No line is left, in this call or at all: the rows are filled up with the
\* last one.
PadContext ==
  /\ pc = "fill"
  /\ MoreToFill
  /\ need_context_rows
  /\ in_row_ctr >= in_rows_avail
  /\ ContextGroup(RowsPadded(color_buf, prep.next_buf_row, prep.next_buf_stop),
                  prep.next_buf_stop, 0)
  /\ UNCHANGED <<image, pc, callVars, coef, whole_image, master, written>>

-----------------------------------------------------------------------------
(* The coefficient controller.                                             *)

\* A block row of the strip, as the forward DCT takes it.
Block(c, b) ==
  [k \in 1..DCT_v_scaled_size(c) |-> buffer[c][b * DCT_v_scaled_size(c) + k - 1]]

BlockOrDummy(c, b) ==
  IF coef.iMCU_row_num < total_iMCU_rows - 1 \/ b < last_row_height(c)
  THEN Block(c, b)
  ELSE Dummy

\* compress_first_pass keeps the block rows of this iMCU row, each time it is
\* called for it.
Kept ==
  [c \in Components |->
     LET top == coef.iMCU_row_num * image.factors[c]
     IN  [b \in DOMAIN whole_image[c] |->
            IF b \in top..(top + image.factors[c] - 1)
            THEN BlockOrDummy(c, b - top)
            ELSE whole_image[c][b]]]

StartCompress ==
  /\ pc = "fill"
  /\ ~ImageDone /\ StripFull
  /\ whole_image' = IF MultiPass THEN Kept ELSE whole_image
  /\ pc' = "compress"
  /\ UNCHANGED <<image, callVars, main, prepVars, coef, master, written>>

\* The MCU that compress_data or compress_output is at.
CurrentMcu ==
  [x \in DOMAIN Scan |->
     LET c == Scan[x]
     IN  [y \in 1..MCU_height(c) |->
            LET b == coef.MCU_vert_offset + y - 1
            IN  IF MultiPass
                THEN whole_image[c][coef.iMCU_row_num * image.factors[c] + b]
                ELSE BlockOrDummy(c, b)]]

LastInRow == coef.MCU_ctr = Columns - 1
LastOfIMcuRow ==
  LastInRow /\ coef.MCU_vert_offset = MCU_rows_per_iMCU_row - 1

NextMcu ==
  IF LastOfIMcuRow
  THEN [iMCU_row_num |-> coef.iMCU_row_num + 1, MCU_vert_offset |-> 0,
        MCU_ctr |-> 0]
  ELSE IF LastInRow
  THEN [coef EXCEPT !.MCU_vert_offset = @ + 1, !.MCU_ctr = 0]
  ELSE [coef EXCEPT !.MCU_ctr = @ + 1]

EncodeMcu ==
  /\ coef' = NextMcu
  /\ written' = IF Gathering THEN written
                ELSE [written EXCEPT ![master.scan_number + 1] =
                        Append(@, CurrentMcu)]
  /\ UNCHANGED <<image, next_scanline, in_rows_avail, prepVars, whole_image,
                 master>>

CompressMcu ==
  /\ pc = "compress"
  /\ ~LastOfIMcuRow
  /\ EncodeMcu
  /\ UNCHANGED <<pc, main, in_row_ctr>>

\* The line that was held back is not given back.
CompressLastMcuForgets ==
  /\ pc = "compress"
  /\ LastOfIMcuRow
  /\ EncodeMcu
  /\ UNCHANGED in_row_ctr
  /\ main' = [cur_iMCU_row |-> main.cur_iMCU_row + 1, rowgroup_ctr |-> 0,
              suspended |-> FALSE]
  /\ pc' = "fill"

\* A line is given back whether one was held back or not.
CompressLastMcuGives ==
  /\ pc = "compress"
  /\ LastOfIMcuRow
  /\ EncodeMcu
  /\ in_row_ctr' = in_row_ctr + 1
  /\ main' = [cur_iMCU_row |-> main.cur_iMCU_row + 1, rowgroup_ctr |-> 0,
              suspended |-> FALSE]
  /\ pc' = "fill"

\* The strip is empty again, and the line that was held back is given to the
\* application.
CompressLastMcu ==
  /\ pc = "compress"
  /\ LastOfIMcuRow
  /\ EncodeMcu
  /\ in_row_ctr' = IF main.suspended THEN in_row_ctr + 1 ELSE in_row_ctr
  /\ main' = [cur_iMCU_row |-> main.cur_iMCU_row + 1, rowgroup_ctr |-> 0,
              suspended |-> FALSE]
  /\ pc' = "fill"

\* No room for the MCU.  The call takes all its lines but the last one, so that
\* the application cannot think it is done.
Suspend ==
  /\ pc = "compress"
  /\ image.suspends /\ ~Gathering
  /\ Return(IF main.suspended THEN in_row_ctr ELSE in_row_ctr - 1)
  /\ main' = [main EXCEPT !.suspended = TRUE]
  /\ UNCHANGED <<image, prepVars, coef, whole_image, master, written>>

-----------------------------------------------------------------------------
(* jpeg_finish_compress and the passes that are left.                      *)

FinishPass ==
  /\ master' =
       [pass_type |-> IF master.pass_type = "output_pass" /\ image.optimize
                      THEN "huff_opt_pass" ELSE "output_pass",
        pass_number |-> master.pass_number + 1,
        scan_number |-> IF master.pass_type = "output_pass" \/ ~image.optimize
                        THEN master.scan_number + 1 ELSE master.scan_number]
  /\ pc' = "between"
  /\ UNCHANGED <<image, callVars, main, prepVars, coef, whole_image, written>>

FinishFirstPass ==
  /\ pc = "app"
  /\ next_scanline >= image.height
  /\ FinishPass

PassDone == coef.iMCU_row_num = total_iMCU_rows

\* The entropy coder has bits left, and no room for them.
FinishPassFails ==
  /\ \/ pc = "app" /\ next_scanline >= image.height
     \/ pc = "crank" /\ PassDone
  /\ ~Gathering
  /\ CantSuspend

PreparePass ==
  /\ pc = "between"
  /\ master.pass_number < total_passes
  /\ coef' = [iMCU_row_num |-> 0, MCU_vert_offset |-> 0, MCU_ctr |-> 0]
  /\ pc' = "crank"
  /\ UNCHANGED <<image, callVars, main, prepVars, whole_image, master, written>>

\* A pass for output begins with the headers of its scan.
PreparePassFails ==
  /\ pc = "between"
  /\ master.pass_number < total_passes
  /\ ~Gathering
  /\ CantSuspend

CrankMcu ==
  /\ pc = "crank"
  /\ ~PassDone
  /\ EncodeMcu
  /\ UNCHANGED <<pc, main, in_row_ctr>>

\* compress_output has no room for an MCU.
CrankFails ==
  /\ pc = "crank"
  /\ ~PassDone
  /\ ~Gathering
  /\ CantSuspend

FinishLaterPass ==
  /\ pc = "crank"
  /\ PassDone
  /\ FinishPass

FinishCompress ==
  /\ pc = "between"
  /\ master.pass_number = total_passes
  /\ pc' = "finished"
  /\ UNCHANGED <<image, callVars, main, prepVars, coef, whole_image, master,
                 written>>

\* No room for the EOI.
FinishCompressFails ==
  /\ pc = "between"
  /\ master.pass_number = total_passes
  /\ CantSuspend

\* The encoder is done with the image, or has given up.
Over ==
  /\ pc \in {"finished", "failed"}
  /\ UNCHANGED vars

Next ==
  \/ \E n \in 1..MaxLines : WriteScanlines(n)
  \/ HeadersFail
  \/ NeedMoreRows \/ PreProcess \/ PreProcessContext \/ PadContext
  \/ StartCompress \/ CompressMcu \/ CompressLastMcu \/ Suspend
  \/ FinishFirstPass \/ FinishPassFails
  \/ PreparePass \/ PreparePassFails \/ CrankMcu \/ CrankFails
  \/ FinishLaterPass \/ FinishCompress \/ FinishCompressFails
  \/ Over

Spec == Init /\ [][Next]_vars

\* The application calls again until the image is done, and the destination
\* has room for the MCU again and again.
FairSpec ==
  /\ Spec
  /\ WF_vars(Next)
  /\ SF_vars(CompressMcu)
  /\ SF_vars(CompressLastMcu)

-----------------------------------------------------------------------------
(* Properties.                                                             *)

\* in_row_ctr is an unsigned number and is counted down.
TypeOK ==
  /\ image \in Images
  /\ pc \in {"app", "fill", "compress", "between", "crank", "finished",
             "failed"}
  /\ next_scanline \in 0..image.height
  /\ in_rows_avail \in 0..MaxLines
  /\ in_row_ctr \in 0..in_rows_avail
  /\ main \in [cur_iMCU_row : 0..total_iMCU_rows, rowgroup_ctr : 0..DctSize,
               suspended : BOOLEAN]
  /\ prep \in [rows_to_go : 0..image.height,
               next_buf_row : 0..(3 * MaxV - 1),
               this_row_group : 0..(3 * MaxV - 1),
               next_buf_stop : 0..(3 * MaxV)]
  /\ coef \in [iMCU_row_num : 0..total_iMCU_rows, MCU_vert_offset : 0..3,
               MCU_ctr : 0..(Columns - 1)]
  /\ master \in [pass_type : {"main_pass", "huff_opt_pass", "output_pass"},
                 pass_number : 0..total_passes,
                 scan_number : 0..Len(image.scans)]

\* The application and the preprocessor agree on the lines that were read; the
\* one line between them is held back while the coefficient controller waits
\* for room (jcmainct.c "pretend we didn't yet consume the last input row").
RowsAccountedFor ==
  image.height - prep.rows_to_go
    = next_scanline + in_row_ctr + (IF main.suspended THEN 1 ELSE 0)

\* What the samples of the image are: each row of them computed from its rows
\* of the image, and the edges repeated above and below.  Without context
\* rows it is the last row of samples that is repeated below.
TrueSampleRow(c, s) ==
  LET groups == CeilDiv(image.height, MaxV)
      last == groups * rowgroup_height(c) - 1
      this == IF need_context_rows THEN s ELSE Lesser(s, last)
      above == IF Smoothed(c) THEN 1 ELSE 0
      first == this * v_expand(c) - above
  IN  [k \in 1..(v_expand(c) + 2 * above) |->
         IF first + k - 1 < 0 THEN 0
         ELSE Lesser(first + k - 1, image.height - 1)]

TrueBlock(c, b) ==
  IF b < height_in_blocks(c)
  THEN [k \in 1..DCT_v_scaled_size(c) |->
          TrueSampleRow(c, b * DCT_v_scaled_size(c) + k - 1)]
  ELSE Dummy

TrueMcu(scan, n) ==
  LET height(c) == IF Len(scan) > 1 THEN image.factors[c] ELSE 1
  IN  [x \in DOMAIN scan |->
         [y \in 1..height(scan[x]) |->
            TrueBlock(scan[x], (n \div Columns) * height(scan[x]) + y - 1)]]

McusOf(scan) ==
  Columns * (IF Len(scan) > 1 THEN total_iMCU_rows
             ELSE height_in_blocks(scan[1]))

\* Whatever lines come in a call and wherever it is suspended, each scan gets
\* its MCUs in order, each once, made of the right rows of the image.
McusRight ==
  \A s \in DOMAIN written :
    /\ Len(written[s]) <= McusOf(image.scans[s])
    /\ \A n \in DOMAIN written[s] :
         written[s][n] = TrueMcu(image.scans[s], n - 1)

\* When the application may take the image for done, nothing of the first pass
\* is left in the buffers; and at the end every scan is complete.
NothingLeftBehind ==
  /\ pc = "app" /\ next_scanline = image.height => ImageDone
  /\ pc = "finished" =>
       \A s \in DOMAIN written : Len(written[s]) = McusOf(image.scans[s])

\* A destination that never suspends takes every line it is given, which
\* EncodeImageToJpegByteStream relies on (main.cpp "res != 1").
LinesTaken ==
  [][pc # "app" /\ pc' = "app" /\ ~image.suspends
       => next_scanline' = next_scanline + in_rows_avail]_vars

\* The encoder gives up only if its destination may be full, and not while it
\* takes lines: then either none was read yet, or all were, and the first scan
\* has its MCUs, unless they wait for their tables.
GivesUpOutsideImage ==
  pc = "failed" =>
    /\ image.suspends
    /\ \/ prep.rows_to_go = image.height
       \/ /\ ImageDone
          /\ image.optimize \/ Len(written[1]) = McusOf(image.scans[1])

\* The encoder comes to an end: it finishes, or gives up where it may.
Finishes == <>(pc \in {"finished", "failed"} /\ GivesUpOutsideImage)
=============================================================================
