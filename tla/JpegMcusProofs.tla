--------------------------- MODULE JpegMcusProofs ---------------------------
(***************************************************************************)
(* Proofs about JpegRows, for images of any height, sampling and number of *)
(* scans: every MCU that is written is made of the right rows of the image.*)
(* Where the rows are and which MCU is next is proved in JpegRowsProofs;   *)
(* this module is about what the buffers hold.                             *)
(***************************************************************************)
EXTENDS JpegRowsProofs

\* The line of the image a row of the preprocessor stands for, the edges
\* repeated.
TrueLine(i) == IF i < 0 THEN 0 ELSE Lesser(i, image.height - 1)

\* Row groups that were downsampled, ...
Groups == main.cur_iMCU_row * DctSize + main.rowgroup_ctr

\* ... and rows that are in the preprocessor or were, those it added below the
\* image included.
Filled ==
  Groups * MaxV + prep.next_buf_row
    + (IF need_context_rows THEN 2 * MaxV - prep.next_buf_stop ELSE 0)

\* Rows of samples in a strip.
strip_height(c) == image.factors[c] * DCT_v_scaled_size(c)

\* The buffers have the sizes they were allocated with.
BuffersInv ==
  /\ DOMAIN color_buf = 0..(3 * MaxV - 1)
  /\ DOMAIN whole_image = Components
  /\ \A c \in Components :
       DOMAIN whole_image[c] = 0..(total_iMCU_rows * image.factors[c] - 1)

\* The rows of a ring hold the last three row groups of lines before this one.
RingHolds(rows, next) ==
  /\ DOMAIN rows = 0..(3 * MaxV - 1)
  /\ \A i \in (next - 3 * MaxV)..(next - 1) :
       i >= - MaxV => rows[i % (3 * MaxV)] = TrueLine(i)

\* The ring holds the last three row groups, each row at its place; the last
\* of them stands for the rows above the image at first.
RingRight ==
  need_context_rows =>
    /\ prep.this_row_group = (Groups * MaxV) % (3 * MaxV)
    /\ prep.next_buf_row = Filled % (3 * MaxV)
    /\ prep.rows_to_go = 0 => image.height <= Filled
    /\ prep.rows_to_go < image.height => RingHolds(color_buf, Filled)

\* Without context rows the lines of the next row group are at its top.
GroupRight ==
  ~need_context_rows /\ prep.rows_to_go > 0 =>
    \A r \in 0..(prep.next_buf_row - 1) :
      color_buf[r] = Groups * MaxV + r

\* A strip that holds the first row groups of the iMCU row.
HoldsGroups(strip, groups) ==
  /\ DOMAIN strip = Components
  /\ \A c \in Components :
       /\ DOMAIN strip[c] = 0..(strip_height(c) - 1)
       /\ \A r \in 0..(strip_height(c) - 1) :
            r < groups * rowgroup_height(c) =>
              strip[c][r]
                = TrueSampleRow(c, main.cur_iMCU_row * strip_height(c) + r)

\* The row groups of the strip are filled with the samples of the image.
StripRight == HoldsGroups(buffer, main.rowgroup_ctr)

\* The block rows that are kept are those of the image.
KeptRight ==
  MultiPass =>
    \A c \in Components :
      \A b \in 0..(total_iMCU_rows * image.factors[c] - 1) :
        b < (IF pc = "compress" THEN main.cur_iMCU_row + 1
             ELSE main.cur_iMCU_row) * image.factors[c] =>
          whole_image[c][b] = TrueBlock(c, b)

\* After the first pass there are others only if it was not the only one.
PassesCounted ==
  ~FirstPass /\ pc # "failed" => master.pass_number >= 1

IInv3 ==
  /\ BuffersInv
  /\ RingRight
  /\ GroupRight
  /\ StripRight
  /\ KeptRight
  /\ PassesCounted
  /\ McusRight

AllInv == IInv /\ IInv3

-----------------------------------------------------------------------------
(* Numbers.                                                                *)

\* A place a little before or after one of the ring.
LEMMA AroundTheRing ==
  ASSUME NEW v \in 1..4, NEW a \in Int, NEW d \in Int, -(3 * v) <= d
  PROVE  /\ ((a % (3 * v)) + d + 3 * v) % (3 * v) = (a + d) % (3 * v)
         /\ a % (3 * v) \in 0..(3 * v - 1)
<1>1. CASE v = 1
  BY <1>1
<1>2. CASE v = 2
  BY <1>2
<1>3. CASE v = 3
  BY <1>3
<1>4. CASE v = 4
  BY <1>4
<1>5. QED BY <1>1, <1>2, <1>3, <1>4

\* Two rows at the same place of the ring are a round apart.
LEMMA OncePerRound ==
  ASSUME NEW v \in 1..4, NEW i \in Int, NEW j \in Int,
         i % (3 * v) = j % (3 * v), i < j + 3 * v, j < i + 3 * v
  PROVE  i = j
<1>1. CASE v = 1
  BY <1>1
<1>2. CASE v = 2
  BY <1>2
<1>3. CASE v = 3
  BY <1>3
<1>4. CASE v = 4
  BY <1>4
<1>5. QED BY <1>1, <1>2, <1>3, <1>4

\* More of the same is more.
LEMMA ProductGrows ==
  ASSUME NEW a \in Nat, NEW b \in Nat, NEW n \in Nat, a <= b
  PROVE  a * n <= b * n
<1>1. b * n = a * n + (b - a) * n /\ a * n \in Nat
  OBVIOUS
<1>2. (b - a) * n \in Nat
  <2>1. b - a \in Nat
    OBVIOUS
  <2>2. QED BY <2>1
<1>3. QED BY <1>1, <1>2

\* What dividing with a remainder means.
LEMMA DivBounds ==
  ASSUME NEW a \in Nat, NEW n \in Nat \ {0}
  PROVE  /\ a \div n \in Nat
         /\ (a \div n) * n <= a /\ a < (a \div n) * n + n
  OBVIOUS

\* The MCUs of row q of n to the row.
LEMMA RowOfMcu ==
  ASSUME NEW n \in Nat \ {0}, NEW q \in Nat, NEW x \in 0..(n - 1)
  PROVE  (n * q + x) \div n = q
<1>1. n * q \in Nat
  OBVIOUS
<1> DEFINE a == n * q + x
           d == a \div n
<1>2. a \in Nat
  BY <1>1
<1>3. d \in Nat /\ d * n <= a /\ a < d * n + n
  <2> HIDE DEF a
  <2>1. QED BY <1>2, DivBounds
<1> HIDE DEF d
<1>4. d * n <= n * q + x /\ n * q + x < d * n + n
  BY <1>3
<1>5. ~(d < q)
  <2>1. SUFFICES ASSUME d + 1 <= q PROVE FALSE
    BY <1>3
  <2>2. (d + 1) * n <= n * q
    <3>1. n * q = (d + 1) * n + (q - (d + 1)) * n
      BY <1>3
    <3>2. q - (d + 1) \in Nat
      BY <1>3, <2>1
    <3>3. (q - (d + 1)) * n \in Nat
      BY <3>2
    <3>4. (d + 1) * n \in Nat
      BY <1>3
    <3>5. QED BY <1>1, <3>1, <3>3, <3>4
  <2>3. (d + 1) * n = d * n + n /\ d * n \in Nat
    BY <1>3
  <2>4. QED BY <1>1, <1>4, <2>2, <2>3
<1>6. ~(q < d)
  <2>1. SUFFICES ASSUME q + 1 <= d PROVE FALSE
    BY <1>3
  <2>2. n * (q + 1) <= d * n
    <3>1. d * n = n * (q + 1) + (d - (q + 1)) * n
      BY <1>3
    <3>2. d - (q + 1) \in Nat
      BY <1>3, <2>1
    <3>3. (d - (q + 1)) * n \in Nat
      BY <3>2
    <3>4. n * (q + 1) \in Nat
      OBVIOUS
    <3>5. d * n \in Nat
      BY <1>3
    <3>6. QED BY <3>1, <3>3, <3>4, <3>5
  <2>3. n * (q + 1) = n * q + n /\ d * n \in Nat
    BY <1>3
  <2>4. QED BY <1>1, <1>4, <2>2, <2>3
<1>7. QED BY <1>3, <1>5, <1>6

\* An MCU of a row above the last is not the last.
LEMMA McusAbove ==
  ASSUME NEW n \in Nat \ {0}, NEW q \in Nat, NEW rows \in Nat, q + 1 <= rows,
         NEW x \in 0..(n - 1)
  PROVE  n * q + x < n * rows
<1>1. /\ n * rows = n * (q + 1) + n * (rows - (q + 1))
      /\ n * (q + 1) = n * q + n /\ n * q \in Nat
  OBVIOUS
<1>2. n * (rows - (q + 1)) \in Nat
  <2>1. rows - (q + 1) \in Nat
    OBVIOUS
  <2>2. QED BY <2>1
<1>3. QED BY <1>1, <1>2

\* The row groups of an image, the last of which may be filled up.
LEMMA RowGroups ==
  ASSUME image \in Images
  PROVE  /\ CeilDiv(image.height, MaxV) \in Nat \ {0}
         /\ image.height <= CeilDiv(image.height, MaxV) * MaxV
         /\ (CeilDiv(image.height, MaxV) - 1) * MaxV < image.height
<1>1. image.height \in Nat \ {0} /\ MaxV \in Nat \ {0}
  <2>1. image.height \in Nat \ {0} /\ MaxV \in 1..4
    BY Sizes
  <2>2. QED BY <2>1
<1>2. QED BY <1>1, CeilDivBounds

\* The heights of a component fit into each other.
LEMMA Heights ==
  ASSUME image \in Images, NEW c \in Components
  PROVE  /\ image.factors[c] \in 1..4
         /\ rowgroup_height(c) \in 1..MaxV
         /\ v_expand(c) \in 1..MaxV
         /\ rowgroup_height(c) * v_expand(c) = MaxV
         /\ DCT_v_scaled_size(c) \in Nat \ {0}
         /\ strip_height(c) = DctSize * rowgroup_height(c)
         /\ strip_height(c) \in Nat \ {0}
<1>1. /\ MaxV \in 1..4 /\ DctSize \in Nat \ {0}
      /\ image.factors[c] \in 1..4 /\ image.factors[c] <= MaxV
  BY Sizes, MaxVIsLargest
<1>2. MaxV % image.factors[c] = 0
  <2>1. PICK d \in Components : MaxV = image.factors[d]
    BY MaxVIsLargest
  <2>2. \/ image.factors[c] % MaxV = 0
        \/ MaxV % image.factors[c] = 0
    BY <2>1, ImagesAssumption DEF Components
  <2>3. ASSUME NEW f \in 1..4, NEW m \in 1..4, f <= m, f % m = 0
        PROVE  m % f = 0
    BY <2>3
  <2>4. QED BY <2>2, <2>3, <1>1
<1>3. Ssize(c) \in 1..2 /\ MaxV % (image.factors[c] * Ssize(c)) = 0
  BY <1>1, <1>2 DEF Ssize
<1>4. /\ image.factors[c] * Ssize(c) \in 1..MaxV
      /\ MaxV \div (image.factors[c] * Ssize(c)) \in 1..MaxV
      /\ (image.factors[c] * Ssize(c))
           * (MaxV \div (image.factors[c] * Ssize(c))) = MaxV
  <2>1. ASSUME NEW m \in 1..4, NEW f \in 1..4, NEW s \in 1..2, m % (f * s) = 0
        PROVE  /\ f * s \in 1..m
               /\ m \div (f * s) \in 1..m
               /\ (f * s) * (m \div (f * s)) = m
    <3>1. CASE f = 1 /\ s = 1
      BY <3>1
    <3>2. CASE (f = 2 /\ s = 1) \/ (f = 1 /\ s = 2)
      BY <3>2, <2>1
    <3>3. CASE f = 3 /\ s = 1
      BY <3>3, <2>1
    <3>4. CASE (f = 4 /\ s = 1) \/ (f = 2 /\ s = 2)
      BY <3>4, <2>1
    <3>5. CASE f >= 3 /\ s = 2
      <4>1. f * s > m
        BY <3>5
      <4>2. m % (f * s) = m
        <5> DEFINE h == f * s
        <5>1. h \in Nat /\ h > m
          BY <4>1
        <5> HIDE DEF h
        <5>2. m % h = m
          BY <5>1
        <5>3. QED BY <5>2 DEF h
      <4>3. QED BY <4>2, <2>1
    <3>6. \/ f = 1 /\ s = 1
          \/ (f = 2 /\ s = 1) \/ (f = 1 /\ s = 2)
          \/ f = 3 /\ s = 1
          \/ (f = 4 /\ s = 1) \/ (f = 2 /\ s = 2)
          \/ f >= 3 /\ s = 2
      OBVIOUS
    <3>7. QED BY <3>1, <3>2, <3>3, <3>4, <3>5, <3>6
  <2>2. QED BY <2>1, <1>1, <1>3
<1>5. /\ rowgroup_height(c) \in 1..MaxV
      /\ v_expand(c) \in 1..MaxV
      /\ rowgroup_height(c) * v_expand(c) = MaxV
  BY <1>4 DEF rowgroup_height, v_expand
<1>6. DCT_v_scaled_size(c) \in Nat \ {0}
  BY <1>1, <1>3 DEF DCT_v_scaled_size
<1>7. strip_height(c) = DctSize * rowgroup_height(c)
  BY <1>1, <1>3 DEF strip_height, DCT_v_scaled_size, rowgroup_height
<1>8. strip_height(c) \in Nat \ {0}
  BY <1>1, <1>5, <1>7
<1>9. QED BY <1>1, <1>5, <1>6, <1>7, <1>8

-----------------------------------------------------------------------------
(* The samples of the image.                                               *)

\* The image alone says what they are.
LEMMA SamplesStay ==
  ASSUME image' = image
  PROVE  /\ \A c : /\ Smoothed(c)' = Smoothed(c)
                   /\ rowgroup_height(c)' = rowgroup_height(c)
                   /\ v_expand(c)' = v_expand(c)
                   /\ strip_height(c)' = strip_height(c)
         /\ \A i : TrueLine(i)' = TrueLine(i)
         /\ \A c, r : TrueSampleRow(c, r)' = TrueSampleRow(c, r)
         /\ \A c, b : TrueBlock(c, b)' = TrueBlock(c, b)
         /\ \A s, n : TrueMcu(image.scans[s], n)' = TrueMcu(image.scans[s], n)
<1>1. /\ MaxV' = MaxV /\ need_context_rows' = need_context_rows
      /\ total_iMCU_rows' = total_iMCU_rows
  BY SizesStay
<1>2. \A c : /\ rowgroup_height(c)' = rowgroup_height(c)
             /\ v_expand(c)' = v_expand(c)
             /\ DCT_v_scaled_size(c)' = DCT_v_scaled_size(c)
             /\ height_in_blocks(c)' = height_in_blocks(c)
  BY <1>1 DEF rowgroup_height, v_expand, Ssize, DCT_v_scaled_size,
              height_in_blocks
<1>3. \A c : Smoothed(c)' = Smoothed(c) /\ strip_height(c)' = strip_height(c)
  BY <1>2 DEF Smoothed, strip_height
<1>4. \A i : TrueLine(i)' = TrueLine(i)
  BY DEF TrueLine
<1>5. \A c, r : TrueSampleRow(c, r)' = TrueSampleRow(c, r)
  BY <1>1, <1>2, <1>3 DEF TrueSampleRow
<1>6. \A c, b : TrueBlock(c, b)' = TrueBlock(c, b)
  BY <1>2, <1>5 DEF TrueBlock
<1>7. \A s, n : TrueMcu(image.scans[s], n)' = TrueMcu(image.scans[s], n)
  BY <1>6 DEF TrueMcu
<1>8. QED BY <1>2, <1>3, <1>4, <1>5, <1>6, <1>7

\* Rows of samples above and below the edges of a row of the image.
Edge(c) == IF Smoothed(c) THEN 1 ELSE 0

\* Row j of row group g is made of the lines of the image of that row group.
LEMMA RowOfGroup ==
  ASSUME image \in Images, NEW c \in Components, NEW g \in Nat,
         NEW j \in 0..(rowgroup_height(c) - 1),
         need_context_rows \/ g * MaxV < image.height
  PROVE  TrueSampleRow(c, g * rowgroup_height(c) + j)
           = [k \in 1..(v_expand(c) + 2 * Edge(c)) |->
                TrueLine(g * MaxV + (j * v_expand(c) + k - 1 - Edge(c)))]
<1> DEFINE h == rowgroup_height(c)
           e == v_expand(c)
           groups == CeilDiv(image.height, MaxV)
           this == IF need_context_rows THEN g * h + j
                   ELSE Lesser(g * h + j, groups * h - 1)
<1>1. /\ MaxV \in 1..4 /\ h \in 1..MaxV /\ e \in 1..MaxV /\ h * e = MaxV
      /\ image.height \in Nat \ {0} /\ j \in 0..(h - 1)
  BY Heights, Sizes
<1>2. /\ groups \in Nat \ {0} /\ image.height <= groups * MaxV
  BY RowGroups
<1>3. /\ g * h + j \in Nat /\ groups * h - 1 \in Int
  BY <1>1, <1>2
<1>4. this = g * h + j
  <2>1. CASE need_context_rows
    BY <2>1
  <2>2. CASE ~need_context_rows
    <3>1. g < groups
      <4>1. g * MaxV < groups * MaxV
        BY <1>1, <1>2, <2>2
      <4>2. QED BY <4>1, <1>1, <1>2
    <3>2. (g + 1) * h <= groups * h
      BY <3>1, <1>1, <1>2
    <3>3. g * h + j <= groups * h - 1
      BY <3>2, <1>1, <1>2
    <3>4. QED BY <3>3, <2>2, <1>3 DEF Lesser
  <2>3. QED BY <2>1, <2>2
<1>5. this * e = g * MaxV + j * e
  <2>1. (g * h + j) * e = g * (h * e) + j * e
    BY <1>1
  <2>2. QED BY <2>1, <1>1, <1>4
<1>6. Edge(c) \in 0..1
  BY DEF Edge
<1>7. TrueSampleRow(c, g * h + j)
        = [k \in 1..(e + 2 * Edge(c)) |->
             IF this * e - Edge(c) + k - 1 < 0 THEN 0
             ELSE Lesser(this * e - Edge(c) + k - 1, image.height - 1)]
  BY DEF TrueSampleRow, Edge
<1>8. j * e \in Int /\ g * MaxV \in Int
  BY <1>1
<1> HIDE DEF this, h, e
<1>9. ASSUME NEW k \in 1..(e + 2 * Edge(c))
      PROVE  this * e - Edge(c) + k - 1 = g * MaxV + (j * e + k - 1 - Edge(c))
  BY <1>5, <1>6, <1>8
<1>10. QED BY <1>7, <1>9 DEF TrueLine, h, e

\* Without context rows the last row of samples is repeated.
LEMMA RowBelow ==
  ASSUME image \in Images, NEW c \in Components, ~need_context_rows,
         NEW r \in Int,
         r >= CeilDiv(image.height, MaxV) * rowgroup_height(c) - 1
  PROVE  TrueSampleRow(c, r)
           = TrueSampleRow(c, CeilDiv(image.height, MaxV)
                                * rowgroup_height(c) - 1)
<1> DEFINE last == CeilDiv(image.height, MaxV) * rowgroup_height(c) - 1
<1>1. last \in Int
  <2>1. rowgroup_height(c) \in 1..MaxV /\ MaxV \in 1..4
    BY Heights, Sizes
  <2>2. CeilDiv(image.height, MaxV) \in Nat
    BY RowGroups
  <2>3. QED BY <2>1, <2>2
<1> HIDE DEF last
<1>2. Lesser(r, last) = last /\ Lesser(last, last) = last
  BY <1>1 DEF Lesser, last
<1>3. QED BY <1>2 DEF TrueSampleRow, last

\* From place "first" on, the rows are those of row group g of the image; with
\* context rows so are the one above and the one below.
HoldsLines(rows, first, g) ==
  \A d \in (-1)..MaxV :
    need_context_rows \/ d \in 0..(MaxV - 1) =>
      rows[Place(first + d)] = TrueLine(g * MaxV + d)

\* The downsampler makes row group g of the lines of that row group.
LEMMA DownsampledRow ==
  ASSUME image \in Images, NEW rows, NEW first \in Nat, NEW g \in Nat,
         need_context_rows \/ g * MaxV < image.height,
         HoldsLines(rows, first, g),
         NEW c \in Components, NEW j \in 0..(rowgroup_height(c) - 1)
  PROVE  Downsampled(c, rows, first)[j]
           = TrueSampleRow(c, g * rowgroup_height(c) + j)
<1> DEFINE h == rowgroup_height(c)
           e == v_expand(c)
<1>1. /\ MaxV \in 1..4 /\ h \in 1..MaxV /\ e \in 1..MaxV /\ h * e = MaxV
      /\ j \in 0..(h - 1)
  BY Heights, Sizes
<1>2. /\ Edge(c) \in 0..1
      /\ ~need_context_rows => Edge(c) = 0
  BY DEF Edge, need_context_rows
<1>3. j * e \in Nat /\ j * e + e <= MaxV
  <2>1. j * e \in Nat /\ (j + 1) * e = j * e + e
    BY <1>1
  <2>2. (j + 1) * e <= h * e
    <3>1. j + 1 <= h /\ j + 1 \in Nat /\ h \in Nat /\ e \in Nat
      BY <1>1
    <3> HIDE DEF h, e
    <3>2. QED BY <3>1, ProductGrows
  <2>3. QED BY <2>1, <2>2, <1>1
<1>4. Downsampled(c, rows, first)[j]
        = [k \in 1..(e + 2 * Edge(c)) |->
             rows[Place(first + j * e + k - 1 - Edge(c))]]
  BY DEF Downsampled, Edge
<1>5. ASSUME NEW k \in 1..(e + 2 * Edge(c))
      PROVE  rows[Place(first + j * e + k - 1 - Edge(c))]
               = TrueLine(g * MaxV + (j * e + k - 1 - Edge(c)))
  <2> DEFINE d == j * e + k - 1 - Edge(c)
  <2> HIDE DEF h, e
  <2>1. /\ d \in (-1)..MaxV
        /\ ~need_context_rows => d \in 0..(MaxV - 1)
    BY <1>1, <1>2, <1>3
  <2>2. first + j * e + k - 1 - Edge(c) = first + d
    BY <1>1, <1>2, <1>3
  <2> HIDE DEF d
  <2>3. rows[Place(first + d)] = TrueLine(g * MaxV + d)
    BY <2>1 DEF HoldsLines
  <2>4. QED BY <2>2, <2>3 DEF d
<1>6. QED BY <1>4, <1>5, RowOfGroup

-----------------------------------------------------------------------------
(* The strip.                                                              *)

\* Where the main controller is.
LEMMA MainFacts ==
  ASSUME Counters
  PROVE  /\ image \in Images
         /\ main.cur_iMCU_row \in 0..total_iMCU_rows
         /\ main.rowgroup_ctr \in 0..DctSize
         /\ DctSize \in Nat \ {0} /\ total_iMCU_rows \in Nat \ {0}
         /\ Groups \in Nat
         /\ \A c \in Components :
              Groups * rowgroup_height(c)
                = main.cur_iMCU_row * strip_height(c)
                    + main.rowgroup_ctr * rowgroup_height(c)
<1>1. /\ image \in Images
      /\ main.cur_iMCU_row \in 0..total_iMCU_rows
      /\ main.rowgroup_ctr \in 0..DctSize
  BY DEF Counters
<1>2. DctSize \in Nat \ {0} /\ total_iMCU_rows \in Nat \ {0}
  BY <1>1, Sizes
<1>3. main.cur_iMCU_row \in Nat /\ main.rowgroup_ctr \in Nat
  BY <1>1, <1>2
<1>4. Groups \in Nat
  BY <1>2, <1>3 DEF Groups
<1>5. ASSUME NEW c \in Components
      PROVE  Groups * rowgroup_height(c)
               = main.cur_iMCU_row * strip_height(c)
                   + main.rowgroup_ctr * rowgroup_height(c)
  <2>1. /\ strip_height(c) = DctSize * rowgroup_height(c)
        /\ rowgroup_height(c) \in Nat
    <3>1. rowgroup_height(c) \in 1..MaxV /\ MaxV \in 1..4
      BY <1>1, Heights, Sizes
    <3>2. QED BY <1>1, <3>1, Heights
  <2>2. ASSUME NEW a \in Nat, NEW b \in Nat, NEW n \in Nat, NEW h \in Nat
        PROVE  (a * n + b) * h = a * (n * h) + b * h
    OBVIOUS
  <2>3. QED BY <1>2, <1>3, <2>1, <2>2 DEF Groups
<1>6. QED BY <1>1, <1>2, <1>4, <1>5

\* One more row group is put into the strip.
LEMMA StoredRight ==
  ASSUME Counters, HoldsGroups(buffer, main.rowgroup_ctr),
         NEW rows, NEW first \in Nat,
         need_context_rows \/ Groups * MaxV < image.height,
         HoldsLines(rows, first, Groups)
  PROVE  HoldsGroups(Stored(rows, first, main.rowgroup_ctr),
                     main.rowgroup_ctr + 1)
<1> DEFINE strip == Stored(rows, first, main.rowgroup_ctr)
<1>1. DOMAIN strip = Components
  BY DEF Stored
<1>2. ASSUME NEW c \in Components
      PROVE  /\ DOMAIN strip[c] = 0..(strip_height(c) - 1)
             /\ \A r \in 0..(strip_height(c) - 1) :
                  r < (main.rowgroup_ctr + 1) * rowgroup_height(c) =>
                    strip[c][r] = TrueSampleRow(c, main.cur_iMCU_row
                                                     * strip_height(c) + r)
  <2> DEFINE h == rowgroup_height(c)
             top == main.rowgroup_ctr * h
             base == main.cur_iMCU_row * strip_height(c)
  <2>1. strip[c] = [r \in DOMAIN buffer[c] |->
                      IF r \in top..(top + h - 1)
                      THEN Downsampled(c, rows, first)[r - top]
                      ELSE buffer[c][r]]
    BY DEF Stored
  <2>2. DOMAIN buffer[c] = 0..(strip_height(c) - 1)
    BY DEF HoldsGroups
  <2>3. /\ h \in Nat \ {0} /\ strip_height(c) \in Nat
        /\ Groups \in Nat /\ Groups * h = base + top
        /\ main.rowgroup_ctr \in Nat /\ main.cur_iMCU_row \in Nat
    <3>1. h \in 1..MaxV /\ MaxV \in 1..4 /\ strip_height(c) \in Nat
      BY Heights, MainFacts, Sizes
    <3>2. QED BY <3>1, MainFacts
  <2>4. top \in Nat /\ base \in Nat /\ (main.rowgroup_ctr + 1) * h = top + h
    BY <2>3
  <2>5. ASSUME NEW r \in 0..(strip_height(c) - 1),
               r < (main.rowgroup_ctr + 1) * h
        PROVE  strip[c][r] = TrueSampleRow(c, base + r)
    <3>1. CASE r >= top
      <4>1. r - top \in 0..(h - 1) /\ r \in top..(top + h - 1)
        BY <2>3, <2>4, <2>5, <3>1
      <4>2. strip[c][r] = Downsampled(c, rows, first)[r - top]
        BY <2>1, <2>2, <4>1
      <4>3. Downsampled(c, rows, first)[r - top]
              = TrueSampleRow(c, Groups * h + (r - top))
        <5>1. image \in Images
          BY MainFacts
        <5> HIDE DEF h
        <5>2. ASSUME NEW j \in 0..(rowgroup_height(c) - 1)
              PROVE  Downsampled(c, rows, first)[j]
                       = TrueSampleRow(c, Groups * rowgroup_height(c) + j)
          BY <2>3, <5>1, DownsampledRow
        <5>3. QED BY <4>1, <5>2 DEF h
      <4>4. Groups * h + (r - top) = base + r
        <5> HIDE DEF top, base
        <5>1. QED BY <2>3, <2>4
      <4>5. QED BY <4>2, <4>3, <4>4
    <3>2. CASE r < top
      <4>1. r \notin top..(top + h - 1)
        BY <2>4, <3>2
      <4>2. strip[c][r] = buffer[c][r]
        BY <2>1, <2>2, <4>1
      <4>3. QED BY <3>2, <4>2 DEF HoldsGroups
    <3>3. QED BY <2>4, <3>1, <3>2
  <2>6. QED BY <2>1, <2>2, <2>5
<1>3. QED BY <1>1, <1>2 DEF HoldsGroups

\* Without context rows, the strip is filled up below the last row group.
LEMMA StripPaddedRight ==
  ASSUME Counters, ~need_context_rows, ~StripFull, NEW strip,
         HoldsGroups(strip, main.rowgroup_ctr + 1),
         Groups * MaxV < image.height, image.height <= (Groups + 1) * MaxV
  PROVE  HoldsGroups(StripPadded(strip, main.rowgroup_ctr + 1), DctSize)
<1> DEFINE n == main.rowgroup_ctr + 1
           padded == StripPadded(strip, n)
<1>1. DOMAIN padded = Components
  BY DEF StripPadded, HoldsGroups
<1>2. /\ MaxV \in 1..4 /\ image.height \in Nat /\ Groups \in Nat
      /\ image \in Images
  BY MainFacts, Sizes
<1>3. CeilDiv(image.height, MaxV) = Groups + 1
  <2> DEFINE q == CeilDiv(image.height, MaxV)
  <2>1. /\ q \in Nat /\ image.height <= q * MaxV
        /\ (q - 1) * MaxV < image.height
    BY <1>2, RowGroups
  <2> HIDE DEF q
  <2>2. Groups * MaxV < q * MaxV /\ (q - 1) * MaxV < (Groups + 1) * MaxV
    BY <1>2, <2>1
  <2>3. Groups < q /\ q - 1 < Groups + 1
    BY <1>2, <2>1, <2>2
  <2>4. q = Groups + 1
    BY <1>2, <2>1, <2>3
  <2>5. QED BY <2>4 DEF q
<1>4. ASSUME NEW c \in Components
      PROVE  /\ DOMAIN padded[c] = 0..(strip_height(c) - 1)
             /\ \A r \in 0..(strip_height(c) - 1) :
                  padded[c][r] = TrueSampleRow(c, main.cur_iMCU_row
                                                    * strip_height(c) + r)
  <2> DEFINE h == rowgroup_height(c)
             base == main.cur_iMCU_row * strip_height(c)
             last == n * h - 1
  <2>1. padded[c] = [r \in DOMAIN strip[c] |-> strip[c][Lesser(r, last)]]
    BY DEF StripPadded, HoldsGroups
  <2>2. DOMAIN strip[c] = 0..(strip_height(c) - 1)
    BY DEF HoldsGroups
  <2>3. /\ h \in Nat \ {0} /\ strip_height(c) \in Nat /\ base \in Nat
        /\ n \in Nat /\ n <= DctSize /\ DctSize \in Nat
        /\ strip_height(c) = DctSize * h
    <3>1. h \in 1..MaxV /\ strip_height(c) \in Nat
          /\ strip_height(c) = DctSize * h
      BY <1>2, Heights
    <3>2. main.rowgroup_ctr # DctSize
      BY DEF StripFull
    <3>3. main.rowgroup_ctr \in 0..DctSize /\ DctSize \in Nat
          /\ main.cur_iMCU_row \in Nat
      BY MainFacts
    <3>4. QED BY <1>2, <3>1, <3>2, <3>3
  <2>4. last \in Nat /\ last <= strip_height(c) - 1
    <3>1. n * h \in Nat \ {0} /\ n * h <= DctSize * h
      <4>1. n * h <= DctSize * h
        <5> HIDE DEF n, h
        <5>1. QED BY <2>3, ProductGrows
      <4>2. main.rowgroup_ctr \in Nat
        BY MainFacts
      <4>3. n * h = main.rowgroup_ctr * h + h /\ main.rowgroup_ctr * h \in Nat
        BY <2>3, <4>2
      <4>4. QED BY <2>3, <4>1, <4>3
    <3>2. QED BY <2>3, <3>1
  <2>5. base + last = (Groups + 1) * h - 1
    <3>1. Groups * h = base + main.rowgroup_ctr * h
      BY MainFacts
    <3>2. main.rowgroup_ctr \in Nat
      BY MainFacts
    <3>3. (Groups + 1) * h = Groups * h + h /\ n * h = main.rowgroup_ctr * h + h
      BY <1>2, <2>3, <3>2
    <3>4. main.rowgroup_ctr * h \in Nat
      BY <2>3, <3>2
    <3> HIDE DEF base
    <3>5. QED BY <2>3, <3>1, <3>3, <3>4
  <2>6. ASSUME NEW r \in 0..(strip_height(c) - 1)
        PROVE  padded[c][r] = TrueSampleRow(c, base + r)
    <3>1. padded[c][r] = strip[c][Lesser(r, last)]
      BY <2>1, <2>2
    <3>2. CASE r <= last
      <4>1. Lesser(r, last) = r /\ r < n * h
        BY <2>3, <2>4, <3>2 DEF Lesser
      <4>2. QED BY <3>1, <4>1 DEF HoldsGroups
    <3>3. CASE r > last
      <4>1. Lesser(r, last) = last
        BY <2>4, <3>3 DEF Lesser
      <4>2. last \in 0..(strip_height(c) - 1) /\ last < n * h
        BY <2>3, <2>4
      <4>3. strip[c][last] = TrueSampleRow(c, base + last)
        BY <4>2 DEF HoldsGroups
      <4>4. TrueSampleRow(c, base + r) = TrueSampleRow(c, (Groups + 1) * h - 1)
        <5>1. base + r \in Int /\ base + r >= (Groups + 1) * h - 1
          <6> HIDE DEF base, last
          <6>1. r \in Nat /\ base \in Nat /\ last \in Nat
            BY <2>3, <2>4
          <6>2. base + r >= base + last
            BY <3>3, <6>1
          <6>3. QED BY <2>5, <6>1, <6>2
        <5> HIDE DEF base
        <5>2. QED BY <1>2, <1>3, <5>1, RowBelow
      <4>5. QED BY <3>1, <4>1, <4>3, <4>4, <2>5
    <3>4. QED BY <2>4, <3>2, <3>3
  <2>7. QED BY <2>1, <2>2, <2>6
<1>5. QED BY <1>1, <1>4 DEF HoldsGroups

-----------------------------------------------------------------------------
(* The ring.                                                               *)

\* Rows that follow each other do so in the ring, short of its end.
LEMMA AlongTheRing ==
  ASSUME NEW v \in 1..4, NEW a \in Int, NEW n \in Nat,
         (a % (3 * v)) + n < 3 * v
  PROVE  (a + n) % (3 * v) = (a % (3 * v)) + n
<1>1. CASE v = 1
  BY <1>1
<1>2. CASE v = 2
  BY <1>2
<1>3. CASE v = 3
  BY <1>3
<1>4. CASE v = 4
  BY <1>4
<1>5. QED BY <1>1, <1>2, <1>3, <1>4

\* After the last place of the ring comes its first.
LEMMA RingWraps ==
  ASSUME NEW v \in 1..4, NEW a \in Int, NEW n \in Nat,
         (a % (3 * v)) + n <= 3 * v
  PROVE  (a + n) % (3 * v)
           = IF (a % (3 * v)) + n >= 3 * v THEN 0 ELSE (a % (3 * v)) + n
<1>1. CASE v = 1
  BY <1>1
<1>2. CASE v = 2
  BY <1>2
<1>3. CASE v = 3
  BY <1>3
<1>4. CASE v = 4
  BY <1>4
<1>5. QED BY <1>1, <1>2, <1>3, <1>4

\* The places of the first rows, and of those above them.
LEMMA SmallStay ==
  ASSUME NEW v \in 1..4, NEW i \in Int
  PROVE  /\ i >= 0 /\ i < 3 * v => i % (3 * v) = i
         /\ i < 0 /\ i >= - v => i % (3 * v) = i + 3 * v
<1>1. CASE v = 1
  BY <1>1
<1>2. CASE v = 2
  BY <1>2
<1>3. CASE v = 3
  BY <1>3
<1>4. CASE v = 4
  BY <1>4
<1>5. QED BY <1>1, <1>2, <1>3, <1>4

\* What is put into the ring at the place that is next replaces no row of
\* those that are still wanted.
LEMMA RingGrows ==
  ASSUME NEW v \in 1..4, NEW a \in Int, NEW n \in Nat,
         (a % (3 * v)) + n <= 3 * v
  PROVE  /\ \A i \in a..(a + n - 1) :
              /\ i % (3 * v) = (a % (3 * v)) + (i - a)
              /\ i % (3 * v) \in (a % (3 * v))..((a % (3 * v)) + n - 1)
         /\ \A i \in (a + n - 3 * v)..(a - 1) :
              i % (3 * v) \notin (a % (3 * v))..((a % (3 * v)) + n - 1)
<1>1. a % (3 * v) \in 0..(3 * v - 1)
  BY AroundTheRing
<1>2. ASSUME NEW i \in a..(a + n - 1)
      PROVE  i % (3 * v) = (a % (3 * v)) + (i - a)
  <2>1. /\ i - a \in Nat /\ (a % (3 * v)) + (i - a) < 3 * v
        /\ a + (i - a) = i
    BY <1>1
  <2>2. (a + (i - a)) % (3 * v) = (a % (3 * v)) + (i - a)
    BY <2>1, AlongTheRing
  <2>3. QED BY <2>1, <2>2
<1>3. ASSUME NEW i \in (a + n - 3 * v)..(a - 1),
             i % (3 * v) \in (a % (3 * v))..((a % (3 * v)) + n - 1)
      PROVE  FALSE
  <2> DEFINE j == a + ((i % (3 * v)) - (a % (3 * v)))
  <2>1. j \in a..(a + n - 1)
    BY <1>1, <1>3
  <2>2. j % (3 * v) = i % (3 * v)
    <3>1. j % (3 * v) = (a % (3 * v)) + (j - a)
      BY <2>1, <1>2
    <3>2. QED BY <3>1, <1>1, <1>3
  <2> HIDE DEF j
  <2>3. i < j + 3 * v /\ j < i + 3 * v /\ i \in Int /\ j \in Int
    BY <2>1
  <2>4. i = j
    BY <2>2, <2>3, OncePerRound
  <2>5. QED BY <2>1, <2>4
<1>4. ASSUME NEW i \in a..(a + n - 1)
      PROVE  i % (3 * v) \in (a % (3 * v))..((a % (3 * v)) + n - 1)
  BY <1>1, <1>2
<1>5. QED BY <1>2, <1>3, <1>4

\* The row group in the middle of the ring has its neighbours in it.
LEMMA RingLines ==
  ASSUME image \in Images, need_context_rows, NEW rows, NEW g \in Nat,
         RingHolds(rows, g * MaxV + 2 * MaxV)
  PROVE  HoldsLines(rows, (g * MaxV) % (3 * MaxV), g)
<1> DEFINE a == g * MaxV
<1>1. MaxV \in 1..4 /\ a \in Nat
  BY Sizes
<1>2. RingHolds(rows, a + 2 * MaxV)
  OBVIOUS
<1> HIDE DEF a
<1>3. ASSUME NEW d \in (-1)..MaxV
      PROVE  rows[Place((a % (3 * MaxV)) + d)] = TrueLine(a + d)
  <2>1. Place((a % (3 * MaxV)) + d) = (a + d) % (3 * MaxV)
    <3>1. Place((a % (3 * MaxV)) + d)
            = ((a % (3 * MaxV)) + d + 3 * MaxV) % (3 * MaxV)
      BY DEF Place
    <3>2. d \in Int /\ -(3 * MaxV) <= d
      BY <1>1
    <3>3. QED BY <3>1, <3>2, <1>1, AroundTheRing
  <2>2. /\ a + d \in (a + 2 * MaxV - 3 * MaxV)..(a + 2 * MaxV - 1)
        /\ a + d >= - MaxV
    BY <1>1
  <2>3. rows[(a + d) % (3 * MaxV)] = TrueLine(a + d)
    <3> DEFINE i == a + d
    <3>1. i \in (a + 2 * MaxV - 3 * MaxV)..(a + 2 * MaxV - 1) /\ i >= - MaxV
      BY <2>2
    <3> HIDE DEF i
    <3>2. rows[i % (3 * MaxV)] = TrueLine(i)
      BY <1>1, <1>2, <3>1 DEF RingHolds
    <3>3. QED BY <3>2 DEF i
  <2>4. QED BY <2>1, <2>3
<1>4. QED BY <1>3 DEF HoldsLines, a

\* Where the preprocessor is when it keeps context rows.
LEMMA RingFacts ==
  ASSUME IInv1, RingRight, need_context_rows
  PROVE  /\ image \in Images /\ MaxV \in 1..4
         /\ image.height \in Nat \ {0}
         /\ Groups \in Nat /\ Groups * MaxV \in Nat
         /\ prep.rows_to_go \in 0..image.height
         /\ prep.next_buf_row \in Nat
         /\ prep.this_row_group \in {0, MaxV, 2 * MaxV}
         /\ prep.next_buf_stop \in Nat
         /\ prep.next_buf_stop \in {MaxV, 2 * MaxV, 3 * MaxV}
         /\ prep.next_buf_row < prep.next_buf_stop
         /\ prep.next_buf_stop <= prep.next_buf_row + 2 * MaxV
         /\ Filled = Groups * MaxV + prep.next_buf_row
                       + (2 * MaxV - prep.next_buf_stop)
         /\ Filled \in Nat
         /\ prep.rows_to_go > 0 => Filled = image.height - prep.rows_to_go
         /\ prep.rows_to_go = 0 => image.height <= Filled
         /\ prep.next_buf_row = Filled % (3 * MaxV)
         /\ prep.this_row_group = (Groups * MaxV) % (3 * MaxV)
<1>1. Counters /\ RingInv /\ RowsPlaced
  BY DEF IInv1
<1>2. /\ image \in Images /\ MaxV \in 1..4 /\ image.height \in Nat \ {0}
      /\ Groups \in Nat /\ DctSize \in Nat
      /\ main.cur_iMCU_row \in Nat /\ main.rowgroup_ctr \in Nat
  BY <1>1, MainFacts, Sizes
<1>3. Groups * MaxV \in Nat
  BY <1>2
<1>4. /\ prep.rows_to_go \in 0..image.height /\ prep.next_buf_row \in Nat
      /\ prep.next_buf_stop \in Nat
      /\ prep.this_row_group \in {0, MaxV, 2 * MaxV}
      /\ prep.next_buf_stop \in {MaxV, 2 * MaxV, 3 * MaxV}
      /\ prep.next_buf_row < prep.next_buf_stop
      /\ prep.next_buf_stop <= prep.next_buf_row + 2 * MaxV
  BY <1>1 DEF Counters, RingInv
<1>5. Filled = Groups * MaxV + prep.next_buf_row
                 + (2 * MaxV - prep.next_buf_stop)
  BY DEF Filled
<1>6. Filled \in Nat
  BY <1>2, <1>3, <1>4, <1>5
<1>7. Groups * MaxV = main.cur_iMCU_row * (MaxV * DctSize)
                        + main.rowgroup_ctr * MaxV
  <2>1. ASSUME NEW a \in Nat, NEW b \in Nat, NEW n \in Nat, NEW v \in Nat
        PROVE  (a * n + b) * v = a * (v * n) + b * v
    OBVIOUS
  <2>2. MaxV \in Nat
    BY <1>2
  <2>3. QED BY <1>2, <2>1, <2>2 DEF Groups
<1>8. prep.rows_to_go > 0 => Filled = image.height - prep.rows_to_go
  BY <1>1, <1>5, <1>7 DEF RowsPlaced
<1>9. QED BY <1>2, <1>3, <1>4, <1>5, <1>6, <1>8 DEF RingRight

\* The invariant without what the preprocessor changes.
LEMMA FillKeepsKept ==
  ASSUME AllInv, pc = "fill", pc' = "fill",
         UNCHANGED <<image, whole_image, written>>,
         main'.cur_iMCU_row = main.cur_iMCU_row
  PROVE  KeptRight' /\ PassesCounted' /\ McusRight'
<1>1. KeptRight /\ McusRight
  BY DEF AllInv, IInv3
<1>2. /\ total_iMCU_rows' = total_iMCU_rows /\ Components' = Components
      /\ \A c, b : TrueBlock(c, b)' = TrueBlock(c, b)
      /\ \A s, n : TrueMcu(image.scans[s], n)' = TrueMcu(image.scans[s], n)
      /\ \A s : McusOf(image.scans[s])' = McusOf(image.scans[s])
      /\ MultiPass' = MultiPass
  BY SizesStay, SamplesStay, ScansStay DEF MultiPass
<1>3. KeptRight'
  BY <1>1, <1>2 DEF KeptRight
<1>4. McusRight'
  BY <1>1, <1>2 DEF McusRight
<1>5. PassesCounted'
  BY DEF PassesCounted, FirstPass
<1>6. QED BY <1>3, <1>4, <1>5

\* A round of pre_process_context with these rows up to "filled", which follow
\* those that were there.
LEMMA ContextKeepsData ==
  ASSUME AllInv, pc = "fill", pc' = "fill",
         UNCHANGED <<image, whole_image, written>>,
         need_context_rows, ~StripFull,
         NEW numrows \in Nat, numrows <= prep.rows_to_go,
         NEW filled \in Nat, prep.next_buf_row < filled,
         filled <= prep.next_buf_stop,
         \/ numrows > 0 /\ filled = prep.next_buf_row + numrows
         \/ numrows = 0 /\ prep.rows_to_go = 0,
         NEW rows, ContextGroup(rows, filled, prep.rows_to_go - numrows),
         RingHolds(rows, Filled + (filled - prep.next_buf_row))
  PROVE  IInv3'
<1> DEFINE n == filled - prep.next_buf_row
           a == Groups * MaxV
<1>1. /\ IInv1 /\ BuffersInv /\ RingRight /\ StripRight
  BY DEF AllInv, IInv, IInv3
<1>2. /\ image \in Images /\ MaxV \in 1..4
      /\ image.height \in Nat \ {0}
      /\ Groups \in Nat /\ a \in Nat
      /\ prep.rows_to_go \in 0..image.height
      /\ prep.next_buf_row \in Nat
      /\ prep.this_row_group \in {0, MaxV, 2 * MaxV}
      /\ prep.next_buf_stop \in Nat
      /\ prep.next_buf_stop \in {MaxV, 2 * MaxV, 3 * MaxV}
      /\ prep.next_buf_row < prep.next_buf_stop
      /\ prep.next_buf_stop <= prep.next_buf_row + 2 * MaxV
      /\ Filled = a + prep.next_buf_row + (2 * MaxV - prep.next_buf_stop)
      /\ Filled \in Nat
      /\ prep.rows_to_go > 0 => Filled = image.height - prep.rows_to_go
      /\ prep.rows_to_go = 0 => image.height <= Filled
  BY <1>1, RingFacts
<1>18. /\ prep.next_buf_row = Filled % (3 * MaxV)
       /\ prep.this_row_group = a % (3 * MaxV)
  BY <1>1, RingFacts
<1>3. /\ MaxV' = MaxV /\ need_context_rows' = need_context_rows
      /\ total_iMCU_rows' = total_iMCU_rows /\ Components' = Components
      /\ \A c : strip_height(c)' = strip_height(c)
      /\ \A c : rowgroup_height(c)' = rowgroup_height(c)
      /\ \A i : TrueLine(i)' = TrueLine(i)
      /\ \A c, r : TrueSampleRow(c, r)' = TrueSampleRow(c, r)
  BY SizesStay, SamplesStay
<1>4. /\ color_buf' = rows
      /\ buffer' = IF filled = prep.next_buf_stop
                   THEN Stored(rows, prep.this_row_group, main.rowgroup_ctr)
                   ELSE buffer
  BY DEF ContextGroup
<1>5. n \in Nat \ {0} /\ Filled + n \in Nat
      /\ filled = (Filled % (3 * MaxV)) + n /\ filled <= 3 * MaxV
  BY <1>2, <1>18
<1>6. /\ main'.cur_iMCU_row = main.cur_iMCU_row
      /\ main'.rowgroup_ctr = IF filled = prep.next_buf_stop
                              THEN main.rowgroup_ctr + 1
                              ELSE main.rowgroup_ctr
      /\ prep'.rows_to_go = prep.rows_to_go - numrows
  BY <1>1 DEF ContextGroup, IInv1, Counters
<1>7. DctSize \in Nat /\ main.cur_iMCU_row \in Nat /\ main.rowgroup_ctr \in Nat
  BY <1>1, MainFacts DEF IInv1
<1> HIDE DEF n
<1>17. (Filled + n) % (3 * MaxV) = IF filled >= 3 * MaxV THEN 0 ELSE filled
  <2>1. (Filled % (3 * MaxV)) + n <= 3 * MaxV /\ n \in Nat /\ Filled \in Int
    BY <1>2, <1>5
  <2>2. (Filled + n) % (3 * MaxV)
          = IF (Filled % (3 * MaxV)) + n >= 3 * MaxV THEN 0
            ELSE (Filled % (3 * MaxV)) + n
    BY <1>2, <2>1, RingWraps
  <2>3. QED BY <1>5, <2>2
\* The counters after this round.
<1>8. /\ Groups' * MaxV = IF filled = prep.next_buf_stop THEN a + MaxV ELSE a
      /\ Filled' = Filled + n
      /\ prep'.this_row_group = (Groups' * MaxV) % (3 * MaxV)
      /\ prep'.next_buf_row = (Filled + n) % (3 * MaxV)
  <2>1. CASE filled = prep.next_buf_stop
    <3> DEFINE next == IF filled >= 3 * MaxV THEN 0 ELSE filled
               this == prep.this_row_group + MaxV
    <3>1. /\ prep'.next_buf_row = next
          /\ prep'.this_row_group = IF this >= 3 * MaxV THEN 0 ELSE this
          /\ prep'.next_buf_stop = next + MaxV
      BY <2>1 DEF ContextGroup
    <3>2. Groups' = Groups + 1
      <4>1. Groups' = main.cur_iMCU_row * DctSize + (main.rowgroup_ctr + 1)
        BY <1>6, <2>1 DEF Groups
      <4>2. main.cur_iMCU_row * DctSize \in Nat
        BY <1>7
      <4>3. QED BY <1>7, <4>1, <4>2 DEF Groups
    <3>3. Groups' * MaxV = a + MaxV
      BY <1>2, <3>2
    <3>4. Filled' = (a + MaxV) + next + (2 * MaxV - (next + MaxV))
      BY <1>3, <3>1, <3>3 DEF Filled
    <3> HIDE DEF a
    <3>5. Filled' = Filled + n
      BY <1>2, <2>1, <3>4 DEF n
    <3>6. (a + MaxV) % (3 * MaxV) = IF this >= 3 * MaxV THEN 0 ELSE this
      <4>1. /\ (a % (3 * MaxV)) + MaxV <= 3 * MaxV
            /\ MaxV \in Nat /\ a \in Int
        BY <1>2, <1>18
      <4>2. (a + MaxV) % (3 * MaxV)
              = IF (a % (3 * MaxV)) + MaxV >= 3 * MaxV THEN 0
                ELSE (a % (3 * MaxV)) + MaxV
        BY <1>2, <4>1, RingWraps
      <4>3. QED BY <1>18, <4>2
    <3>7. (Filled + n) % (3 * MaxV) = next
      BY <1>5, <1>17
    <3>8. QED BY <2>1, <3>1, <3>3, <3>5, <3>6, <3>7
  <2>2. CASE filled # prep.next_buf_stop
    <3>1. /\ prep' = [prep EXCEPT !.rows_to_go = prep.rows_to_go - numrows,
                                  !.next_buf_row = filled]
      BY <2>2 DEF ContextGroup
    <3>2. /\ prep'.next_buf_row = filled
          /\ prep'.this_row_group = prep.this_row_group
          /\ prep'.next_buf_stop = prep.next_buf_stop
      BY <1>1, <3>1 DEF IInv1, Counters
    <3>3. Groups' = Groups
      BY <1>6, <2>2 DEF Groups
    <3>4. Filled' = a + filled + (2 * MaxV - prep.next_buf_stop)
      BY <1>3, <3>2, <3>3 DEF Filled
    <3> HIDE DEF a
    <3>5. Filled' = Filled + n
      <4> DEFINE stop == prep.next_buf_stop
      <4>1. stop \in Int /\ 2 * MaxV - stop \in Int
        BY <1>2
      <4> HIDE DEF stop
      <4>2. QED BY <1>2, <3>4, <4>1 DEF n, stop
    <3>6. filled < 3 * MaxV
      BY <1>2, <2>2
    <3>7. (Filled + n) % (3 * MaxV) = filled
      BY <1>17, <3>6, <1>2
    <3>8. QED BY <1>18, <2>2, <3>2, <3>3, <3>5, <3>7 DEF a
  <2>3. QED BY <2>1, <2>2
<1>9. RingHolds(color_buf, Filled)'
  <2>1. RingHolds(rows, Filled + n)
    BY DEF n
  <2>2. QED BY <1>3, <1>4, <1>8, <2>1 DEF RingHolds
<1>10. RingRight'
  <2>1. prep'.rows_to_go = 0 => image.height <= Filled + n
    <3>1. CASE prep.rows_to_go = 0
      BY <1>2, <1>5, <3>1
    <3>2. CASE prep.rows_to_go > 0
      <4>1. n = numrows /\ Filled = image.height - prep.rows_to_go
        BY <1>2, <3>2 DEF n
      <4>2. QED BY <1>2, <1>6, <4>1
    <3>3. QED BY <1>2, <3>1, <3>2
  <2>2. QED BY <1>3, <1>8, <1>9, <2>1 DEF RingRight
<1>11. HoldsGroups(buffer', main'.rowgroup_ctr)
  <2>1. CASE filled = prep.next_buf_stop
    <3>1. Filled + n = Groups * MaxV + 2 * MaxV
      BY <1>2, <2>1 DEF n
    <3>2. RingHolds(rows, Groups * MaxV + 2 * MaxV)
      BY <3>1 DEF n
    <3>3. HoldsLines(rows, (Groups * MaxV) % (3 * MaxV), Groups)
      BY <1>2, <3>2, RingLines
    <3>4. HoldsLines(rows, prep.this_row_group, Groups)
      BY <1>18, <3>3
    <3>5. /\ Counters /\ HoldsGroups(buffer, main.rowgroup_ctr)
          /\ prep.this_row_group \in Nat
      BY <1>1 DEF IInv1, Counters, StripRight
    <3>6. HoldsGroups(Stored(rows, prep.this_row_group, main.rowgroup_ctr),
                      main.rowgroup_ctr + 1)
      BY <3>4, <3>5, StoredRight
    <3>7. QED BY <1>4, <1>6, <2>1, <3>6
  <2>2. CASE filled # prep.next_buf_stop
    BY <1>1, <1>4, <1>6, <2>2 DEF StripRight
  <2>3. QED BY <2>1, <2>2
<1>12. StripRight'
  BY <1>3, <1>6, <1>11 DEF StripRight, HoldsGroups
<1>13. BuffersInv'
  BY <1>1, <1>3, <1>4 DEF BuffersInv, RingHolds
<1>14. GroupRight'
  BY <1>3 DEF GroupRight
<1>15. KeptRight' /\ PassesCounted' /\ McusRight'
  BY <1>6, FillKeepsKept
<1>16. QED BY <1>10, <1>12, <1>13, <1>14, <1>15 DEF IInv3

\* The lines of the call that are left are the next ones of the image.
LEMMA LinesNext ==
  ASSUME IInv1, pc = "fill", ~StripFull
  PROVE  /\ next_scanline + in_row_ctr = image.height - prep.rows_to_go
         /\ in_rows_avail - in_row_ctr <= prep.rows_to_go
         /\ in_rows_avail \in Nat \ {0} /\ in_row_ctr \in Nat
         /\ in_row_ctr <= in_rows_avail
         /\ prep.rows_to_go \in 0..image.height
<1>1. /\ Counters /\ CallInv /\ StripInv /\ RowsAccountedFor
  BY DEF IInv1
<1>2. image.height \in Nat /\ MaxLines \in Nat
  BY <1>1, Sizes, SizesAssumption DEF Counters
<1>3. /\ next_scanline \in Nat /\ in_rows_avail \in Nat \ {0}
      /\ in_row_ctr \in Nat /\ in_row_ctr <= in_rows_avail
      /\ prep.rows_to_go \in 0..image.height
      /\ in_rows_avail <= image.height - next_scanline
  BY <1>1, <1>2 DEF Counters, CallInv, InCall
<1>4. image.height - prep.rows_to_go = next_scanline + in_row_ctr
  BY <1>1, <1>2, <1>3 DEF RowsAccountedFor, StripInv
<1>5. QED BY <1>2, <1>3, <1>4

\* Lines are read into the ring.
LEMMA PreProcessContextKeepsData ==
  ASSUME AllInv, PreProcessContext
  PROVE  IInv3'
<1> DEFINE numrows == Lesser(prep.next_buf_stop - prep.next_buf_row,
                             in_rows_avail - in_row_ctr)
           filled == prep.next_buf_row + numrows
           read == Converted(numrows)
           rows == TopPadded(read)
<1>1. /\ pc = "fill" /\ pc' = "fill" /\ need_context_rows /\ ~StripFull
      /\ in_row_ctr < in_rows_avail
      /\ UNCHANGED <<image, whole_image, written>>
      /\ ContextGroup(rows, filled, prep.rows_to_go - numrows)
  BY DEF PreProcessContext, MoreToFill
<1>2. IInv1 /\ BuffersInv /\ RingRight
  BY DEF AllInv, IInv, IInv3
<1>3. /\ MaxV \in 1..4 /\ image.height \in Nat \ {0}
      /\ prep.rows_to_go \in 0..image.height
      /\ prep.next_buf_row \in Nat /\ prep.next_buf_stop \in Nat
      /\ prep.next_buf_row < prep.next_buf_stop
      /\ prep.next_buf_stop <= prep.next_buf_row + 2 * MaxV
      /\ prep.next_buf_stop <= 3 * MaxV
      /\ Filled \in Nat
      /\ prep.rows_to_go > 0 => Filled = image.height - prep.rows_to_go
  BY <1>1, <1>2, RingFacts
<1>4. prep.next_buf_row = Filled % (3 * MaxV)
  BY <1>1, <1>2, RingFacts
<1>5. /\ next_scanline + in_row_ctr = image.height - prep.rows_to_go
      /\ in_rows_avail - in_row_ctr <= prep.rows_to_go
      /\ in_rows_avail \in Nat /\ in_row_ctr \in Nat
  BY <1>1, <1>2, LinesNext
<1>6. /\ numrows \in Nat \ {0} /\ numrows <= prep.rows_to_go
      /\ filled <= prep.next_buf_stop
  BY <1>1, <1>3, <1>5 DEF Lesser
<1> HIDE DEF numrows
<1>7. /\ next_scanline + in_row_ctr = Filled
      /\ Filled + numrows <= image.height
      /\ prep.next_buf_row + numrows <= 3 * MaxV
      /\ numrows <= 2 * MaxV
  BY <1>3, <1>5, <1>6
\* Where each line is, and what is left of those before.
<1>8. ASSUME NEW r \in 0..(3 * MaxV - 1)
      PROVE  read[r] = IF r \in prep.next_buf_row..(prep.next_buf_row
                                                      + numrows - 1)
                       THEN Filled + (r - prep.next_buf_row)
                       ELSE color_buf[r]
  BY <1>2, <1>7 DEF Converted, BuffersInv
<1>9. DOMAIN read = 0..(3 * MaxV - 1) /\ DOMAIN rows = 0..(3 * MaxV - 1)
  BY <1>2 DEF Converted, BuffersInv, TopPadded
<1>10. /\ \A i \in Filled..(Filled + numrows - 1) :
            /\ i % (3 * MaxV) = prep.next_buf_row + (i - Filled)
            /\ i % (3 * MaxV) \in prep.next_buf_row..(prep.next_buf_row
                                                        + numrows - 1)
       /\ \A i \in (Filled + numrows - 3 * MaxV)..(Filled - 1) :
            i % (3 * MaxV) \notin prep.next_buf_row..(prep.next_buf_row
                                                        + numrows - 1)
  <2>1. /\ (Filled % (3 * MaxV)) + numrows <= 3 * MaxV
        /\ numrows \in Nat /\ Filled \in Int
    BY <1>3, <1>4, <1>6, <1>7
  <2> DEFINE f == Filled
  <2>2. /\ MaxV \in 1..4 /\ f \in Int
        /\ (f % (3 * MaxV)) + numrows <= 3 * MaxV
    BY <1>3, <2>1
  <2>3. /\ \A i \in f..(f + numrows - 1) :
             /\ i % (3 * MaxV) = (f % (3 * MaxV)) + (i - f)
             /\ i % (3 * MaxV)
                  \in (f % (3 * MaxV))..((f % (3 * MaxV)) + numrows - 1)
        /\ \A i \in (f + numrows - 3 * MaxV)..(f - 1) :
             i % (3 * MaxV)
               \notin (f % (3 * MaxV))..((f % (3 * MaxV)) + numrows - 1)
    <3> HIDE DEF f
    <3>1. QED BY <2>1, <2>2, RingGrows
  <2>4. QED BY <1>4, <2>3
<1>11. ASSUME NEW i \in Int
       PROVE  i % (3 * MaxV) \in 0..(3 * MaxV - 1)
  BY <1>3, AroundTheRing
<1> HIDE DEF read
<1>12. ASSUME NEW i \in Filled..(Filled + numrows - 1)
       PROVE  read[i % (3 * MaxV)] = TrueLine(i)
  <2>1. i \in Nat /\ i <= image.height - 1
    BY <1>3, <1>6, <1>7
  <2>2. TrueLine(i) = i
    BY <2>1, <1>3 DEF TrueLine, Lesser
  <2> DEFINE place == i % (3 * MaxV)
  <2>3. /\ place \in prep.next_buf_row..(prep.next_buf_row + numrows - 1)
        /\ place = prep.next_buf_row + (i - Filled)
        /\ place \in 0..(3 * MaxV - 1)
    BY <1>10, <1>11, <2>1
  <2> HIDE DEF place
  <2>4. read[place] = Filled + (place - prep.next_buf_row)
    BY <1>8, <2>3
  <2>5. read[place] = i
    BY <1>3, <2>1, <2>3, <2>4
  <2>6. QED BY <2>2, <2>5 DEF place
<1>13. ASSUME NEW i \in (Filled + numrows - 3 * MaxV)..(Filled - 1),
              i >= - MaxV, prep.rows_to_go < image.height
       PROVE  read[i % (3 * MaxV)] = TrueLine(i)
  <2> DEFINE place == i % (3 * MaxV)
  <2>1. i \in Int /\ i \in (Filled - 3 * MaxV)..(Filled - 1)
    BY <1>3, <1>6
  <2>2. color_buf[place] = TrueLine(i)
    BY <1>1, <1>2, <1>3, <1>13, <2>1 DEF RingRight, RingHolds
  <2>3. /\ place \notin prep.next_buf_row..(prep.next_buf_row + numrows - 1)
        /\ place \in 0..(3 * MaxV - 1)
    BY <1>10, <1>11, <2>1
  <2> HIDE DEF place
  <2>4. read[place] = TrueLine(i)
    BY <1>8, <2>2, <2>3
  <2>5. QED BY <2>4 DEF place
<1>14. RingHolds(rows, Filled + numrows)
  <2>1. CASE prep.rows_to_go < image.height
    <3>1. rows = read
      BY <2>1, <1>3 DEF TopPadded
    <3>2. ASSUME NEW i \in (Filled + numrows - 3 * MaxV)..(Filled + numrows - 1),
                 i >= - MaxV
          PROVE  read[i % (3 * MaxV)] = TrueLine(i)
      <4>1. \/ i \in Filled..(Filled + numrows - 1)
            \/ i \in (Filled + numrows - 3 * MaxV)..(Filled - 1)
        BY <1>3, <1>6
      <4>2. QED BY <2>1, <3>2, <4>1, <1>12, <1>13
    <3>3. /\ DOMAIN read = 0..(3 * MaxV - 1)
          /\ \A i \in (Filled + numrows - 3 * MaxV)..(Filled + numrows - 1) :
               i >= - MaxV => read[i % (3 * MaxV)] = TrueLine(i)
      BY <1>9, <3>2
    <3>4. RingHolds(read, Filled + numrows)
      BY <1>3, <1>6, <3>3 DEF RingHolds
    <3>5. QED BY <3>1, <3>4
  <2>2. CASE prep.rows_to_go = image.height
    <3>1. /\ Filled = 0
          /\ rows = [r \in DOMAIN read |->
                       IF r >= 2 * MaxV THEN read[0] ELSE read[r]]
      BY <2>2, <1>3 DEF TopPadded
    <3> HIDE DEF rows
    <3>2. ASSUME NEW i \in (Filled + numrows - 3 * MaxV)..(Filled + numrows - 1),
                 i >= - MaxV
          PROVE  rows[i % (3 * MaxV)] = TrueLine(i)
      <4> DEFINE place == i % (3 * MaxV)
      <4>0. i \in Int
        BY <1>3, <1>6
      <4>1. place \in 0..(3 * MaxV - 1) /\ i \in Int
        BY <4>0, <1>11
      <4>2. CASE i >= 0
        <5>1. /\ i \in Filled..(Filled + numrows - 1)
              /\ i < 2 * MaxV
          BY <3>1, <4>1, <4>2, <3>2, <1>3, <1>6, <1>7
        <5>2. place = i
          BY <3>1, <4>1, <4>2, <5>1, <1>3, SmallStay
        <5>3. read[place] = TrueLine(i)
          BY <5>1, <1>12
        <5> HIDE DEF place
        <5>4. rows[place] = read[place]
          BY <1>3, <1>9, <3>1, <4>1, <5>1, <5>2
        <5>5. QED BY <5>3, <5>4 DEF place
      <4>3. CASE i < 0
        <5>1. place = i + 3 * MaxV /\ place >= 2 * MaxV
          BY <4>1, <4>3, <3>2, <1>3, SmallStay
        <5> HIDE DEF place
        <5>2. rows[place] = read[0]
          BY <1>9, <3>1, <4>1, <5>1
        <5>3. 0 % (3 * MaxV) = 0
          BY <1>3, SmallStay
        <5>4. read[0 % (3 * MaxV)] = TrueLine(0)
          BY <1>12, <3>1, <1>6
        <5>5. TrueLine(0) = 0 /\ TrueLine(i) = 0
          BY <4>1, <4>3, <1>3 DEF TrueLine, Lesser
        <5>6. QED BY <5>2, <5>3, <5>4, <5>5 DEF place
      <4>4. QED BY <4>1, <4>2, <4>3
    <3>3. /\ DOMAIN rows = 0..(3 * MaxV - 1)
          /\ \A i \in (Filled + numrows - 3 * MaxV)..(Filled + numrows - 1) :
               i >= - MaxV => rows[i % (3 * MaxV)] = TrueLine(i)
      BY <1>9, <3>1, <3>2
    <3>4. QED BY <1>3, <1>6, <3>3 DEF RingHolds
  <2>3. QED BY <1>3, <2>1, <2>2
<1> HIDE DEF rows
<1>15. /\ filled \in Nat /\ prep.next_buf_row < filled
       /\ numrows \in Nat /\ numrows > 0
       /\ Filled + (filled - prep.next_buf_row) = Filled + numrows
  BY <1>3, <1>6
<1>16. RingHolds(rows, Filled + (filled - prep.next_buf_row))
  BY <1>14, <1>15
<1> DEFINE f == filled
<1>17. f = prep.next_buf_row + numrows
  OBVIOUS
<1> HIDE DEF f
<1>18. QED BY <1>1, <1>6, <1>15, <1>16, <1>17, ContextKeepsData DEF f

\* No line is left: the rest of the row group is the last line.
LEMMA PadContextKeepsData ==
  ASSUME AllInv, PadContext
  PROVE  IInv3'
<1> DEFINE numrows == prep.next_buf_stop - prep.next_buf_row
           rows == RowsPadded(color_buf, prep.next_buf_row,
                              prep.next_buf_stop)
<1>1. /\ pc = "fill" /\ pc' = "fill" /\ need_context_rows /\ ~StripFull
      /\ in_row_ctr >= in_rows_avail
      /\ UNCHANGED <<image, whole_image, written>>
      /\ ContextGroup(rows, prep.next_buf_stop, 0)
  BY DEF PadContext, MoreToFill
<1>2. IInv1 /\ BuffersInv /\ RingRight
  BY DEF AllInv, IInv, IInv3
<1>3. in_row_ctr \in Nat /\ in_rows_avail \in Nat
  BY <1>1, <1>2, LinesNext
<1>4. prep.rows_to_go = 0
  BY <1>1, <1>3 DEF PadContext, MoreToFill
<1>5. /\ MaxV \in 1..4 /\ image.height \in Nat \ {0}
      /\ prep.next_buf_row \in Nat /\ prep.next_buf_stop \in Nat
      /\ prep.next_buf_row < prep.next_buf_stop
      /\ prep.next_buf_stop <= prep.next_buf_row + 2 * MaxV
      /\ prep.next_buf_stop <= 3 * MaxV
      /\ Filled \in Nat /\ image.height <= Filled
  BY <1>1, <1>2, <1>4, RingFacts
<1>6. prep.next_buf_row = Filled % (3 * MaxV)
  BY <1>1, <1>2, RingFacts
<1>7. /\ numrows \in Nat \ {0} /\ numrows <= 2 * MaxV
      /\ prep.next_buf_row + numrows = prep.next_buf_stop
  BY <1>5
<1> HIDE DEF numrows
\* The last line is in the place before.
<1>8. color_buf[Place(prep.next_buf_row - 1)] = image.height - 1
  <2>1. Place(prep.next_buf_row - 1) = (Filled - 1) % (3 * MaxV)
    <3>1. Place(prep.next_buf_row - 1)
            = (prep.next_buf_row - 1 + 3 * MaxV) % (3 * MaxV)
      BY <1>1 DEF Place
    <3>2. -1 \in Int /\ -(3 * MaxV) <= -1 /\ Filled \in Int
      BY <1>5
    <3>3. ((Filled % (3 * MaxV)) + (-1) + 3 * MaxV) % (3 * MaxV)
            = (Filled + (-1)) % (3 * MaxV)
      BY <1>5, <3>2, AroundTheRing
    <3>4. /\ (Filled % (3 * MaxV)) + (-1) + 3 * MaxV
               = prep.next_buf_row - 1 + 3 * MaxV
          /\ Filled + (-1) = Filled - 1
      BY <1>5, <1>6
    <3>5. QED BY <3>1, <3>3, <3>4
  <2> DEFINE i == Filled - 1
  <2>2. /\ i \in (Filled - 3 * MaxV)..(Filled - 1) /\ i >= - MaxV
        /\ i >= image.height - 1 /\ i \in Nat
    BY <1>5
  <2>3. prep.rows_to_go < image.height
    BY <1>4, <1>5
  <2> HIDE DEF i
  <2>4. color_buf[i % (3 * MaxV)] = TrueLine(i)
    BY <1>1, <1>2, <1>5, <2>2, <2>3 DEF RingRight, RingHolds
  <2>5. TrueLine(i) = image.height - 1
    BY <1>5, <2>2 DEF TrueLine, Lesser
  <2>6. QED BY <2>1, <2>4, <2>5 DEF i
<1>9. /\ DOMAIN rows = 0..(3 * MaxV - 1)
      /\ \A r \in 0..(3 * MaxV - 1) :
           rows[r] = IF r \in prep.next_buf_row..(prep.next_buf_stop - 1)
                     THEN image.height - 1 ELSE color_buf[r]
  BY <1>2, <1>8 DEF RowsPadded, BuffersInv
<1> HIDE DEF rows
<1>10. /\ \A i \in Filled..(Filled + numrows - 1) :
            i % (3 * MaxV) \in prep.next_buf_row..(prep.next_buf_stop - 1)
       /\ \A i \in (Filled + numrows - 3 * MaxV)..(Filled - 1) :
            i % (3 * MaxV) \notin prep.next_buf_row..(prep.next_buf_stop - 1)
  <2>1. /\ (Filled % (3 * MaxV)) + numrows = prep.next_buf_stop
        /\ numrows \in Nat /\ Filled \in Int
    BY <1>5, <1>6, <1>7
  <2> DEFINE f == Filled
  <2>2. /\ MaxV \in 1..4 /\ f \in Int
        /\ (f % (3 * MaxV)) + numrows <= 3 * MaxV
    BY <1>5, <2>1
  <2>3. /\ \A i \in f..(f + numrows - 1) :
             i % (3 * MaxV)
               \in (f % (3 * MaxV))..((f % (3 * MaxV)) + numrows - 1)
        /\ \A i \in (f + numrows - 3 * MaxV)..(f - 1) :
             i % (3 * MaxV)
               \notin (f % (3 * MaxV))..((f % (3 * MaxV)) + numrows - 1)
    <3> HIDE DEF f
    <3>1. QED BY <2>1, <2>2, RingGrows
  <2>4. f % (3 * MaxV) = prep.next_buf_row
    BY <1>6
  <2>5. (f % (3 * MaxV)) + numrows - 1 = prep.next_buf_stop - 1
    <3>1. prep.next_buf_row + numrows - 1 = prep.next_buf_stop - 1
      BY <1>5, <1>7
    <3>2. QED BY <2>4, <3>1
  <2>6. QED BY <2>3, <2>4, <2>5
<1>11. ASSUME NEW i \in (Filled + numrows - 3 * MaxV)..(Filled + numrows - 1),
              i >= - MaxV
       PROVE  rows[i % (3 * MaxV)] = TrueLine(i)
  <2> DEFINE place == i % (3 * MaxV)
  <2>1. i \in Int
    BY <1>5, <1>7
  <2>2. place \in 0..(3 * MaxV - 1)
    BY <1>5, <2>1, AroundTheRing
  <2>3. CASE i >= Filled
    <3>1. i \in Filled..(Filled + numrows - 1)
      BY <1>5, <1>7, <2>1, <2>3
    <3>2. place \in prep.next_buf_row..(prep.next_buf_stop - 1)
      BY <1>10, <3>1
    <3> HIDE DEF place
    <3>3. rows[place] = image.height - 1
      BY <1>9, <2>2, <3>2
    <3>4. TrueLine(i) = image.height - 1
      BY <1>5, <2>1, <2>3 DEF TrueLine, Lesser
    <3>5. QED BY <3>3, <3>4 DEF place
  <2>4. CASE i < Filled
    <3>1. /\ i \in (Filled + numrows - 3 * MaxV)..(Filled - 1)
          /\ i \in (Filled - 3 * MaxV)..(Filled - 1)
      BY <1>5, <1>7, <2>1, <2>4
    <3>2. place \notin prep.next_buf_row..(prep.next_buf_stop - 1)
      BY <1>10, <3>1
    <3>3. prep.rows_to_go < image.height
      BY <1>4, <1>5
    <3>4. color_buf[place] = TrueLine(i)
      BY <1>1, <1>2, <1>5, <1>11, <3>1, <3>3 DEF RingRight, RingHolds
    <3> HIDE DEF place
    <3>5. rows[place] = TrueLine(i)
      BY <1>9, <2>2, <3>2, <3>4
    <3>6. QED BY <3>5 DEF place
  <2>5. QED BY <1>5, <2>1, <2>3, <2>4
<1>12. RingHolds(rows, Filled + numrows)
  <2>1. /\ DOMAIN rows = 0..(3 * MaxV - 1)
        /\ \A i \in (Filled + numrows - 3 * MaxV)..(Filled + numrows - 1) :
             i >= - MaxV => rows[i % (3 * MaxV)] = TrueLine(i)
    BY <1>9, <1>11
  <2>2. QED BY <1>5, <1>7, <2>1 DEF RingHolds
<1>13. RingHolds(rows, Filled + (prep.next_buf_stop - prep.next_buf_row))
  BY <1>12 DEF numrows
<1>14. ContextGroup(rows, prep.next_buf_stop, prep.rows_to_go - 0)
  BY <1>1, <1>4
<1>15. 0 \in Nat /\ 0 <= prep.rows_to_go
  BY <1>4
<1>16. QED BY <1>1, <1>4, <1>5, <1>13, <1>14, <1>15, ContextKeepsData

-----------------------------------------------------------------------------
(* Without context rows.                                                   *)

\* Where the preprocessor is, and the main controller, while lines are left.
LEMMA GroupFacts ==
  ASSUME IInv1, ~need_context_rows, prep.rows_to_go > 0
  PROVE  /\ MaxV \in 1..4 /\ image.height \in Nat \ {0}
         /\ Groups \in Nat /\ Groups * MaxV \in Nat
         /\ prep.rows_to_go \in 0..image.height
         /\ prep.next_buf_row \in Nat /\ prep.next_buf_row < MaxV
         /\ Groups * MaxV + prep.next_buf_row = image.height - prep.rows_to_go
<1>1. Counters /\ RingInv /\ RowsPlaced
  BY DEF IInv1
<1>2. /\ MaxV \in 1..4 /\ image.height \in Nat \ {0}
      /\ Groups \in Nat /\ DctSize \in Nat
      /\ main.cur_iMCU_row \in Nat /\ main.rowgroup_ctr \in Nat
  BY <1>1, MainFacts, Sizes
<1>3. Groups * MaxV \in Nat
  BY <1>2
<1>4. Groups * MaxV = main.cur_iMCU_row * (MaxV * DctSize)
                        + main.rowgroup_ctr * MaxV
  <2>1. ASSUME NEW a \in Nat, NEW b \in Nat, NEW n \in Nat, NEW v \in Nat
        PROVE  (a * n + b) * v = a * (v * n) + b * v
    OBVIOUS
  <2>2. MaxV \in Nat
    BY <1>2
  <2>3. QED BY <1>2, <2>1, <2>2 DEF Groups
<1>5. /\ prep.rows_to_go \in 0..image.height
      /\ prep.next_buf_row \in Nat /\ prep.next_buf_row < MaxV
  BY <1>1 DEF Counters, RingInv
<1>6. Groups * MaxV + prep.next_buf_row = image.height - prep.rows_to_go
  <2> DEFINE g == Groups * MaxV
  <2>1. image.height - prep.rows_to_go = g + prep.next_buf_row + 0
    BY <1>1, <1>4 DEF RowsPlaced
  <2>2. g \in Nat
    BY <1>3
  <2> HIDE DEF g
  <2>3. g + prep.next_buf_row = image.height - prep.rows_to_go
    BY <1>2, <1>5, <2>1, <2>2
  <2>4. QED BY <2>3 DEF g
<1>7. QED BY <1>2, <1>3, <1>5, <1>6

\* Lines are read to the place that is next.
LEMMA ConvertedRight ==
  ASSUME IInv1, BuffersInv, GroupRight, pc = "fill", ~StripFull,
         ~need_context_rows, prep.rows_to_go > 0,
         NEW numrows \in Nat, prep.next_buf_row + numrows <= MaxV
  PROVE  /\ DOMAIN Converted(numrows) = 0..(3 * MaxV - 1)
         /\ \A r \in 0..(prep.next_buf_row + numrows - 1) :
              Converted(numrows)[r] = Groups * MaxV + r
<1> DEFINE g == Groups * MaxV
<1>1. /\ MaxV \in 1..4 /\ g \in Nat /\ prep.next_buf_row \in Nat
      /\ image.height \in Nat /\ prep.rows_to_go \in Nat
      /\ g + prep.next_buf_row = image.height - prep.rows_to_go
  BY GroupFacts
<1> HIDE DEF g
<1>2. next_scanline + in_row_ctr = g + prep.next_buf_row
  BY <1>1, LinesNext
<1>3. DOMAIN Converted(numrows) = 0..(3 * MaxV - 1)
  BY DEF Converted, BuffersInv
<1>4. ASSUME NEW r \in 0..(prep.next_buf_row + numrows - 1)
      PROVE  Converted(numrows)[r] = g + r
  <2>1. r \in 0..(3 * MaxV - 1)
    BY <1>1
  <2>2. Converted(numrows)[r]
          = IF r \in prep.next_buf_row..(prep.next_buf_row + numrows - 1)
            THEN next_scanline + in_row_ctr + (r - prep.next_buf_row)
            ELSE color_buf[r]
    BY <2>1 DEF Converted, BuffersInv
  <2>3. CASE r >= prep.next_buf_row
    <3>1. Converted(numrows)[r]
            = next_scanline + in_row_ctr + (r - prep.next_buf_row)
      BY <1>1, <2>2, <2>3
    <3>2. QED BY <1>1, <1>2, <3>1
  <2>4. CASE r < prep.next_buf_row
    <3>1. Converted(numrows)[r] = color_buf[r]
      BY <1>1, <2>2, <2>4
    <3>2. r \in 0..(prep.next_buf_row - 1)
      BY <1>1, <2>4
    <3>3. QED BY <3>1, <3>2 DEF GroupRight, g
  <2>5. QED BY <1>1, <2>3, <2>4
<1>5. QED BY <1>3, <1>4 DEF g

\* A round of pre_process_data.
LEMMA PreProcessKeepsData ==
  ASSUME AllInv, PreProcess
  PROVE  IInv3'
<1> DEFINE numrows == Lesser(MaxV - prep.next_buf_row,
                             in_rows_avail - in_row_ctr)
           filled == prep.next_buf_row + numrows
           bottom == prep.rows_to_go = numrows
           groupDone == filled = MaxV \/ bottom
           read == Converted(numrows)
           rows == IF bottom THEN RowsPadded(read, filled, MaxV) ELSE read
           strip == Stored(rows, 0, main.rowgroup_ctr)
           g == Groups * MaxV
<1>1. /\ pc = "fill" /\ pc' = "fill" /\ ~need_context_rows /\ ~StripFull
      /\ in_row_ctr < in_rows_avail
      /\ UNCHANGED <<image, whole_image, written>>
      /\ color_buf' = rows
      /\ buffer' = IF bottom
                   THEN StripPadded(IF groupDone THEN strip ELSE buffer,
                                    main.rowgroup_ctr + 1)
                   ELSE IF groupDone THEN strip ELSE buffer
      /\ main' = [main EXCEPT !.rowgroup_ctr =
                    IF bottom THEN DctSize
                    ELSE IF groupDone THEN main.rowgroup_ctr + 1
                    ELSE main.rowgroup_ctr]
      /\ prep' = [prep EXCEPT !.rows_to_go = prep.rows_to_go - numrows,
                              !.next_buf_row = IF groupDone THEN 0
                                               ELSE filled]
  BY DEF PreProcess, MoreToFill
<1>2. /\ IInv1 /\ BuffersInv /\ GroupRight /\ StripRight /\ Counters
  BY DEF AllInv, IInv, IInv1, IInv3
<1>3. /\ in_rows_avail - in_row_ctr <= prep.rows_to_go
      /\ in_rows_avail \in Nat /\ in_row_ctr \in Nat
      /\ prep.rows_to_go \in Nat /\ prep.rows_to_go > 0
  <2>1. /\ in_rows_avail - in_row_ctr <= prep.rows_to_go
        /\ in_rows_avail \in Nat /\ in_row_ctr \in Nat
        /\ prep.rows_to_go \in 0..image.height
    BY <1>1, <1>2, LinesNext
  <2>2. image.height \in Nat
    BY <1>2, Sizes DEF Counters
  <2>3. QED BY <1>1, <2>1, <2>2
<1>4. /\ MaxV \in 1..4 /\ image.height \in Nat \ {0}
      /\ Groups \in Nat /\ g \in Nat
      /\ prep.next_buf_row \in Nat /\ prep.next_buf_row < MaxV
      /\ g + prep.next_buf_row = image.height - prep.rows_to_go
  BY <1>1, <1>2, <1>3, GroupFacts
<1>5. /\ numrows \in Nat \ {0} /\ numrows <= prep.rows_to_go
      /\ filled <= MaxV
  BY <1>1, <1>3, <1>4 DEF Lesser
<1> HIDE DEF numrows
<1>6. /\ DOMAIN read = 0..(3 * MaxV - 1)
      /\ \A r \in 0..(filled - 1) : read[r] = g + r
  <2>1. numrows \in Nat /\ prep.next_buf_row + numrows <= MaxV
    BY <1>5
  <2>2. /\ DOMAIN Converted(numrows) = 0..(3 * MaxV - 1)
        /\ \A r \in 0..(prep.next_buf_row + numrows - 1) :
             Converted(numrows)[r] = Groups * MaxV + r
    BY <1>1, <1>2, <1>3, <2>1, ConvertedRight
  <2>3. QED BY <1>4, <2>1, <2>2
<1> HIDE DEF read, g
<1>7. /\ filled \in Nat \ {0} /\ g + filled <= image.height
      /\ bottom => g + filled = image.height
      /\ g < image.height
  BY <1>3, <1>4, <1>5
<1> HIDE DEF filled
<1>8. ASSUME groupDone
      PROVE  HoldsLines(rows, 0, Groups)
  <2>1. ASSUME NEW d \in 0..(MaxV - 1)
        PROVE  rows[Place(0 + d)] = TrueLine(g + d)
    <3>1. Place(0 + d) = d
      BY <1>1 DEF Place
    <3>2. CASE d < filled
      <4>1. d \in 0..(filled - 1) /\ d \notin filled..(MaxV - 1)
            /\ d \in 0..(3 * MaxV - 1)
        BY <1>4, <1>5, <1>7, <3>2
      <4>2. rows[d] = g + d
        BY <1>6, <4>1 DEF RowsPadded
      <4>3. TrueLine(g + d) = g + d
        BY <1>4, <1>7, <3>2 DEF TrueLine, Lesser
      <4>4. QED BY <3>1, <4>2, <4>3
    <3>3. CASE d >= filled
      <4>1. bottom
        BY <1>4, <1>7, <1>8, <3>3
      <4>2. /\ d \in filled..(MaxV - 1) /\ d \in 0..(3 * MaxV - 1)
            /\ filled - 1 \in 0..(filled - 1)
        BY <1>4, <1>7, <3>3
      <4>3. rows[d] = read[Place(filled - 1)]
        BY <1>6, <4>1, <4>2 DEF RowsPadded
      <4>4. Place(filled - 1) = filled - 1
        BY <1>1 DEF Place
      <4>5. rows[d] = g + (filled - 1)
        BY <1>6, <4>2, <4>3, <4>4
      <4>6. TrueLine(g + d) = g + (filled - 1)
        BY <1>4, <1>7, <3>3, <4>1 DEF TrueLine, Lesser
      <4>7. QED BY <3>1, <4>5, <4>6
    <3>4. QED BY <1>4, <1>7, <3>2, <3>3
  <2> HIDE DEF rows
  <2>2. QED BY <1>1, <2>1 DEF HoldsLines, g
<1>9. ASSUME groupDone
      PROVE  HoldsGroups(strip, main.rowgroup_ctr + 1)
  <2>1. HoldsLines(rows, 0, Groups) /\ Groups * MaxV < image.height /\ 0 \in Nat
    BY <1>7, <1>8, <1>9 DEF g
  <2>2. HoldsGroups(buffer, main.rowgroup_ctr)
    BY <1>2 DEF StripRight
  <2> HIDE DEF rows
  <2>3. QED BY <1>2, <2>1, <2>2, StoredRight
<1> HIDE DEF strip
<1>10. HoldsGroups(buffer', main'.rowgroup_ctr)
  <2>1. main'.rowgroup_ctr = IF bottom THEN DctSize
                             ELSE IF groupDone THEN main.rowgroup_ctr + 1
                             ELSE main.rowgroup_ctr
    BY <1>1, <1>2 DEF Counters
  <2>2. CASE bottom
    <3>1. image.height <= (Groups + 1) * MaxV
      <4>1. (Groups + 1) * MaxV = g + MaxV
        BY <1>4 DEF g
      <4>2. image.height <= g + MaxV
        BY <1>4, <1>5, <1>7, <2>2 DEF filled
      <4>3. QED BY <4>1, <4>2
    <3>2. HoldsGroups(StripPadded(strip, main.rowgroup_ctr + 1), DctSize)
      BY <1>1, <1>2, <1>7, <1>9, <2>2, <3>1, StripPaddedRight DEF g
    <3>3. QED BY <1>1, <2>1, <2>2, <3>2
  <2>3. CASE ~bottom /\ groupDone
    BY <1>1, <1>9, <2>1, <2>3
  <2>4. CASE ~bottom /\ ~groupDone
    BY <1>1, <1>2, <2>1, <2>4 DEF StripRight
  <2>5. QED BY <2>2, <2>3, <2>4
<1>11. /\ MaxV' = MaxV /\ need_context_rows' = need_context_rows
       /\ total_iMCU_rows' = total_iMCU_rows /\ Components' = Components
       /\ \A c : strip_height(c)' = strip_height(c)
       /\ \A c : rowgroup_height(c)' = rowgroup_height(c)
       /\ \A c, r : TrueSampleRow(c, r)' = TrueSampleRow(c, r)
  BY <1>1, SizesStay, SamplesStay
<1>12. main'.cur_iMCU_row = main.cur_iMCU_row
  BY <1>1, <1>2 DEF Counters
<1>13. StripRight'
  BY <1>10, <1>11, <1>12 DEF StripRight, HoldsGroups
<1>14. BuffersInv'
  <2>1. DOMAIN rows = 0..(3 * MaxV - 1)
    BY <1>6 DEF RowsPadded
  <2>2. QED BY <1>1, <1>2, <1>11, <2>1 DEF BuffersInv
<1>15. RingRight'
  BY <1>1, <1>11 DEF RingRight
<1>16. GroupRight'
  <2>1. /\ prep'.rows_to_go = prep.rows_to_go - numrows
        /\ prep'.next_buf_row = IF groupDone THEN 0 ELSE filled
    BY <1>1, <1>2 DEF Counters
  <2>2. ASSUME prep'.rows_to_go > 0, NEW r \in 0..(prep'.next_buf_row - 1)
        PROVE  color_buf'[r] = Groups' * MaxV' + r
    <3>1. ~bottom
      BY <1>3, <1>5, <2>1, <2>2
    <3>2. ~groupDone
      BY <2>1, <2>2
    <3>3. main'.rowgroup_ctr = main.rowgroup_ctr
      BY <1>1, <1>2, <3>1, <3>2 DEF Counters
    <3>4. Groups' * MaxV' = g
      BY <1>11, <1>12, <3>3 DEF Groups, g
    <3>5. color_buf'[r] = read[r] /\ r \in 0..(filled - 1)
      BY <1>1, <2>1, <2>2, <3>1, <3>2
    <3>6. QED BY <1>6, <3>4, <3>5
  <2>3. QED BY <2>2 DEF GroupRight
<1>17. KeptRight' /\ PassesCounted' /\ McusRight'
  BY <1>1, <1>12, FillKeepsKept
<1>18. QED BY <1>13, <1>14, <1>15, <1>16, <1>17 DEF IInv3

-----------------------------------------------------------------------------
(* The other steps of the main controller, and those between the passes.   *)

\* What is written already does not change.
LEMMA WrittenStays ==
  ASSUME McusRight, image' = image, written' = written
  PROVE  McusRight'
<1>1. /\ \A s, n : TrueMcu(image.scans[s], n)' = TrueMcu(image.scans[s], n)
      /\ \A s : McusOf(image.scans[s])' = McusOf(image.scans[s])
  BY SamplesStay, ScansStay
<1>2. QED BY <1>1 DEF McusRight

\* They leave the buffers alone.
LEMMA QuietKeepsData ==
  ASSUME AllInv,
         UNCHANGED <<image, prep, color_buf, buffer, whole_image>>,
         McusRight',
         main'.cur_iMCU_row = main.cur_iMCU_row,
         main'.rowgroup_ctr = main.rowgroup_ctr,
         pc' = "compress" => pc = "compress",
         PassesCounted'
  PROVE  IInv3'
<1>1. /\ BuffersInv /\ RingRight /\ GroupRight /\ StripRight /\ KeptRight
  BY DEF AllInv, IInv3
<1>2. /\ MaxV' = MaxV /\ need_context_rows' = need_context_rows
      /\ total_iMCU_rows' = total_iMCU_rows /\ Components' = Components
      /\ \A c : strip_height(c)' = strip_height(c)
      /\ \A c : rowgroup_height(c)' = rowgroup_height(c)
      /\ \A i : TrueLine(i)' = TrueLine(i)
      /\ \A c, r : TrueSampleRow(c, r)' = TrueSampleRow(c, r)
      /\ \A c, b : TrueBlock(c, b)' = TrueBlock(c, b)
      /\ MultiPass' = MultiPass
  BY SizesStay, SamplesStay, ScansStay DEF MultiPass
<1>3. Groups' = Groups /\ Filled' = Filled
  BY <1>2 DEF Groups, Filled
<1>4. BuffersInv'
  BY <1>1, <1>2 DEF BuffersInv
<1>5. RingRight'
  BY <1>1, <1>2, <1>3 DEF RingRight, RingHolds
<1>6. GroupRight'
  BY <1>1, <1>2, <1>3 DEF GroupRight
<1>7. StripRight'
  BY <1>1, <1>2 DEF StripRight, HoldsGroups
<1>8. KeptRight'
  <2>1. total_iMCU_rows \in Nat /\ main.cur_iMCU_row \in Nat
    BY MainFacts DEF AllInv, IInv, IInv1
  <2>2. ASSUME MultiPass, NEW c \in Components,
               NEW b \in 0..(total_iMCU_rows * image.factors[c] - 1),
               b < (IF pc' = "compress" THEN main.cur_iMCU_row + 1
                    ELSE main.cur_iMCU_row) * image.factors[c]
        PROVE  whole_image[c][b] = TrueBlock(c, b)
    <3>1. image.factors[c] \in Nat /\ b \in Int
      <4>1. image.factors[c] \in 1..4
        BY Heights, MainFacts DEF AllInv, IInv, IInv1
      <4>2. QED BY <2>1, <4>1
    <3>2. b < (IF pc = "compress" THEN main.cur_iMCU_row + 1
               ELSE main.cur_iMCU_row) * image.factors[c]
      <4>1. (main.cur_iMCU_row + 1) * image.factors[c]
              = main.cur_iMCU_row * image.factors[c] + image.factors[c]
        <5>1. ASSUME NEW a \in Nat, NEW f \in Nat
              PROVE  (a + 1) * f = a * f + f
          OBVIOUS
        <5>2. QED BY <2>1, <3>1, <5>1
      <4>2. main.cur_iMCU_row * image.factors[c] \in Nat
        BY <2>1, <3>1
      <4>3. QED BY <2>2, <3>1, <4>1, <4>2
    <3>3. QED BY <1>1, <2>2, <3>2 DEF KeptRight
  <2>3. QED BY <1>2, <2>2 DEF KeptRight
<1>9. QED BY <1>4, <1>5, <1>6, <1>7, <1>8 DEF IInv3

\* jpeg_finish_compress and the passes it makes.
LEMMA PassesKeepData ==
  ASSUME AllInv,
         \/ FinishFirstPass \/ PreparePass \/ FinishLaterPass
         \/ FinishCompress
         \/ HeadersFail \/ FinishPassFails \/ PreparePassFails
         \/ CrankFails \/ FinishCompressFails
  PROVE  IInv3'
<1>1. /\ UNCHANGED <<image, prep, color_buf, buffer, whole_image, written,
                     main>>
      /\ pc' # "compress"
  BY DEF FinishFirstPass, PreparePass, FinishLaterPass, FinishCompress,
         FinishPass, HeadersFail, FinishPassFails, PreparePassFails,
         CrankFails, FinishCompressFails, CantSuspend, prepVars
<1>2. PassesCounted /\ MasterInv
  BY DEF AllInv, IInv, IInv2, IInv3
<1>3. PassesCounted'
  <2>1. CASE FinishFirstPass \/ FinishLaterPass
    <3>1. master'.pass_number = master.pass_number + 1
      BY <2>1 DEF FinishFirstPass, FinishLaterPass, FinishPass
    <3>2. master.pass_number \in Nat
      <4>1. image \in Images
        BY MainFacts DEF AllInv, IInv, IInv1
      <4>2. Len(image.scans) \in Nat
        BY <4>1, ScansOf
      <4>3. QED BY <1>2, <4>2 DEF MasterInv, total_passes
    <3>3. QED BY <3>1, <3>2 DEF PassesCounted
  <2>2. CASE PreparePass \/ FinishCompress
    BY <1>2, <2>2 DEF PreparePass, FinishCompress, PassesCounted, FirstPass
  <2>3. CASE \/ HeadersFail \/ FinishPassFails \/ PreparePassFails
             \/ CrankFails \/ FinishCompressFails
    BY <2>3
    DEF HeadersFail, FinishPassFails, PreparePassFails, CrankFails,
        FinishCompressFails, CantSuspend, PassesCounted
  <2>4. QED BY <2>1, <2>2, <2>3
<1>4. McusRight'
  BY <1>1, WrittenStays DEF AllInv, IInv3
<1>5. QED BY <1>1, <1>3, <1>4, QuietKeepsData

\* The calls of jpeg_write_scanlines begin and end.
LEMMA CallsKeepData ==
  ASSUME AllInv,
         \/ \E n \in 1..MaxLines : WriteScanlines(n)
         \/ NeedMoreRows \/ Suspend
  PROVE  IInv3'
<1>1. /\ UNCHANGED <<image, prep, color_buf, buffer, whole_image, written>>
      /\ main' = main \/ main' = [main EXCEPT !.suspended = TRUE]
      /\ pc' # "compress" /\ FirstPass'
  BY DEF WriteScanlines, NeedMoreRows, Suspend, Return, prepVars, FirstPass
<1>2. /\ main'.cur_iMCU_row = main.cur_iMCU_row
      /\ main'.rowgroup_ctr = main.rowgroup_ctr
  BY <1>1 DEF AllInv, IInv, IInv1, Counters
<1>3. PassesCounted'
  BY <1>1 DEF PassesCounted
<1>4. McusRight'
  BY <1>1, WrittenStays DEF AllInv, IInv3
<1>5. QED BY <1>1, <1>2, <1>3, <1>4, QuietKeepsData

\* Nothing happens.
LEMMA StutterKeepsData ==
  ASSUME AllInv, Over \/ UNCHANGED vars
  PROVE  IInv3'
<1>1. /\ UNCHANGED <<image, prep, color_buf, buffer, whole_image, written,
                     main, pc, master>>
  BY DEF Over, vars, prepVars
<1>2. PassesCounted'
  BY <1>1 DEF AllInv, IInv3, PassesCounted, FirstPass
<1>3. McusRight'
  BY <1>1, WrittenStays DEF AllInv, IInv3
<1>4. QED BY <1>1, <1>2, <1>3, QuietKeepsData

-----------------------------------------------------------------------------
(* The coefficient controller.                                             *)

\* The strip is an iMCU row of the image.
LEMMA BlockRight ==
  ASSUME Counters, StripInv, StripRight, StripFull,
         coef.iMCU_row_num = main.cur_iMCU_row,
         NEW c \in Components, NEW b \in 0..(image.factors[c] - 1)
  PROVE  BlockOrDummy(c, b)
           = TrueBlock(c, main.cur_iMCU_row * image.factors[c] + b)
<1> DEFINE cur == main.cur_iMCU_row
           t == total_iMCU_rows
           f == image.factors[c]
           last == last_row_height(c)
           h == height_in_blocks(c)
           d == DCT_v_scaled_size(c)
<1>1. /\ image \in Images /\ cur \in 0..t /\ t \in Nat \ {0}
      /\ DctSize \in Nat \ {0}
  BY MainFacts
<1>2. cur \in Nat /\ cur <= t - 1
  BY <1>1 DEF StripInv, ImageDone
<1>3. /\ f \in 1..4 /\ last \in 1..f /\ h = (t - 1) * f + last
  BY <1>1, BlockRows
<1>4. /\ d \in Nat \ {0} /\ strip_height(c) = f * d
      /\ strip_height(c) = DctSize * rowgroup_height(c)
      /\ strip_height(c) \in Nat
  BY <1>1, Heights DEF strip_height
<1>5. coef.iMCU_row_num = cur
  OBVIOUS
<1> HIDE DEF cur, t, f, last, h, d
<1>6. (cur < t - 1 \/ b < last) <=> cur * f + b < h
  <2>1. CASE cur < t - 1
    <3>1. (cur + 1) * f <= (t - 1) * f
      <4>1. cur + 1 \in Nat /\ t - 1 \in Nat /\ f \in Nat /\ cur + 1 <= t - 1
        BY <1>1, <1>2, <1>3, <2>1
      <4>2. QED BY <4>1, ProductGrows
    <3>2. (cur + 1) * f = cur * f + f /\ cur * f \in Nat /\ (t - 1) * f \in Nat
      BY <1>1, <1>2, <1>3
    <3>3. b \in Nat /\ b < f /\ last \in Nat /\ last >= 1 /\ f \in Nat
      BY <1>3 DEF f
    <3>4. QED BY <1>3, <2>1, <3>1, <3>2, <3>3
  <2>2. CASE cur = t - 1
    <3>1. cur * f \in Nat /\ h = cur * f + last
      BY <1>2, <1>3, <2>2
    <3>2. b \in Nat /\ last \in Nat
      BY <1>3 DEF f
    <3>3. ~(cur < t - 1)
      BY <1>1, <1>2, <2>2
    <3>4. QED BY <3>1, <3>2, <3>3
  <2>3. QED BY <1>1, <1>2, <2>1, <2>2
<1>7. Block(c, b)
        = [k \in 1..d |-> TrueSampleRow(c, (cur * f + b) * d + k - 1)]
  <2>1. ASSUME NEW k \in 1..d
        PROVE  buffer[c][b * d + k - 1]
                 = TrueSampleRow(c, (cur * f + b) * d + k - 1)
    <3> DEFINE r == b * d + k - 1
    <3>1. b \in Nat /\ b + 1 <= f /\ f \in Nat
      BY <1>3 DEF f
    <3>2. b * d \in Nat /\ (b + 1) * d = b * d + d /\ (b + 1) * d <= f * d
      <4>1. (b + 1) * d <= f * d
        BY <1>4, <3>1, ProductGrows
      <4>2. QED BY <1>4, <3>1, <4>1
    <3>3. r \in 0..(strip_height(c) - 1)
      BY <1>4, <3>2
    <3>4. r < main.rowgroup_ctr * rowgroup_height(c)
      BY <1>4, <3>3 DEF StripFull
    <3> HIDE DEF r
    <3>5. buffer[c][r] = TrueSampleRow(c, cur * strip_height(c) + r)
      BY <3>3, <3>4 DEF StripRight, HoldsGroups, cur
    <3>6. cur * strip_height(c) + r = (cur * f + b) * d + k - 1
      <4>1. (cur * f + b) * d = cur * (f * d) + b * d
        BY <1>2, <1>4, <3>1
      <4>2. cur * (f * d) \in Nat
        BY <1>2, <1>4, <3>1
      <4> DEFINE x == cur * (f * d)
                 y == b * d
      <4>3. (cur * f + b) * d = x + y /\ x \in Nat /\ y \in Nat
        BY <3>2, <4>1, <4>2
      <4>4. cur * strip_height(c) + r = x + (y + k - 1)
        BY <1>4 DEF r
      <4> HIDE DEF x, y
      <4>5. QED BY <1>4, <4>3, <4>4
    <3>7. QED BY <3>5, <3>6 DEF r
  <2>2. Block(c, b) = [k \in 1..d |-> buffer[c][b * d + k - 1]]
    BY DEF Block, d
  <2>3. QED BY <2>1, <2>2
<1>8. TrueBlock(c, cur * f + b)
        = IF cur * f + b < h
          THEN [k \in 1..d |-> TrueSampleRow(c, (cur * f + b) * d + k - 1)]
          ELSE Dummy
  BY DEF TrueBlock, d, h
<1>9. BlockOrDummy(c, b) = IF cur < t - 1 \/ b < last THEN Block(c, b) ELSE Dummy
  BY <1>5 DEF BlockOrDummy, t, last
<1>10. BlockOrDummy(c, b) = TrueBlock(c, cur * f + b)
  BY <1>6, <1>7, <1>8, <1>9
<1>11. QED BY <1>10 DEF cur, f

\* compress_first_pass keeps the blocks of the strip.
LEMMA StartCompressKeepsData ==
  ASSUME AllInv, StartCompress
  PROVE  IInv3'
<1>1. /\ pc = "fill" /\ pc' = "compress" /\ StripFull
      /\ UNCHANGED <<image, main, prep, color_buf, buffer, master, written>>
      /\ whole_image' = IF MultiPass THEN Kept ELSE whole_image
  BY DEF StartCompress, prepVars
<1>2. /\ IInv1 /\ Counters /\ StripInv /\ CoefInv /\ BuffersInv /\ RingRight
      /\ GroupRight /\ StripRight /\ KeptRight /\ McusRight
  BY DEF AllInv, IInv, IInv1, IInv2, IInv3
<1>3. /\ MaxV' = MaxV /\ need_context_rows' = need_context_rows
      /\ total_iMCU_rows' = total_iMCU_rows /\ Components' = Components
      /\ \A c : strip_height(c)' = strip_height(c)
      /\ \A c : rowgroup_height(c)' = rowgroup_height(c)
      /\ \A i : TrueLine(i)' = TrueLine(i)
      /\ \A c, r : TrueSampleRow(c, r)' = TrueSampleRow(c, r)
      /\ \A c, b : TrueBlock(c, b)' = TrueBlock(c, b)
      /\ \A s, n : TrueMcu(image.scans[s], n)' = TrueMcu(image.scans[s], n)
      /\ \A s : McusOf(image.scans[s])' = McusOf(image.scans[s])
      /\ MultiPass' = MultiPass
  BY <1>1, SizesStay, SamplesStay, ScansStay DEF MultiPass
<1>4. Groups' = Groups /\ Filled' = Filled
  BY <1>1, <1>3 DEF Groups, Filled
<1>5. BuffersInv'
  BY <1>1, <1>2, <1>3 DEF BuffersInv, Kept
<1>6. RingRight'
  BY <1>1, <1>2, <1>3, <1>4 DEF RingRight, RingHolds
<1>7. GroupRight'
  BY <1>1, <1>2, <1>3, <1>4 DEF GroupRight
<1>8. StripRight'
  BY <1>1, <1>2, <1>3 DEF StripRight, HoldsGroups
<1>9. KeptRight'
  <2>1. main.cur_iMCU_row \in Nat /\ coef.iMCU_row_num = main.cur_iMCU_row
    BY <1>1, <1>2, MainFacts DEF CoefInv, FirstPass
  <2>2. ASSUME MultiPass, NEW c \in Components,
               NEW b \in 0..(total_iMCU_rows * image.factors[c] - 1),
               b < (main.cur_iMCU_row + 1) * image.factors[c]
        PROVE  whole_image'[c][b] = TrueBlock(c, b)
    <3> DEFINE f == image.factors[c]
               top == main.cur_iMCU_row * f
    <3>1. f \in 1..4 /\ total_iMCU_rows \in Nat
      BY <1>2, Heights, MainFacts
    <3>2. /\ top \in Nat /\ (main.cur_iMCU_row + 1) * f = top + f
      <4>1. ASSUME NEW n \in Nat, NEW m \in Nat
            PROVE  n * m \in Nat /\ (n + 1) * m = n * m + m
        OBVIOUS
      <4>2. f \in Nat
        BY <3>1
      <4> HIDE DEF f
      <4>3. QED BY <2>1, <4>1, <4>2
    <3>3. b \in Nat /\ b < top + f
      <4>1. total_iMCU_rows * image.factors[c] - 1 \in Int
        BY <3>1
      <4>2. QED BY <2>2, <3>2, <4>1
    <3>4. whole_image'[c][b] = IF b \in top..(top + f - 1)
                               THEN BlockOrDummy(c, b - top)
                               ELSE whole_image[c][b]
      <4>1. b \in DOMAIN whole_image[c]
        BY <1>2 DEF BuffersInv
      <4>2. QED BY <1>1, <2>1, <2>2, <4>1 DEF Kept
    <3>5. CASE b >= top
      <4> DEFINE o == b - top
      <4>1. b \in top..(top + f - 1) /\ o \in 0..(f - 1) /\ top + o = b
        <5> HIDE DEF top, f
        <5>1. QED BY <3>1, <3>2, <3>3, <3>5
      <4>2. BlockOrDummy(c, o) = TrueBlock(c, top + o)
        <5> HIDE DEF o
        <5>1. QED BY <1>1, <1>2, <2>1, <4>1, BlockRight
      <4>3. QED BY <3>4, <4>1, <4>2
    <3>6. CASE b < top
      <4>1. b \notin top..(top + f - 1)
        BY <3>2, <3>3, <3>6
      <4>2. whole_image[c][b] = TrueBlock(c, b)
        BY <1>1, <1>2, <2>2, <3>6 DEF KeptRight
      <4>3. QED BY <3>4, <4>1, <4>2
    <3>7. QED BY <3>2, <3>3, <3>5, <3>6
  <2>3. QED BY <1>1, <1>3, <2>2 DEF KeptRight
<1>10. McusRight'
  BY <1>1, <1>2, <1>3 DEF McusRight
<1>11. PassesCounted'
  BY <1>1 DEF PassesCounted, FirstPass
<1>12. QED BY <1>5, <1>6, <1>7, <1>8, <1>9, <1>10, <1>11 DEF IInv3

\* The components of the scan at hand, and its MCUs: a component to itself, one
\* block high, or several.
LEMMA ScanFacts ==
  ASSUME image \in Images, master.scan_number + 1 \in DOMAIN image.scans
  PROVE  /\ \A x \in DOMAIN Scan : Scan[x] \in Components
         /\ Interleaved => \A c : MCU_height(c) = image.factors[c]
         /\ ~Interleaved => DOMAIN Scan = {1} /\ \A c : MCU_height(c) = 1
<1>1. image.scans \in Seq(Seq(Components))
  BY ImagesAssumption DEF Components
<1>2. Scan \in Seq(Components)
  BY <1>1 DEF Scan
<1>3. Len(Scan) \in Nat \ {0}
  BY ScansOf DEF Scan
<1>4. ASSUME ~Interleaved
      PROVE  DOMAIN Scan = {1}
  <2>1. Len(Scan) = 1
    <3> DEFINE n == Len(Scan)
    <3>1. n \in Nat \ {0} /\ ~(n > 1)
      BY <1>3, <1>4 DEF Interleaved
    <3> HIDE DEF n
    <3>2. n = 1
      BY <3>1
    <3>3. QED BY <3>2 DEF n
  <2>2. DOMAIN Scan = 1..1
    BY <1>2, <2>1
  <2>3. QED BY <2>2
<1>5. QED BY <1>2, <1>4 DEF MCU_height

\* Where the next MCU is in the image.
LEMMA McuPlace ==
  ASSUME image \in Images, master.scan_number + 1 \in DOMAIN image.scans,
         CoefType, ~PassDone, InPlace
  PROVE  /\ McusDone \in Nat /\ McusDone < McusOf(Scan)
         /\ coef.iMCU_row_num \in 0..(total_iMCU_rows - 1)
         /\ \A x \in DOMAIN Scan : \A y \in 1..MCU_height(Scan[x]) :
              /\ coef.MCU_vert_offset + y - 1
                   \in 0..(image.factors[Scan[x]] - 1)
              /\ (McusDone \div Columns) * MCU_height(Scan[x]) + y - 1
                   = coef.iMCU_row_num * image.factors[Scan[x]]
                       + (coef.MCU_vert_offset + y - 1)
<1> DEFINE row == coef.iMCU_row_num
           o == coef.MCU_vert_offset
           f == image.factors[Scan[1]]
           t == total_iMCU_rows
           q == row * (IF Interleaved THEN 1 ELSE f) + o
           rows == IF Interleaved THEN t ELSE height_in_blocks(Scan[1])
<1>1. /\ t \in Nat \ {0} /\ Columns \in Nat \ {0}
      /\ row \in 0..t /\ o \in Nat /\ coef.MCU_ctr \in 0..(Columns - 1)
      /\ row # t /\ o < MCU_rows_per_iMCU_row
  BY Sizes, SizesAssumption DEF CoefType, PassDone, InPlace
<1>2. /\ f \in 1..4 /\ last_row_height(Scan[1]) \in 1..f
      /\ height_in_blocks(Scan[1]) = (t - 1) * f + last_row_height(Scan[1])
  <2>1. Scan[1] \in Components
    BY ScansOf DEF Scan
  <2>2. QED BY <2>1, BlockRows
<1>3. McusDone = Columns * q + coef.MCU_ctr
  BY DEF McusDone
<1>4. McusOf(Scan) = Columns * rows
  BY DEF McusOf, Interleaved
<1>5. Interleaved => o = 0
  BY <1>1 DEF MCU_rows_per_iMCU_row
<1>6. ~Interleaved => o < (IF row < t - 1 THEN f ELSE last_row_height(Scan[1]))
  BY <1>1 DEF MCU_rows_per_iMCU_row
<1> HIDE DEF row, o, f, t
<1>7. q \in Nat /\ rows \in Nat /\ q + 1 <= rows
  <2>1. CASE Interleaved
    <3>1. q = row * 1 + 0
      BY <1>5, <2>1
    <3>2. q = row
      BY <1>1, <3>1
    <3>3. QED BY <1>1, <2>1, <3>2
  <2>2. CASE ~Interleaved
    <3>1. q = row * f + o /\ row * f \in Nat /\ (t - 1) * f \in Nat
      BY <1>1, <1>2, <2>2
    <3>2. rows = (t - 1) * f + last_row_height(Scan[1])
      BY <1>2, <2>2
    <3>3. CASE row < t - 1
      <4>1. (row + 1) * f <= (t - 1) * f
        <5>1. row + 1 \in Nat /\ t - 1 \in Nat /\ row + 1 <= t - 1 /\ f \in Nat
          BY <1>1, <1>2, <3>3
        <5>2. QED BY <5>1, ProductGrows
      <4>2. (row + 1) * f = row * f + f
        BY <1>1, <1>2
      <4>3. o < f /\ last_row_height(Scan[1]) \in Nat /\ f \in Nat
        BY <1>2, <1>6, <2>2, <3>3
      <4> HIDE DEF q, rows
      <4>4. QED BY <1>1, <3>1, <3>2, <4>1, <4>2, <4>3
    <3>4. CASE row = t - 1
      <4>1. /\ o < last_row_height(Scan[1])
            /\ last_row_height(Scan[1]) \in Nat
        BY <1>1, <1>2, <1>6, <2>2, <3>4
      <4>2. rows = row * f + last_row_height(Scan[1])
        BY <3>2, <3>4
      <4> HIDE DEF q, rows
      <4>3. QED BY <1>1, <3>1, <4>1, <4>2
    <3>5. QED BY <1>1, <3>3, <3>4
  <2>3. QED BY <2>1, <2>2
<1> HIDE DEF q, rows
<1>8. McusDone < McusOf(Scan)
  BY <1>1, <1>3, <1>4, <1>7, McusAbove
<1>9. McusDone \in Nat
  <2>1. Columns * q \in Nat
    BY <1>1, <1>7
  <2>2. QED BY <1>1, <1>3, <2>1
<1>10. McusDone \div Columns = q
  BY <1>1, <1>3, <1>7, RowOfMcu
<1>11. ASSUME NEW x \in DOMAIN Scan, NEW y \in 1..MCU_height(Scan[x])
       PROVE  /\ o + y - 1 \in 0..(image.factors[Scan[x]] - 1)
              /\ (McusDone \div Columns) * MCU_height(Scan[x]) + y - 1
                   = row * image.factors[Scan[x]] + (o + y - 1)
  <2> DEFINE g == image.factors[Scan[x]]
  <2>1. g \in 1..4
    BY ScanFacts, Heights
  <2> HIDE DEF g
  <2>2. CASE Interleaved
    <3>1. MCU_height(Scan[x]) = g /\ o = 0 /\ q = row * 1 + 0
      BY <1>5, <2>2, ScanFacts DEF q, g
    <3>2. q = row /\ y \in 1..g
      BY <1>1, <1>11, <3>1
    <3>3. o + y - 1 \in 0..(g - 1)
      BY <2>1, <3>1, <3>2
    <3>4. q * MCU_height(Scan[x]) + y - 1 = row * g + (o + y - 1)
      <4>1. row * g \in Nat
        BY <1>1, <2>1
      <4>2. q * MCU_height(Scan[x]) = row * g
        BY <3>1, <3>2
      <4>3. QED BY <2>1, <3>1, <3>2, <4>1, <4>2
    <3>5. QED BY <1>10, <3>3, <3>4 DEF g
  <2>3. CASE ~Interleaved
    <3>1. MCU_height(Scan[x]) = 1 /\ x = 1 /\ g = f /\ q = row * f + o
      BY <2>3, ScanFacts DEF q, f, g
    <3>2. y = 1
      BY <1>11, <3>1
    <3>3. o + y - 1 \in 0..(g - 1)
      BY <1>1, <1>2, <1>6, <2>3, <3>1, <3>2
    <3>4. q * MCU_height(Scan[x]) + y - 1 = row * g + (o + y - 1)
      <4>1. row * f \in Nat
        BY <1>1, <1>2
      <4> DEFINE z == row * f
      <4>2. q = z + o /\ z \in Nat /\ row * g = z
        BY <3>1, <4>1
      <4> HIDE DEF z
      <4>3. QED BY <1>1, <3>1, <3>2, <4>2
    <3>5. QED BY <1>10, <3>3, <3>4 DEF g
  <2>4. QED BY <2>2, <2>3
<1>12. row \in 0..(t - 1)
  BY <1>1
<1>13. QED BY <1>8, <1>9, <1>11, <1>12 DEF row, o, t

\* The MCU that is encoded is the next one of the image in this scan.
LEMMA CurrentRight ==
  ASSUME AllInv, ~PassDone, pc \in {"compress", "crank"}
  PROVE  /\ CurrentMcu = TrueMcu(Scan, McusDone)
         /\ McusDone \in Nat /\ McusDone < McusOf(Scan)
         /\ master.scan_number + 1 \in DOMAIN image.scans
<1> DEFINE row == coef.iMCU_row_num
           o == coef.MCU_vert_offset
           t == total_iMCU_rows
           cur == main.cur_iMCU_row
<1>1. /\ Counters /\ StripInv /\ BottomInv /\ MasterInv /\ CoefInv
      /\ StripRight /\ KeptRight /\ PassesCounted /\ image \in Images
  BY DEF AllInv, IInv, IInv1, IInv2, IInv3, Counters
<1>2. /\ master.scan_number + 1 \in DOMAIN image.scans
      /\ master.pass_number < total_passes
  BY <1>1, ScanAtHand DEF MasterInv, FirstPass
<1>3. CoefType /\ InPlace
  BY <1>1 DEF CoefInv, FirstPass
<1>4. /\ McusDone \in Nat /\ McusDone < McusOf(Scan)
      /\ row \in 0..(t - 1)
      /\ \A x \in DOMAIN Scan : \A y \in 1..MCU_height(Scan[x]) :
           /\ o + y - 1 \in 0..(image.factors[Scan[x]] - 1)
           /\ (McusDone \div Columns) * MCU_height(Scan[x]) + y - 1
                = row * image.factors[Scan[x]] + (o + y - 1)
  BY <1>1, <1>2, <1>3, McuPlace
<1>5. /\ t \in Nat \ {0} /\ cur \in 0..t
      /\ pc = "compress" => row = cur /\ StripFull
      /\ pc = "crank" => cur = t
  BY <1>1, MainFacts
  DEF StripInv, BottomInv, CoefInv, FirstPass, ImageDone
\* A block of the iMCU row, kept or in the strip.
<1>6. ASSUME NEW c \in Components, NEW b \in 0..(image.factors[c] - 1)
      PROVE  (IF MultiPass THEN whole_image[c][row * image.factors[c] + b]
              ELSE BlockOrDummy(c, b))
               = TrueBlock(c, row * image.factors[c] + b)
  <2>1. CASE MultiPass
    <3> DEFINE f == image.factors[c]
               place == row * f + b
               rows == IF pc = "compress" THEN cur + 1 ELSE cur
    <3>1. f \in 1..4 /\ b \in 0..(f - 1)
      BY <1>1, Heights
    <3>2. row + 1 \in Nat /\ rows \in Nat /\ row + 1 <= rows /\ rows <= t
      <4>1. CASE pc = "compress"
        BY <1>4, <1>5, <4>1
      <4>2. CASE pc = "crank"
        BY <1>4, <1>5, <4>2
      <4>3. QED BY <4>1, <4>2
    <3> HIDE DEF f, rows, row, t
    <3>3. (row + 1) * f <= rows * f /\ rows * f <= t * f
      <4>1. f \in Nat /\ t \in Nat
        BY <1>5, <3>1
      <4>2. QED BY <3>2, <4>1, ProductGrows
    <3>4. (row + 1) * f = row * f + f /\ row * f \in Nat
      <4>1. f \in Nat /\ row \in Nat
        BY <1>4, <3>1, <1>5
      <4>2. QED BY <4>1
    <3>5. rows * f \in Nat /\ t * f \in Nat
      <4>1. f \in Nat /\ t \in Nat
        BY <1>5, <3>1
      <4>2. QED BY <3>2, <4>1
    <3>6. place < rows * f /\ place \in 0..(t * f - 1)
      BY <3>1, <3>3, <3>4, <3>5
    <3> HIDE DEF place
    <3>7. whole_image[c][place] = TrueBlock(c, place)
      BY <1>1, <2>1, <3>6 DEF KeptRight, rows, f, t
    <3>8. QED BY <2>1, <3>7 DEF place, f, row
  <2>2. CASE ~MultiPass
    <3>1. total_passes \in Nat
      <4>1. Len(image.scans) \in Nat
        BY <1>1, ScansOf
      <4> DEFINE n == Len(image.scans)
      <4>2. total_passes = n * (IF image.optimize THEN 2 ELSE 1)
        BY DEF total_passes
      <4> HIDE DEF n
      <4>3. n \in Nat
        BY <4>1 DEF n
      <4>4. QED BY <4>2, <4>3
    <3>2. pc # "crank"
      <4>1. total_passes <= 1 /\ master.pass_number \in Nat
        BY <1>1, <2>2, <3>1 DEF MultiPass, MasterInv
      <4>2. ~(master.pass_number >= 1)
        BY <1>2, <3>1, <4>1
      <4>3. QED BY <1>1, <4>2 DEF PassesCounted, FirstPass
    <3>3. coef.iMCU_row_num = main.cur_iMCU_row /\ StripFull
      BY <1>5, <3>2
    <3>4. BlockOrDummy(c, b) = TrueBlock(c, cur * image.factors[c] + b)
      BY <1>1, <3>3, BlockRight
    <3>5. QED BY <2>2, <3>3, <3>4
  <2>3. QED BY <2>1, <2>2
<1>7. ASSUME NEW x \in DOMAIN Scan, NEW y \in 1..MCU_height(Scan[x])
      PROVE  (IF MultiPass
              THEN whole_image[Scan[x]][row * image.factors[Scan[x]]
                                          + (o + y - 1)]
              ELSE BlockOrDummy(Scan[x], o + y - 1))
               = TrueBlock(Scan[x], (McusDone \div Columns)
                                      * MCU_height(Scan[x]) + y - 1)
  <2>1. Scan[x] \in Components
    BY <1>1, <1>2, ScanFacts
  <2>2. /\ o + y - 1 \in 0..(image.factors[Scan[x]] - 1)
        /\ (McusDone \div Columns) * MCU_height(Scan[x]) + y - 1
             = row * image.factors[Scan[x]] + (o + y - 1)
    BY <1>4
  <2> DEFINE b == o + y - 1
  <2> HIDE DEF b, row
  <2>3. (IF MultiPass
         THEN whole_image[Scan[x]][row * image.factors[Scan[x]] + b]
         ELSE BlockOrDummy(Scan[x], b))
          = TrueBlock(Scan[x], row * image.factors[Scan[x]] + b)
    BY <1>6, <2>1, <2>2 DEF b
  <2>4. QED BY <2>2, <2>3 DEF b
<1>8. CurrentMcu
        = [x \in DOMAIN Scan |->
             [y \in 1..MCU_height(Scan[x]) |->
                IF MultiPass
                THEN whole_image[Scan[x]][row * image.factors[Scan[x]]
                                            + (o + y - 1)]
                ELSE BlockOrDummy(Scan[x], o + y - 1)]]
  BY DEF CurrentMcu
<1>9. TrueMcu(Scan, McusDone)
        = [x \in DOMAIN Scan |->
             [y \in 1..MCU_height(Scan[x]) |->
                TrueBlock(Scan[x], (McusDone \div Columns)
                                     * MCU_height(Scan[x]) + y - 1)]]
  BY DEF TrueMcu, MCU_height, Interleaved
<1>10. CurrentMcu = TrueMcu(Scan, McusDone)
  BY <1>7, <1>8, <1>9
<1>11. QED BY <1>2, <1>4, <1>10

\* What is encoded is put behind what the scan has already.
LEMMA EncodeKeepsMcus ==
  ASSUME AllInv, EncodeMcu, ~PassDone, pc \in {"compress", "crank"}
  PROVE  McusRight'
<1> DEFINE n == master.scan_number + 1
           mcu == CurrentMcu
<1>1. /\ image' = image
      /\ written' = IF Writing THEN [written EXCEPT ![n] = Append(@, mcu)]
                    ELSE written
  BY DEF EncodeMcu, Writing
<1>2. McusRight /\ WrittenInv /\ SequencesInv
  BY DEF AllInv, IInv, IInv2, IInv3
<1>3. CASE ~Writing
  BY <1>1, <1>2, <1>3, WrittenStays
<1>4. CASE Writing
  <2>1. /\ mcu = TrueMcu(Scan, McusDone)
        /\ McusDone \in Nat /\ McusDone < McusOf(Scan)
        /\ n \in DOMAIN image.scans
    BY CurrentRight
  <2>2. /\ DOMAIN written = DOMAIN image.scans
        /\ Len(written[n]) = McusDone
    <3>1. pc # "failed" /\ (FirstPass \/ pc = "crank")
      BY DEF FirstPass
    <3>2. ~(n <= master.scan_number)
      <4>1. master.scan_number \in Nat
        BY ScansOf DEF AllInv, IInv, IInv1, IInv2, Counters, MasterInv
      <4>2. QED BY <4>1
    <3>3. QED BY <1>2, <1>4, <2>1, <3>1, <3>2 DEF WrittenInv
  <2>3. PICK T : written[n] \in Seq(T)
    BY <1>2, <2>1 DEF SequencesInv
  <2>4. /\ DOMAIN written[n] = 1..McusDone
        /\ DOMAIN Append(written[n], mcu) = 1..(McusDone + 1)
        /\ Len(Append(written[n], mcu)) = McusDone + 1
        /\ Append(written[n], mcu)[McusDone + 1] = mcu
        /\ \A i \in 1..McusDone : Append(written[n], mcu)[i] = written[n][i]
    <3> HIDE DEF mcu, n
    <3> DEFINE S == T \cup {mcu}
               w == written[n]
    <3>1. w \in Seq(S) /\ mcu \in S /\ Len(w) = McusDone
      BY <2>2, <2>3
    <3> HIDE DEF S, w
    <3>2. /\ Append(w, mcu) \in Seq(S)
          /\ Len(Append(w, mcu)) = Len(w) + 1
          /\ \A i \in 1..Len(w) : Append(w, mcu)[i] = w[i]
          /\ Append(w, mcu)[Len(w) + 1] = mcu
      BY <3>1, AppendProperties
    <3>3. DOMAIN w = 1..Len(w) /\ DOMAIN Append(w, mcu) = 1..(Len(w) + 1)
      BY <3>1, <3>2
    <3>4. QED BY <3>1, <3>2, <3>3 DEF w
  <2>5. /\ \A s, m : TrueMcu(image.scans[s], m)' = TrueMcu(image.scans[s], m)
        /\ \A s : McusOf(image.scans[s])' = McusOf(image.scans[s])
    BY <1>1, SamplesStay, ScansStay
  <2>6. McusOf(Scan) \in Nat
    <3>1. coef.iMCU_row_num \in 0..total_iMCU_rows /\ image \in Images
      BY DEF AllInv, IInv, IInv1, IInv2, Counters, CoefInv, CoefType
    <3>2. QED BY <2>1, <3>1, McuRows
  <2> HIDE DEF mcu, n
  <2>7. /\ DOMAIN written' = DOMAIN written
        /\ written'[n] = Append(written[n], mcu)
        /\ \A s \in DOMAIN written : s # n => written'[s] = written[s]
    BY <1>1, <1>4, <2>1, <2>2
  <2>8. ASSUME NEW s \in DOMAIN written
        PROVE  /\ Len(written'[s]) <= McusOf(image.scans[s])
               /\ \A m \in DOMAIN written'[s] :
                    written'[s][m] = TrueMcu(image.scans[s], m - 1)
    <3>1. CASE s # n
      BY <1>2, <2>7, <3>1 DEF McusRight
    <3>2. CASE s = n
      <4>1. image.scans[s] = Scan
        BY <3>2 DEF Scan, n
      <4>2. Len(written'[s]) <= McusOf(Scan)
        BY <2>1, <2>4, <2>6, <2>7, <3>2
      <4>3. ASSUME NEW m \in 1..(McusDone + 1)
            PROVE  written'[s][m] = TrueMcu(Scan, m - 1)
        <5>1. CASE m = McusDone + 1
          <6>1. m - 1 = McusDone
            BY <2>1, <5>1
          <6>2. QED BY <2>1, <2>4, <2>7, <3>2, <5>1, <6>1
        <5>2. CASE m # McusDone + 1
          <6>1. m \in 1..McusDone
            BY <2>1, <5>2
          <6>2. written'[s][m] = written[n][m] /\ m \in DOMAIN written[n]
            BY <2>4, <2>7, <3>2, <6>1
          <6>3. QED BY <1>2, <2>8, <3>2, <4>1, <6>2 DEF McusRight
        <5>3. QED BY <5>1, <5>2
      <4>4. QED BY <2>4, <2>7, <3>2, <4>1, <4>2, <4>3
    <3>3. QED BY <3>1, <3>2
  <2>9. QED BY <2>5, <2>7, <2>8 DEF McusRight
<1>5. QED BY <1>3, <1>4

\* An MCU that is not the last of its iMCU row, or one of a later pass.
LEMMA EncodeKeepsData ==
  ASSUME AllInv, CompressMcu \/ CrankMcu
  PROVE  IInv3'
<1>1. EncodeMcu /\ pc' = pc /\ main' = main /\ pc \in {"compress", "crank"}
  BY DEF CompressMcu, CrankMcu
<1>2. ~PassDone
  <2>1. CASE CrankMcu
    BY <2>1 DEF CrankMcu
  <2>2. CASE CompressMcu
    BY <2>2
    DEF CompressMcu, AllInv, IInv, IInv1, IInv2, StripInv, ImageDone,
        PassDone, CoefInv, FirstPass
  <2>3. QED BY <2>1, <2>2
<1>3. McusRight'
  BY <1>1, <1>2, EncodeKeepsMcus
<1>4. /\ UNCHANGED <<image, prep, color_buf, buffer, whole_image, master>>
      /\ PassesCounted'
  BY <1>1 DEF EncodeMcu, prepVars, AllInv, IInv3, PassesCounted, FirstPass
<1>5. QED BY <1>1, <1>3, <1>4, QuietKeepsData

\* The last MCU of an iMCU row: the strip is empty again.
LEMMA CompressLastKeepsData ==
  ASSUME AllInv, CompressLastMcu
  PROVE  IInv3'
<1>1. /\ pc = "compress" /\ pc' = "fill" /\ EncodeMcu
      /\ UNCHANGED <<image, prep, color_buf, buffer, whole_image, master>>
      /\ main'.cur_iMCU_row = main.cur_iMCU_row + 1
      /\ main'.rowgroup_ctr = 0
  BY DEF CompressLastMcu, EncodeMcu, prepVars
<1>2. /\ Counters /\ StripInv /\ CoefInv /\ BuffersInv /\ RingRight
      /\ GroupRight /\ StripRight /\ KeptRight /\ StripFull /\ ~PassDone
  BY <1>1
  DEF AllInv, IInv, IInv1, IInv2, IInv3, StripInv, ImageDone, PassDone,
      CoefInv, FirstPass
<1>3. /\ MaxV' = MaxV /\ need_context_rows' = need_context_rows
      /\ total_iMCU_rows' = total_iMCU_rows /\ Components' = Components
      /\ \A c : strip_height(c)' = strip_height(c)
      /\ \A c : rowgroup_height(c)' = rowgroup_height(c)
      /\ \A i : TrueLine(i)' = TrueLine(i)
      /\ \A c, r : TrueSampleRow(c, r)' = TrueSampleRow(c, r)
      /\ \A c, b : TrueBlock(c, b)' = TrueBlock(c, b)
      /\ MultiPass' = MultiPass
  BY <1>1, SizesStay, SamplesStay, ScansStay DEF MultiPass
<1>4. Groups' = Groups
  <2>1. /\ Groups' = (main.cur_iMCU_row + 1) * DctSize + 0
        /\ Groups = main.cur_iMCU_row * DctSize + DctSize
    BY <1>1, <1>2 DEF Groups, StripFull
  <2>2. main.cur_iMCU_row \in Nat /\ DctSize \in Nat
    BY <1>2, MainFacts
  <2>3. QED BY <2>1, <2>2
<1>5. Filled' = Filled
  BY <1>1, <1>3, <1>4 DEF Filled
<1>6. BuffersInv'
  BY <1>1, <1>2, <1>3 DEF BuffersInv
<1>7. RingRight'
  BY <1>1, <1>2, <1>3, <1>4, <1>5 DEF RingRight, RingHolds
<1>8. GroupRight'
  BY <1>1, <1>2, <1>3, <1>4 DEF GroupRight
<1>9. StripRight'
  <2>1. ASSUME NEW c \in Components, NEW r \in 0..(strip_height(c) - 1)
        PROVE  ~(r < 0 * rowgroup_height(c))
    <3>1. rowgroup_height(c) \in 1..MaxV /\ MaxV \in 1..4
      BY <1>2, Heights, MainFacts, Sizes
    <3>2. QED BY <3>1
  <2>2. QED BY <1>1, <1>2, <1>3, <2>1 DEF StripRight, HoldsGroups
<1>10. KeptRight'
  BY <1>1, <1>2, <1>3 DEF KeptRight
<1>11. McusRight'
  BY <1>1, <1>2, EncodeKeepsMcus
<1>12. PassesCounted'
  BY <1>1 DEF PassesCounted, FirstPass
<1>13. QED BY <1>6, <1>7, <1>8, <1>9, <1>10, <1>11, <1>12 DEF IInv3

-----------------------------------------------------------------------------
(* The specification.                                                      *)

\* Before the first line the buffers are blank, and nothing is written.
LEMMA InitData ==
  ASSUME Init
  PROVE  IInv3
<1>1. /\ image \in Images /\ pc = "app"
      /\ main = [cur_iMCU_row |-> 0, rowgroup_ctr |-> 0, suspended |-> FALSE]
      /\ prep = [rows_to_go |-> image.height, next_buf_row |-> 0,
                 this_row_group |-> 0, next_buf_stop |-> 2 * MaxV]
      /\ color_buf = [r \in 0..(3 * MaxV - 1) |-> Blank]
      /\ buffer = [c \in Components |->
                     [r \in 0..(image.factors[c] * DCT_v_scaled_size(c) - 1) |->
                        Blank]]
      /\ whole_image = [c \in Components |->
                          [b \in 0..(total_iMCU_rows * image.factors[c] - 1) |->
                             Blank]]
      /\ written = [s \in DOMAIN image.scans |-> <<>>]
  BY DEF Init, StartPassPrep
<1>2. /\ image.height \in Nat \ {0} /\ MaxV \in 1..4 /\ DctSize \in Nat
  BY <1>1, Sizes
<1>3. Groups = 0 /\ Filled = 0
  <2>1. Groups = 0
    BY <1>1, <1>2 DEF Groups
  <2>2. Filled = 0 * MaxV + 0 + (IF need_context_rows
                                 THEN 2 * MaxV - 2 * MaxV ELSE 0)
    BY <1>1, <2>1 DEF Filled
  <2>3. QED BY <1>2, <2>1, <2>2
<1>4. BuffersInv
  BY <1>1 DEF BuffersInv
<1>5. RingRight
  <2>1. (Groups * MaxV) % (3 * MaxV) = 0 /\ Filled % (3 * MaxV) = 0
    <3>1. 0 % (3 * MaxV) = 0
      BY <1>2, SmallStay
    <3>2. Groups * MaxV = 0
      BY <1>2, <1>3
    <3>3. QED BY <1>3, <3>1, <3>2
  <2>2. /\ prep.this_row_group = 0 /\ prep.next_buf_row = 0
        /\ prep.rows_to_go = image.height
        /\ ~(prep.rows_to_go < image.height) /\ prep.rows_to_go # 0
    BY <1>1, <1>2
  <2>3. QED BY <2>1, <2>2 DEF RingRight
<1>6. GroupRight
  BY <1>1 DEF GroupRight
<1>7. StripRight
  <2>1. ASSUME NEW c \in Components, NEW r \in 0..(strip_height(c) - 1)
        PROVE  ~(r < 0 * rowgroup_height(c))
    <3>1. rowgroup_height(c) \in 1..MaxV /\ MaxV \in 1..4
      BY <1>1, Heights, Sizes
    <3>2. QED BY <3>1
  <2>2. QED BY <1>1, <2>1 DEF StripRight, HoldsGroups, strip_height
<1>8. KeptRight
  <2>1. ASSUME NEW c \in Components,
               NEW b \in 0..(total_iMCU_rows * image.factors[c] - 1)
        PROVE  ~(b < 0 * image.factors[c])
    <3>1. image.factors[c] \in 1..4
      BY <1>1, Heights
    <3>2. QED BY <3>1
  <2>2. QED BY <1>1, <2>1 DEF KeptRight
<1>9. PassesCounted
  BY <1>1 DEF PassesCounted, FirstPass
<1>10. McusRight
  <2>1. ASSUME NEW s \in DOMAIN written
        PROVE  /\ Len(written[s]) <= McusOf(image.scans[s])
               /\ DOMAIN written[s] = {}
    <3>1. written[s] = <<>> /\ s \in DOMAIN image.scans
      BY <1>1
    <3>2. McusOf(image.scans[s]) \in Nat
      <4>1. image.scans[s][1] \in Components
        BY <1>1, <3>1, ScansOf
      <4>2. /\ image.factors[image.scans[s][1]] \in 1..4
            /\ last_row_height(image.scans[s][1])
                 \in 1..image.factors[image.scans[s][1]]
            /\ height_in_blocks(image.scans[s][1])
                 = (total_iMCU_rows - 1) * image.factors[image.scans[s][1]]
                     + last_row_height(image.scans[s][1])
        BY <1>1, <4>1, BlockRows
      <4>3. /\ total_iMCU_rows \in Nat \ {0} /\ Columns \in Nat
        BY <1>1, Sizes, SizesAssumption
      <4>4. height_in_blocks(image.scans[s][1]) \in Nat
        BY <4>2, <4>3
      <4>5. QED BY <4>3, <4>4 DEF McusOf
    <3>3. QED BY <3>1, <3>2
  <2>2. QED BY <2>1 DEF McusRight
<1>11. QED BY <1>4, <1>5, <1>6, <1>7, <1>8, <1>9, <1>10 DEF IInv3

\* Every step keeps the invariant.
LEMMA NextKeepsData ==
  ASSUME AllInv, [Next]_vars
  PROVE  AllInv'
<1>1. IInv'
  BY NextKeepsAll DEF AllInv
<1>2. IInv3'
  BY CallsKeepData, PreProcessKeepsData, PreProcessContextKeepsData,
     PadContextKeepsData, StartCompressKeepsData, EncodeKeepsData,
     CompressLastKeepsData, PassesKeepData, StutterKeepsData
  DEF Next
<1>3. QED BY <1>1, <1>2 DEF AllInv

\* The invariant: where the rows are, which MCU is next, and what the buffers
\* hold.
THEOREM DataInvariant == Spec => []AllInv
<1>1. Init => AllInv
  BY InitKeeps, InitScans, InitData DEF AllInv, IInv
<1>2. AllInv /\ [Next]_vars => AllInv'
  BY NextKeepsData
<1>3. QED BY <1>1, <1>2, PTL DEF Spec

\* Whatever the image, its sampling, smoothing and scans, whatever lines come in
\* a call and wherever the encoder is suspended: each scan gets its MCUs in
\* order, each once, made of the right rows of the image.
THEOREM McusAlwaysRight == Spec => []McusRight
<1>1. AllInv => McusRight
  BY DEF AllInv, IInv3
<1>2. QED BY <1>1, DataInvariant, PTL

\* When the encoder gives up the lines are those of a whole image, or none.
LEMMA GivingUp ==
  ASSUME AllInv, pc # "failed", pc' = "failed", [Next]_vars
  PROVE  GivesUpOutsideImage'
<1>1. /\ \/ HeadersFail \/ FinishPassFails \/ PreparePassFails
         \/ CrankFails \/ FinishCompressFails
      /\ CantSuspend
  BY DEF vars, Next, WriteScanlines, NeedMoreRows, Return, PreProcess,
         PreProcessContext, PadContext, StartCompress, CompressMcu,
         CompressLastMcu, Suspend, FinishFirstPass, FinishPass, PreparePass,
         CrankMcu, FinishLaterPass, FinishCompress, Over, HeadersFail,
         FinishPassFails, PreparePassFails, CrankFails, FinishCompressFails
<1>2. /\ image.suspends
      /\ UNCHANGED <<image, main, prep, written>>
  BY <1>1 DEF CantSuspend, prepVars
<1>3. /\ total_iMCU_rows' = total_iMCU_rows
      /\ McusOf(image.scans[1])' = McusOf(image.scans[1])
  BY <1>2, SizesStay, ScansStay
<1>4. ImageDone' <=> ImageDone
  BY <1>2, <1>3 DEF ImageDone
<1>5. /\ IInv1 /\ MasterInv /\ CoefInv /\ WrittenInv /\ PassesCounted
      /\ image \in Images
  BY DEF AllInv, IInv, IInv1, IInv2, IInv3, Counters
<1>6. /\ 1 \in DOMAIN image.scans /\ Len(image.scans) \in Nat
      /\ image.optimize \in BOOLEAN
  BY <1>5, ScansOf
<1>7. CASE HeadersFail
  BY <1>2, <1>7 DEF HeadersFail, GivesUpOutsideImage
<1>8. CASE pc = "app" /\ ~HeadersFail
  <2>1. next_scanline >= image.height /\ Writing
    BY <1>1, <1>8
    DEF FinishPassFails, PreparePassFails, CrankFails, FinishCompressFails,
        Writing
  <2>2. ImageDone
    BY <1>5, <1>8, <2>1, AllGivenAllDone
  <2>3. FirstPass
    BY <1>8 DEF FirstPass
  <2>4. PassDone
    BY <1>5, <2>2, <2>3 DEF CoefInv, ImageDone, PassDone
  <2>5. ASSUME ~image.optimize
        PROVE  Len(written[1]) = McusOf(image.scans[1])
    <3>1. master.scan_number = 0
      BY <1>5, <2>3, <2>5 DEF MasterInv
    <3>2. Len(written[1]) = McusDone
      BY <1>5, <1>6, <1>8, <2>1, <2>3, <3>1 DEF WrittenInv
    <3>3. McusDone = McusOf(image.scans[1])
      BY <2>4, <3>1 DEF McusDone, Scan
    <3>4. QED BY <3>2, <3>3
  <2>6. QED BY <1>2, <1>3, <1>4, <2>2, <2>5 DEF GivesUpOutsideImage
<1>9. CASE pc \in {"between", "crank"}
  <2>1. ~FirstPass /\ pc # "failed"
    BY <1>9 DEF FirstPass
  <2>2. ImageDone
    BY <1>5, <2>1 DEF IInv1, BottomInv
  <2>3. ASSUME ~image.optimize
        PROVE  Len(written[1]) = McusOf(image.scans[1])
    <3>1. master.scan_number \in Nat /\ 1 <= master.scan_number
      BY <1>5, <1>6, <2>1, <2>3 DEF MasterInv, PassesCounted
    <3>2. QED BY <1>5, <1>6, <2>1, <3>1 DEF WrittenInv
  <2>4. QED BY <1>2, <1>3, <1>4, <2>2, <2>3 DEF GivesUpOutsideImage
<1>10. QED
  BY <1>1, <1>7, <1>8, <1>9
  DEF HeadersFail, FinishPassFails, PreparePassFails, CrankFails,
      FinishCompressFails

\* What Finishes says of giving up.  A destination that is full ends the encoding
\* only before the first line was taken or after the last one (jcmarker.c 117,
\* jcapimin.c 180, jchuff.c 1093), and then the first scan has all its MCUs.
THEOREM GivesUpOnlyOutside == Spec => []GivesUpOutsideImage
<1>1. Init => GivesUpOutsideImage
  BY DEF Init, GivesUpOutsideImage
<1>2. ASSUME AllInv, GivesUpOutsideImage, [Next]_vars
      PROVE  GivesUpOutsideImage'
  <2>1. CASE pc' # "failed"
    BY <2>1 DEF GivesUpOutsideImage
  <2>2. CASE pc # "failed" /\ pc' = "failed"
    BY <1>2, <2>2, GivingUp
  <2>3. CASE pc = "failed"
    <3>1. UNCHANGED vars
      BY <1>2, <2>3
      DEF Next, WriteScanlines, NeedMoreRows, PreProcess, PreProcessContext,
          PadContext, StartCompress, CompressMcu, CompressLastMcu, Suspend,
          FinishFirstPass, PreparePass, CrankMcu, FinishLaterPass,
          FinishCompress, Over, HeadersFail, FinishPassFails,
          PreparePassFails, CrankFails, FinishCompressFails
    <3>2. /\ UNCHANGED <<image, pc, main, prep, written>>
      BY <3>1 DEF vars, prepVars
    <3>3. /\ total_iMCU_rows' = total_iMCU_rows
          /\ McusOf(image.scans[1])' = McusOf(image.scans[1])
      BY <3>2, SizesStay, ScansStay
    <3>4. QED BY <1>2, <3>2, <3>3 DEF GivesUpOutsideImage, ImageDone
  <2>4. QED BY <2>1, <2>2, <2>3
<1>3. QED BY <1>1, <1>2, DataInvariant, PTL DEF Spec
=============================================================================
