----------------------------- MODULE MCJpegRows -----------------------------
(* Constants for model checking JpegRows.                                  *)
EXTENDS JpegRows

\* One scan of all components, as jpeg_set_defaults leaves it.
OneScan(factors) == <<[c \in DOMAIN factors |-> c]>>

\* Gray, the 4:2:0 of the program's colour images, and rarer samplings.
MCFactors == {<<1>>, <<2>>, <<3>>, <<2, 1>>, <<1, 2>>, <<3, 1>>}

\* From one line to the second of the third strip.
MCOnePass ==
  {[height |-> h, factors |-> f, fancy |-> fancy, smooth |-> smooth,
    scans |-> OneScan(f), optimize |-> FALSE, suspends |-> suspends] :
     h \in 1..9, f \in MCFactors, fancy \in BOOLEAN, smooth \in BOOLEAN,
     suspends \in BOOLEAN}

\* Several scans, a component alone in some of them, and tables made to
\* measure.
MCScans == {<<<<1, 2>>>>, <<<<1>>, <<2>>>>, <<<<2>>, <<1, 2>>>>}
MCMultiPass ==
  {[height |-> h, factors |-> <<2, 1>>, fancy |-> fancy, smooth |-> FALSE,
    scans |-> scans, optimize |-> optimize, suspends |-> suspends] :
     h \in 1..6, fancy \in BOOLEAN, scans \in MCScans, optimize \in BOOLEAN,
     suspends \in BOOLEAN}

MCImages == MCOnePass \union MCMultiPass
=============================================================================
