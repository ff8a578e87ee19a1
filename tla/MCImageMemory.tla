---------------------------- MODULE MCImageMemory ----------------------------
(* Constants for model checking ImageMemory.                               *)
EXTENDS ImageMemory

MCAddresses == 1..8

Pointed(a) == \E p \in Pointers : ptr[p] = a

\* Free addresses that nothing points to are alike: the least of them is
\* taken, or one that some pointer was left with.
LeastOfTheAlike ==
  \A a \in Addresses :
    Free(a) /\ heap'[a] # "unused" /\ ~Pointed(a)
      => \A b \in 1..(a - 1) : Free(b) => Pointed(b)
=============================================================================
