------------------------------ MODULE OneAtATime ------------------------------
(***************************************************************************)
(* What a server for one client at a time promises, whatever threads and   *)
(* descriptors it does it with: clients are served in the order in which   *)
(* they came, each once, the next when the one before has been left, and   *)
(* an image goes to the client being served or to nobody.                  *)
(***************************************************************************)
EXTENDS Sequences

CONSTANTS Clients, NoClient

VARIABLES
  arrived,      \* the clients that have come
  queue,        \* those that wait, first come first
  current,      \* the client being served
  reached       \* who got the last image

vars == <<arrived, queue, current, reached>>

Init ==
  /\ arrived = {}
  /\ queue = <<>>
  /\ current = NoClient
  /\ reached = NoClient

Arrive(c) ==
  /\ c \notin arrived
  /\ arrived' = arrived \union {c}
  /\ queue' = Append(queue, c)
  /\ UNCHANGED <<current, reached>>

Begin ==
  /\ current = NoClient
  /\ queue # <<>>
  /\ current' = Head(queue)
  /\ queue' = Tail(queue)
  /\ UNCHANGED <<arrived, reached>>

End ==
  /\ current # NoClient
  /\ current' = NoClient
  /\ UNCHANGED <<arrived, queue, reached>>

SendImage ==
  /\ reached' \in {current, NoClient}
  /\ UNCHANGED <<arrived, queue, current>>

\* The server ends: whoever it served or let wait has lost it.
ShutDown ==
  /\ queue' = <<>>
  /\ current' = NoClient
  /\ reached' = NoClient
  /\ UNCHANGED arrived

Next ==
  \/ \E c \in Clients : Arrive(c)
  \/ Begin \/ End \/ SendImage \/ ShutDown

Spec == Init /\ [][Next]_vars
=============================================================================
