---------------------------- MODULE ImageDelivery ----------------------------
(***************************************************************************)
(* What sending images promises, whatever carries them: the client is      *)
(* shown the images the server sent, each once, whole and in the order     *)
(* they were sent, until the client breaks down.  While it has not, every  *)
(* image sent is eventually shown.                                         *)
(***************************************************************************)
EXTENDS Naturals, Sequences

CONSTANT Image

VARIABLES
  sent,    \* the images sent
  shown,   \* the images shown
  broken   \* the client has broken down

vars == <<sent, shown, broken>>

Init ==
  /\ sent = <<>>
  /\ shown = <<>>
  /\ broken = FALSE

\* The server sends one more image.
Send ==
  /\ ~broken
  /\ sent' \in Seq(Image)
  /\ Len(sent') = Len(sent) + 1
  /\ \A i \in DOMAIN sent : sent'[i] = sent[i]
  /\ UNCHANGED <<shown, broken>>

\* The client shows the first image it has not shown.
Show ==
  /\ ~broken
  /\ Len(shown) < Len(sent)
  /\ shown' = Append(shown, sent[Len(shown) + 1])
  /\ UNCHANGED <<sent, broken>>

\* The client breaks down, and shows nothing more.
Break ==
  /\ ~broken
  /\ broken' = TRUE
  /\ UNCHANGED <<sent, shown>>

Next == Send \/ Show \/ Break

SafeSpec == Init /\ [][Next]_vars

Spec == SafeSpec /\ WF_vars(Show)
=============================================================================
