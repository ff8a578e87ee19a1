-------------------------- MODULE ClientWindowProofs --------------------------
(***************************************************************************)
(* Proofs about ClientWindow, for any room in the buffers and any number   *)
(* of images.                                                              *)
(***************************************************************************)
EXTENDS ClientWindow, TLAPS

-----------------------------------------------------------------------------
(* The inductive invariant.                                                *)

\* The callback has an image at hand.
Handling == callback \in {"check", "direct", "invoke"}

\* There is a callback only once the socket is connected, and the socket is
\* not connected while the constructor has yet to try it.
ReceivesFollowConnection ==
  /\ ~connected => callback = "none" /\ server = "none"
  /\ ui = "constructing" => ~connected
  /\ receives = IF callback \in {"none", "crashed"} THEN 0 ELSE 1

\* Every image sent is shown, in the buffers, or at hand; the console has
\* made sure that there is one more to send.
ImagesCounted ==
  /\ Handling <=> displays > 0
  /\ sentImages = shownImages + toClient + (IF Handling THEN 1 ELSE 0)
  /\ console = "send" => sentImages < MaxImages

\* A callback still drawing by itself when the message loop has begun has not
\* done so before: afterwards InvokeRequired sends it to the UI thread.
StrayDrawsCounted ==
  /\ strayDraws <= 1
  /\ ui \in {"constructing", "starting"} => strayDraws = 0
  /\ callback = "direct" => strayDraws = 0

IInv ==
  /\ TypeOK
  /\ ReceivesFollowConnection
  /\ ImagesCounted
  /\ StrayDrawsCounted

LEMMA InitIInv == Init => IInv
<1> SUFFICES ASSUME Init PROVE IInv
  OBVIOUS
<1> USE DEF Init
<1>1. TypeOK
  <2>1. connected \in BOOLEAN /\ IsInfiniteTest \in BOOLEAN
    BY Zenon
  <2> QED
    BY <2>1, SocketRoomAssumption, MaxImagesAssumption DEF TypeOK
<1>2. ReceivesFollowConnection
  BY DEF ReceivesFollowConnection
<1>3. ImagesCounted
  BY DEF ImagesCounted, Handling
<1>4. StrayDrawsCounted
  BY DEF StrayDrawsCounted
<1> QED
  BY <1>1, <1>2, <1>3, <1>4 DEF IInv

-----------------------------------------------------------------------------
(* What the callback counts when a control has shown the image.            *)

LEMMA DisplayedIInv ==
  ASSUME IInv, Handling,
         Displayed("check"),
         strayDraws' \in {0, 1},
         ui' \in {"constructing", "starting"} => strayDraws' = 0,
         UNCHANGED <<ui, receives, connected, IsInfiniteTest, toServer,
                     toClient, serverVars, sentImages>>
  PROVE  IInv'
<1> USE SocketRoomAssumption, MaxImagesAssumption
<1>1. displays \in {1, 2} /\ receives = 1
  BY DEF IInv, TypeOK, ReceivesFollowConnection, ImagesCounted, Handling
<1>2. shownImages + 1 <= MaxImages
  BY DEF IInv, TypeOK, ImagesCounted
<1>3. TypeOK'
  BY <1>1, <1>2 DEF IInv, TypeOK, Displayed, serverVars
<1>4. ReceivesFollowConnection'
  BY <1>1 DEF IInv, ReceivesFollowConnection, Displayed, serverVars, Handling
<1>5. ImagesCounted'
  BY <1>1 DEF IInv, TypeOK, ImagesCounted, Displayed, serverVars, Handling
<1>6. StrayDrawsCounted'
  BY <1>1 DEF IInv, StrayDrawsCounted, Displayed
<1> QED
  BY <1>3, <1>4, <1>5, <1>6 DEF IInv

-----------------------------------------------------------------------------
LEMMA NextIInv == IInv /\ [Next]_vars => IInv'
<1> SUFFICES ASSUME IInv, [Next]_vars PROVE IInv'
  OBVIOUS
<1> USE SocketRoomAssumption, MaxImagesAssumption
<1> USE DEF IInv, TypeOK, ReceivesFollowConnection, ImagesCounted,
            StrayDrawsCounted, Handling, callbackVars, serverVars, imageCounts
<1>1. CASE Construct
  <2> USE <1>1 DEF Construct
  <2>1. CASE Connected
    BY <2>1 DEF Connected
  <2>2. CASE UNCHANGED <<connected, server, callback, receives>>
    BY <2>2
  <2> QED
    BY <2>1, <2>2
<1>2. CASE CreateHandle
  BY <1>2 DEF CreateHandle
<1>3. CASE ConnectClick
  BY <1>3 DEF ConnectClick, Connected
<1>4. CASE GrabClick
  BY <1>4 DEF GrabClick
<1>5. CASE InfiniteClick
  BY <1>5 DEF InfiniteClick
<1>6. CASE SendReturns
  BY <1>6 DEF SendReturns
<1>7. CASE CloseWindow
  BY <1>7 DEF CloseWindow
<1>8. CASE ReceiveImage
  BY <1>8 DEF ReceiveImage
<1>9. CASE ReceiveEnds
  BY <1>9 DEF ReceiveEnds
<1>10. CASE CheckInvokeRequired
  <2> USE <1>10 DEF CheckInvokeRequired
  <2>1. callback' = "invoke" \/ (callback' = "direct" /\ strayDraws = 0)
    BY DEF Running, HandleCreated
  <2>2. Handling /\ Handling'
    BY <2>1
  <2> QED
    BY <2>1, <2>2
<1>11. CASE DrawDirectly
  BY <1>11, DisplayedIInv DEF DrawDirectly, HandleCreated
<1>12. CASE RunInvoked
  BY <1>12, DisplayedIInv DEF RunInvoked
<1>13. CASE Accept
  BY <1>13 DEF Accept
<1>14. CASE ServerReads
  BY <1>14 DEF ServerReads
<1>15. CASE StopListen
  BY <1>15 DEF StopListen
<1>16. CASE TestCommand
  BY <1>16 DEF TestCommand
<1>17. CASE ConsoleSendReturns
  BY <1>17 DEF ConsoleSendReturns
<1>18. CASE ServerEnds
  BY <1>18 DEF ServerEnds
<1>19. CASE UNCHANGED vars
  BY <1>19 DEF vars
<1> QED
  BY <1>1, <1>2, <1>3, <1>4, <1>5, <1>6, <1>7, <1>8, <1>9, <1>10, <1>11,
     <1>12, <1>13, <1>14, <1>15, <1>16, <1>17, <1>18, <1>19
  DEF Next, Callback, Ended

\* The invariant holds of every reachable state.
THEOREM WindowInvariant == Spec => []IInv
<1>1. Init => IInv
  BY InitIInv
<1>2. IInv /\ [Next]_vars => IInv'
  BY NextIInv
<1> QED
  BY <1>1, <1>2, PTL DEF Spec

-----------------------------------------------------------------------------
\* Type correctness; in particular neither buffer overflows and no more
\* images are shown than were sent.
THEOREM WindowTypeCorrect == Spec => []TypeOK
<1>1. IInv => TypeOK
  BY DEF IInv
<1> QED
  BY <1>1, WindowInvariant, PTL

\* However the buttons are clicked and the connection fails, ReceiveCallback
\* is never posted twice on the one state of the reassembly.
THEOREM ReceivesDoNotOverlap == Spec => []OneReceive
<1>1. IInv => OneReceive
  BY DEF IInv, ReceivesFollowConnection, OneReceive
<1> QED
  BY <1>1, WindowInvariant, PTL

\* At most one drawing by the callback itself goes on when the message loop
\* has begun.
THEOREM StrayDrawsEnd == Spec => []OneStrayDraw
<1>1. IInv => OneStrayDraw
  BY DEF IInv, StrayDrawsCounted, OneStrayDraw
<1> QED
  BY <1>1, WindowInvariant, PTL
=============================================================================
