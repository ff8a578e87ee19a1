----------------------------- MODULE ClientWindow -----------------------------
(***************************************************************************)
(* The client's threads and what they wait for: the UI thread (MainForm,   *)
(* its buttons, the delegates it runs for Invoke), the receive callback    *)
(* (ReceiveServerRawData and DisplayImg on a thread of the pool) and, at   *)
(* the other end of the two bounded directions of the connection, the      *)
(* console and the listener of the server.                                 *)
(*                                                                         *)
(* Messages are whole here: ReceiveCallback is about cutting them out of   *)
(* the stream, TcpServer about which client they are sent to.              *)
(***************************************************************************)
EXTENDS Naturals

CONSTANTS
  SocketRoom,   \* messages the kernels hold in one direction
  MaxImages     \* bound: images the server sends

ASSUME SocketRoomAssumption == SocketRoom \in Nat \ {0}
ASSUME MaxImagesAssumption == MaxImages \in Nat

VARIABLES
  ui,           \* the UI thread: constructing the form, showing it, in the
                \* message loop, in Send, or out of the loop
  callback,     \* the receive callback: none, posted, or its place
  displays,     \* calls of DisplayImg... left for the image at hand
  receives,     \* receives posted on the socket or being handled
  connected,    \* mSocket has been connected
  IsInfiniteTest,
  toServer,     \* commands in the socket buffers
  toClient,     \* images in the socket buffers
  server,       \* the connection at the server: see the actions of the server
  console,      \* the console of the server
  sentImages,   \* history: images sent ...
  shownImages,  \* ... and shown
  strayDraws    \* history: drawn by the callback after the form had a handle

vars == <<ui, callback, displays, receives, connected, IsInfiniteTest,
          toServer, toClient, server, console, sentImages, shownImages,
          strayDraws>>

callbackVars == <<callback, displays, receives>>
serverVars == <<server, console>>
imageCounts == <<sentImages, shownImages, strayDraws>>

Init ==
  /\ ui = "constructing"
  /\ callback = "none"
  /\ displays = 0
  /\ receives = 0
  /\ connected = FALSE
  /\ IsInfiniteTest = FALSE
  /\ toServer = 0
  /\ toClient = 0
  /\ server = "none"
  /\ console = "prompt"
  /\ sentImages = 0
  /\ shownImages = 0
  /\ strayDraws = 0

\* The process is there.
Running == ui # "closed" /\ callback # "crashed"

\* Application.Run has created the window: from now on InvokeRequired tells
\* other threads apart.
HandleCreated == ui \in {"loop", "send"}

-----------------------------------------------------------------------------
(* The UI thread.                                                          *)

\* Connect succeeds: the connection waits for accept, a receive is posted.
Connected ==
  /\ connected' = TRUE
  /\ server' = "queued"
  /\ callback' = "posted"
  /\ receives' = receives + 1

\* The constructor connects, or fails to, before the form has a handle.
Construct ==
  /\ Running
  /\ ui = "constructing"
  /\ ui' = "starting"
  /\ Connected \/ UNCHANGED <<connected, server, callback, receives>>
  /\ UNCHANGED <<displays, IsInfiniteTest, toServer, toClient, console,
                 imageCounts>>

\* Application.Run shows the form and enters the message loop.
CreateHandle ==
  /\ Running
  /\ ui = "starting"
  /\ ui' = "loop"
  /\ UNCHANGED <<callbackVars, connected, IsInfiniteTest, toServer, toClient,
                 serverVars, imageCounts>>

\* A Connect button that makes a new connection each time.
ConnectAnew ==
  /\ Running
  /\ ui = "loop"
  /\ Connected
  /\ UNCHANGED <<ui, displays, IsInfiniteTest, toServer, toClient, console,
                 imageCounts>>

\* The Connect button: a socket that was connected cannot be again, not even
\* after the connection is lost; the exception is caught in ConnectServer.
ConnectClick ==
  /\ Running
  /\ ui = "loop"
  /\ ~connected
  /\ Connected
  /\ UNCHANGED <<ui, displays, IsInfiniteTest, toServer, toClient, console,
                 imageCounts>>

\* The Grab button, when the socket is connected, goes into Send; otherwise
\* Send throws and the message loop reports it.
GrabClick ==
  /\ Running
  /\ ui = "loop"
  /\ connected
  /\ ui' = "send"
  /\ UNCHANGED <<callbackVars, connected, IsInfiniteTest, toServer, toClient,
                 serverVars, imageCounts>>

\* The loop button only switches a flag that nothing reads, and grabs once
\* when it switches it on.
InfiniteClick ==
  /\ Running
  /\ ui = "loop"
  /\ IsInfiniteTest' = ~IsInfiniteTest
  /\ ui' = IF ~IsInfiniteTest /\ connected THEN "send" ELSE "loop"
  /\ UNCHANGED <<callbackVars, connected, toServer, toClient, serverVars,
                 imageCounts>>

\* A Send that does not wait for the kernel to take the command.
SendNeverWaits ==
  /\ Running
  /\ ui = "send"
  /\ toServer' = IF server = "gone" THEN toServer ELSE toServer + 1
  /\ ui' = "loop"
  /\ UNCHANGED <<callbackVars, connected, IsInfiniteTest, toClient,
                 serverVars, imageCounts>>

\* Send returns when the kernel has taken the command, and at once (with an
\* exception the message loop reports) when the server is gone.
SendReturns ==
  /\ Running
  /\ ui = "send"
  /\ toServer < SocketRoom \/ server = "gone"
  /\ toServer' = IF server = "gone" THEN toServer ELSE toServer + 1
  /\ ui' = "loop"
  /\ UNCHANGED <<callbackVars, connected, IsInfiniteTest, toClient,
                 serverVars, imageCounts>>

\* The window is closed: the threads of the pool end with the process.
CloseWindow ==
  /\ Running
  /\ ui = "loop"
  /\ ui' = "closed"
  /\ server' = IF connected THEN "gone" ELSE server
  /\ UNCHANGED <<callbackVars, connected, IsInfiniteTest, toServer, toClient,
                 console, imageCounts>>

-----------------------------------------------------------------------------
(* The receive callback.                                                   *)

\* An image is received.  A raw image is shown in two controls, a JPEG in
\* one.
ReceiveImage ==
  /\ Running
  /\ callback = "posted"
  /\ toClient > 0
  /\ toClient' = toClient - 1
  /\ displays' \in {1, 2}
  /\ callback' = "check"
  /\ UNCHANGED <<ui, receives, connected, IsInfiniteTest, toServer,
                 serverVars, imageCounts>>

\* The server has gone.  Either what it sent has been read and no other
\* receive is posted, or it reset the connection and EndReceive throws.
ReceiveEnds ==
  /\ Running
  /\ callback = "posted"
  /\ server = "gone"
  /\ \/ toClient = 0 /\ callback' = "none"
     \/ callback' = "crashed"
  /\ receives' = receives - 1
  /\ UNCHANGED <<ui, displays, connected, IsInfiniteTest, toServer, toClient,
                 serverVars, imageCounts>>

\* DisplayImg asks InvokeRequired each time.
CheckInvokeRequired ==
  /\ Running
  /\ callback = "check"
  /\ callback' = IF HandleCreated THEN "invoke" ELSE "direct"
  /\ UNCHANGED <<ui, displays, receives, connected, IsInfiniteTest, toServer,
                 toClient, serverVars, imageCounts>>

\* The same without the receive after the last control.
DisplayedAndStop(next) ==
  /\ displays' = displays - 1
  /\ callback' = IF displays = 1 THEN "none" ELSE next
  /\ shownImages' = IF displays = 1 THEN shownImages + 1 ELSE shownImages

\* One control shows the image; after the last the next receive is posted.
\* next is where the callback goes on when there is another control.
Displayed(next) ==
  /\ displays' = displays - 1
  /\ callback' = IF displays = 1 THEN "posted" ELSE next
  /\ shownImages' = IF displays = 1 THEN shownImages + 1 ELSE shownImages

\* A callback that asks InvokeRequired once for both controls.
DrawBothDirectly ==
  /\ Running
  /\ callback = "direct"
  /\ Displayed("direct")
  /\ strayDraws' = IF HandleCreated THEN strayDraws + 1 ELSE strayDraws
  /\ UNCHANGED <<ui, receives, connected, IsInfiniteTest, toServer, toClient,
                 serverVars, sentImages>>

\* The callback calls the delegate itself.
DrawDirectly ==
  /\ Running
  /\ callback = "direct"
  /\ Displayed("check")
  /\ strayDraws' = IF HandleCreated THEN strayDraws + 1 ELSE strayDraws
  /\ UNCHANGED <<ui, receives, connected, IsInfiniteTest, toServer, toClient,
                 serverVars, sentImages>>

\* The message loop runs the delegate the callback waits for.
RunInvoked ==
  /\ Running
  /\ callback = "invoke"
  /\ ui = "loop"
  /\ Displayed("check")
  /\ UNCHANGED <<ui, receives, connected, IsInfiniteTest, toServer, toClient,
                 serverVars, sentImages, strayDraws>>

Callback == ReceiveImage \/ ReceiveEnds \/ CheckInvokeRequired \/ DrawDirectly

-----------------------------------------------------------------------------
(* The server.  A connection waits in the backlog (queued) until it is     *)
(* accepted (serving).  When listening is stopped, a recv already waiting  *)
(* returns once more (stopping) and then nothing is read from the          *)
(* connection any more (stopped), but the console still sends to it.       *)

Accept ==
  /\ server = "queued"
  /\ server' = "serving"
  /\ UNCHANGED <<ui, callbackVars, connected, IsInfiniteTest, toServer,
                 toClient, console, imageCounts>>

\* A listener that answers a command with an image.
ServerAnswers ==
  /\ server = "serving"
  /\ toServer > 0
  /\ toClient < SocketRoom
  /\ toServer' = toServer - 1
  /\ toClient' = toClient + 1
  /\ UNCHANGED <<ui, callbackVars, connected, IsInfiniteTest, serverVars,
                 imageCounts>>

\* recv takes some or all of the commands there are; ReplyCommand only logs
\* them.
ServerReads ==
  /\ server \in {"serving", "stopping"}
  /\ toServer > 0
  /\ toServer' \in 0..(toServer - 1)
  /\ server' = IF server = "stopping" THEN "stopped" ELSE server
  /\ UNCHANGED <<ui, callbackVars, connected, IsInfiniteTest, toClient,
                 console, imageCounts>>

StopListen ==
  /\ console = "prompt"
  /\ \/ server = "serving" /\ server' \in {"stopping", "stopped"}
     \/ server = "queued" /\ server' = "stopped"
  /\ UNCHANGED <<ui, callbackVars, connected, IsInfiniteTest, toServer,
                 toClient, console, imageCounts>>

\* Test and TestJpeg go into SendData.
TestCommand ==
  /\ server \in {"serving", "stopping", "stopped"}
  /\ console = "prompt"
  /\ sentImages < MaxImages
  /\ console' = "send"
  /\ UNCHANGED <<ui, callbackVars, connected, IsInfiniteTest, toServer,
                 toClient, server, imageCounts>>

\* send returns when the kernels have taken the image, or fails.
ConsoleSendReturns ==
  /\ console = "send"
  /\ \/ /\ server # "gone"
        /\ toClient < SocketRoom
        /\ toClient' = toClient + 1
        /\ sentImages' = sentImages + 1
     \/ /\ server = "gone"
        /\ UNCHANGED <<toClient, sentImages>>
  /\ console' = "prompt"
  /\ UNCHANGED <<ui, callbackVars, connected, IsInfiniteTest, toServer,
                 server, shownImages, strayDraws>>

\* The server process ends.
ServerEnds ==
  /\ server \in {"queued", "serving", "stopping", "stopped"}
  /\ server' = "gone"
  /\ UNCHANGED <<ui, callbackVars, connected, IsInfiniteTest, toServer,
                 toClient, console, imageCounts>>

Ended == ~Running /\ UNCHANGED vars

Next ==
  \/ Construct \/ CreateHandle
  \/ ConnectClick \/ GrabClick \/ InfiniteClick \/ SendReturns \/ CloseWindow
  \/ Callback \/ RunInvoked
  \/ Accept \/ ServerReads \/ StopListen
  \/ TestCommand \/ ConsoleSendReturns \/ ServerEnds
  \/ Ended

Spec == Init /\ [][Next]_vars

\* Threads are scheduled.  A delegate posted by Invoke comes before clicks in
\* the message queue, so no series of clicks keeps it waiting for ever.
FairSpec ==
  /\ Spec
  /\ WF_vars(Construct) /\ WF_vars(CreateHandle)
  /\ WF_vars(Callback)
  /\ SF_vars(RunInvoked)
  /\ WF_vars(SendReturns)
  /\ WF_vars(ServerReads)
  /\ WF_vars(ConsoleSendReturns)

-----------------------------------------------------------------------------
(* Properties.                                                             *)

TypeOK ==
  /\ ui \in {"constructing", "starting", "loop", "send", "closed"}
  /\ callback \in {"none", "posted", "check", "direct", "invoke", "crashed"}
  /\ displays \in 0..2
  /\ receives \in Nat
  /\ connected \in BOOLEAN /\ IsInfiniteTest \in BOOLEAN
  /\ toServer \in 0..SocketRoom /\ toClient \in 0..SocketRoom
  /\ server \in {"none", "queued", "serving", "stopping", "stopped", "gone"}
  /\ console \in {"prompt", "send"}
  /\ sentImages \in 0..MaxImages /\ shownImages \in 0..MaxImages
  /\ strayDraws \in Nat

\* However often Connect is clicked, one receive at most is posted or being
\* handled, so no two callbacks share the state of the reassembly.
OneReceive == receives <= 1 /\ (receives = 0 <=> callback \in {"none", "crashed"})

\* The callback may draw without the UI thread while the form has no handle,
\* but at most one such drawing goes on into the life of the message loop.
OneStrayDraw == strayDraws <= 1

\* The UI thread is in Send, and the server reads nothing any more.
UiBlocked ==
  /\ ui = "send"
  /\ toServer = SocketRoom
  /\ server \in {"queued", "stopped"}

Gone == ~Running \/ server = "gone"

\* The UI thread comes back from Send as long as the server reads: neither
\* the callback waiting in Invoke nor the console waiting in send stops it.
SendComesBack == ui = "send" ~> (ui # "send" \/ server # "serving")

\* The console's send comes back unless the UI thread is blocked for ever.
ConsoleComesBack ==
  console = "send" ~> (console = "prompt" \/ Gone \/ []UiBlocked)

\* Every image sent is shown, unless the process ends or the UI thread is
\* blocked for ever.
EveryImageShown ==
  \A i \in 1..MaxImages :
    sentImages >= i ~> (shownImages >= i \/ ~Running \/ []UiBlocked)
=============================================================================
