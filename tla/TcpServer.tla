------------------------------ MODULE TcpServer ------------------------------
(***************************************************************************)
(* The image server: the listener thread (TcpServer::ListenFunction), the  *)
(* console thread (main, SendImage, TcpServer::SendData) and what they     *)
(* share: mIsListening, mClientFd and the descriptors of the process.      *)
(*                                                                         *)
(* A step is one access to shared state or one system call.  Descriptors   *)
(* are numbers the kernel hands out lowest first, as the code relies on    *)
(* mClientFd naming the connection it was stored for.  What the kernel and *)
(* the clients do is modelled as far as the server's calls can see it.     *)
(***************************************************************************)
EXTENDS Integers, Sequences, FiniteSets, FiniteSetsExt

CONSTANTS
  Clients,      \* client processes, each connects at most once
  Slots,        \* descriptors free when the server starts to listen
  Backlog,      \* the backlog passed to listen, 5 in the code
  NoClient      \* not a client

ASSUME SlotsAssumption == Slots \subseteq Nat \ {0} /\ IsFiniteSet(Slots)
ASSUME BacklogAssumption == Backlog \in Nat
ASSUME NoClientAssumption == NoClient \notin Clients
ASSUME ClientsAssumption == "free" \notin Clients /\ "image" \notin Clients

Stdin == 0      \* what mClientFd = 0 names before the first accept
NoFd == -1      \* what accept returns when it fails

VARIABLES
  \* shared by the threads
  mIsListening,
  mClientFd,
  files,        \* descriptor table: "free", "image" (the bmp), or a client
  \* the listener thread
  listener,     \* its place in ListenFunction
  acceptedFd,   \* what accept has returned, before it is stored
  \* the console thread
  console,      \* its place in main
  imageFd,      \* the descriptor of the bmp in MockGrabImage
  sendFd,       \* the argument of send, read from mClientFd
  \* the kernel and the clients
  listening,    \* listen has succeeded: connection requests are queued
  backlog,      \* the clients whose connections wait for accept
  client,       \* the state of each client's connection
  unread,       \* the clients with data the server has not read
  \* history
  serving,      \* the client accepted last
  reached,      \* who the last send gave an image to
  wasted,       \* an image has been sent in vain on the connection
  late          \* accepts and receives after StopListen

listenerVars == <<listener, acceptedFd>>
consoleVars == <<console, imageFd, sendFd>>
clientVars == <<backlog, client, unread>>
history == <<serving, reached, wasted, late>>
vars == <<mIsListening, mClientFd, files, listenerVars, consoleVars,
          listening, clientVars, history>>

-----------------------------------------------------------------------------
FreeFds == {fd \in Slots : files[fd] = "free"}

\* The client at the other end of descriptor fd, if fd is a connection.
Peer(fd) ==
  IF fd \in Slots /\ files[fd] \in Clients THEN files[fd] ELSE NoClient

Connections == {fd \in Slots : files[fd] \in Clients}

\* The atomic<bool> is not initialised by the constructor: either value.
Init ==
  /\ mIsListening \in BOOLEAN
  /\ mClientFd = Stdin
  /\ files = [fd \in Slots |-> "free"]
  /\ listener = "none"
  /\ acceptedFd = NoFd
  /\ console = "start"
  /\ imageFd = NoFd
  /\ sendFd = NoFd
  /\ listening = FALSE
  /\ backlog = <<>>
  /\ client = [c \in Clients |-> "off"]
  /\ unread = {}
  /\ serving = NoClient
  /\ reached = NoClient
  /\ wasted = FALSE
  /\ late = 0

-----------------------------------------------------------------------------
(* The console thread.                                                     *)

\* StartListen: the flag is set before the thread is made.
StartListen ==
  /\ console = "start"
  /\ ~mIsListening
  /\ mIsListening' = TRUE
  /\ listener' = "bind"
  /\ console' = "prompt"
  /\ UNCHANGED <<mClientFd, files, acceptedFd, imageFd, sendFd, listening,
                 clientVars, history>>

\* "Have a thread listening! Please STOP it!"
RefuseToListen ==
  /\ console = "start"
  /\ mIsListening
  /\ console' = "prompt"
  /\ UNCHANGED <<mIsListening, mClientFd, files, listenerVars, imageFd,
                 sendFd, listening, clientVars, history>>

\* CloseConnection: only the flag is cleared, nothing is closed or woken.
StopListen ==
  /\ console = "prompt"
  /\ mIsListening' = FALSE
  /\ UNCHANGED <<mClientFd, files, listenerVars, consoleVars, listening,
                 clientVars, history>>

\* Any other line is echoed.
OtherCommand == console = "prompt" /\ UNCHANGED vars

\* Test and TestJpeg: MockGrabImage opens the bmp ...
OpenImage ==
  /\ console = "prompt"
  /\ FreeFds # {}
  /\ imageFd' = Min(FreeFds)
  /\ files' = [files EXCEPT ![imageFd'] = "image"]
  /\ console' = "grab"
  /\ UNCHANGED <<mIsListening, mClientFd, listenerVars, sendFd, listening,
                 clientVars, history>>

\* ... or cannot open it, and makes an image up ...
NoImageFile ==
  /\ console = "prompt"
  /\ console' = "load"
  /\ UNCHANGED <<mIsListening, mClientFd, files, listenerVars, imageFd,
                 sendFd, listening, clientVars, history>>

\* ... and closes it again.
CloseImage ==
  /\ console = "grab"
  /\ files' = [files EXCEPT ![imageFd] = "free"]
  /\ imageFd' = NoFd
  /\ console' = "load"
  /\ UNCHANGED <<mIsListening, mClientFd, listenerVars, sendFd, listening,
                 clientVars, history>>

\* SendData reads mClientFd, which the listener may be writing: the plain
\* int is read before or after that write.
LoadClientFd ==
  /\ console = "load"
  /\ sendFd' = mClientFd
  /\ console' = "send"
  /\ UNCHANGED <<mIsListening, mClientFd, files, listenerVars, imageFd,
                 listening, clientVars, history>>

\* send on something that is not a connection: EBADF or ENOTSOCK.
SendFails ==
  /\ console = "send"
  /\ Peer(sendFd) = NoClient
  /\ reached' = NoClient
  /\ console' = "prompt"
  /\ UNCHANGED <<mIsListening, mClientFd, files, listenerVars, imageFd,
                 sendFd, listening, clientVars, serving, wasted, late>>

\* The image goes to a client that is there.
SendReaches ==
  /\ console = "send"
  /\ Peer(sendFd) # NoClient
  /\ client[Peer(sendFd)] = "connected"
  /\ reached' = Peer(sendFd)
  /\ console' = "prompt"
  /\ UNCHANGED <<mIsListening, mClientFd, files, listenerVars, imageFd,
                 sendFd, listening, clientVars, serving, wasted, late>>

\* The client has closed its end: send succeeds all the same, and what it
\* sends is answered by a reset.
SendIsLost ==
  /\ console = "send"
  /\ Peer(sendFd) # NoClient
  /\ client[Peer(sendFd)] \in {"closed", "refusing"}
  /\ client' = [client EXCEPT ![Peer(sendFd)] = "refusing"]
  /\ reached' = NoClient
  /\ wasted' = TRUE
  /\ console' = "prompt"
  /\ UNCHANGED <<mIsListening, mClientFd, files, listenerVars, imageFd,
                 sendFd, listening, backlog, unread, serving, late>>

\* The connection was reset under the server: send reports it once.
SendReportsReset ==
  /\ console = "send"
  /\ Peer(sendFd) # NoClient
  /\ client[Peer(sendFd)] = "reset"
  /\ client' = [client EXCEPT ![Peer(sendFd)] = "broken"]
  /\ reached' = NoClient
  /\ wasted' = TRUE
  /\ console' = "prompt"
  /\ UNCHANGED <<mIsListening, mClientFd, files, listenerVars, imageFd,
                 sendFd, listening, backlog, unread, serving, late>>

\* Without MSG_NOSIGNAL the next send raises SIGPIPE, which ends the process
\* and closes everything it has open.
SendKills ==
  /\ console = "send"
  /\ Peer(sendFd) # NoClient
  /\ client[Peer(sendFd)] = "broken"
  /\ console' = "killed"
  /\ listener' = "killed"
  /\ files' = [fd \in Slots |-> "free"]
  /\ listening' = FALSE
  /\ backlog' = <<>>
  /\ client' = [c \in Clients |->
       IF client[c] = "off" THEN "off" ELSE "broken"]
  /\ unread' = {}
  /\ reached' = NoClient
  /\ UNCHANGED <<mIsListening, mClientFd, acceptedFd, imageFd, sendFd,
                 serving, wasted, late>>

Console ==
  \/ StartListen \/ RefuseToListen
  \/ StopListen \/ OtherCommand
  \/ OpenImage \/ NoImageFile \/ CloseImage
  \/ LoadClientFd
  \/ SendFails \/ SendReaches \/ SendIsLost \/ SendReportsReset \/ SendKills

-----------------------------------------------------------------------------
(* The listener thread.                                                    *)

\* bind and listen succeed.
Bind ==
  /\ listener = "bind"
  /\ listening' = TRUE
  /\ listener' = "outer"
  /\ UNCHANGED <<mIsListening, mClientFd, files, acceptedFd, consoleVars,
                 clientVars, history>>

\* bind or listen fails: the thread gives up.
BindFails ==
  /\ listener = "bind"
  /\ mIsListening' = FALSE
  /\ listener' = "ended"
  /\ UNCHANGED <<mClientFd, files, acceptedFd, consoleVars, listening,
                 clientVars, history>>

\* The condition of the outer loop.
OuterTest ==
  /\ listener = "outer"
  /\ listener' = IF mIsListening THEN "accept" ELSE "ended"
  /\ UNCHANGED <<mIsListening, mClientFd, files, acceptedFd, consoleVars,
                 listening, clientVars, history>>

CountLate == late' = IF mIsListening THEN late ELSE late + 1

\* accept takes the connection that has waited longest.
Accept ==
  /\ listener = "accept"
  /\ backlog # <<>>
  /\ FreeFds # {}
  /\ acceptedFd' = Min(FreeFds)
  /\ files' = [files EXCEPT ![acceptedFd'] = Head(backlog)]
  /\ backlog' = Tail(backlog)
  /\ serving' = Head(backlog)
  /\ wasted' = FALSE
  /\ listener' = "store"
  /\ CountLate
  /\ UNCHANGED <<mIsListening, mClientFd, consoleVars, listening, client,
                 unread, reached>>

\* accept fails, for want of a descriptor or because the connection is gone.
AcceptFails ==
  /\ listener = "accept"
  /\ acceptedFd' = NoFd
  /\ listener' = "store"
  /\ UNCHANGED <<mIsListening, mClientFd, files, consoleVars, listening,
                 clientVars, history>>

\* A listener that keeps what accept returned to itself.
StoreNothing ==
  /\ listener = "store"
  /\ listener' = IF acceptedFd = NoFd THEN "failed" ELSE "inner"
  /\ UNCHANGED <<mIsListening, mClientFd, files, acceptedFd, consoleVars,
                 listening, clientVars, history>>

\* What accept returned is assigned to mClientFd.
StoreClientFd ==
  /\ listener = "store"
  /\ mClientFd' = acceptedFd
  /\ listener' = IF acceptedFd = NoFd THEN "failed" ELSE "inner"
  /\ UNCHANGED <<mIsListening, files, acceptedFd, consoleVars, listening,
                 clientVars, history>>

\* After a failed accept the thread gives up.
GiveUp ==
  /\ listener = "failed"
  /\ mIsListening' = FALSE
  /\ listener' = "ended"
  /\ UNCHANGED <<mClientFd, files, acceptedFd, consoleVars, listening,
                 clientVars, history>>

\* An inner loop without the condition.
InnerLoopForever ==
  /\ listener = "inner"
  /\ listener' = "recv"
  /\ UNCHANGED <<mIsListening, mClientFd, files, acceptedFd, consoleVars,
                 listening, clientVars, history>>

\* The condition of the inner loop.
InnerTest ==
  /\ listener = "inner"
  /\ listener' = IF mIsListening THEN "recv" ELSE "outer"
  /\ UNCHANGED <<mIsListening, mClientFd, files, acceptedFd, consoleVars,
                 listening, clientVars, history>>

\* A listener that leaves the inner loop after one package.
RecvOnce ==
  /\ listener = "recv"
  /\ Peer(mClientFd) \in unread
  /\ unread' = unread \ {Peer(mClientFd)}
  /\ listener' = "outer"
  /\ CountLate
  /\ UNCHANGED <<mIsListening, mClientFd, files, acceptedFd, consoleVars,
                 listening, backlog, client, serving, reached, wasted>>

\* recv returns data: whatever commands it holds, ReplyCommand only logs.
RecvData ==
  /\ listener = "recv"
  /\ Peer(mClientFd) \in unread
  /\ unread' = unread \ {Peer(mClientFd)}
  /\ listener' = "inner"
  /\ CountLate
  /\ UNCHANGED <<mIsListening, mClientFd, files, acceptedFd, consoleVars,
                 listening, backlog, client, serving, reached, wasted>>

\* A listener that takes no data for a package.
RecvEndsUnseen ==
  /\ listener = "recv"
  /\ Peer(mClientFd) \notin unread
  /\ Peer(mClientFd) # NoClient => client[Peer(mClientFd)] # "connected"
  /\ listener' = "inner"
  /\ UNCHANGED <<mIsListening, mClientFd, files, acceptedFd, consoleVars,
                 listening, clientVars, history>>

\* recv returns 0 or an error once nothing is unread and the client is gone;
\* an error it reports is reported to nobody else.
RecvEnds ==
  /\ listener = "recv"
  /\ Peer(mClientFd) \notin unread
  /\ Peer(mClientFd) # NoClient => client[Peer(mClientFd)] # "connected"
  /\ client' = [c \in Clients |->
       IF c = Peer(mClientFd) /\ client[c] = "reset" THEN "broken"
       ELSE client[c]]
  /\ listener' = "close"
  /\ UNCHANGED <<mIsListening, mClientFd, files, acceptedFd, consoleVars,
                 listening, backlog, unread, history>>

\* A listener that forgets close, or the break after it.
CloseNothing ==
  /\ listener = "close"
  /\ listener' = "outer"
  /\ UNCHANGED <<mIsListening, mClientFd, files, acceptedFd, consoleVars,
                 listening, clientVars, history>>

CloseClientAndStay ==
  /\ listener = "close"
  /\ files' = [files EXCEPT ![mClientFd] = "free"]
  /\ listener' = "inner"
  /\ UNCHANGED <<mIsListening, mClientFd, acceptedFd, consoleVars,
                 listening, clientVars, history>>

\* The connection is closed and the inner loop left; mClientFd stays as it is.
CloseClient ==
  /\ listener = "close"
  /\ files' = [files EXCEPT ![mClientFd] = "free"]
  /\ listener' = "outer"
  /\ UNCHANGED <<mIsListening, mClientFd, acceptedFd, consoleVars,
                 listening, clientVars, history>>

Listener ==
  \/ Bind \/ BindFails
  \/ OuterTest \/ Accept \/ AcceptFails \/ StoreClientFd \/ GiveUp
  \/ InnerTest \/ RecvData \/ RecvEnds \/ CloseClient

-----------------------------------------------------------------------------
(* The clients and the kernel.                                             *)

\* A listen without a backlog.
ConnectUnbounded(c) ==
  /\ client[c] = "off"
  /\ listening
  /\ client' = [client EXCEPT ![c] = "connected"]
  /\ backlog' = Append(backlog, c)
  /\ UNCHANGED <<mIsListening, mClientFd, files, listenerVars, consoleVars,
                 listening, unread, history>>

\* A connection is made by the kernel, whether or not accept is ever called.
Connect(c) ==
  /\ client[c] = "off"
  /\ listening
  /\ Len(backlog) <= Backlog
  /\ client' = [client EXCEPT ![c] = "connected"]
  /\ backlog' = Append(backlog, c)
  /\ UNCHANGED <<mIsListening, mClientFd, files, listenerVars, consoleVars,
                 listening, unread, history>>

\* The Grab button.
ClientSends(c) ==
  /\ client[c] = "connected"
  /\ unread' = unread \union {c}
  /\ UNCHANGED <<mIsListening, mClientFd, files, listenerVars, consoleVars,
                 listening, backlog, client, history>>

\* The client process ends: in order, or, with image data still unread, by
\* a reset.
ClientExits(c) ==
  /\ client[c] = "connected"
  /\ \E end \in {"closed", "reset"} : client' = [client EXCEPT ![c] = end]
  /\ UNCHANGED <<mIsListening, mClientFd, files, listenerVars, consoleVars,
                 listening, backlog, unread, history>>

\* The answer to an image sent to a client that had closed.
ResetArrives(c) ==
  /\ client[c] = "refusing"
  /\ client' = [client EXCEPT ![c] = "broken"]
  /\ UNCHANGED <<mIsListening, mClientFd, files, listenerVars, consoleVars,
                 listening, backlog, unread, history>>

\* The process is gone.
Killed == console = "killed" /\ UNCHANGED vars

Next ==
  \/ Console
  \/ Listener
  \/ \E c \in Clients :
       Connect(c) \/ ClientSends(c) \/ ClientExits(c) \/ ResetArrives(c)
  \/ Killed

Spec == Init /\ [][Next]_vars

\* The listener thread is scheduled; users and networks promise nothing.
FairSpec == Spec /\ WF_vars(Listener)

-----------------------------------------------------------------------------
(* Properties.                                                             *)

TypeOK ==
  /\ mIsListening \in BOOLEAN
  /\ mClientFd \in Slots \union {Stdin, NoFd}
  /\ files \in [Slots -> Clients \union {"free", "image"}]
  /\ listener \in {"none", "bind", "outer", "accept", "store", "failed",
                   "inner", "recv", "close", "ended", "killed"}
  /\ acceptedFd \in Slots \union {NoFd}
  /\ console \in {"start", "prompt", "grab", "load", "send", "killed"}
  /\ imageFd \in Slots \union {NoFd}
  /\ sendFd \in Slots \union {Stdin, NoFd}
  /\ listening \in BOOLEAN
  /\ backlog \in Seq(Clients) /\ Len(backlog) <= Backlog + 1
  /\ client \in [Clients -> {"off", "connected", "closed", "refusing",
                             "reset", "broken"}]
  /\ unread \subseteq Clients
  /\ serving \in Clients \union {NoClient}
  /\ reached \in Clients \union {NoClient}
  /\ wasted \in BOOLEAN
  /\ late \in Nat

\* However often clients come and go, and whenever StopListen comes between,
\* at most one connection is open: no descriptor is leaked.
OneConnectionOpen == Cardinality(Connections) <= 1

\* An image goes to the client accepted last or to nobody, although SendData
\* reads mClientFd without a lock and descriptors are used again.
ImagesGoToCurrentClient ==
  [][reached' # reached => reached' \in {serving, NoClient}]_vars

\* StopListen wakes nobody up, but after it the listener thread accepts one
\* connection or receives one package at most.
OneLateEvent == late <= 1

\* The thread is in recv or closing exactly on the connection it accepted
\* last, so it never reads from or closes the console's bmp.
ListenerOwnsConnection ==
  listener \in {"inner", "recv", "close"} => Peer(mClientFd) = serving

\* Once accept's result is stored the open connection is the one SendData
\* uses, and it is the newest: an image is refused (EBADF, ENOTSOCK) while a
\* client is connected only if accept came between its two steps.
OpenConnectionUsed ==
  \A fd \in Connections :
    /\ files[fd] = serving
    /\ listener # "store" => fd = mClientFd

\* SIGPIPE never comes without a warning: the process is ended by an image
\* for a client that has gone only when another image has been wasted on the
\* same connection, or between the recv that reports the end and the close.
SigpipeAfterWarning ==
  [][console # "killed" /\ console' = "killed"
       => wasted \/ listener = "close"]_vars

\* The server keeps the promise of OneAtATime: the connection that is open is
\* that of the client being served.
CurrentClient == IF Connections = {} THEN NoClient ELSE serving

Service == INSTANCE OneAtATime WITH
  arrived <- {c \in Clients : client[c] # "off"},
  queue <- backlog,
  current <- CurrentClient

ServesOneAtATime == Service!Spec

Waiting(c) == \E i \in DOMAIN backlog : backlog[i] = c

\* A client that stays connected keeps all others waiting.
Held == \E fd \in Connections : client[files[fd]] = "connected"

ListenerStopped == ~mIsListening \/ listener = "killed"

\* A client that waits is accepted in the end, unless listening is stopped
\* or from some time on another client is always connected.
WaitingClientServed ==
  \A c \in Clients :
    Waiting(c) ~> (~Waiting(c) \/ ListenerStopped \/ []Held)

\* When the client of a connection has gone the connection is closed, unless
\* listening is stopped (then it may stay open for ever).
LostConnectionClosed ==
  \A c \in Clients :
    (\E fd \in Connections : files[fd] = c /\ client[c] # "connected")
      ~> ((\A fd \in Connections : files[fd] # c) \/ ListenerStopped)

\* What the message of StartListen says when it refuses: "Have a thread
\* listening! Please STOP it!".
RefusedOnlyWhenListening == [][RefuseToListen => listener # "none"]_vars
=============================================================================
