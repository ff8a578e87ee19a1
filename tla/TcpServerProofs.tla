---------------------------- MODULE TcpServerProofs ----------------------------
(***************************************************************************)
(* Proofs about TcpServer, for any clients, any descriptors and any        *)
(* backlog.                                                                *)
(***************************************************************************)
EXTENDS TcpServer, WellFoundedInduction, FiniteSetTheorems, TLAPS

-----------------------------------------------------------------------------
(* The lowest free descriptor.                                             *)

\* The kernel finds a descriptor as long as one is free.
LEMMA LowestIsFree ==
  ASSUME FreeFds # {}
  PROVE  Min(FreeFds) \in FreeFds
<1>1. FreeFds \subseteq Nat
  BY SlotsAssumption DEF FreeFds
<1>2. \E x \in FreeFds : \A y \in FreeFds : <<y, x>> \notin OpToRel(<, Nat)
  BY <1>1, WFMin, NatLessThanWellFounded, Zenon
<1>3. PICK x \in FreeFds : \A y \in FreeFds : <<y, x>> \notin OpToRel(<, Nat)
  BY <1>2
<1>4. \A y \in FreeFds : x =< y
  <2> TAKE y \in FreeFds
  <2>1. x \in Nat /\ y \in Nat
    BY <1>1
  <2>2. ~ (y < x)
    BY <1>3, <2>1 DEF OpToRel
  <2> QED
    BY <2>1, <2>2
<1> QED
  BY <1>4 DEF Min

\* What the steps need to know of the queue of connections.
LEMMA QueueTail ==
  ASSUME NEW S, NEW q \in Seq(S), q # <<>>
  PROVE  /\ Tail(q) \in Seq(S) /\ Len(Tail(q)) = Len(q) - 1
         /\ 1 \in DOMAIN q /\ Head(q) = q[1] /\ Head(q) \in S
         /\ \A i \in DOMAIN Tail(q) :
              i \in Nat /\ i + 1 \in DOMAIN q /\ i + 1 # 1 /\ Tail(q)[i] = q[i + 1]
<1>1. Len(q) \in Nat /\ DOMAIN q = 1 .. Len(q) /\ Len(q) > 0
  OBVIOUS
<1>2. Tail(q) \in Seq(S) /\ Len(Tail(q)) = Len(q) - 1
  OBVIOUS
<1>3. DOMAIN Tail(q) = 1 .. (Len(q) - 1)
  BY <1>1, <1>2
<1> QED
  BY <1>1, <1>2, <1>3

LEMMA QueueAppend ==
  ASSUME NEW S, NEW q \in Seq(S), NEW c \in S
  PROVE  /\ Append(q, c) \in Seq(S) /\ Len(Append(q, c)) = Len(q) + 1
         /\ \A i \in DOMAIN Append(q, c) :
              \/ i \in DOMAIN q /\ Append(q, c)[i] = q[i]
              \/ i = Len(q) + 1 /\ Append(q, c)[i] = c
  OBVIOUS

-----------------------------------------------------------------------------
(* The inductive invariant.                                                *)

\* A connection is that of the client accepted last, on the descriptor that
\* accept returned, and there is none when the next accept is called.
ConnectionOwned ==
  \A fd \in Slots : files[fd] \in Clients =>
    /\ files[fd] = serving
    /\ fd = IF listener = "store" THEN acceptedFd ELSE mClientFd
    /\ listener \notin {"none", "bind", "accept", "failed", "killed"}
    /\ listener = "outer" => ~mIsListening

\* While the listener is busy with a connection it is open.
ConnectionHeld ==
  /\ listener \in {"inner", "recv", "close"}
       => mClientFd \in Slots /\ files[mClientFd] \in Clients
  /\ listener = "store" /\ acceptedFd # NoFd
       => acceptedFd \in Slots /\ files[acceptedFd] \in Clients

\* The bmp is open while it is read.
ImageHeld == console = "grab" => imageFd \in Slots /\ files[imageFd] = "image"

\* The listener is made by the first command only, so that the flag is never
\* set again.
ListenerMadeOnce == console = "start" => listener = "none"

\* After its late event the listener is on its way out.
LateOnce ==
  \/ late = 0
  \/ /\ late = 1
     /\ ~mIsListening
     /\ listener \in {"store", "failed", "inner", "outer", "ended", "killed"}

\* Those who wait are different, have not been served, and have not been
\* sent anything.
QueueFresh ==
  /\ serving \in Clients => client[serving] # "off"
  /\ \A i \in DOMAIN backlog :
       /\ client[backlog[i]] \in {"connected", "closed", "reset"}
       /\ backlog[i] # serving
       /\ \A j \in DOMAIN backlog : backlog[i] = backlog[j] => i = j

\* A connection on which the next image is answered by a reset or by SIGPIPE
\* has had one already, or the listener is about to close it.
WarningGiven ==
  \A fd \in Slots : files[fd] \in Clients =>
    /\ client[files[fd]] = "refusing" => wasted
    /\ client[files[fd]] = "broken" => wasted \/ listener = "close"

IInv ==
  /\ TypeOK
  /\ ConnectionOwned
  /\ ConnectionHeld
  /\ ImageHeld
  /\ ListenerMadeOnce
  /\ LateOnce
  /\ QueueFresh
  /\ WarningGiven

LEMMA InitIInv == Init => IInv
<1> SUFFICES ASSUME Init PROVE IInv
  OBVIOUS
<1> USE DEF Init
<1> USE ClientsAssumption, NoClientAssumption, SlotsAssumption, BacklogAssumption
<1>1. TypeOK
  <2>1. mIsListening \in BOOLEAN /\ wasted \in BOOLEAN /\ listening \in BOOLEAN
    BY Zenon
  <2> QED
    BY <2>1 DEF TypeOK
<1> QED
  BY <1>1 DEF IInv, ConnectionOwned, ConnectionHeld, ImageHeld, ListenerMadeOnce,
     LateOnce, QueueFresh, WarningGiven

-----------------------------------------------------------------------------
LEMMA NextIInv == IInv /\ [Next]_vars => IInv'
<1> SUFFICES ASSUME IInv, [Next]_vars PROVE IInv'
  OBVIOUS
<1> USE SlotsAssumption, BacklogAssumption, NoClientAssumption, ClientsAssumption
<1> USE DEF IInv, TypeOK, ConnectionOwned, ConnectionHeld, ImageHeld,
            ListenerMadeOnce, LateOnce, QueueFresh, WarningGiven,
            listenerVars, consoleVars, clientVars, history, Stdin, NoFd
<1>1. CASE StartListen
  BY <1>1 DEF StartListen
<1>2. CASE RefuseToListen
  BY <1>2 DEF RefuseToListen
<1>3. CASE StopListen
  <2>1. mIsListening' \in BOOLEAN /\ ~mIsListening'
    BY <1>3, Zenon DEF StopListen
  <2> QED
    BY <1>3, <2>1 DEF StopListen
<1>4. CASE OtherCommand
  BY <1>4 DEF OtherCommand, vars
<1>5. CASE OpenImage
  BY <1>5, LowestIsFree DEF OpenImage, FreeFds
<1>6. CASE NoImageFile
  BY <1>6 DEF NoImageFile
<1>7. CASE CloseImage
  BY <1>7 DEF CloseImage
<1>8. CASE LoadClientFd
  BY <1>8 DEF LoadClientFd
<1>9. CASE SendFails
  BY <1>9 DEF SendFails, Peer
<1>10. CASE SendReaches
  BY <1>10 DEF SendReaches, Peer
<1>11. CASE SendIsLost
  BY <1>11 DEF SendIsLost, Peer
<1>12. CASE SendReportsReset
  BY <1>12 DEF SendReportsReset, Peer
<1>13. CASE SendKills
  <2> USE <1>13 DEF SendKills, Peer
  <2>1. files' \in [Slots -> Clients \union {"free", "image"}]
        /\ \A fd \in Slots : files'[fd] \notin Clients
    OBVIOUS
  <2>2. client' \in [Clients -> {"off", "connected", "closed", "refusing",
                                "reset", "broken"}]
        /\ \A c \in Clients : client[c] # "off" => client'[c] # "off"
    OBVIOUS
  <2>3. backlog' \in Seq(Clients) /\ Len(backlog') = 0 /\ DOMAIN backlog' = {}
    OBVIOUS
  <2>4. TypeOK'
    <3>1. listening' \in BOOLEAN
      BY Zenon
    <3>2. Len(backlog') <= Backlog + 1
      BY <2>3
    <3> QED
      BY <2>1, <2>2, <2>3, <3>1, <3>2
  <2>5. (ConnectionOwned /\ ConnectionHeld /\ WarningGiven)'
    BY <2>1
  <2>6. (ImageHeld /\ ListenerMadeOnce /\ LateOnce)'
    OBVIOUS
  <2>7. QueueFresh'
    BY <2>2, <2>3
  <2> QED
    BY <2>4, <2>5, <2>6, <2>7
<1>14. CASE Bind
  BY <1>14 DEF Bind
<1>15. CASE BindFails
  <2>1. mIsListening' \in BOOLEAN /\ ~mIsListening'
    BY <1>15, Zenon DEF BindFails
  <2> QED
    BY <1>15, <2>1 DEF BindFails
<1>16. CASE OuterTest
  BY <1>16 DEF OuterTest
<1>17. CASE Accept
  <2> USE <1>17 DEF Accept
  <2> DEFINE fd0 == Min(FreeFds)
             c0 == Head(backlog)
  <2>1. fd0 \in Slots /\ files[fd0] = "free"
    BY LowestIsFree DEF FreeFds
  <2>2. /\ Tail(backlog) \in Seq(Clients) /\ Len(Tail(backlog)) = Len(backlog) - 1
        /\ 1 \in DOMAIN backlog /\ c0 = backlog[1] /\ c0 \in Clients
        /\ \A i \in DOMAIN Tail(backlog) :
             /\ i \in Nat /\ i + 1 \in DOMAIN backlog /\ i + 1 # 1
             /\ Tail(backlog)[i] = backlog[i + 1]
    BY QueueTail
  <2>3. acceptedFd' = fd0 /\ files' = [files EXCEPT ![fd0] = c0] /\ serving' = c0
    OBVIOUS
  <2> HIDE DEF fd0, c0
  <2>4. \A fd \in Slots : files[fd] \notin Clients
    OBVIOUS
  <2>5. \A fd \in Slots : files'[fd] \in Clients <=> fd = fd0
    BY <2>1, <2>2, <2>3, <2>4
  <2>6. TypeOK'
    <3>1. late' \in Nat
      BY DEF CountLate
    <3>2. wasted' \in BOOLEAN
      BY Zenon
    <3> QED
      BY <2>1, <2>2, <2>3, <3>1, <3>2
  <2>7. (ConnectionOwned /\ ConnectionHeld)'
    BY <2>1, <2>2, <2>3, <2>5
  <2>8. ImageHeld'
    BY <2>1, <2>3
  <2>9. (ListenerMadeOnce /\ LateOnce)'
    BY DEF CountLate
  <2>10. QueueFresh'
    BY <2>2, <2>3, SMTT(30)
  <2>11. WarningGiven'
    <3>1. client'[c0] \notin {"refusing", "broken"}
      BY <2>2
    <3> QED
      BY <2>1, <2>3, <2>5, <3>1
  <2> QED
    BY <2>6, <2>7, <2>8, <2>9, <2>10, <2>11
<1>18. CASE AcceptFails
  BY <1>18 DEF AcceptFails
<1>19. CASE StoreClientFd
  BY <1>19 DEF StoreClientFd
<1>20. CASE GiveUp
  <2>1. mIsListening' \in BOOLEAN /\ ~mIsListening'
    BY <1>20, Zenon DEF GiveUp
  <2> QED
    BY <1>20, <2>1 DEF GiveUp
<1>21. CASE InnerTest
  BY <1>21 DEF InnerTest
<1>22. CASE RecvData
  BY <1>22 DEF RecvData, CountLate, Peer
<1>23. CASE RecvEnds
  BY <1>23 DEF RecvEnds, Peer
<1>24. CASE CloseClient
  BY <1>24 DEF CloseClient
<1>25. ASSUME NEW c \in Clients, Connect(c) PROVE IInv'
  <2>1. /\ backlog' \in Seq(Clients) /\ Len(backlog') = Len(backlog) + 1
        /\ \A i \in DOMAIN backlog' :
             \/ i \in DOMAIN backlog /\ backlog'[i] = backlog[i]
             \/ i = Len(backlog) + 1 /\ backlog'[i] = c
    BY <1>25, QueueAppend DEF Connect, TypeOK
  <2>2. TypeOK'
    BY <1>25, <2>1 DEF Connect
  <2>3. (ConnectionOwned /\ ConnectionHeld /\ ImageHeld /\ ListenerMadeOnce
         /\ LateOnce)'
    BY <1>25 DEF Connect
  <2>4. \A i \in DOMAIN backlog : backlog[i] # c
    BY <1>25 DEF Connect
  <2>5. QueueFresh'
    <3>1. serving # c
      BY <1>25 DEF Connect
    <3> QED
      BY <1>25, <2>1, <2>4, <3>1 DEF Connect
  <2>6. WarningGiven'
    BY <1>25 DEF Connect
  <2> QED
    BY <2>2, <2>3, <2>5, <2>6
<1>26. ASSUME NEW c \in Clients, ClientSends(c) PROVE IInv'
  BY <1>26 DEF ClientSends
<1>27. ASSUME NEW c \in Clients, ClientExits(c) PROVE IInv'
  BY <1>27 DEF ClientExits
<1>28. ASSUME NEW c \in Clients, ResetArrives(c) PROVE IInv'
  BY <1>28 DEF ResetArrives
<1>29. CASE Killed \/ UNCHANGED vars
  BY <1>29 DEF Killed, vars
<1> QED
  BY <1>1, <1>2, <1>3, <1>4, <1>5, <1>6, <1>7, <1>8, <1>9, <1>10, <1>11, <1>12, <1>13, <1>14, <1>15, <1>16, <1>17, <1>18, <1>19, <1>20, <1>21, <1>22, <1>23, <1>24, <1>25, <1>26, <1>27, <1>28, <1>29
  DEF Next, Console, Listener

\* The invariant holds of every reachable state.
THEOREM ServerInvariant == Spec => []IInv
<1>1. Init => IInv
  BY InitIInv
<1>2. IInv /\ [Next]_vars => IInv'
  BY NextIInv
<1> QED
  BY <1>1, <1>2, PTL DEF Spec

-----------------------------------------------------------------------------
\* Type correctness; in particular the backlog never overflows and mClientFd
\* is a descriptor, standard input or -1.
THEOREM ServerTypeCorrect == Spec => []TypeOK
<1>1. IInv => TypeOK
  BY DEF IInv
<1> QED
  BY <1>1, ServerInvariant, PTL

\* No descriptor is leaked, however many clients come and go.
THEOREM NoDescriptorLeaked == Spec => []OneConnectionOpen
<1>1. IInv => OneConnectionOpen
  <2> SUFFICES ASSUME IInv PROVE Cardinality(Connections) <= 1
    BY DEF OneConnectionOpen
  <2>1. CASE Connections = {}
    BY <2>1, FS_EmptySet
  <2>2. CASE Connections # {}
    <3>1. PICK fd : fd \in Connections
      BY <2>2
    <3>2. Connections = {fd}
      BY <3>1 DEF IInv, ConnectionOwned, Connections
    <3>3. Cardinality(Connections) = 1
      BY <3>2, FS_Singleton
    <3> QED
      BY <3>3
  <2> QED
    BY <2>1, <2>2
<1> QED
  BY <1>1, ServerInvariant, PTL

\* After StopListen at most one more connection is accepted or package read.
THEOREM StopTakesEffect == Spec => []OneLateEvent
<1>1. IInv => OneLateEvent
  BY DEF IInv, LateOnce, OneLateEvent
<1> QED
  BY <1>1, ServerInvariant, PTL

\* recv and close are called on the connection accepted last, never on
\* standard input, -1, or the descriptor of the bmp.
THEOREM ListenerKeepsToConnection == Spec => []ListenerOwnsConnection
<1>1. IInv => ListenerOwnsConnection
  BY DEF IInv, ConnectionOwned, ConnectionHeld, ListenerOwnsConnection, Peer
<1> QED
  BY <1>1, ServerInvariant, PTL

\* What is open is the connection SendData uses, unless it has not been
\* stored yet.
THEOREM ConnectionIsUsed == Spec => []OpenConnectionUsed
<1>1. IInv => OpenConnectionUsed
  BY DEF IInv, ConnectionOwned, OpenConnectionUsed, Connections
<1> QED
  BY <1>1, ServerInvariant, PTL

-----------------------------------------------------------------------------
(* Properties of steps.                                                    *)

LEMMA PeerIsServing ==
  ASSUME IInv, NEW fd, Peer(fd) # NoClient
  PROVE  /\ fd \in Slots /\ files[fd] \in Clients
         /\ Peer(fd) = files[fd] /\ Peer(fd) = serving
  BY DEF IInv, ConnectionOwned, Peer

\* An image never goes to a client other than the one accepted last.
THEOREM ImagesGoRight == Spec => ImagesGoToCurrentClient
<1>1. IInv /\ [Next]_vars => [reached' # reached => reached' \in {serving, NoClient}]_vars
  <2> SUFFICES ASSUME IInv, Next, reached' # reached
               PROVE  reached' \in {serving, NoClient}
    OBVIOUS
  <2>1. CASE SendReaches
    BY <2>1, PeerIsServing DEF SendReaches
  <2>2. CASE SendFails \/ SendIsLost \/ SendReportsReset \/ SendKills
    BY <2>2 DEF SendFails, SendIsLost, SendReportsReset, SendKills
  <2> QED
    BY <2>1, <2>2 DEF Next, Console, Listener, StartListen, RefuseToListen,
       StopListen, OtherCommand, OpenImage, NoImageFile, CloseImage,
       LoadClientFd, Bind, BindFails, OuterTest, Accept, AcceptFails,
       StoreClientFd, GiveUp, InnerTest, RecvData, RecvEnds, CloseClient,
       Connect, ClientSends, ClientExits, ResetArrives, Killed, vars, history
<1> QED
  BY <1>1, ServerInvariant, PTL DEF Spec, ImagesGoToCurrentClient

\* SIGPIPE comes after a wasted image, or between recv and close.
THEOREM SigpipeIsAnnounced == Spec => SigpipeAfterWarning
<1>1. IInv /\ [Next]_vars => [console # "killed" /\ console' = "killed"
                                => wasted \/ listener = "close"]_vars
  <2> SUFFICES ASSUME IInv, Next, console # "killed", console' = "killed"
               PROVE  wasted \/ listener = "close"
    OBVIOUS
  <2>1. SendKills
    BY DEF Next, Console, Listener, StartListen, RefuseToListen,
       StopListen, OtherCommand, OpenImage, NoImageFile, CloseImage,
       LoadClientFd, SendFails, SendReaches, SendIsLost, SendReportsReset,
       Bind, BindFails, OuterTest, Accept, AcceptFails,
       StoreClientFd, GiveUp, InnerTest, RecvData, RecvEnds, CloseClient,
       Connect, ClientSends, ClientExits, ResetArrives, Killed, vars, consoleVars
  <2> QED
    BY <2>1, PeerIsServing DEF SendKills, IInv, WarningGiven
<1> QED
  BY <1>1, ServerInvariant, PTL DEF Spec, SigpipeAfterWarning

-----------------------------------------------------------------------------
(* The server implements OneAtATime.                                       *)

Arrived == {c \in Clients : client[c] # "off"}

LEMMA CurrentIsServing ==
  ASSUME IInv
  PROVE  /\ (\A fd \in Slots : files[fd] \notin Clients) => CurrentClient = NoClient
         /\ \A fd \in Slots : files[fd] \in Clients
              => CurrentClient = serving /\ serving \in Clients
  BY DEF IInv, ConnectionOwned, CurrentClient, Connections

\* A step that neither opens nor closes a connection nor begins one keeps
\* the current client.
LEMMA SameCurrent ==
  ASSUME serving' = serving, Connections' = Connections
  PROVE  CurrentClient' = CurrentClient
  BY DEF CurrentClient

LEMMA StepImplements ==
  ASSUME IInv, IInv', [Next]_vars
  PROVE  [Service!Next]_(Service!vars)
<1> USE NoClientAssumption, ClientsAssumption
<1> DEFINE Stutters == /\ Arrived' = Arrived
                       /\ UNCHANGED <<backlog, CurrentClient, reached>>
<1>a. Stutters => UNCHANGED Service!vars
  BY DEF Service!vars, Arrived
<1>b. ASSUME UNCHANGED <<files, serving, client, backlog, reached>> PROVE Stutters
  BY <1>b, SameCurrent DEF Connections, Arrived
<1> HIDE DEF Stutters
<1>1. CASE UNCHANGED <<files, serving, client, backlog, reached>>
  BY <1>1, <1>a, <1>b
<1>2. CASE OpenImage \/ CloseImage
  <2>1. Connections' = Connections
    <3>1. CASE OpenImage
      BY <3>1, LowestIsFree DEF OpenImage, FreeFds, Connections, IInv, TypeOK
    <3>2. CASE CloseImage
      BY <3>2 DEF CloseImage, Connections, IInv, TypeOK, ImageHeld
    <3> QED
      BY <1>2, <3>1, <3>2
  <2>2. UNCHANGED <<serving, client, backlog, reached>>
    BY <1>2 DEF OpenImage, CloseImage, clientVars, history
  <2>3. Stutters
    BY <2>1, <2>2, SameCurrent DEF Arrived, Stutters
  <2> QED
    BY <2>3, <1>a
<1>3. CASE SendFails \/ SendReaches \/ SendIsLost \/ SendReportsReset
  <2>1. UNCHANGED <<files, serving, backlog>> /\ Arrived' = Arrived
    BY <1>3, PeerIsServing DEF SendFails, SendReaches, SendIsLost, SendReportsReset,
       clientVars, Arrived, IInv, TypeOK
  <2>2. CurrentClient' = CurrentClient
    BY <2>1, SameCurrent DEF Connections
  <2>3. reached' \in {CurrentClient, NoClient}
    BY <1>3, PeerIsServing, CurrentIsServing
    DEF SendFails, SendReaches, SendIsLost, SendReportsReset
  <2>4. Service!SendImage
    BY <2>1, <2>2, <2>3 DEF Service!SendImage, Arrived
  <2> QED
    BY <2>4 DEF Service!Next
<1>4. CASE SendKills
  <2>1. CurrentClient' = NoClient /\ Arrived' = Arrived
    BY <1>4 DEF SendKills, CurrentClient, Connections, Arrived, IInv, TypeOK
  <2>2. Service!ShutDown
    BY <1>4, <2>1 DEF SendKills, Service!ShutDown, Arrived
  <2> QED
    BY <2>2 DEF Service!Next
<1>5. CASE Accept
  <2>1. Head(backlog) \in Clients
    BY <1>5, QueueTail DEF Accept, IInv, TypeOK
  <2>2. Min(FreeFds) \in Slots
    BY <1>5, LowestIsFree DEF Accept, FreeFds
  <2>3. CurrentClient = NoClient
    BY <1>5, CurrentIsServing DEF Accept, IInv, ConnectionOwned
  <2>4. files'[Min(FreeFds)] \in Clients
    BY <1>5, <2>1, <2>2 DEF Accept, IInv, TypeOK
  <2>5. Connections' # {}
    BY <2>2, <2>4 DEF Connections
  <2>6. CurrentClient' = Head(backlog)
    BY <1>5, <2>5 DEF CurrentClient, Accept
  <2>7. Service!Begin
    BY <1>5, <2>3, <2>6 DEF Accept, Service!Begin
  <2> QED
    BY <2>7 DEF Service!Next
<1>6. CASE CloseClient
  <2>1. CurrentClient # NoClient
    BY <1>6, CurrentIsServing DEF CloseClient, IInv, ConnectionHeld
  <2>2. \A fd \in Slots : files'[fd] \notin Clients
    BY <1>6 DEF CloseClient, IInv, TypeOK, ConnectionOwned
  <2>3. CurrentClient' = NoClient
    BY <2>2 DEF CurrentClient, Connections
  <2>4. Service!End
    BY <1>6, <2>1, <2>3 DEF CloseClient, Service!End, clientVars, history
  <2> QED
    BY <2>4 DEF Service!Next
<1>7. CASE RecvEnds
  <2>1. UNCHANGED <<files, serving, backlog, reached>> /\ Arrived' = Arrived
    BY <1>7 DEF RecvEnds, history, Arrived, IInv, TypeOK
  <2>2. Stutters
    BY <2>1, SameCurrent DEF Connections, Stutters
  <2> QED
    BY <2>2, <1>a
<1>8. ASSUME NEW c \in Clients, Connect(c) PROVE Service!Arrive(c)
  <2>1. Arrived' = Arrived \union {c} /\ c \notin Arrived
    BY <1>8 DEF Connect, Arrived, IInv, TypeOK
  <2>2. UNCHANGED <<files, serving, reached>> /\ backlog' = Append(backlog, c)
    BY <1>8 DEF Connect, history
  <2>3. CurrentClient' = CurrentClient
    BY <2>2, SameCurrent DEF Connections
  <2> QED
    BY <2>1, <2>2, <2>3 DEF Service!Arrive, Arrived
<1>9. ASSUME NEW c \in Clients, ClientExits(c) \/ ResetArrives(c)
      PROVE  UNCHANGED Service!vars
  <2>1. UNCHANGED <<files, serving, backlog, reached>> /\ Arrived' = Arrived
    BY <1>9 DEF ClientExits, ResetArrives, history, Arrived, IInv, TypeOK
  <2>2. Stutters
    BY <2>1, SameCurrent DEF Connections, Stutters
  <2> QED
    BY <2>2, <1>a
<1>10. \A c \in Clients : Service!Arrive(c) => Service!Next
  BY DEF Service!Next
<1>11. ASSUME NEW c \in Clients, ClientSends(c)
       PROVE  UNCHANGED <<files, serving, client, backlog, reached>>
  BY <1>11 DEF ClientSends, history
<1>12. CASE StartListen \/ RefuseToListen \/ StopListen \/ OtherCommand
         \/ NoImageFile \/ LoadClientFd \/ Bind \/ BindFails \/ OuterTest
         \/ AcceptFails \/ StoreClientFd \/ GiveUp \/ InnerTest \/ RecvData
         \/ Killed \/ UNCHANGED vars
  BY <1>12, <1>1 DEF StartListen, RefuseToListen, StopListen, OtherCommand,
     NoImageFile, LoadClientFd, Bind, BindFails, OuterTest, AcceptFails,
     StoreClientFd, GiveUp, InnerTest, RecvData, Killed, vars, clientVars, history
<1> QED
  BY <1>1, <1>2, <1>3, <1>4, <1>5, <1>6, <1>7, <1>8, <1>9, <1>10, <1>11, <1>12
  DEF Next, Console, Listener

\* Clients are served one at a time, each once, in the order they came, and
\* images go to the one being served: TcpServer implements OneAtATime.
THEOREM ImplementsOneAtATime == Spec => ServesOneAtATime
<1>1. Init => Service!Init
  BY DEF Init, Service!Init, CurrentClient, Connections
<1>2. IInv /\ IInv' /\ [Next]_vars => [Service!Next]_(Service!vars)
  BY StepImplements
<1> QED
  BY <1>1, <1>2, ServerInvariant, PTL DEF Spec, ServesOneAtATime, Service!Spec
=============================================================================
