-------------------------- MODULE TcpSenderProofs --------------------------
(***************************************************************************)
(* Proofs about TcpSender, for any number of clients, frames and           *)
(* descriptors.                                                            *)
(*                                                                         *)
(* The argument is a count.  A thread removes at most one client, and only *)
(* after it has run; so as long as one thread has not, fewer clients have  *)
(* been removed than were accepted, whoever removed whom.                  *)
(***************************************************************************)
EXTENDS TcpSender, FiniteSetTheorems, TLAPS

\* The threads that have removed the client they watched.
Past == {t \in Client : tpc[t] \in {"check", "clear", "done"}}

\* One thread for each client up to the last accepted; the last one may not
\* be there yet.
Spawned ==
  /\ accepted <= arrived
  /\ \A c \in Client : c > accepted => tpc[c] = "none"
  /\ acc \in {"connect", "greet", "spawn"} =>
       accepted \in Client /\ tpc[accepted] = "none"

\* A thread that has started watches an accepted client, and one that is past
\* recv() one that has left.
Watching ==
  /\ \A t \in Client : tpc[t] \notin {"none", "start"} => watch[t] \in 1..accepted
  /\ \A t \in Client :
       tpc[t] \in {"remove", "check", "clear", "done"} => peer[watch[t]] = "closed"

\* What is missing from the list was removed by a thread that watched it.
Listed ==
  /\ clients \subseteq 1..accepted
  /\ \A c \in 1..accepted : c \in clients \/ \E t \in Past : watch[t] = c

\* The iterator stands on a client while sendOscPacket loops.
Iterating == pub = "sending" => cursor \in Client

IInv == TypeOK /\ Spawned /\ Watching /\ Listed /\ Iterating

LEMMA InitIInv == Init => IInv
<1> SUFFICES ASSUME Init PROVE IInv
  OBVIOUS
<1> USE ClientsAssumption, FramesAssumption DEF Init
<1>1. TypeOK
  <2>1. /\ accepted \in 0..MaxClients /\ arrived \in 0..MaxClients
        /\ frame \in 0..MaxFrames /\ cursor \in 0..MaxClients
    OBVIOUS
  <2>2. watch \in [Client -> 0..MaxClients]
    OBVIOUS
  <2>3. QED
    BY <2>1, <2>2 DEF TypeOK
<1>2. Spawned /\ Watching /\ Listed /\ Iterating
  BY DEF Spawned, Watching, Listed, Client, Iterating
<1>3. QED
  BY <1>1, <1>2 DEF IInv

\* The count: the list is not empty while some client's thread has yet to run.
LEMMA NotDry ==
  ASSUME IInv, NEW t \in Client, t <= accepted, t \notin Past
  PROVE  clients # {}
<1> USE ClientsAssumption DEF IInv, TypeOK, Client
<1> SUFFICES ASSUME clients = {} PROVE FALSE
  OBVIOUS
<1> DEFINE All == 1..accepted
           Others == All \ {t}
           f == [c \in All |-> CHOOSE u \in Past : watch[u] = c]
<1>1. IsFiniteSet(All) /\ Cardinality(All) = accepted
  <2>1. accepted \in Nat /\ 1 \in Int /\ accepted \in Int
    OBVIOUS
  <2>2. /\ IsFiniteSet(1..accepted)
        /\ Cardinality(1..accepted) = IF 1 > accepted THEN 0 ELSE accepted - 1 + 1
    BY <2>1, FS_Interval, Zenon
  <2>3. QED
    BY <2>1, <2>2
<1>2. IsFiniteSet(Others) /\ Cardinality(Others) = accepted - 1
  <2> HIDE DEF All
  <2>1. t \in All
    BY DEF All
  <2>2. QED
    BY <1>1, <2>1, FS_RemoveElement
<1>3. \A c \in All : \E u \in Past : watch[u] = c
  BY DEF Listed
<1>4. \A c \in All : f[c] \in Past /\ watch[f[c]] = c
  BY <1>3
<1>5. Past \subseteq Others
  BY DEF Past, Spawned
<1>6. f \in [All -> Others]
  BY <1>4, <1>5
<1>7. \E c, d \in All : c # d /\ f[c] = f[d]
  <2> HIDE DEF All, Others, f
  <2>1. Cardinality(Others) < Cardinality(All)
    BY <1>1, <1>2
  <2>2. QED
    BY <1>1, <1>2, <1>6, <2>1, FS_PigeonHole
<1>8. QED
  BY <1>4, <1>7

LEMMA AdvanceType ==
  ASSUME TypeOK, NEW c \in 0..MaxClients, Advance(c)
  PROVE  /\ pub' \in {"idle", "sending"} /\ cursor' \in 0..MaxClients
         /\ outcome' \in {"none", "true", "false"}
         /\ pub' = "sending" => cursor' \in Client
BY ClientsAssumption DEF Advance, After, TypeOK, Client

LEMMA NextTypeOK == IInv /\ [Next]_vars => TypeOK'
<1> SUFFICES ASSUME IInv, [Next]_vars PROVE TypeOK'
  OBVIOUS
<1> USE ClientsAssumption, FramesAssumption
    DEF IInv, TypeOK, netVars, acceptVars, threadVars, pubVars
<1>1. CASE EnterDerived
  BY <1>1 DEF EnterDerived
<1>2. CASE Peers
  <2>1. CASE Arrive
    <3>1. arrived' \in 0..MaxClients
      BY <2>1 DEF Arrive
    <3>2. QED
      BY <2>1, <3>1 DEF Arrive
  <2>2. ASSUME NEW c \in Client, SendRequest(c) PROVE TypeOK'
    BY <2>2 DEF SendRequest
  <2>3. ASSUME NEW c \in Client, Leave(c) PROVE TypeOK'
    BY <2>3 DEF Leave
  <2>4. QED
    BY <1>2, <2>1, <2>2, <2>3 DEF Peers
<1>3. CASE AcceptThread
  <2>1. CASE Accept
    <3>1. accepted + 1 \in Client /\ accepted' \in 0..MaxClients
      BY <2>1 DEF Accept, Client
    <3>2. QED
      BY <2>1, <3>1 DEF Accept
  <2>2. CASE AcceptFails
    BY <2>2 DEF AcceptFails
  <2>3. CASE SetConnected
    BY <2>3 DEF SetConnected
  <2>4. CASE Greet
    <3>1. accepted \in Client
      BY <2>4 DEF Greet, Spawned
    <3>2. QED
      BY <2>4, <3>1 DEF Greet
  <2>5. CASE GreetBase
    BY <2>5 DEF GreetBase
  <2>6. CASE Spawn
    BY <2>6 DEF Spawn
  <2>7. QED
    BY <1>3, <2>1, <2>2, <2>3, <2>4, <2>5, <2>6 DEF AcceptThread
<1>4. ASSUME NEW t \in Client, ClientThread(t) PROVE TypeOK'
  <2>1. CASE Start(t)
    <3>1. \A c \in clients : c \in 0..MaxClients
      BY DEF Client
    <3>2. QED
      BY <2>1, <3>1 DEF Start
  <2>2. CASE Steal(t)
    BY <2>2 DEF Steal
  <2>3. CASE Hangup(t)
    BY <2>3 DEF Hangup
  <2>4. CASE Remove(t)
    BY <2>4 DEF Remove
  <2>5. CASE Check(t)
    BY <2>5 DEF Check
  <2>6. CASE Clear(t)
    BY <2>6 DEF Clear
  <2>7. QED
    BY <1>4, <2>1, <2>2, <2>3, <2>4, <2>5, <2>6 DEF ClientThread
<1>5. CASE Publisher
  <2>1. CASE Refuse
    BY <2>1 DEF Refuse
  <2>2. CASE Begin
    BY <2>2, AdvanceType DEF Begin
  <2>3. CASE SendOne
    BY <2>3, AdvanceType DEF SendOne, Iterating
  <2>4. CASE BrokenPipe
    BY <2>4 DEF BrokenPipe
  <2>5. QED
    BY <1>5, <2>1, <2>2, <2>3, <2>4 DEF Publisher
<1>6. CASE Corrupt
  BY <1>6 DEF Corrupt
<1>7. CASE UNCHANGED vars
  BY <1>7 DEF vars
<1>8. QED
  BY <1>1, <1>2, <1>3, <1>4, <1>5, <1>6, <1>7 DEF Next

\* The part of the invariant that relates the threads to the list.
Shared == Spawned /\ Watching /\ Listed

LEMMA AcceptKeepsShared ==
  ASSUME IInv, AcceptThread
  PROVE  Shared'
<1> USE ClientsAssumption DEF IInv, TypeOK, netVars, threadVars
<1>1. CASE Accept
  <2>1. accepted + 1 \in Client /\ accepted' = accepted + 1
    BY <1>1 DEF Accept, Client
  <2>2. Spawned'
    BY <1>1, <2>1 DEF Accept, Spawned, Client
  <2>3. Watching'
    BY <1>1, <2>1 DEF Accept, Watching
  <2>4. Past' = Past
    BY <1>1 DEF Accept, Past
  <2>5. Listed'
    BY <1>1, <2>1, <2>4 DEF Accept, Listed
  <2>6. QED
    BY <2>2, <2>3, <2>5 DEF Shared
<1>2. CASE AcceptFails \/ SetConnected \/ Greet \/ GreetBase
  <2>1. /\ UNCHANGED <<arrived, peer, accepted, clients, tpc, watch>>
        /\ acc' \in {"connect", "greet", "spawn"} => acc \in {"connect", "greet", "spawn"}
    BY <1>2 DEF AcceptFails, SetConnected, Greet, GreetBase
  <2>2. QED
    BY <2>1 DEF Shared, Spawned, Watching, Listed, Past
<1>3. CASE Spawn
  <2>1. accepted \in Client /\ tpc[accepted] = "none"
    BY <1>3 DEF Spawn, Spawned
  <2>2. Spawned' /\ Watching'
    BY <1>3, <2>1 DEF Spawn, Spawned, Watching
  <2>3. Past' = Past
    BY <1>3, <2>1 DEF Spawn, Past
  <2>4. Listed'
    BY <1>3, <2>3 DEF Spawn, Listed
  <2>5. QED
    BY <2>2, <2>4 DEF Shared
<1>4. QED
  BY <1>1, <1>2, <1>3 DEF AcceptThread

LEMMA ThreadKeepsShared ==
  ASSUME IInv, NEW t \in Client, ClientThread(t)
  PROVE  Shared'
<1> USE ClientsAssumption DEF IInv, TypeOK, netVars, acceptVars
<1>t. t <= accepted
  BY DEF ClientThread, Start, Steal, Hangup, Remove, Check, Clear, Spawned, Client
<1>1. CASE Start(t)
  <2>1. Spawned' /\ Past' = Past
    BY <1>1 DEF Start, Spawned, Past
  <2>2. Watching'
    BY <1>1 DEF Start, Watching, Listed, IsBack
  <2>3. QED
    BY <1>1, <2>1, <2>2 DEF Start, Shared, Listed, Past, Watching
<1>2. CASE Steal(t)
  BY <1>2 DEF Steal, threadVars, Shared, Spawned, Watching, Listed, Past
<1>3. CASE Hangup(t)
  <2>1. Spawned' /\ Past' = Past
    BY <1>3 DEF Hangup, Spawned, Past
  <2>2. QED
    BY <1>3, <2>1 DEF Hangup, Shared, Listed, Watching
<1>4. CASE Remove(t)
  <2>1. Spawned' /\ Watching'
    BY <1>4 DEF Remove, Spawned, Watching
  <2>2. Past' = Past \cup {t}
    BY <1>4 DEF Remove, Past
  <2>3. Listed'
    BY <1>4, <2>2 DEF Remove, Listed
  <2>4. QED
    BY <2>1, <2>3 DEF Shared
<1>5. CASE Check(t) \/ Clear(t)
  <2>1. Spawned' /\ Watching' /\ Past' = Past
    BY <1>5 DEF Check, Clear, Spawned, Watching, Past
  <2>2. QED
    BY <1>5, <2>1 DEF Check, Clear, Shared, Listed
<1>6. QED
  BY <1>1, <1>2, <1>3, <1>4, <1>5 DEF ClientThread

LEMMA NextIInv == IInv /\ [Next]_vars => IInv'
<1> SUFFICES ASSUME IInv, [Next]_vars PROVE IInv'
  OBVIOUS
<1> USE DEF netVars, acceptVars, threadVars, pubVars
<1>t. TypeOK'
  BY NextTypeOK
<1>1. Shared'
  <2>k. ASSUME UNCHANGED <<arrived, peer, accepted, acc, clients, tpc, watch>>
        PROVE  Shared'
    BY <2>k DEF IInv, Shared, Spawned, Watching, Listed, Past
  <2>1. CASE EnterDerived \/ Publisher \/ Corrupt \/ UNCHANGED vars
    BY <2>1, <2>k DEF EnterDerived, Publisher, Refuse, Begin, SendOne, BrokenPipe,
       Corrupt, vars
  <2>2. CASE Arrive
    <3>1. \A c \in 1..accepted : peer'[c] = peer[c]
      BY <2>2 DEF Arrive, IInv, TypeOK, Spawned
    <3>2. Watching'
      BY <2>2, <3>1 DEF Arrive, IInv, Watching
    <3>3. accepted' <= arrived'
      BY <2>2 DEF Arrive, IInv, TypeOK, Spawned
    <3>4. QED
      BY <2>2, <3>2, <3>3 DEF Arrive, IInv, Shared, Spawned, Listed, Past
  <2>3. ASSUME NEW c \in Client, SendRequest(c) PROVE Shared'
    BY <2>3, <2>k DEF SendRequest
  <2>4. ASSUME NEW c \in Client, Leave(c) PROVE Shared'
    <3>1. \A d \in Client : peer[d] = "closed" => peer'[d] = "closed"
      BY <2>4 DEF Leave, IInv, TypeOK
    <3>2. \A d \in 1..accepted : d \in Client
      BY ClientsAssumption DEF IInv, TypeOK, Client
    <3>3. Watching'
      BY <2>4, <3>1, <3>2 DEF Leave, IInv, Watching
    <3>4. QED
      BY <2>4, <3>3 DEF Leave, IInv, Shared, Spawned, Listed, Past
  <2>5. QED
    BY <2>1, <2>2, <2>3, <2>4, AcceptKeepsShared, ThreadKeepsShared DEF Next, Peers
<1>2. Iterating'
  <2>1. CASE Begin
    BY <2>1, AdvanceType, ClientsAssumption DEF Begin, Iterating, IInv
  <2>2. CASE SendOne
    BY <2>2, AdvanceType DEF SendOne, Iterating, IInv, TypeOK
  <2>3. CASE ~Begin /\ ~SendOne
    <3>1. UNCHANGED <<pub, cursor>>
      BY <2>3 DEF Next, EnterDerived, Peers, Arrive, SendRequest, Leave, AcceptThread,
         Accept, AcceptFails, SetConnected, Greet, GreetBase, Spawn, ClientThread,
         Start, Steal, Hangup, Remove, Check, Clear, Publisher, Refuse, BrokenPipe,
         Corrupt, vars
    <3>2. QED
      BY <3>1 DEF IInv, Iterating
  <2>4. QED
    BY <2>1, <2>2, <2>3
<1>3. QED
  BY <1>t, <1>1, <1>2 DEF IInv, Shared

LEMMA Inductive == Spec => []IInv
BY InitIInv, NextIInv, PTL DEF Spec

\* Every variable keeps its type, in particular the iterator and the watches.
THEOREM TypeCorrect == Spec => []TypeOK
<1>1. IInv => TypeOK
  BY DEF IInv
<1>2. QED
  BY <1>1, Inductive, PTL

\* back() in ClientThreadFunc is always called on a list that holds a client.
THEOREM BackIsDefined == Spec => []BackDefined
<1>1. IInv => BackDefined
  <2> SUFFICES ASSUME IInv, NEW t \in Client, tpc[t] = "start" PROVE clients # {}
    BY DEF BackDefined
  <2>1. t <= accepted /\ t \notin Past
    BY DEF IInv, TypeOK, Spawned, Past, Client
  <2>2. QED
    BY <2>1, NotDry
<1>2. QED
  BY <1>1, Inductive, PTL

\* No client that is still there is dropped from the list by any thread.
THEOREM OpenClientsStay == Spec => []NoOpenClientDropped
<1>1. IInv => NoOpenClientDropped
  <2> SUFFICES ASSUME IInv, NEW c \in 1..accepted, peer[c] = "open"
               PROVE  c \in clients
    BY DEF NoOpenClientDropped
  <2>1. \A t \in Past : peer[watch[t]] = "closed"
    BY DEF IInv, Watching, Past
  <2>2. QED
    BY <2>1 DEF IInv, Listed
<1>2. QED
  BY <1>1, Inductive, PTL

(***************************************************************************)
(* The connection flag.  SetConnected is the only step that raises it, at  *)
(* a time when the accepted client has no thread yet: by the count, the    *)
(* list is not empty then.  The list becomes empty only by a Remove, whose *)
(* thread goes on to Check and Clear.                                      *)
(***************************************************************************)
LEMMA NextIdle == IInv /\ IdleIsDisconnected /\ [Next]_vars => IdleIsDisconnected'
<1> SUFFICES ASSUME IInv, IdleIsDisconnected, [Next]_vars
             PROVE  IdleIsDisconnected'
  OBVIOUS
<1> USE DEF IInv, TypeOK, netVars, acceptVars, threadVars, pubVars
<1>k. ASSUME UNCHANGED <<clients, connected, tpc>>
      PROVE  IdleIsDisconnected'
  BY <1>k DEF IdleIsDisconnected
<1>1. CASE EnterDerived \/ Peers \/ Publisher \/ Corrupt \/ UNCHANGED vars
  BY <1>1, <1>k DEF EnterDerived, Peers, Arrive, SendRequest, Leave, Publisher,
     Refuse, Begin, SendOne, BrokenPipe, Corrupt, vars
<1>2. CASE Accept
  <2>1. clients' # {}
    BY <1>2 DEF Accept
  <2>2. QED
    BY <2>1 DEF IdleIsDisconnected
<1>3. CASE SetConnected
  <2>1. accepted \in Client /\ accepted <= accepted /\ accepted \notin Past
    BY <1>3 DEF SetConnected, Spawned, Past
  <2>2. clients # {}
    BY <2>1, NotDry
  <2>3. QED
    BY <1>3, <2>2 DEF SetConnected, IdleIsDisconnected
<1>4. CASE AcceptFails \/ Greet \/ GreetBase
  BY <1>4, <1>k DEF AcceptFails, Greet, GreetBase
<1>5. CASE Spawn
  <2>1. accepted \in Client /\ tpc[accepted] = "none"
    BY <1>5 DEF Spawn, Spawned
  <2>2. \A t \in Client : tpc[t] \in {"check", "clear"} => tpc'[t] = tpc[t]
    BY <1>5, <2>1 DEF Spawn
  <2>3. QED
    BY <1>5, <2>2 DEF Spawn, IdleIsDisconnected
<1>6. ASSUME NEW t \in Client, ClientThread(t) PROVE IdleIsDisconnected'
  <2>k. ASSUME UNCHANGED <<clients, connected>>, tpc[t] \notin {"check", "clear"},
               \A u \in Client \ {t} : tpc'[u] = tpc[u]
        PROVE  IdleIsDisconnected'
    BY <2>k DEF IdleIsDisconnected
  <2>1. CASE Start(t)
    BY <2>1, <2>k DEF Start
  <2>2. CASE Steal(t)
    BY <2>2, <1>k DEF Steal
  <2>3. CASE Hangup(t)
    BY <2>3, <2>k DEF Hangup
  <2>4. CASE Remove(t)
    <3>1. tpc'[t] = "check"
      BY <2>4 DEF Remove
    <3>2. QED
      BY <3>1 DEF IdleIsDisconnected
  <2>5. CASE Check(t)
    <3>1. clients' = {} => tpc'[t] = "clear"
      BY <2>5 DEF Check
    <3>2. QED
      BY <3>1 DEF IdleIsDisconnected
  <2>6. CASE Clear(t)
    BY <2>6 DEF Clear, IdleIsDisconnected
  <2>7. QED
    BY <1>6, <2>1, <2>2, <2>3, <2>4, <2>5, <2>6 DEF ClientThread
<1>7. QED
  BY <1>1, <1>2, <1>3, <1>4, <1>5, <1>6 DEF Next, AcceptThread

\* The sender does not go on claiming a connection after its last client left.
THEOREM IdleConnectionIsTold == Spec => []IdleIsDisconnected
<1>1. Init => IdleIsDisconnected
  BY DEF Init, IdleIsDisconnected
<1>2. QED
  BY <1>1, NextIdle, Inductive, PTL DEF Spec
=============================================================================
