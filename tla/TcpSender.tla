----------------------------- MODULE TcpSender -----------------------------
(***************************************************************************)
(* WebSockSender(port) of src/include/TUIO, with the TcpSender it derives  *)
(* from: the TCP server through which TUIOPublisher reaches WebSocket      *)
(* receivers.  Three kinds of threads share one TcpSender without a lock:  *)
(*   - the accept thread (ServerThreadFunc), one;                          *)
(*   - one thread per accepted client (ClientThreadFunc), which only waits *)
(*     for that client to leave;                                           *)
(*   - the publisher, the thread that delivers camera frames and calls     *)
(*     sendOscPacket.                                                      *)
(*                                                                         *)
(* Clients are numbered in the order in which they connect, which is the   *)
(* order in which accept() returns them and push_back() lists them: the    *)
(* std::list tcp_client_list is therefore the set of its members, its      *)
(* back() the largest and an iterator's successor the next larger one.     *)
(* No descriptor is ever closed, so that no number is used twice.          *)
(*                                                                         *)
(* Each list operation is one step.  Where two of them overlap and one is  *)
(* a write the program has no defined behaviour: phase becomes "undefined" *)
(* (or the operations happen to take effect one after the other).          *)
(***************************************************************************)
EXTENDS Integers, FiniteSets

CONSTANTS
  MaxClients,    \* bound: clients that ever connect
  MaxFrames,     \* bound: calls of sendOscPacket
  FdLimit        \* descriptors left for clients: accept() fails beyond

ASSUME ClientsAssumption == MaxClients \in Nat /\ FdLimit \in Nat

ASSUME FramesAssumption == MaxFrames \in Nat

Client == 1..MaxClients

VARIABLES
  phase,         \* "running", "undefined" or "killed" (by SIGPIPE)
  constructed,   \* the WebSockSender constructor has been entered
  arrived,       \* how many clients have connected
  peer,          \* the far end of each connection: "away", "open" or "closed"
  request,       \* its opening request: "none", "sent", "read" or "stolen"
  accepted,      \* how many clients accept() has returned
  acc,           \* where the accept thread is
  clients,       \* tcp_client_list
  connected,     \* TcpSender::connected
  greeted,       \* the clients that were sent the opening response
  tpc,           \* where the thread of each client is
  watch,         \* the client that this thread watches, 0 before it looked
  pub,           \* where the publisher is: "idle" or "sending"
  cursor,        \* the list iterator of sendOscPacket
  frame,         \* calls of sendOscPacket so far
  outcome,       \* what the last call returned: "none", "true" or "false"
  missed,        \* the clients that the last call failed to reach
  broken,        \* the clients that were sent something after they had left
  early          \* the clients that were sent a frame before the response

netVars == <<arrived, peer, request>>

acceptVars == <<accepted, acc>>

threadVars == <<tpc, watch>>

pubVars == <<pub, cursor, frame, outcome, missed, early>>

vars == <<phase, constructed, netVars, acceptVars, clients, connected, greeted,
          threadVars, pubVars, broken>>

TypeOK ==
  /\ phase \in {"running", "undefined", "killed"}
  /\ constructed \in BOOLEAN
  /\ arrived \in 0..MaxClients
  /\ peer \in [Client -> {"away", "open", "closed"}]
  /\ request \in [Client -> {"none", "sent", "read", "stolen"}]
  /\ accepted \in 0..MaxClients
  /\ acc \in {"accept", "connect", "greet", "spawn", "stopped"}
  /\ clients \in SUBSET Client
  /\ connected \in BOOLEAN
  /\ greeted \in SUBSET Client
  /\ tpc \in [Client -> {"none", "start", "recv", "remove", "check", "clear", "done"}]
  /\ watch \in [Client -> 0..MaxClients]
  /\ pub \in {"idle", "sending"}
  /\ cursor \in 0..MaxClients
  /\ frame \in 0..MaxFrames
  /\ outcome \in {"none", "true", "false"}
  /\ missed \in SUBSET Client
  /\ broken \in SUBSET Client
  /\ early \in SUBSET Client

\* TcpSender(port) has bound its socket and started the accept thread.
Init ==
  /\ phase = "running"
  /\ constructed = FALSE
  /\ arrived = 0
  /\ peer = [c \in Client |-> "away"]
  /\ request = [c \in Client |-> "none"]
  /\ accepted = 0
  /\ acc = "accept"
  /\ clients = {}
  /\ connected = FALSE
  /\ greeted = {}
  /\ tpc = [c \in Client |-> "none"]
  /\ watch = [c \in Client |-> 0]
  /\ pub = "idle"
  /\ cursor = 0
  /\ frame = 0
  /\ outcome = "none"
  /\ missed = {}
  /\ broken = {}
  /\ early = {}

-----------------------------------------------------------------------------
(***************************************************************************)
(* The receivers and the constructing thread                               *)
(***************************************************************************)

\* The TcpSender constructor returns, and newClient() is WebSockSender's.
EnterDerived ==
  /\ phase = "running" /\ ~constructed
  /\ constructed' = TRUE
  /\ UNCHANGED <<phase, netVars, acceptVars, clients, connected, greeted,
                 threadVars, pubVars, broken>>

Arrive ==
  /\ phase = "running" /\ arrived < MaxClients
  /\ arrived' = arrived + 1
  /\ peer' = [peer EXCEPT ![arrived + 1] = "open"]
  /\ UNCHANGED <<phase, constructed, request, acceptVars, clients, connected,
                 greeted, threadVars, pubVars, broken>>

SendRequest(c) ==
  /\ phase = "running" /\ peer[c] = "open" /\ request[c] = "none"
  /\ request' = [request EXCEPT ![c] = "sent"]
  /\ UNCHANGED <<phase, constructed, arrived, peer, acceptVars, clients,
                 connected, greeted, threadVars, pubVars, broken>>

Leave(c) ==
  /\ phase = "running" /\ peer[c] = "open"
  /\ peer' = [peer EXCEPT ![c] = "closed"]
  /\ UNCHANGED <<phase, constructed, arrived, request, acceptVars, clients,
                 connected, greeted, threadVars, pubVars, broken>>

-----------------------------------------------------------------------------
(***************************************************************************)
(* ServerThreadFunc                                                        *)
(***************************************************************************)

\* accept() returns the next client and push_back() lists it.
Accept ==
  /\ phase = "running" /\ acc = "accept"
  /\ accepted < arrived /\ accepted < FdLimit
  /\ accepted' = accepted + 1
  /\ clients' = clients \cup {accepted + 1}
  /\ acc' = "connect"
  /\ UNCHANGED <<phase, constructed, netVars, connected, greeted, threadVars,
                 pubVars, broken>>

\* accept() has no descriptor to give: the loop breaks, the thread ends.
AcceptFails ==
  /\ phase = "running" /\ acc = "accept"
  /\ accepted < arrived /\ accepted >= FdLimit
  /\ acc' = "stopped"
  /\ UNCHANGED <<phase, constructed, netVars, accepted, clients, connected,
                 greeted, threadVars, pubVars, broken>>

SetConnected ==
  /\ phase = "running" /\ acc = "connect"
  /\ connected' = TRUE
  /\ acc' = "greet"
  /\ UNCHANGED <<phase, constructed, netVars, accepted, clients, greeted,
                 threadVars, pubVars, broken>>

\* WebSockSender::newClient reads the request and sends the response.  Its
\* fgets loop does not look for the end of the stream: without a request it
\* never ends.
Greet ==
  /\ phase = "running" /\ acc = "greet" /\ constructed
  /\ request[accepted] = "sent"
  /\ request' = [request EXCEPT ![accepted] = "read"]
  /\ greeted' = greeted \cup {accepted}
  /\ broken' = broken \cup {c \in {accepted} : peer[c] = "closed"}
  /\ acc' = "spawn"
  /\ UNCHANGED <<phase, constructed, arrived, peer, accepted, clients,
                 connected, threadVars, pubVars>>

\* During the base constructor the call goes to TcpSender::newClient: nothing.
GreetBase ==
  /\ phase = "running" /\ acc = "greet" /\ ~constructed
  /\ acc' = "spawn"
  /\ UNCHANGED <<phase, constructed, netVars, accepted, clients, connected,
                 greeted, threadVars, pubVars, broken>>

\* pthread_create
Spawn ==
  /\ phase = "running" /\ acc = "spawn"
  /\ tpc' = [tpc EXCEPT ![accepted] = "start"]
  /\ acc' = "accept"
  /\ UNCHANGED <<phase, constructed, netVars, accepted, clients, connected,
                 greeted, watch, pubVars, broken>>

-----------------------------------------------------------------------------
(***************************************************************************)
(* ClientThreadFunc.  A thread is not told which client it is for: it      *)
(* takes the last one of the list at the moment it first runs.             *)
(***************************************************************************)
IsBack(c) == c \in clients /\ \A d \in clients : d <= c

Start(t) ==
  /\ phase = "running" /\ tpc[t] = "start"
  /\ \E c \in clients :
       IsBack(c) /\ watch' = [watch EXCEPT ![t] = c]
  /\ tpc' = [tpc EXCEPT ![t] = "recv"]
  /\ UNCHANGED <<phase, constructed, netVars, acceptVars, clients, connected,
                 greeted, pubVars, broken>>

\* recv() takes and drops whatever the watched client sends: its opening
\* request too, when newClient() has not read that yet.
Steal(t) ==
  /\ phase = "running" /\ tpc[t] = "recv" /\ request[watch[t]] = "sent"
  /\ request' = [request EXCEPT ![watch[t]] = "stolen"]
  /\ UNCHANGED <<phase, constructed, arrived, peer, acceptVars, clients,
                 connected, greeted, threadVars, pubVars, broken>>

\* Mutation: the loop ends on anything received.
HangupOnData(t) ==
  /\ phase = "running" /\ tpc[t] = "recv"
  /\ peer[watch[t]] = "closed" \/ request[watch[t]] = "sent"
  /\ tpc' = [tpc EXCEPT ![t] = "remove"]
  /\ UNCHANGED <<phase, constructed, netVars, acceptVars, clients, connected,
                 greeted, watch, pubVars, broken>>

\* recv() returns 0 when all has been read and the client has left.
Hangup(t) ==
  /\ phase = "running" /\ tpc[t] = "recv"
  /\ peer[watch[t]] = "closed" /\ request[watch[t]] # "sent"
  /\ tpc' = [tpc EXCEPT ![t] = "remove"]
  /\ UNCHANGED <<phase, constructed, netVars, acceptVars, clients, connected,
                 greeted, watch, pubVars, broken>>

\* Mutation: clear() in place of remove(client).
RemoveAll(t) ==
  /\ phase = "running" /\ tpc[t] = "remove"
  /\ clients' = {}
  /\ tpc' = [tpc EXCEPT ![t] = "check"]
  /\ UNCHANGED <<phase, constructed, netVars, acceptVars, connected, greeted,
                 watch, pubVars, broken>>

\* The node that the publisher's iterator stands on must not be freed.
Remove(t) ==
  /\ phase = "running" /\ tpc[t] = "remove"
  /\ clients' = clients \ {watch[t]}
  /\ tpc' = [tpc EXCEPT ![t] = "check"]
  /\ phase' = IF pub = "sending" /\ cursor = watch[t] THEN "undefined" ELSE phase
  /\ UNCHANGED <<constructed, netVars, acceptVars, connected, greeted, watch,
                 pubVars, broken>>

\* Mutation: size() == 1 in place of size() == 0.
CheckLast(t) ==
  /\ phase = "running" /\ tpc[t] = "check"
  /\ tpc' = [tpc EXCEPT ![t] = IF Cardinality(clients) = 1 THEN "clear" ELSE "done"]
  /\ UNCHANGED <<phase, constructed, netVars, acceptVars, clients, connected,
                 greeted, watch, pubVars, broken>>

\* Mutation: the thread goes on while there are clients.
CheckAgain(t) ==
  /\ phase = "running" /\ tpc[t] = "check"
  /\ tpc' = [tpc EXCEPT ![t] = IF clients = {} THEN "clear" ELSE "recv"]
  /\ UNCHANGED <<phase, constructed, netVars, acceptVars, clients, connected,
                 greeted, watch, pubVars, broken>>

Check(t) ==
  /\ phase = "running" /\ tpc[t] = "check"
  /\ tpc' = [tpc EXCEPT ![t] = IF clients = {} THEN "clear" ELSE "done"]
  /\ UNCHANGED <<phase, constructed, netVars, acceptVars, clients, connected,
                 greeted, watch, pubVars, broken>>

Clear(t) ==
  /\ phase = "running" /\ tpc[t] = "clear"
  /\ connected' = FALSE
  /\ tpc' = [tpc EXCEPT ![t] = "done"]
  /\ UNCHANGED <<phase, constructed, netVars, acceptVars, clients, greeted,
                 watch, pubVars, broken>>

-----------------------------------------------------------------------------
(***************************************************************************)
(* sendOscPacket, called by the publisher.  Bundles that are empty or too  *)
(* large, which it also refuses, are not made by TuioServer.               *)
(***************************************************************************)
Refuse ==
  /\ phase = "running" /\ constructed
  /\ pub = "idle" /\ frame < MaxFrames /\ ~connected
  /\ frame' = frame + 1
  /\ outcome' = "false"
  /\ missed' = {}
  /\ UNCHANGED <<phase, constructed, netVars, acceptVars, clients, connected,
                 greeted, threadVars, pub, cursor, early, broken>>

\* begin() is the smallest client; ++ leads to the next larger one.
After(c) == {d \in clients : d > c}

\* Mutation: the comparison with end() comes one client late.
AdvanceTooFar(c) ==
  /\ pub' = "sending"
  /\ cursor' = IF After(c) = {} THEN MaxClients + 1 ELSE c + 1
  /\ outcome' = "none"

Advance(c) ==
  IF After(c) = {}
  THEN pub' = "idle" /\ cursor' = 0 /\ outcome' = "true"
  ELSE /\ \E d \in After(c) : (\A e \in After(c) : d <= e) /\ cursor' = d
       /\ pub' = "sending" /\ outcome' = "none"

Begin ==
  /\ phase = "running" /\ constructed
  /\ pub = "idle" /\ frame < MaxFrames /\ connected
  /\ frame' = frame + 1
  /\ missed' = {}
  /\ Advance(0)
  /\ UNCHANGED <<phase, constructed, netVars, acceptVars, clients, connected,
                 greeted, threadVars, early, broken>>

\* send() to one client, then ++.  What send() returns is not looked at.
SendOne ==
  /\ phase = "running" /\ pub = "sending"
  /\ Advance(cursor)
  /\ early' = early \cup ({cursor} \ greeted)
  /\ IF peer[cursor] = "open"
     THEN UNCHANGED <<missed, broken>>
     ELSE missed' = missed \cup {cursor} /\ broken' = broken \cup {cursor}
  /\ UNCHANGED <<phase, constructed, netVars, acceptVars, clients, connected,
                 greeted, threadVars, frame>>

\* The far end answered an earlier send() with a reset: this one raises
\* SIGPIPE, which nothing ignores.
BrokenPipe ==
  /\ phase = "running" /\ pub = "sending" /\ cursor \in broken
  /\ phase' = "killed"
  /\ UNCHANGED <<constructed, netVars, acceptVars, clients, connected, greeted,
                 threadVars, pubVars, broken>>

-----------------------------------------------------------------------------
(***************************************************************************)
(* Two threads in the list at once, one of them writing.                   *)
(***************************************************************************)
Removing == {t \in Client : tpc[t] = "remove"}

Reading == {t \in Client : tpc[t] \in {"start", "check"}}

Pushing == acc = "accept" /\ accepted < arrived /\ accepted < FdLimit

Overlap ==
  \/ Pushing /\ (Removing # {} \/ Reading # {} \/ pub = "sending")
  \/ Removing # {} /\ (Reading # {} \/ pub = "sending" \/ Cardinality(Removing) > 1)

Corrupt ==
  /\ phase = "running" /\ Overlap
  /\ phase' = "undefined"
  /\ UNCHANGED <<constructed, netVars, acceptVars, clients, connected, greeted,
                 threadVars, pubVars, broken>>

Peers == Arrive \/ \E c \in Client : SendRequest(c) \/ Leave(c)

AcceptThread == Accept \/ AcceptFails \/ SetConnected \/ Greet \/ GreetBase \/ Spawn

ClientThread(t) ==
  Start(t) \/ Steal(t) \/ Hangup(t) \/ Remove(t) \/ Check(t) \/ Clear(t)

Publisher == Refuse \/ Begin \/ SendOne \/ BrokenPipe

Next ==
  \/ EnterDerived
  \/ Peers
  \/ AcceptThread
  \/ \E t \in Client : ClientThread(t)
  \/ Publisher
  \/ Corrupt

Spec == Init /\ [][Next]_vars

\* Every thread that can run is run; nothing is asked of the receivers, nor
\* that the camera delivers another frame.
Fairness ==
  /\ WF_vars(EnterDerived)
  /\ WF_vars(AcceptThread)
  /\ \A t \in Client : WF_vars(ClientThread(t))
  /\ WF_vars(SendOne)

FairSpec == Spec /\ Fairness

-----------------------------------------------------------------------------
(***************************************************************************)
(* Properties                                                              *)
(***************************************************************************)

\* ClientThreadFunc calls tcp_client_list.back() without looking whether the
\* list is empty.  Threads may take each other's clients, and so remove clients
\* whose own thread has not run yet, but the list never runs dry under them.
BackDefined == \A t \in Client : tpc[t] = "start" => clients # {}

\* Whatever the threads do to each other, a client that is still there is never
\* dropped from the list.
NoOpenClientDropped == \A c \in 1..accepted : peer[c] = "open" => c \in clients

\* Once the last client is gone isConnected() tells so, save for the moment in
\* which the thread that removed it is about to say it: the accept thread sets
\* the flag after the push_back, but never after that client's removal cleared it.
IdleIsDisconnected ==
  connected /\ clients = {} => \E t \in Client : tpc[t] \in {"check", "clear"}

\* TcpSender.h: isConnected() returns "true if the connection is alive".  When
\* no thread is in the middle of changing that, it is true with a client there.
ConnectionStateIsTrue ==
  phase = "running" /\ acc = "accept"
    /\ (\A t \in Client : tpc[t] \notin {"remove", "check", "clear"})
    /\ (\E c \in clients : peer[c] = "open")
  => connected

\* WebSockSender.h: it "implements the WebSocket transport method", in which no
\* frame comes before the response to the opening handshake.
ResponseBeforeFrames == early = {}

\* TcpSender.h: newClient() "is called whenever a new client connects".
NewClientIsCalled ==
  \A c \in Client :
    arrived >= c ~>
      \/ phase # "running"
      \/ accepted > c
      \/ accepted = c /\ acc # "connect"

\* When every client has come and gone, every thread that was started ends,
\* although a thread may watch another client than its own, and several threads
\* the same one.
ThreadsEnd ==
  \A t \in Client :
    tpc[t] # "none" /\ (\A c \in Client : peer[c] = "closed") ~>
      tpc[t] = "done" \/ phase # "running"

=============================================================================
