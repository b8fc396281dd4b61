---------------------------- MODULE WsPublisher ----------------------------
(***************************************************************************)
(* WebSocketPublisher (src/publishers/WebSocket.cc) on websocketpp: the    *)
(* thread that delivers camera frames sends one message per notification   *)
(* to every handle in connections_, while the asio thread takes            *)
(* connections through their handshakes, writes what is queued, and calls  *)
(* the open and close handlers that fill and empty connections_.           *)
(*                                                                         *)
(* The asio thread runs one handler at a time, each of them a single step  *)
(* here, except that an open or close handler waits for mutex_, which      *)
(* fire() holds over the whole loop.  A send is three steps of the         *)
(* publisher: the test of m_state, the push under m_write_lock, and the    *)
(* posting of write_frame.  m_state is read under m_connection_state_lock  *)
(* but mostly written without it; the publisher reads the old or the new   *)
(* value.                                                                  *)
(*                                                                         *)
(* Every close frame that this server sends is terminal: it is an          *)
(* acknowledgement or reports an error of the peer.  The server never      *)
(* starts a clean close, so an acknowledgement for it never comes.         *)
(***************************************************************************)
EXTENDS Integers, Sequences

CONSTANTS
  Conns,        \* connections that are ever made
  None,         \* no connection
  MaxMessages   \* bound on the number of notifications

ASSUME WsAssumption == None \notin Conns /\ MaxMessages \in Nat

\* What is queued on a connection besides the messages, which are numbered.
Close == -1     \* the close frame, marked terminal
Pong == -2

VARIABLES
  state,        \* m_state with the part of m_internal_state before it is open
  reading,      \* connections with an outstanding read
  armed,        \* connections whose handshake timer runs
  expired,      \* connections with a timeout handler queued: beyond cancel()
  queue,        \* m_send_queue
  writing,      \* m_current_msgs
  flag,         \* m_write_flag
  posted,       \* how many write_frame handlers are posted
  wire,         \* what has been written, in order
  asio,         \* what the asio thread waits for mutex_ for
  connections,  \* WebSocketPublisher::connections_
  pub,          \* where fire() is
  todo,         \* the connections that its loop has yet to serve
  cur,          \* the one it is sending to
  published     \* number of notifications so far

sendVars == <<queue, flag, posted>>

writeVars == <<writing, wire>>

timerVars == <<armed, expired>>

pubVars == <<pub, todo, cur, published>>

vars == <<state, reading, timerVars, sendVars, writeVars, asio, connections, pubVars>>

Item == Nat \cup {Close, Pong}

\* Everything a connection has been sent or is about to be sent.
Stream(c) == wire[c] \o writing[c] \o queue[c]

Holds(s, item) == \E i \in 1 .. Len(s) : s[i] = item

Connecting == {"request", "accept", "refuse"}

TypeOK ==
  /\ state \in [Conns -> {"new", "open", "closing", "closed"} \cup Connecting]
  /\ reading \in SUBSET Conns
  /\ armed \in SUBSET Conns
  /\ expired \in SUBSET Conns
  /\ queue \in [Conns -> Seq(Item)]
  /\ writing \in [Conns -> Seq(Item)]
  /\ flag \in [Conns -> BOOLEAN]
  /\ posted \in [Conns -> Nat]
  /\ wire \in [Conns -> Seq(Item)]
  /\ asio \in [op : {"idle", "open", "close"}, c : Conns \cup {None}]
  /\ asio.op # "idle" => asio.c \in Conns
  /\ connections \in SUBSET Conns
  /\ pub \in {"idle", "loop", "push", "post", "thrown"}
  /\ todo \in SUBSET Conns
  /\ cur \in Conns \cup {None}
  /\ pub \in {"push", "post"} => cur \in Conns
  /\ published \in Nat

Idle == [op |-> "idle", c |-> None]

Init ==
  /\ state = [c \in Conns |-> "new"]
  /\ reading = {}
  /\ armed = {}
  /\ expired = {}
  /\ queue = [c \in Conns |-> <<>>]
  /\ writing = [c \in Conns |-> <<>>]
  /\ flag = [c \in Conns |-> FALSE]
  /\ posted = [c \in Conns |-> 0]
  /\ wire = [c \in Conns |-> <<>>]
  /\ asio = Idle
  /\ connections = {}
  /\ pub = "idle"
  /\ todo = {}
  /\ cur = None
  /\ published = 0

-----------------------------------------------------------------------------
(***************************************************************************)
(* fire(), on the thread that delivers camera frames                       *)
(***************************************************************************)
Locked == pub \in {"loop", "push", "post"}

Fire ==
  /\ pub = "idle" /\ published < MaxMessages
  /\ pub' = "loop"
  /\ todo' = connections
  /\ published' = published + 1
  /\ UNCHANGED <<state, reading, timerVars, sendVars, writeVars, asio, connections, cur>>

\* Mutation: the iterator's handle is not taken.
SendToPrevious(c) ==
  /\ pub = "loop" /\ c \in todo
  /\ todo' = todo \ {c}
  /\ pub' = IF state[c] = "open" THEN "push" ELSE "thrown"
  /\ UNCHANGED <<state, reading, timerVars, sendVars, writeVars, asio, connections, cur, published>>

\* send() to a connection that is not open fails, and the endpoint throws.
Send(c) ==
  /\ pub = "loop" /\ c \in todo
  /\ todo' = todo \ {c}
  /\ cur' = c
  /\ pub' = IF state[c] = "open" THEN "push" ELSE "thrown"
  /\ UNCHANGED <<state, reading, timerVars, sendVars, writeVars, asio, connections, published>>

\* Mutation: needs_writing is taken before the push.
PushTestingFirst ==
  /\ pub = "push"
  /\ queue' = [queue EXCEPT ![cur] = Append(@, published)]
  /\ pub' = IF ~flag[cur] /\ queue[cur] # <<>> THEN "post" ELSE "loop"
  /\ UNCHANGED <<state, reading, timerVars, flag, posted, writeVars, asio, connections,
                 todo, cur, published>>

Push ==
  /\ pub = "push"
  /\ queue' = [queue EXCEPT ![cur] = Append(@, published)]
  /\ pub' = IF flag[cur] THEN "loop" ELSE "post"
  /\ UNCHANGED <<state, reading, timerVars, flag, posted, writeVars, asio, connections,
                 todo, cur, published>>

Post ==
  /\ pub = "post"
  /\ posted' = [posted EXCEPT ![cur] = @ + 1]
  /\ pub' = "loop"
  /\ UNCHANGED <<state, reading, timerVars, queue, flag, writeVars, asio, connections,
                 todo, cur, published>>

Return ==
  /\ pub = "loop" /\ todo = {}
  /\ pub' = "idle"
  /\ UNCHANGED <<state, reading, timerVars, sendVars, writeVars, asio, connections,
                 todo, cur, published>>

Publisher == Fire \/ (\E c \in Conns : Send(c)) \/ Push \/ Post \/ Return

-----------------------------------------------------------------------------
(***************************************************************************)
(* The asio thread: parts of handlers                                      *)
(***************************************************************************)

\* Mutation: terminate does not look whether it has been called before.
TerminateAgain(c) ==
  /\ armed' = armed \ {c}
  /\ state' = [state EXCEPT ![c] = "closed"]
  /\ asio' = IF state[c] \in Connecting THEN Idle ELSE [op |-> "close", c |-> c]

\* terminate: the timer is cancelled, the socket shut down, and the close
\* handler called if the connection had been open; a second call does nothing.
Terminate(c) ==
  /\ armed' = armed \ {c}
  /\ state' = [state EXCEPT ![c] = "closed"]
  /\ asio' = IF state[c] \in {"open", "closing"} THEN [op |-> "close", c |-> c] ELSE Idle

\* write_push, then dispatch of write_frame unless a write is outstanding.
Enqueue(c, item) ==
  /\ queue' = [queue EXCEPT ![c] = Append(@, item)]
  /\ posted' = IF flag[c] THEN posted ELSE [posted EXCEPT ![c] = @ + 1]
  /\ UNCHANGED flag

\* Mutation: nothing limits the time a close takes.
SendCloseFrameUntimed(c) ==
  /\ state' = [state EXCEPT ![c] = "closing"]
  /\ Enqueue(c, Close)
  /\ UNCHANGED <<timerVars, asio>>

\* send_close_frame: the timer, then the frame.
SendCloseFrame(c) ==
  /\ state' = [state EXCEPT ![c] = "closing"]
  /\ armed' = armed \cup {c}
  /\ Enqueue(c, Close)
  /\ UNCHANGED <<expired, asio>>

(***************************************************************************)
(* Handshake                                                               *)
(***************************************************************************)

\* A connection is accepted; it is given a time to send its request.
Accept(c) ==
  /\ asio = Idle /\ state[c] = "new"
  /\ state' = [state EXCEPT ![c] = "request"]
  /\ armed' = armed \cup {c}
  /\ UNCHANGED <<reading, expired, sendVars, writeVars, asio, connections, pubVars>>

\* The request is complete; a response that accepts or refuses it is written.
ReadHandshake(c) ==
  /\ asio = Idle /\ state[c] = "request"
  /\ \E answer \in {"accept", "refuse"} : state' = [state EXCEPT ![c] = answer]
  /\ UNCHANGED <<reading, timerVars, sendVars, writeVars, asio, connections, pubVars>>

\* The response is written: the connection is open, and its handler is called.
WriteResponse(c) ==
  /\ asio = Idle /\ state[c] = "accept"
  /\ armed' = armed \ {c}
  /\ state' = [state EXCEPT ![c] = "open"]
  /\ asio' = [op |-> "open", c |-> c]
  /\ UNCHANGED <<reading, expired, sendVars, writeVars, connections, pubVars>>

\* The peer was refused, or has gone.
HandshakeFails(c) ==
  /\ asio = Idle /\ state[c] \in Connecting
  /\ Terminate(c)
  /\ UNCHANGED <<reading, expired, sendVars, writeVars, connections, pubVars>>

(***************************************************************************)
(* The two handlers of WebSocketPublisher                                  *)
(***************************************************************************)
OpenHandler ==
  /\ asio.op = "open" /\ ~Locked
  /\ connections' = connections \cup {asio.c}
  /\ reading' = reading \cup {asio.c}
  /\ asio' = Idle
  /\ UNCHANGED <<state, timerVars, sendVars, writeVars, pubVars>>

CloseHandler ==
  /\ asio.op = "close" /\ ~Locked
  /\ connections' = connections \ {asio.c}
  /\ asio' = Idle
  /\ UNCHANGED <<state, reading, timerVars, sendVars, writeVars, pubVars>>

(***************************************************************************)
(* Frames from the peer.  Data is ignored: there is no message handler.    *)
(***************************************************************************)
Reads(c) == asio = Idle /\ c \in reading /\ state[c] # "closed"

ReadClose(c) ==
  /\ Reads(c) /\ state[c] = "open"
  /\ SendCloseFrame(c)
  /\ UNCHANGED <<reading, writeVars, connections, pubVars>>

\* One more close frame, with an invalid code, is acknowledged once more.
\* Bound: one close frame in the queue, besides one that is being written.
ReadInvalidClose(c) ==
  /\ Reads(c) /\ state[c] = "closing"
  /\ ~Holds(queue[c], Close)
  /\ SendCloseFrame(c)
  /\ UNCHANGED <<reading, writeVars, connections, pubVars>>

\* Bound: one pong for each connection.
ReadPing(c) ==
  /\ Reads(c) /\ state[c] = "open"
  /\ ~Holds(Stream(c), Pong)
  /\ Enqueue(c, Pong)
  /\ UNCHANGED <<state, reading, timerVars, writeVars, asio, connections, pubVars>>

\* A frame that breaks the protocol: the connection is closed, and not read
\* from any more; if it was being closed already, it is terminated.
ReadBadFrame(c) ==
  /\ Reads(c)
  /\ reading' = reading \ {c}
  /\ IF state[c] = "open" THEN SendCloseFrame(c)
     ELSE Terminate(c) /\ UNCHANGED <<expired, sendVars>>
  /\ UNCHANGED <<writeVars, connections, pubVars>>

ReadFails(c) ==
  /\ Reads(c)
  /\ reading' = reading \ {c}
  /\ Terminate(c)
  /\ UNCHANGED <<expired, sendVars, writeVars, connections, pubVars>>

(***************************************************************************)
(* Writing                                                                 *)
(***************************************************************************)

\* Mutation: messages are taken from the queue past a terminal one.
BatchAll(q) == Len(q)

\* How much of the queue one write takes: up to a terminal message.
Batch(q) ==
  IF Holds(q, Close)
  THEN CHOOSE i \in 1 .. Len(q) : q[i] = Close /\ \A j \in 1 .. i - 1 : q[j] # Close
  ELSE Len(q)

\* Mutation: an outstanding write is not looked for.
WriteFrameAnyway(c) ==
  /\ asio = Idle /\ posted[c] > 0
  /\ posted' = [posted EXCEPT ![c] = @ - 1]
  /\ IF queue[c] = <<>> THEN UNCHANGED <<queue, writing, flag>>
     ELSE LET n == Batch(queue[c])
          IN /\ queue' = [queue EXCEPT ![c] = SubSeq(@, n + 1, Len(@))]
             /\ flag' = [flag EXCEPT ![c] = TRUE]
             /\ writing' = IF state[c] = "closed" THEN writing
                           ELSE [writing EXCEPT ![c] = SubSeq(queue[c], 1, n)]
  /\ UNCHANGED <<state, reading, timerVars, wire, asio, connections, pubVars>>

\* After the shutdown a write fails at once, which keeps the flag set.
WriteFrame(c) ==
  /\ asio = Idle /\ posted[c] > 0
  /\ posted' = [posted EXCEPT ![c] = @ - 1]
  /\ IF flag[c] \/ queue[c] = <<>> THEN UNCHANGED <<queue, writing, flag>>
     ELSE LET n == Batch(queue[c])
          IN /\ queue' = [queue EXCEPT ![c] = SubSeq(@, n + 1, Len(@))]
             /\ flag' = [flag EXCEPT ![c] = TRUE]
             /\ writing' = IF state[c] = "closed" THEN writing
                           ELSE [writing EXCEPT ![c] = SubSeq(queue[c], 1, n)]
  /\ UNCHANGED <<state, reading, timerVars, wire, asio, connections, pubVars>>

Writes(c) == asio = Idle /\ writing[c] # <<>> /\ state[c] # "closed"

Terminal(s) == s[Len(s)] = Close

\* handle_write_frame without an error.
Written(c) ==
  /\ Writes(c)
  /\ wire' = [wire EXCEPT ![c] = @ \o writing[c]]
  /\ writing' = [writing EXCEPT ![c] = <<>>]
  /\ IF Terminal(writing[c])
     THEN Terminate(c) /\ UNCHANGED <<flag, posted>>
     ELSE /\ flag' = [flag EXCEPT ![c] = FALSE]
          /\ posted' = IF queue[c] = <<>> THEN posted ELSE [posted EXCEPT ![c] = @ + 1]
          /\ UNCHANGED <<state, armed, asio>>
  /\ UNCHANGED <<reading, expired, queue, connections, pubVars>>

\* handle_write_frame with an error: the flag stays set.
WriteFails(c) ==
  /\ Writes(c)
  /\ writing' = [writing EXCEPT ![c] = <<>>]
  /\ Terminate(c)
  /\ UNCHANGED <<reading, expired, sendVars, wire, connections, pubVars>>

(***************************************************************************)
(* Timers                                                                  *)
(***************************************************************************)

\* The time is over: from here on cancel() comes too late.
Expire(c) ==
  /\ c \in armed
  /\ armed' = armed \ {c}
  /\ expired' = expired \cup {c}
  /\ UNCHANGED <<state, reading, sendVars, writeVars, asio, connections, pubVars>>

Timeout(c) ==
  /\ asio = Idle /\ c \in expired
  /\ expired' = expired \ {c}
  /\ Terminate(c)
  /\ UNCHANGED <<reading, sendVars, writeVars, connections, pubVars>>

Handler(c) ==
  \/ Accept(c) \/ ReadHandshake(c) \/ WriteResponse(c) \/ HandshakeFails(c)
  \/ ReadClose(c) \/ ReadInvalidClose(c) \/ ReadPing(c) \/ ReadBadFrame(c) \/ ReadFails(c)
  \/ WriteFrame(c) \/ Written(c) \/ WriteFails(c)
  \/ Timeout(c)

Next ==
  \/ Publisher
  \/ OpenHandler
  \/ CloseHandler
  \/ \E c \in Conns : Handler(c) \/ Expire(c)

Spec == Init /\ [][Next]_vars

\* The two threads run, handlers that are queued get their turn, and time goes
\* on.  Nothing is assumed of the peers, nor that there is a notification.
Fairness ==
  /\ WF_vars(\E c \in Conns : Send(c)) /\ WF_vars(Push) /\ WF_vars(Post) /\ WF_vars(Return)
  /\ WF_vars(OpenHandler) /\ WF_vars(CloseHandler)
  /\ \A c \in Conns : WF_vars(Expire(c)) /\ SF_vars(Timeout(c))

FairSpec == Spec /\ Fairness

-----------------------------------------------------------------------------
(***************************************************************************)
(* Properties                                                              *)
(***************************************************************************)

\* connections_ and the states agree: a handle is there from the open handler
\* to the close handler of its connection, and each connection for which the
\* one was called gets the other exactly once (connection.hpp), whichever of
\* its timers, reads and writes ends it first.
HandlesAreLive ==
  \A c \in Conns :
    IF asio.c = c
    THEN IF asio.op = "open" THEN c \notin connections /\ state[c] = "open"
         ELSE c \in connections /\ state[c] = "closed"
    ELSE c \in connections <=> state[c] \in {"open", "closing"}

\* No lost wake-up: what is queued on a living connection has a write under
\* way or on its way, although two threads push and one of them clears the flag.
QueueIsServed ==
  \A c \in Conns : state[c] \in {"open", "closing"} /\ queue[c] # <<>> =>
    \/ flag[c] /\ writing[c] # <<>>
    \/ posted[c] > 0
    \/ pub = "post" /\ cur = c

\* The messages in s grow, and none is missing between two of them.
InSequence(s) ==
  /\ \A i, j \in 1 .. Len(s) : i < j /\ s[i] \in Nat /\ s[j] \in Nat => s[i] < s[j]
  /\ \A i, j \in 1 .. Len(s) : s[i] \in Nat => \A n \in s[i] .. s[j] : Holds(s, n)

HasMessage(s) == \E i \in 1 .. Len(s) : s[i] \in Nat

\* A peer gets the notifications in order, each once and none left out, from
\* the first it gets to the last; an open connection is up to date.
NothingSkipped ==
  \A c \in Conns :
    /\ InSequence(wire[c])
    /\ state[c] \in {"open", "closing"} => InSequence(Stream(c))
    /\ state[c] = "open" /\ pub = "idle" /\ HasMessage(Stream(c)) =>
         Holds(Stream(c), published)

\* The close frame is the last thing a peer gets, also when the publisher had
\* tested the state before the frame was queued.
CloseIsLast ==
  \A c \in Conns : \A i \in 1 .. Len(wire[c]) - 1 : wire[c][i] # Close

\* A connection that is being closed is gone after a while, whatever the peer
\* does, and fire() no longer meets it.
ClosingEnds ==
  \A c \in Conns : state[c] = "closing" ~> state[c] = "closed" /\ c \notin connections

=============================================================================
