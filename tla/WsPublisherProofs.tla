------------------------- MODULE WsPublisherProofs -------------------------
(***************************************************************************)
(* Proofs about WsPublisher, for any number of connections and messages.   *)
(*                                                                         *)
(* Five properties follow from one inductive invariant, IInv.  That a peer *)
(* gets every message in order needs the most: that the loop of fire()     *)
(* serves the connections that were in connections_ when it began          *)
(* (Serving), and how far the stream of each of them has come (Streams).   *)
(***************************************************************************)
EXTENDS WsPublisher, SequenceTheorems, FiniteSetTheorems, TLAPS

Alive(c) == state[c] # "closed"

\* The asio thread waits for nothing, or for the mutex.
Waits == asio.op = "idle" => asio = Idle

\* On a connection that is not closed the flag tells of an outstanding write.
WriteOutstanding == \A c \in Conns : Alive(c) => (flag[c] <=> writing[c] # <<>>)

\* QueueIsServed for connections that are not open yet, too.
Served ==
  \A c \in Conns : Alive(c) /\ queue[c] # <<>> =>
    flag[c] \/ posted[c] > 0 \/ (pub = "post" /\ cur = c)

\* A close frame ends its batch, and the connection when it has been written.
CloseEnds ==
  \A c \in Conns :
    /\ \A i \in 1 .. Len(writing[c]) : writing[c][i] = Close => i = Len(writing[c])
    /\ Holds(wire[c], Close) => ~Alive(c)

\* What the loop of fire() relies on while it holds the mutex.
Serving ==
  /\ pub = "idle" => todo = {}
  /\ Locked => todo \subseteq connections
  /\ pub \in {"push", "post"} => cur \in connections
  /\ pub = "push" => cur \notin todo

\* From its first message to number top, s holds all of them and no other.
Complete(s, top) ==
  \A i \in 1 .. Len(s) : s[i] \in Nat => s[i] <= top /\ \A n \in s[i] .. top : Holds(s, n)

\* The number of the last notification that c should have been sent.
Newest(c) ==
  IF c \in todo \/ (pub = "push" /\ cur = c) THEN published - 1 ELSE published

\* What is on a stream is in sequence and up to date; it starts after the open handler.
StreamFits(c) ==
  /\ InSequence(Stream(c))
  /\ pub # "thrown" => Complete(Stream(c), Newest(c))
  /\ c \notin connections => ~HasMessage(Stream(c))

Streams == \A c \in Conns : Alive(c) => StreamFits(c)

WireInSequence == \A c \in Conns : InSequence(wire[c])

IInv ==
  /\ TypeOK /\ Waits /\ HandlesAreLive
  /\ WriteOutstanding /\ Served
  /\ CloseEnds /\ CloseIsLast
  /\ Serving /\ Streams /\ WireInSequence

-----------------------------------------------------------------------------
\* A set of positions that is not empty has a first one: of the intervals that
\* end in it, one is least by inclusion.
LEMMA FirstPosition ==
  ASSUME NEW N \in Nat, NEW T \in SUBSET (1 .. N), T # {}
  PROVE  \E n \in T : \A m \in T : n <= m
<1> DEFINE Upto == {1 .. m : m \in T}
<1>1. Upto \subseteq FiniteSubsetsOf(1 .. N) /\ Upto # {}
  <2>1. ASSUME NEW m \in T
        PROVE  1 .. m \subseteq 1 .. N /\ IsFiniteSet(1 .. m)
    <3>1. m \in Int
      OBVIOUS
    <3>2. IsFiniteSet(1 .. m)
      BY <3>1, FS_Interval
    <3>3. QED
      BY <3>2
  <2>2. QED
    BY <2>1 DEF FiniteSubsetsOf
<1>2. PICK I \in Upto : \A J \in Upto : <<J, I>> \notin StrictSubsetOrdering(1 .. N)
  <2> HIDE DEF Upto
  <2>1. IsWellFoundedOn(StrictSubsetOrdering(1 .. N), FiniteSubsetsOf(1 .. N))
    BY FS_StrictSubsetOrderingWellFounded
  <2>2. QED
    BY <1>1, <2>1, WFMin
<1>3. PICK n \in T : I = 1 .. n
  OBVIOUS
<1>4. ASSUME NEW m \in T, m < n PROVE FALSE
  <2>1. 1 .. m \subseteq 1 .. n /\ 1 .. n \subseteq 1 .. N /\ n \notin 1 .. m /\ n \in 1 .. n
    BY <1>4
  <2>2. <<1 .. m, 1 .. n>> \in StrictSubsetOrdering(1 .. N)
    BY <2>1 DEF StrictSubsetOrdering
  <2>3. QED
    BY <1>2, <1>3, <2>2
<1>5. QED
  BY <1>4

\* What one write takes is not empty, and only its last item can be a close frame.
LEMMA BatchProperties ==
  ASSUME NEW q \in Seq(Item), q # <<>>
  PROVE  /\ Batch(q) \in 1 .. Len(q)
         /\ \A i \in 1 .. Batch(q) - 1 : q[i] # Close
<1>1. CASE Holds(q, Close)
  <2> DEFINE T == {i \in 1 .. Len(q) : q[i] = Close}
  <2>1. T \in SUBSET (1 .. Len(q)) /\ T # {} /\ Len(q) \in Nat
    BY <1>1 DEF Holds
  <2>2. PICK n \in T : \A m \in T : n <= m
    <3> HIDE DEF T
    <3> QED
      BY <2>1, FirstPosition
  <2>3. n \in 1 .. Len(q) /\ q[n] = Close /\ \A j \in 1 .. n - 1 : q[j] # Close
    BY <2>2
  <2>4. QED
    BY <1>1, <2>3 DEF Batch
<1>2. CASE ~Holds(q, Close)
  BY <1>2 DEF Batch, Holds
<1>3. QED
  BY <1>1, <1>2

-----------------------------------------------------------------------------
LEMMA InitIInv == Init => IInv
<1> SUFFICES ASSUME Init PROVE IInv
  OBVIOUS
<1> USE DEF Init, Idle
<1>1. TypeOK
  BY DEF TypeOK, Connecting
<1>2. Waits /\ HandlesAreLive /\ WriteOutstanding /\ Served /\ CloseEnds /\ CloseIsLast
  BY WsAssumption DEF Waits, HandlesAreLive, WriteOutstanding, Served, CloseEnds, CloseIsLast, Holds
<1>3. Serving
  BY DEF Serving, Locked
<1>4. \A c \in Conns : wire[c] = <<>> /\ Stream(c) = <<>>
  <2>1. <<>> \in Seq(Item) /\ <<>> \o <<>> = <<>>
    BY ConcatEmptySeq
  <2>2. QED
    BY <2>1 DEF Stream
<1>5. Streams /\ WireInSequence
  BY <1>4 DEF Streams, StreamFits, WireInSequence, InSequence, Complete, HasMessage
<1>6. QED
  BY <1>1, <1>2, <1>3, <1>5 DEF IInv

\* A connection that is closed stays closed.
LEMMA ClosedStays ==
  ASSUME TypeOK, [Next]_vars, NEW c \in Conns, Alive(c)'
  PROVE  Alive(c)
<1> USE DEF TypeOK, Alive
<1>1. CASE Publisher \/ OpenHandler \/ CloseHandler \/ UNCHANGED vars
  BY <1>1 DEF Publisher, Fire, Send, Push, Post, Return, OpenHandler, CloseHandler, vars
<1>2. ASSUME NEW d \in Conns, Handler(d) \/ Expire(d) PROVE Alive(c)
  <2>1. CASE Accept(d) \/ ReadHandshake(d) \/ WriteResponse(d)
    BY <2>1 DEF Accept, ReadHandshake, WriteResponse
  <2>2. CASE HandshakeFails(d) \/ ReadFails(d) \/ WriteFails(d) \/ Timeout(d)
    BY <2>2 DEF HandshakeFails, ReadFails, WriteFails, Timeout, Terminate
  <2>3. CASE ReadClose(d) \/ ReadInvalidClose(d) \/ ReadBadFrame(d)
    BY <2>3 DEF ReadClose, ReadInvalidClose, ReadBadFrame, SendCloseFrame, Terminate
  <2>4. CASE ReadPing(d) \/ WriteFrame(d) \/ Expire(d)
    BY <2>4 DEF ReadPing, WriteFrame, Expire
  <2>5. CASE Written(d)
    BY <2>5 DEF Written, Terminate
  <2>6. QED
    BY <1>2, <2>1, <2>2, <2>3, <2>4, <2>5 DEF Handler
<1>3. QED
  BY <1>1, <1>2 DEF Next

\* What Enqueue leaves well typed.
LEMMA EnqueueType ==
  ASSUME TypeOK, NEW c \in Conns, NEW item \in Item, Enqueue(c, item)
  PROVE  /\ queue' \in [Conns -> Seq(Item)]
         /\ posted' \in [Conns -> Nat]
         /\ flag' \in [Conns -> BOOLEAN]
BY DEF Enqueue, TypeOK

LEMMA TerminateType ==
  ASSUME TypeOK, NEW c \in Conns, Terminate(c)
  PROVE  /\ state' \in [Conns -> {"new", "open", "closing", "closed"} \cup Connecting]
         /\ armed' \in SUBSET Conns
         /\ asio' \in [op : {"idle", "open", "close"}, c : Conns \cup {None}]
         /\ asio'.op # "idle" => asio'.c \in Conns
BY DEF Terminate, TypeOK, Idle

LEMMA WriteFrameType ==
  ASSUME TypeOK, NEW c \in Conns, WriteFrame(c)
  PROVE  TypeOK'
<1> USE DEF TypeOK, sendVars, writeVars, timerVars, pubVars
<1>1. posted' \in [Conns -> Nat]
  BY DEF WriteFrame
<1>2. CASE flag[c] \/ queue[c] = <<>>
  BY <1>1, <1>2 DEF WriteFrame
<1>3. CASE ~(flag[c] \/ queue[c] = <<>>)
  <2> DEFINE n == Batch(queue[c])
  <2>1. n \in 1 .. Len(queue[c])
    BY <1>3, BatchProperties
  <2>2. SubSeq(queue[c], 1, n) \in Seq(Item) /\ SubSeq(queue[c], n + 1, Len(queue[c])) \in Seq(Item)
    <3> HIDE DEF n
    <3> QED
      BY <2>1
  <2>3. /\ queue' \in [Conns -> Seq(Item)]
        /\ writing' \in [Conns -> Seq(Item)]
        /\ flag' \in [Conns -> BOOLEAN]
    BY <1>3, <2>2 DEF WriteFrame
  <2>4. QED
    BY <1>1, <2>3 DEF WriteFrame
<1>4. QED
  BY <1>2, <1>3

LEMMA WrittenType ==
  ASSUME TypeOK, NEW c \in Conns, Written(c)
  PROVE  TypeOK'
<1> USE DEF TypeOK, sendVars, writeVars, timerVars, pubVars
<1>1. wire' \in [Conns -> Seq(Item)] /\ writing' \in [Conns -> Seq(Item)]
  BY DEF Written
<1>2. CASE Terminal(writing[c])
  BY <1>1, <1>2, TerminateType DEF Written
<1>3. CASE ~Terminal(writing[c])
  <2>1. /\ flag' = [flag EXCEPT ![c] = FALSE]
        /\ posted' = posted \/ posted' = [posted EXCEPT ![c] = @ + 1]
    BY <1>3 DEF Written
  <2>2. UNCHANGED <<state, reading, timerVars, queue, asio, connections, pubVars>>
    BY <1>3 DEF Written
  <2>3. flag' \in [Conns -> BOOLEAN]
    BY <2>1
  <2>4. posted' \in [Conns -> Nat]
    <3>1. posted \in [Conns -> Nat] /\ posted[c] + 1 \in Nat
      OBVIOUS
    <3>2. QED
      BY <2>1, <3>1
  <2>5. QED
    BY <1>1, <2>2, <2>3, <2>4
<1>4. QED
  BY <1>2, <1>3

LEMMA NextTypeOK == TypeOK /\ [Next]_vars => TypeOK'
<1> SUFFICES ASSUME TypeOK, [Next]_vars PROVE TypeOK'
  OBVIOUS
<1> USE DEF TypeOK, sendVars, writeVars, timerVars, pubVars
<1>1. CASE Publisher
  <2>1. CASE Fire
    BY <2>1 DEF Fire
  <2>2. ASSUME NEW c \in Conns, Send(c) PROVE TypeOK'
    BY <2>2 DEF Send
  <2>3. CASE Push
    <3>1. queue' \in [Conns -> Seq(Item)]
      BY <2>3 DEF Push, Item
    <3>2. QED
      BY <2>3, <3>1 DEF Push
  <2>4. CASE Post
    BY <2>4 DEF Post
  <2>5. CASE Return
    BY <2>5 DEF Return
  <2>6. QED
    BY <1>1, <2>1, <2>2, <2>3, <2>4, <2>5 DEF Publisher
<1>2. CASE OpenHandler
  BY <1>2 DEF OpenHandler, Idle
<1>3. CASE CloseHandler
  BY <1>3 DEF CloseHandler, Idle
<1>4. ASSUME NEW c \in Conns, Handler(c) PROVE TypeOK'
  <2>1. CASE Accept(c)
    BY <2>1 DEF Accept, Connecting
  <2>2. CASE ReadHandshake(c)
    BY <2>2 DEF ReadHandshake, Connecting
  <2>3. CASE WriteResponse(c)
    BY <2>3 DEF WriteResponse
  <2>4. CASE HandshakeFails(c)
    BY <2>4, TerminateType DEF HandshakeFails
  <2>5. CASE ReadClose(c) \/ ReadInvalidClose(c)
    BY <2>5, EnqueueType DEF ReadClose, ReadInvalidClose, SendCloseFrame, Item
  <2>6. CASE ReadPing(c)
    BY <2>6, EnqueueType DEF ReadPing, Item
  <2>7. CASE ReadBadFrame(c)
    <3>1. CASE state[c] = "open"
      BY <2>7, <3>1, EnqueueType DEF ReadBadFrame, SendCloseFrame, Item
    <3>2. CASE state[c] # "open"
      BY <2>7, <3>2, TerminateType DEF ReadBadFrame
    <3>3. QED
      BY <3>1, <3>2
  <2>8. CASE ReadFails(c)
    BY <2>8, TerminateType DEF ReadFails
  <2>9. CASE WriteFrame(c)
    BY <2>9, WriteFrameType
  <2>10. CASE Written(c)
    BY <2>10, WrittenType
  <2>11. CASE WriteFails(c)
    BY <2>11, TerminateType DEF WriteFails
  <2>12. CASE Timeout(c)
    BY <2>12, TerminateType DEF Timeout
  <2>13. QED
    BY <1>4, <2>1, <2>2, <2>3, <2>4, <2>5, <2>6, <2>7, <2>8, <2>9, <2>10, <2>11, <2>12
    DEF Handler
<1>5. ASSUME NEW c \in Conns, Expire(c) PROVE TypeOK'
  BY <1>5 DEF Expire
<1>6. CASE UNCHANGED vars
  BY <1>6 DEF vars
<1>7. QED
  BY <1>1, <1>2, <1>3, <1>4, <1>5, <1>6 DEF Next

-----------------------------------------------------------------------------
\* The handlers and connections_.
LEMMA TerminateHandles ==
  ASSUME TypeOK, HandlesAreLive, asio = Idle, NEW c \in Conns, Terminate(c),
         UNCHANGED connections
  PROVE  Waits' /\ HandlesAreLive'
BY WsAssumption DEF Terminate, TypeOK, HandlesAreLive, Waits, Idle, Connecting

LEMMA NextHandles ==
  ASSUME TypeOK, Waits, HandlesAreLive, [Next]_vars
  PROVE  Waits' /\ HandlesAreLive'
<1> USE WsAssumption DEF TypeOK, Waits, HandlesAreLive, sendVars, writeVars, timerVars, pubVars
<1>1. CASE UNCHANGED <<state, asio, connections>>
  BY <1>1
<1>2. CASE Publisher
  <2>1. UNCHANGED <<state, asio, connections>>
    BY <1>2 DEF Publisher, Fire, Send, Push, Post, Return
  <2>2. QED
    BY <1>1, <2>1
<1>3. CASE OpenHandler
  BY <1>3 DEF OpenHandler, Idle
<1>4. CASE CloseHandler
  BY <1>4 DEF CloseHandler, Idle
<1>5. ASSUME NEW c \in Conns, Handler(c) PROVE Waits' /\ HandlesAreLive'
  <2>1. CASE Accept(c)
    BY <2>1 DEF Accept, Idle
  <2>2. CASE ReadHandshake(c)
    BY <2>2 DEF ReadHandshake, Idle
  <2>3. CASE WriteResponse(c)
    BY <2>3 DEF WriteResponse, Idle
  <2>4. CASE HandshakeFails(c)
    BY <2>4, TerminateHandles DEF HandshakeFails
  <2>5. CASE ReadClose(c) \/ ReadInvalidClose(c)
    <3>1. /\ state[c] \in {"open", "closing"}
          /\ state' = [state EXCEPT ![c] = "closing"]
          /\ asio = Idle /\ UNCHANGED <<asio, connections>>
      BY <2>5 DEF ReadClose, ReadInvalidClose, SendCloseFrame, Reads
    <3>2. QED
      BY <3>1 DEF Idle
  <2>6. CASE ReadPing(c)
    BY <2>6, <1>1 DEF ReadPing
  <2>7. CASE ReadBadFrame(c)
    <3>1. CASE state[c] = "open"
      BY <2>7, <3>1 DEF ReadBadFrame, SendCloseFrame, Reads, Idle
    <3>2. CASE state[c] # "open"
      BY <2>7, <3>2, TerminateHandles DEF ReadBadFrame, Reads
    <3>3. QED
      BY <3>1, <3>2
  <2>8. CASE ReadFails(c)
    BY <2>8, TerminateHandles DEF ReadFails, Reads
  <2>9. CASE WriteFrame(c)
    BY <2>9, <1>1 DEF WriteFrame
  <2>10. CASE Written(c)
    <3>1. CASE Terminal(writing[c])
      BY <2>10, <3>1, TerminateHandles DEF Written, Writes
    <3>2. CASE ~Terminal(writing[c])
      BY <2>10, <3>2, <1>1 DEF Written
    <3>3. QED
      BY <3>1, <3>2
  <2>11. CASE WriteFails(c)
    BY <2>11, TerminateHandles DEF WriteFails, Writes
  <2>12. CASE Timeout(c)
    BY <2>12, TerminateHandles DEF Timeout
  <2>13. QED
    BY <1>5, <2>1, <2>2, <2>3, <2>4, <2>5, <2>6, <2>7, <2>8, <2>9, <2>10, <2>11, <2>12
    DEF Handler
<1>6. ASSUME NEW c \in Conns, Expire(c) PROVE Waits' /\ HandlesAreLive'
  BY <1>6, <1>1 DEF Expire
<1>7. CASE UNCHANGED vars
  BY <1>7, <1>1 DEF vars
<1>8. QED
  BY <1>2, <1>3, <1>4, <1>5, <1>6, <1>7 DEF Next

-----------------------------------------------------------------------------
\* The queues and the writes.
LEMMA TerminateServed ==
  ASSUME TypeOK, WriteOutstanding, Served, NEW c \in Conns, Terminate(c),
         UNCHANGED <<queue, flag, posted, pub, cur>>,
         \A d \in Conns \ {c} : writing'[d] = writing[d]
  PROVE  WriteOutstanding' /\ Served'
BY DEF Terminate, TypeOK, WriteOutstanding, Served, Alive

LEMMA EnqueueServed ==
  ASSUME TypeOK, WriteOutstanding, Served, NEW c \in Conns, NEW item, Enqueue(c, item),
         UNCHANGED <<writing, pub, cur>>, \A d \in Conns : Alive(d)' => Alive(d)
  PROVE  WriteOutstanding' /\ Served'
<1> USE DEF TypeOK, Alive
<1>1. WriteOutstanding'
  BY DEF Enqueue, WriteOutstanding
<1>2. Served'
  <2> SUFFICES ASSUME NEW d \in Conns, Alive(d)', queue'[d] # <<>>, ~flag'[d]
               PROVE  posted'[d] > 0 \/ (pub' = "post" /\ cur' = d)
    BY DEF Served
  <2>1. CASE d = c
    BY <2>1 DEF Enqueue
  <2>2. CASE d # c
    BY <2>2 DEF Enqueue, Served
  <2>3. QED
    BY <2>1, <2>2
<1>3. QED
  BY <1>1, <1>2

LEMMA NextServed ==
  ASSUME TypeOK, WriteOutstanding, Served, [Next]_vars
  PROVE  WriteOutstanding' /\ Served'
<1> USE DEF TypeOK, sendVars, writeVars, timerVars, pubVars
<1>1. ASSUME UNCHANGED <<queue, flag, posted, writing, pub, cur>>,
             \A d \in Conns : Alive(d)' => Alive(d)
      PROVE  WriteOutstanding' /\ Served'
  BY <1>1 DEF WriteOutstanding, Served
<1>2. CASE Publisher
  <2>1. CASE Fire \/ Return \/ \E c \in Conns : Send(c)
    BY <2>1 DEF Fire, Return, Send, WriteOutstanding, Served, Alive
  <2>2. CASE Push
    BY <2>2 DEF Push, WriteOutstanding, Served, Alive
  <2>3. CASE Post
    BY <2>3 DEF Post, WriteOutstanding, Served, Alive
  <2>4. QED
    BY <1>2, <2>1, <2>2, <2>3 DEF Publisher
<1>3. CASE OpenHandler
  BY <1>3, <1>1 DEF OpenHandler, Alive
<1>4. CASE CloseHandler
  BY <1>4, <1>1 DEF CloseHandler, Alive
<1>5. ASSUME NEW c \in Conns, Handler(c) PROVE WriteOutstanding' /\ Served'
  <2>1. CASE Accept(c)
    BY <2>1, <1>1 DEF Accept, Alive
  <2>2. CASE ReadHandshake(c)
    BY <2>2, <1>1 DEF ReadHandshake, Alive
  <2>3. CASE WriteResponse(c)
    BY <2>3, <1>1 DEF WriteResponse, Alive
  <2>4. CASE HandshakeFails(c)
    BY <2>4, TerminateServed DEF HandshakeFails
  <2>5. CASE ReadClose(c) \/ ReadInvalidClose(c)
    BY <2>5, EnqueueServed DEF ReadClose, ReadInvalidClose, SendCloseFrame, Alive
  <2>6. CASE ReadPing(c)
    BY <2>6, EnqueueServed DEF ReadPing, Alive
  <2>7. CASE ReadBadFrame(c)
    <3>1. CASE state[c] = "open"
      BY <2>7, <3>1, EnqueueServed DEF ReadBadFrame, SendCloseFrame, Alive
    <3>2. CASE state[c] # "open"
      BY <2>7, <3>2, TerminateServed DEF ReadBadFrame
    <3>3. QED
      BY <3>1, <3>2
  <2>8. CASE ReadFails(c)
    BY <2>8, TerminateServed DEF ReadFails
  <2>9. CASE WriteFrame(c)
    <3>1. CASE flag[c] \/ queue[c] = <<>>
      BY <2>9, <3>1 DEF WriteFrame, WriteOutstanding, Served, Alive
    <3>2. CASE ~(flag[c] \/ queue[c] = <<>>)
      <4> DEFINE n == Batch(queue[c])
                 batch == SubSeq(queue[c], 1, n)
      <4>1. n \in 1 .. Len(queue[c])
        BY <3>2, BatchProperties
      <4>2. batch # <<>>
        BY <4>1
      <4>3. /\ flag' = [flag EXCEPT ![c] = TRUE]
            /\ Alive(c) => writing' = [writing EXCEPT ![c] = batch]
            /\ \A d \in Conns \ {c} : /\ writing'[d] = writing[d]
                                      /\ queue'[d] = queue[d]
                                      /\ posted'[d] = posted[d]
            /\ UNCHANGED <<state, pub, cur>>
        BY <2>9, <3>2 DEF WriteFrame, Alive
      <4> HIDE DEF n, batch
      <4>4. WriteOutstanding'
        BY <4>2, <4>3 DEF WriteOutstanding, Alive
      <4>5. Served'
        BY <4>3 DEF Served, Alive
      <4>6. QED
        BY <4>4, <4>5
    <3>3. QED
      BY <3>1, <3>2
  <2>10. CASE Written(c)
    <3>1. CASE Terminal(writing[c])
      BY <2>10, <3>1, TerminateServed DEF Written
    <3>2. CASE ~Terminal(writing[c])
      <4>1. /\ flag' = [flag EXCEPT ![c] = FALSE]
            /\ writing' = [writing EXCEPT ![c] = <<>>]
            /\ queue[c] # <<>> => posted' = [posted EXCEPT ![c] = @ + 1]
            /\ \A d \in Conns \ {c} : posted'[d] = posted[d]
            /\ UNCHANGED <<state, queue, pub, cur>>
        BY <2>10, <3>2 DEF Written
      <4>2. WriteOutstanding'
        BY <4>1 DEF WriteOutstanding, Alive
      <4>3. Served'
        BY <4>1 DEF Served, Alive
      <4>4. QED
        BY <4>2, <4>3
    <3>3. QED
      BY <3>1, <3>2
  <2>11. CASE WriteFails(c)
    BY <2>11, TerminateServed DEF WriteFails
  <2>12. CASE Timeout(c)
    BY <2>12, TerminateServed DEF Timeout
  <2>13. QED
    BY <1>5, <2>1, <2>2, <2>3, <2>4, <2>5, <2>6, <2>7, <2>8, <2>9, <2>10, <2>11, <2>12
    DEF Handler
<1>6. ASSUME NEW c \in Conns, Expire(c) PROVE WriteOutstanding' /\ Served'
  BY <1>6, <1>1 DEF Expire, Alive
<1>7. CASE UNCHANGED vars
  BY <1>7, <1>1 DEF vars, Alive
<1>8. QED
  BY <1>2, <1>3, <1>4, <1>5, <1>6, <1>7 DEF Next

-----------------------------------------------------------------------------
\* The close frame.
LEMMA CloseInConcat ==
  ASSUME NEW w \in Seq(Item), NEW b \in Seq(Item), b # <<>>,
         \A i \in 1 .. Len(w) : w[i] # Close,
         \A i \in 1 .. Len(b) : b[i] = Close => i = Len(b)
  PROVE  /\ \A i \in 1 .. Len(w \o b) - 1 : (w \o b)[i] # Close
         /\ Holds(w \o b, Close) => b[Len(b)] = Close
<1>1. /\ Len(w) \in Nat /\ Len(b) \in Nat
      /\ Len(w \o b) = Len(w) + Len(b)
      /\ \A i \in 1 .. Len(w) + Len(b) :
           (w \o b)[i] = IF i <= Len(w) THEN w[i] ELSE b[i - Len(w)]
  BY ConcatProperties
<1>2. ASSUME NEW i \in 1 .. Len(w \o b), (w \o b)[i] = Close
      PROVE  i = Len(w \o b) /\ b[Len(b)] = Close
  <2>1. i > Len(w)
    BY <1>1, <1>2
  <2>2. i - Len(w) \in 1 .. Len(b) /\ b[i - Len(w)] = Close
    BY <1>1, <1>2, <2>1
  <2>3. i - Len(w) = Len(b)
    BY <2>2
  <2>4. QED
    BY <1>1, <2>2, <2>3
<1>3. \A i \in 1 .. Len(w \o b) - 1 : i \in 1 .. Len(w \o b) /\ i # Len(w \o b)
  BY <1>1
<1>4. QED
  BY <1>2, <1>3 DEF Holds

LEMMA NextClose ==
  ASSUME TypeOK, CloseEnds, CloseIsLast, [Next]_vars
  PROVE  CloseEnds' /\ CloseIsLast'
<1> USE DEF TypeOK, sendVars, writeVars, timerVars, pubVars
<1>1. CASE UNCHANGED writeVars
  BY <1>1, ClosedStays DEF CloseEnds, CloseIsLast
<1>2. CASE Publisher \/ OpenHandler \/ CloseHandler \/ UNCHANGED vars
  <2>1. UNCHANGED writeVars
    BY <1>2 DEF Publisher, Fire, Send, Push, Post, Return, OpenHandler, CloseHandler, vars
  <2>2. QED
    BY <1>1, <2>1
<1>3. ASSUME NEW c \in Conns, Handler(c) PROVE CloseEnds' /\ CloseIsLast'
  <2>1. CASE \/ Accept(c) \/ ReadHandshake(c) \/ WriteResponse(c) \/ HandshakeFails(c)
             \/ ReadClose(c) \/ ReadInvalidClose(c) \/ ReadPing(c) \/ ReadBadFrame(c)
             \/ ReadFails(c) \/ Timeout(c)
    <3>1. UNCHANGED writeVars
      BY <2>1 DEF Accept, ReadHandshake, WriteResponse, HandshakeFails, ReadClose,
                  ReadInvalidClose, ReadPing, ReadBadFrame, ReadFails, Timeout
    <3>2. QED
      BY <1>1, <3>1
  <2>2. CASE WriteFrame(c)
    <3>1. CASE flag[c] \/ queue[c] = <<>> \/ state[c] = "closed"
      BY <1>1, <2>2, <3>1 DEF WriteFrame
    <3>2. CASE ~(flag[c] \/ queue[c] = <<>> \/ state[c] = "closed")
      <4> DEFINE n == Batch(queue[c])
                 batch == SubSeq(queue[c], 1, n)
      <4>1. n \in 1 .. Len(queue[c]) /\ \A i \in 1 .. n - 1 : queue[c][i] # Close
        BY <3>2, BatchProperties
      <4>2. Len(batch) = n /\ \A i \in 1 .. Len(batch) : batch[i] = Close => i = Len(batch)
        <5> HIDE DEF n
        <5> QED
          BY <4>1
      <4>3. /\ writing' = [writing EXCEPT ![c] = batch]
            /\ UNCHANGED <<state, wire>>
        BY <2>2, <3>2 DEF WriteFrame
      <4> HIDE DEF n, batch
      <4>4. QED
        BY <4>2, <4>3 DEF CloseEnds, CloseIsLast, Holds, Alive
    <3>3. QED
      BY <3>1, <3>2
  <2>3. CASE Written(c)
    <3> DEFINE w == wire[c]
               b == writing[c]
    <3>1. /\ w \in Seq(Item) /\ b \in Seq(Item) /\ b # <<>>
          /\ \A i \in 1 .. Len(w) : w[i] # Close
          /\ \A i \in 1 .. Len(b) : b[i] = Close => i = Len(b)
      BY <2>3 DEF Written, Writes, CloseEnds, Holds, Alive
    <3>2. /\ wire' = [wire EXCEPT ![c] = w \o b]
          /\ writing' = [writing EXCEPT ![c] = <<>>]
          /\ b[Len(b)] = Close => ~Alive(c)'
      BY <2>3 DEF Written, Terminal, Terminate, Alive
    <3> HIDE DEF w, b
    <3>3. /\ \A i \in 1 .. Len(w \o b) - 1 : (w \o b)[i] # Close
          /\ Holds(w \o b, Close) => ~Alive(c)'
      BY <3>1, <3>2, CloseInConcat
    <3>4. CloseIsLast'
      <4> SUFFICES ASSUME NEW d \in Conns
                   PROVE  \A i \in 1 .. Len(wire'[d]) - 1 : wire'[d][i] # Close
        BY DEF CloseIsLast
      <4>1. CASE d = c
        <5>1. wire'[d] = w \o b
          BY <3>2, <4>1
        <5>2. QED
          BY <3>3, <5>1
      <4>2. CASE d # c
        <5>1. wire'[d] = wire[d]
          BY <3>2, <4>2
        <5>2. QED
          BY <5>1 DEF CloseIsLast
      <4>3. QED
        BY <4>1, <4>2
    <3>5. CloseEnds'
      <4> SUFFICES ASSUME NEW d \in Conns
                   PROVE  /\ \A i \in 1 .. Len(writing'[d]) :
                                writing'[d][i] = Close => i = Len(writing'[d])
                          /\ Holds(wire'[d], Close) => ~Alive(d)'
        BY DEF CloseEnds
      <4>1. CASE d = c
        <5>1. wire'[d] = w \o b /\ writing'[d] = <<>>
          BY <3>2, <4>1
        <5>2. Holds(wire'[d], Close) => ~Alive(d)'
          BY <3>3, <4>1, <5>1
        <5>3. QED
          BY <5>1, <5>2
      <4>2. CASE d # c
        <5>1. wire'[d] = wire[d] /\ writing'[d] = writing[d]
          BY <3>2, <4>2
        <5>2. QED
          BY <5>1, ClosedStays DEF CloseEnds, Holds
      <4>3. QED
        BY <4>1, <4>2
    <3>6. QED
      BY <3>4, <3>5
  <2>4. CASE WriteFails(c)
    <3>1. /\ writing' = [writing EXCEPT ![c] = <<>>]
          /\ UNCHANGED wire
      BY <2>4 DEF WriteFails
    <3>2. QED
      BY <3>1, ClosedStays DEF CloseEnds, CloseIsLast
  <2>5. QED
    BY <1>3, <2>1, <2>2, <2>3, <2>4 DEF Handler
<1>4. ASSUME NEW c \in Conns, Expire(c) PROVE CloseEnds' /\ CloseIsLast'
  BY <1>4, <1>1 DEF Expire
<1>5. QED
  BY <1>2, <1>3, <1>4 DEF Next

-----------------------------------------------------------------------------
\* Streams of messages.
LEMMA InSequencePrefix ==
  ASSUME NEW p \in Seq(Item), NEW q \in Seq(Item), InSequence(p \o q)
  PROVE  InSequence(p)
<1> DEFINE s == p \o q
<1>1. /\ Len(p) \in Nat /\ Len(s) \in Nat /\ Len(p) <= Len(s)
      /\ \A i \in 1 .. Len(p) : s[i] = p[i]
      /\ \A i \in 1 .. Len(p) : i \in 1 .. Len(s)
  BY ConcatProperties
<1>2. \A i, j \in 1 .. Len(s) : i < j /\ s[i] \in Nat /\ s[j] \in Nat => s[i] < s[j]
  BY DEF InSequence
<1>3. \A i, j \in 1 .. Len(s) : s[i] \in Nat => \A n \in s[i] .. s[j] : Holds(s, n)
  BY DEF InSequence
<1> HIDE DEF s
<1>4. ASSUME NEW i \in 1 .. Len(p), NEW j \in 1 .. Len(p), p[i] \in Nat,
             NEW n \in p[i] .. p[j]
      PROVE  Holds(p, n)
  <2>1. PICK l \in 1 .. Len(s) : s[l] = n
    BY <1>1, <1>3, <1>4 DEF Holds
  <2>2. p[j] \in Item /\ p[j] \in Nat /\ n \in Nat /\ n <= p[j]
    BY <1>4 DEF Item, Close, Pong
  <2>3. ~(l > j)
    BY <1>1, <1>2, <2>1, <2>2
  <2>4. l \in 1 .. Len(p)
    BY <1>1, <2>3
  <2>5. QED
    BY <1>1, <2>1, <2>4 DEF Holds
<1>5. QED
  BY <1>1, <1>2, <1>4 DEF InSequence

\* The next message is queued.
LEMMA AppendMessage ==
  ASSUME NEW s \in Seq(Item), NEW top \in Int, top + 1 \in Nat,
         InSequence(s), Complete(s, top)
  PROVE  /\ InSequence(Append(s, top + 1))
         /\ Complete(Append(s, top + 1), top + 1)
<1> DEFINE t == Append(s, top + 1)
<1>1. /\ Len(s) \in Nat /\ Len(t) = Len(s) + 1 /\ t[Len(t)] = top + 1
      /\ \A i \in 1 .. Len(s) : t[i] = s[i] /\ s[i] \in Item
  OBVIOUS
<1>2. \A i \in 1 .. Len(t) : i = Len(t) \/ i \in 1 .. Len(s)
  BY <1>1
<1>3. \A n : Holds(s, n) \/ n = top + 1 => Holds(t, n)
  BY <1>1 DEF Holds
<1> HIDE DEF t
<1>4. \A i, j \in 1 .. Len(t) : i < j /\ t[i] \in Nat /\ t[j] \in Nat => t[i] < t[j]
  <2> SUFFICES ASSUME NEW i \in 1 .. Len(t), NEW j \in 1 .. Len(t), i < j,
                      t[i] \in Nat, t[j] \in Nat
               PROVE  t[i] < t[j]
    OBVIOUS
  <2>1. i \in 1 .. Len(s)
    BY <1>1
  <2>2. CASE j = Len(t)
    BY <1>1, <2>1, <2>2 DEF Complete
  <2>3. CASE j \in 1 .. Len(s)
    BY <1>1, <2>1, <2>3 DEF InSequence
  <2>4. QED
    BY <1>2, <2>2, <2>3
<1>5. ASSUME NEW i \in 1 .. Len(t), t[i] \in Nat
      PROVE  t[i] <= top + 1 /\ \A n \in t[i] .. top + 1 : Holds(t, n)
  <2>1. CASE i = Len(t)
    BY <1>1, <1>3, <2>1
  <2>2. CASE i \in 1 .. Len(s)
    <3>1. s[i] <= top /\ \A n \in s[i] .. top : Holds(s, n)
      BY <1>1, <1>5, <2>2 DEF Complete
    <3>2. \A n \in s[i] .. top + 1 : n = top + 1 \/ n \in s[i] .. top
      BY <1>1, <1>5, <2>2
    <3>3. QED
      BY <1>1, <1>3, <1>5, <2>2, <3>1, <3>2
  <2>3. QED
    BY <1>2, <2>1, <2>2
<1>6. Complete(t, top + 1)
  BY <1>5 DEF Complete
<1>7. ASSUME NEW i \in 1 .. Len(t), NEW j \in 1 .. Len(t), t[i] \in Nat,
             NEW n \in t[i] .. t[j]
      PROVE  Holds(t, n)
  <2>1. t[j] \in Item
    BY <1>1, <1>2 DEF Item
  <2>2. t[j] \in Nat /\ n <= t[j]
    BY <1>7, <2>1 DEF Item, Close, Pong
  <2>3. n \in t[i] .. top + 1
    BY <1>5, <1>7, <2>2
  <2>4. QED
    BY <1>5, <1>7, <2>3
<1>8. QED
  BY <1>4, <1>6, <1>7 DEF InSequence, t

\* A control frame is queued.
LEMMA AppendControl ==
  ASSUME NEW s \in Seq(Item), NEW x \in {Close, Pong}, InSequence(s)
  PROVE  /\ InSequence(Append(s, x))
         /\ HasMessage(Append(s, x)) => HasMessage(s)
         /\ \A top : Complete(s, top) => Complete(Append(s, x), top)
<1> DEFINE t == Append(s, x)
<1>1. /\ Len(s) \in Nat /\ Len(t) = Len(s) + 1 /\ t[Len(t)] = x
      /\ \A i \in 1 .. Len(s) : t[i] = s[i] /\ i \in 1 .. Len(t)
  OBVIOUS
<1>2. x \notin Nat /\ x \in Int /\ \A n \in Nat : n > x
  BY DEF Close, Pong
<1>3. \A i \in 1 .. Len(t) : i = Len(t) \/ i \in 1 .. Len(s)
  BY <1>1
<1>4. \A n : Holds(s, n) => Holds(t, n)
  BY <1>1 DEF Holds
<1> HIDE DEF t
<1>5. \A i \in 1 .. Len(t) : t[i] \in Nat => i \in 1 .. Len(s) /\ s[i] = t[i]
  BY <1>1, <1>2, <1>3
<1>6. HasMessage(t) => HasMessage(s)
  BY <1>5 DEF HasMessage
<1>7. \A top : Complete(s, top) => Complete(t, top)
  BY <1>4, <1>5 DEF Complete
<1>8. ASSUME NEW i \in 1 .. Len(t), NEW j \in 1 .. Len(t), t[i] \in Nat,
             NEW n \in t[i] .. t[j]
      PROVE  Holds(t, n)
  <2>1. j # Len(t)
    BY <1>1, <1>2, <1>8
  <2>2. j \in 1 .. Len(s) /\ t[j] = s[j]
    BY <1>1, <1>3, <2>1
  <2>3. QED
    BY <1>4, <1>5, <1>8, <2>2 DEF InSequence
<1>9. \A i, j \in 1 .. Len(t) : i < j /\ t[i] \in Nat /\ t[j] \in Nat => t[i] < t[j]
  BY <1>5 DEF InSequence
<1>10. QED
  BY <1>6, <1>7, <1>8, <1>9 DEF InSequence, t

\* What is pushed comes last in the stream.
LEMMA StreamAppend ==
  ASSUME TypeOK, NEW c \in Conns, NEW x \in Item,
         queue'[c] = Append(queue[c], x), wire'[c] = wire[c], writing'[c] = writing[c]
  PROVE  Stream(c)' = Append(Stream(c), x)
<1> DEFINE v == wire[c] \o writing[c]
<1>1. v \in Seq(Item) /\ queue[c] \in Seq(Item)
  BY DEF TypeOK
<1>2. Stream(c)' = v \o Append(queue[c], x)
  BY DEF Stream
<1> HIDE DEF v
<1>3. v \o Append(queue[c], x) = Append(v \o queue[c], x)
  BY <1>1
<1>4. QED
  BY <1>2, <1>3 DEF Stream, v

LEMMA StreamType ==
  ASSUME TypeOK, NEW c \in Conns
  PROVE  Stream(c) \in Seq(Item)
BY DEF TypeOK, Stream

LEMMA ConcatItems ==
  ASSUME NEW w \in Seq(Item), NEW a \in Seq(Item), NEW b \in Seq(Item)
  PROVE  (w \o a) \o b = w \o (a \o b)
BY ConcatAssociative

LEMMA SplitSeq ==
  ASSUME NEW w \in Seq(Item), NEW q \in Seq(Item), NEW n \in 1 .. Len(q)
  PROVE  (w \o SubSeq(q, 1, n)) \o SubSeq(q, n + 1, Len(q)) = w \o q
<1>1. Len(q) \in Nat /\ n \in Nat /\ 1 <= n /\ n <= Len(q)
  OBVIOUS
<1>2. SubSeq(q, 1, n) \in Seq(Item) /\ SubSeq(q, n + 1, Len(q)) \in Seq(Item)
  BY <1>1
<1>3. SubSeq(q, 1, n) \o SubSeq(q, n + 1, Len(q)) = SubSeq(q, 1, Len(q))
  <2>1. 1 \in 1 .. Len(q) + 1 /\ n \in 1 - 1 .. Len(q) /\ Len(q) \in n .. Len(q)
    BY <1>1
  <2>2. QED
    BY <2>1, ConcatAdjacentSubSeq
<1>4. SubSeq(q, 1, Len(q)) = q
  BY SubSeqFull
<1>5. QED
  <2>1. PICK a \in Seq(Item) : a = SubSeq(q, 1, n)
    BY <1>2, Zenon
  <2>2. PICK b \in Seq(Item) : b = SubSeq(q, n + 1, Len(q))
    BY <1>2, Zenon
  <2>3. a \o b = q
    BY <1>3, <1>4, <2>1, <2>2, Zenon
  <2>4. (w \o a) \o b = w \o (a \o b)
    BY ConcatItems
  <2>5. QED
    BY <2>1, <2>2, <2>3, <2>4, Zenon

\* write_frame moves the head of the queue, and leaves the stream as it is.
LEMMA WriteFrameStream ==
  ASSUME TypeOK, WriteOutstanding, NEW c \in Conns, WriteFrame(c), Alive(c), NEW d \in Conns
  PROVE  Stream(d)' = Stream(d)
<1> USE DEF TypeOK
<1>1. CASE flag[c] \/ queue[c] = <<>>
  BY <1>1 DEF WriteFrame, Stream
<1>2. CASE ~(flag[c] \/ queue[c] = <<>>)
  <2> DEFINE q == queue[c]
             n == Batch(q)
  <2>1. n \in 1 .. Len(q) /\ q \in Seq(Item)
    BY <1>2, BatchProperties
  <2>2. writing[c] = <<>>
    BY <1>2 DEF WriteOutstanding
  <2>3. /\ writing' = [writing EXCEPT ![c] = SubSeq(q, 1, n)]
        /\ queue' = [queue EXCEPT ![c] = SubSeq(q, n + 1, Len(q))]
        /\ UNCHANGED wire
    BY <1>2 DEF WriteFrame, Alive
  <2>4. CASE d # c
    BY <2>3, <2>4 DEF Stream
  <2>5. CASE d = c
    <3> DEFINE w == wire[c]
    <3>1. w \in Seq(Item) /\ w \o <<>> = w
      BY ConcatEmptySeq
    <3>2. Stream(c)' = (w \o SubSeq(q, 1, n)) \o SubSeq(q, n + 1, Len(q))
      BY <2>3 DEF Stream
    <3>3. Stream(c) = w \o q
      BY <2>2, <3>1 DEF Stream
    <3> HIDE DEF n, q, w
    <3>4. QED
      BY <2>1, <2>5, <3>1, <3>2, <3>3, SplitSeq
  <2>6. QED
    BY <2>4, <2>5
<1>3. QED
  BY <1>1, <1>2

\* A completed write puts the batch on the wire; the stream stays as it is.
LEMMA WrittenStream ==
  ASSUME TypeOK, NEW c \in Conns, Written(c), NEW d \in Conns
  PROVE  Stream(d)' = Stream(d) /\ (d # c => wire'[d] = wire[d])
<1> USE DEF TypeOK
<1>1. /\ wire' = [wire EXCEPT ![c] = @ \o writing[c]]
      /\ writing' = [writing EXCEPT ![c] = <<>>]
      /\ UNCHANGED queue
  BY DEF Written
<1>2. CASE d # c
  BY <1>1, <1>2 DEF Stream
<1>3. CASE d = c
  <2>1. wire[c] \o writing[c] \in Seq(Item)
    OBVIOUS
  <2>2. (wire[c] \o writing[c]) \o <<>> = wire[c] \o writing[c]
    BY <2>1, ConcatEmptySeq
  <2>3. QED
    BY <1>1, <1>3, <2>2 DEF Stream
<1>4. QED
  BY <1>2, <1>3

-----------------------------------------------------------------------------
LEMMA NextServing ==
  ASSUME TypeOK, Serving, [Next]_vars
  PROVE  Serving'
<1> USE DEF TypeOK, sendVars, writeVars, timerVars, pubVars, Serving, Locked
<1>1. CASE Publisher
  BY <1>1 DEF Publisher, Fire, Send, Push, Post, Return
<1>2. CASE OpenHandler \/ CloseHandler
  BY <1>2 DEF OpenHandler, CloseHandler
<1>3. CASE UNCHANGED <<connections, pubVars>>
  BY <1>3
<1>4. ASSUME NEW c \in Conns, Handler(c) \/ Expire(c) PROVE UNCHANGED <<connections, pubVars>>
  BY <1>4 DEF Handler, Expire, Accept, ReadHandshake, WriteResponse, HandshakeFails, ReadClose,
              ReadInvalidClose, ReadPing, ReadBadFrame, ReadFails, WriteFrame, Written,
              WriteFails, Timeout
<1>5. CASE UNCHANGED vars
  BY <1>5, <1>3 DEF vars
<1>6. QED
  BY <1>1, <1>2, <1>3, <1>4, <1>5 DEF Next

\* A step that leaves a stream and fire() as they are.
LEMMA SameStreamFits ==
  ASSUME NEW c \in Conns, StreamFits(c), Stream(c)' = Stream(c), UNCHANGED <<connections, pubVars>>
  PROVE  StreamFits(c)'
BY DEF StreamFits, InSequence, Complete, HasMessage, Holds, Newest, pubVars

\* The asio thread queues a control frame.
LEMMA ControlFits ==
  ASSUME TypeOK, NEW c \in Conns, NEW x \in {Close, Pong}, Enqueue(c, x),
         UNCHANGED <<writeVars, connections, pubVars>>,
         NEW d \in Conns, StreamFits(d)
  PROVE  StreamFits(d)'
<1>1. /\ queue' = [queue EXCEPT ![c] = Append(@, x)]
      /\ UNCHANGED <<writing, wire>>
  BY DEF Enqueue, writeVars
<1>2. CASE d # c
  <2>1. Stream(d)' = Stream(d)
    BY <1>1, <1>2 DEF Stream, TypeOK
  <2>2. QED
    BY <2>1, SameStreamFits
<1>3. CASE d = c
  <2>1. Stream(c)' = Append(Stream(c), x)
    <3>1. x \in Item /\ queue'[c] = Append(queue[c], x)
      BY <1>1 DEF TypeOK, Item
    <3>2. QED
      BY <1>1, <3>1, StreamAppend
  <2>2. Stream(c) \in Seq(Item)
    BY StreamType
  <2>3. InSequence(Stream(c)) /\ Newest(c)' = Newest(c) /\ pub' = pub /\ connections' = connections
    BY <1>3 DEF StreamFits, Newest, pubVars
  <2>4. /\ InSequence(Append(Stream(c), x))
        /\ HasMessage(Append(Stream(c), x)) => HasMessage(Stream(c))
        /\ \A top : Complete(Stream(c), top) => Complete(Append(Stream(c), x), top)
    BY <2>2, <2>3, AppendControl
  <2> HIDE DEF Newest
  <2>5. /\ InSequence(Stream(c))'
        /\ HasMessage(Stream(c))' => HasMessage(Stream(c))
        /\ Complete(Stream(c), Newest(c)) => Complete(Stream(c), Newest(c))'
    BY <2>1, <2>3, <2>4 DEF InSequence, HasMessage, Complete, Holds
  <2>6. QED
    BY <1>3, <2>3, <2>5 DEF StreamFits
<1>4. QED
  BY <1>2, <1>3

\* The publisher queues the message that was missing.
LEMMA PushFits ==
  ASSUME TypeOK, Serving, NEW d \in Conns, StreamFits(d), Push
  PROVE  StreamFits(d)'
<1>1. /\ queue' = [queue EXCEPT ![cur] = Append(@, published)]
      /\ pub = "push" /\ pub' \in {"loop", "post"}
      /\ UNCHANGED <<writing, wire, connections, todo, cur, published>>
  BY DEF Push, writeVars
<1>2. CASE d # cur
  <2>1. Stream(d)' = Stream(d)
    BY <1>1, <1>2 DEF Stream, TypeOK
  <2>2. Newest(d)' = Newest(d)
    BY <1>1, <1>2 DEF Newest
  <2>3. QED
    BY <1>1, <2>1, <2>2 DEF StreamFits, InSequence, Complete, HasMessage, Holds
<1>3. CASE d = cur
  <2>1. Stream(d)' = Append(Stream(d), published)
    <3>1. published \in Item /\ queue'[d] = Append(queue[d], published)
      BY <1>1, <1>3 DEF TypeOK, Item
    <3>2. QED
      BY <1>1, <3>1, StreamAppend
  <2>2. d \in connections /\ d \notin todo /\ published \in Nat
    BY <1>1, <1>3 DEF Serving, TypeOK
  <2>3. Newest(d) = published - 1 /\ Newest(d)' = published
    BY <1>1, <1>3, <2>2 DEF Newest
  <2>4. /\ InSequence(Append(Stream(d), published))
        /\ Complete(Append(Stream(d), published), published)
    <3>1. InSequence(Stream(d)) /\ Complete(Stream(d), published - 1)
      BY <1>1, <2>3 DEF StreamFits
    <3>2. Stream(d) \in Seq(Item) /\ published - 1 \in Int /\ (published - 1) + 1 = published
      BY <2>2, StreamType
    <3>3. QED
      BY <2>2, <3>1, <3>2, AppendMessage
  <2>5. InSequence(Stream(d))' /\ Complete(Stream(d), Newest(d))'
    BY <2>1, <2>3, <2>4 DEF InSequence, Complete, Holds
  <2>6. QED
    BY <1>1, <2>2, <2>5 DEF StreamFits
<1>4. QED
  BY <1>2, <1>3

\* The other steps of fire() change what is newest for whom, and no stream.
LEMMA FireFits ==
  ASSUME TypeOK, Serving, Fire \/ (\E c \in Conns : Send(c)) \/ Post \/ Return,
         NEW d \in Conns, StreamFits(d)
  PROVE  StreamFits(d)'
<1>1. Stream(d)' = Stream(d) /\ connections' = connections
  BY DEF Fire, Send, Post, Return, Stream, sendVars, writeVars
<1>2. pub' # "thrown" => pub # "thrown" /\ (d \in connections => Newest(d)' = Newest(d))
  BY DEF Fire, Send, Post, Return, Newest, Serving, TypeOK
<1>3. ~HasMessage(Stream(d)) => Complete(Stream(d), Newest(d)')
  BY DEF HasMessage, Complete
<1>4. /\ InSequence(Stream(d))' = InSequence(Stream(d))
      /\ HasMessage(Stream(d))' = HasMessage(Stream(d))
  BY <1>1 DEF InSequence, HasMessage, Holds
<1>5. pub' # "thrown" => Complete(Stream(d), Newest(d)')
  BY <1>2, <1>3 DEF StreamFits
<1>6. Complete(Stream(d), Newest(d))' = Complete(Stream(d), Newest(d)')
  BY <1>1 DEF Complete, Holds
<1>7. QED
  BY <1>1, <1>4, <1>5, <1>6 DEF StreamFits

\* A handler that changes no stream, and does not touch connections_.
LEMMA QuietFits ==
  ASSUME NEW d \in Conns, StreamFits(d), UNCHANGED <<queue, writing, wire, connections, pubVars>>
  PROVE  StreamFits(d)'
<1>1. Stream(d)' = Stream(d) /\ UNCHANGED <<connections, pubVars>>
  BY DEF Stream
<1>2. QED
  BY <1>1, SameStreamFits

LEMMA HandlerFits ==
  ASSUME TypeOK, WriteOutstanding, NEW c \in Conns, Handler(c) \/ Expire(c),
         NEW d \in Conns, Alive(d)', StreamFits(d)
  PROVE  StreamFits(d)'
<1>1. CASE Accept(c) \/ ReadHandshake(c) \/ WriteResponse(c) \/ HandshakeFails(c)
           \/ ReadFails(c) \/ Timeout(c) \/ Expire(c)
  BY <1>1, QuietFits
  DEF Accept, ReadHandshake, WriteResponse, HandshakeFails, ReadFails, Timeout, Expire,
      sendVars, writeVars
<1>2. CASE ReadClose(c) \/ ReadInvalidClose(c)
  BY <1>2, ControlFits DEF ReadClose, ReadInvalidClose, SendCloseFrame
<1>3. CASE ReadPing(c)
  BY <1>3, ControlFits DEF ReadPing
<1>4. CASE ReadBadFrame(c)
  <2>1. CASE state[c] = "open"
    BY <1>4, <2>1, ControlFits DEF ReadBadFrame, SendCloseFrame
  <2>2. CASE state[c] # "open"
    BY <1>4, <2>2, QuietFits DEF ReadBadFrame, sendVars, writeVars
  <2>3. QED
    BY <2>1, <2>2
<1>5. CASE WriteFrame(c)
  <2>1. UNCHANGED <<state, connections, pubVars>>
    BY <1>5 DEF WriteFrame
  <2>2. CASE Alive(c)
    BY <1>5, <2>1, <2>2, WriteFrameStream, SameStreamFits
  <2>3. CASE ~Alive(c)
    <3>1. d # c
      BY <2>1, <2>3 DEF Alive
    <3>2. queue'[d] = queue[d] /\ writing'[d] = writing[d] /\ wire' = wire
      BY <1>5, <3>1 DEF WriteFrame, TypeOK
    <3>3. Stream(d)' = Stream(d)
      BY <3>2 DEF Stream
    <3>4. QED
      BY <2>1, <3>3, SameStreamFits
  <2>4. QED
    BY <2>2, <2>3
<1>6. CASE Written(c)
  <2>1. UNCHANGED <<connections, pubVars>>
    BY <1>6 DEF Written
  <2>2. QED
    BY <1>6, <2>1, WrittenStream, SameStreamFits
<1>7. CASE WriteFails(c)
  <2>1. d # c /\ UNCHANGED <<queue, wire, connections, pubVars>>
    BY <1>7 DEF WriteFails, Terminate, TypeOK, Alive, sendVars
  <2>2. writing'[d] = writing[d]
    BY <1>7, <2>1 DEF WriteFails, TypeOK
  <2>3. Stream(d)' = Stream(d)
    BY <2>1, <2>2 DEF Stream
  <2>4. QED
    BY <2>1, <2>3, SameStreamFits
<1>8. QED
  BY <1>1, <1>2, <1>3, <1>4, <1>5, <1>6, <1>7 DEF Handler

LEMMA NextStreams ==
  ASSUME TypeOK, Waits, HandlesAreLive, WriteOutstanding, Serving, Streams, [Next]_vars
  PROVE  Streams'
<1>1. SUFFICES ASSUME NEW d \in Conns, Alive(d)'
               PROVE  StreamFits(d)'
  BY DEF Streams
<1>2. StreamFits(d)
  BY <1>1, ClosedStays DEF Streams
<1>3. CASE Publisher
  BY <1>2, <1>3, PushFits, FireFits DEF Publisher
<1>4. CASE OpenHandler \/ CloseHandler
  <2>1. UNCHANGED <<state, queue, writing, wire, pubVars>>
    BY <1>4 DEF OpenHandler, CloseHandler, sendVars, writeVars
  <2>2. d \in connections => d \in connections'
    <3>1. CASE OpenHandler
      BY <3>1 DEF OpenHandler
    <3>2. CASE CloseHandler
      <4>1. asio.c \in Conns /\ state[asio.c] = "closed"
        BY <3>2 DEF CloseHandler, HandlesAreLive, TypeOK
      <4>2. asio.c # d
        BY <1>1, <2>1, <4>1 DEF Alive
      <4>3. QED
        BY <3>2, <4>2 DEF CloseHandler
    <3>3. QED
      BY <1>4, <3>1, <3>2
  <2>3. Stream(d)' = Stream(d) /\ Newest(d)' = Newest(d) /\ pub' = pub
    BY <2>1 DEF Stream, Newest, pubVars
  <2>4. /\ InSequence(Stream(d))' = InSequence(Stream(d))
        /\ HasMessage(Stream(d))' = HasMessage(Stream(d))
        /\ Complete(Stream(d), Newest(d))' = Complete(Stream(d), Newest(d))
    BY <2>3 DEF InSequence, HasMessage, Complete, Holds
  <2>5. QED
    BY <1>2, <2>2, <2>3, <2>4 DEF StreamFits
<1>5. ASSUME NEW c \in Conns, Handler(c) \/ Expire(c)
      PROVE  StreamFits(d)'
  BY <1>1, <1>2, <1>5, HandlerFits
<1>6. CASE UNCHANGED vars
  BY <1>2, <1>6, QuietFits DEF vars, sendVars, writeVars
<1>7. QED
  BY <1>3, <1>4, <1>5, <1>6 DEF Next

\* What has been written is the beginning of a stream.
LEMMA NextWire ==
  ASSUME TypeOK, WriteOutstanding, Streams, WireInSequence, [Next]_vars
  PROVE  WireInSequence'
<1>1. ASSUME UNCHANGED wire PROVE WireInSequence'
  BY <1>1 DEF WireInSequence, InSequence, Holds
<1>2. CASE Publisher \/ OpenHandler \/ CloseHandler \/ UNCHANGED vars
  BY <1>1, <1>2 DEF Publisher, Fire, Send, Push, Post, Return, OpenHandler, CloseHandler,
                    vars, writeVars
<1>3. ASSUME NEW c \in Conns, Handler(c) \/ Expire(c)
      PROVE  WireInSequence'
  <2>1. CASE Written(c)
    <3>1. SUFFICES ASSUME NEW d \in Conns PROVE InSequence(wire[d])'
      BY DEF WireInSequence
    <3>2. CASE d # c
      <4>1. wire'[d] = wire[d]
        BY <2>1, <3>2, WrittenStream
      <4>2. InSequence(wire[d])
        BY DEF WireInSequence
      <4>3. QED
        BY <4>1, <4>2 DEF InSequence, Holds
    <3>3. CASE d = c
      <4>1. wire'[c] = wire[c] \o writing[c] /\ wire'[c] \in Seq(Item) /\ queue[c] \in Seq(Item)
        BY <2>1 DEF Written, TypeOK
      <4>2. InSequence(Stream(c))
        BY <2>1 DEF Written, Writes, Streams, StreamFits, Alive
      <4>3. Stream(c) = wire'[c] \o queue[c]
        BY <4>1 DEF Stream
      <4>4. InSequence(wire'[c])
        BY <4>1, <4>2, <4>3, InSequencePrefix
      <4>5. QED
        BY <3>3, <4>4 DEF InSequence, Holds
    <3>4. QED
      BY <3>2, <3>3
  <2>2. CASE ~Written(c)
    BY <1>1, <1>3, <2>2
    DEF Handler, Expire, Accept, ReadHandshake, WriteResponse, HandshakeFails, ReadClose,
        ReadInvalidClose, ReadPing, ReadBadFrame, ReadFails, WriteFrame, WriteFails, Timeout,
        writeVars
  <2>3. QED
    BY <2>1, <2>2
<1>4. QED
  BY <1>2, <1>3 DEF Next

-----------------------------------------------------------------------------
LEMMA NextIInv == IInv /\ [Next]_vars => IInv'
<1> SUFFICES ASSUME IInv, [Next]_vars PROVE IInv'
  OBVIOUS
<1> USE DEF IInv
<1>1. TypeOK'
  BY NextTypeOK
<1>2. Waits' /\ HandlesAreLive'
  BY NextHandles
<1>3. WriteOutstanding' /\ Served'
  BY NextServed
<1>4. CloseEnds' /\ CloseIsLast'
  BY NextClose
<1>5. Serving'
  BY NextServing
<1>6. Streams' /\ WireInSequence'
  BY NextStreams, NextWire
<1>7. QED
  BY <1>1, <1>2, <1>3, <1>4, <1>5, <1>6

LEMMA Invariance == Spec => []IInv
BY InitIInv, NextIInv, PTL DEF Spec

\* The variables keep their types: a write takes part of the queue, fire() pushes
\* to a connection that exists, and asio waits for the mutex on behalf of one.
THEOREM TypeCorrect == Spec => []TypeOK
<1>1. IInv => TypeOK
  BY DEF IInv
<1>2. QED
  BY <1>1, Invariance, PTL

\* on_open and on_close keep connections_ and the states of the connections in
\* agreement, and terminate calls the close handler once.
THEOREM HandlesStayLive == Spec => []HandlesAreLive
<1>1. IInv => HandlesAreLive
  BY DEF IInv
<1>2. QED
  BY <1>1, Invariance, PTL

\* Between write_push, write_frame and handle_write_frame no wake-up is lost:
\* a frame queued on a living connection has a write under way or to come.
THEOREM QueueGetsServed == Spec => []QueueIsServed
<1>1. IInv => QueueIsServed
  BY DEF IInv, QueueIsServed, Served, WriteOutstanding, Alive
<1>2. QED
  BY <1>1, Invariance, PTL

\* write_frame stops at a terminal message and handle_write_frame ends the
\* connection after it: nothing is written after a close frame.
THEOREM CloseComesLast == Spec => []CloseIsLast
<1>1. IInv => CloseIsLast
  BY DEF IInv
<1>2. QED
  BY <1>1, Invariance, PTL

\* From fire() through the queue to the socket the messages keep their order,
\* none is lost in the middle or doubled, and an open connection is up to date.
THEOREM NothingIsSkipped == Spec => []NothingSkipped
<1>1. IInv => NothingSkipped
  <2>1. SUFFICES ASSUME IInv, NEW c \in Conns
                 PROVE  /\ InSequence(wire[c])
                        /\ state[c] \in {"open", "closing"} => InSequence(Stream(c))
                        /\ state[c] = "open" /\ pub = "idle" /\ HasMessage(Stream(c)) =>
                             Holds(Stream(c), published)
    BY DEF NothingSkipped
  <2>2. InSequence(wire[c])
    BY <2>1 DEF IInv, WireInSequence
  <2>3. state[c] \in {"open", "closing"} => StreamFits(c)
    BY <2>1 DEF IInv, Streams, Alive
  <2>4. ASSUME state[c] = "open", pub = "idle", HasMessage(Stream(c))
        PROVE  Holds(Stream(c), published)
    <3>1. Newest(c) = published /\ published \in Nat
      BY <2>1, <2>4 DEF IInv, Serving, Newest, TypeOK
    <3>2. Complete(Stream(c), published)
      BY <2>3, <2>4, <3>1 DEF StreamFits
    <3>3. PICK i \in 1 .. Len(Stream(c)) : Stream(c)[i] \in Nat
      BY <2>4 DEF HasMessage
    <3>4. published \in Stream(c)[i] .. published
      BY <3>1, <3>2, <3>3 DEF Complete
    <3>5. QED
      BY <3>2, <3>3, <3>4 DEF Complete
  <2>5. QED
    BY <2>2, <2>3, <2>4 DEF StreamFits
<1>2. QED
  BY <1>1, Invariance, PTL

=============================================================================
