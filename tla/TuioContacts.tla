---------------------------- MODULE TuioContacts ----------------------------
(***************************************************************************)
(* Cursors and blobs from a TuioServer to a TuioClient                     *)
(* (src/include/TUIO/TuioManager.cpp, TuioServer.cpp, TuioClient.cpp): an  *)
(* application adds, moves and removes contacts between initFrame and      *)
(* commitFrame, or lets the manager stop and remove those it did not touch;*)
(* commitFrame sends what changed, in as many bundles as it takes; the     *)
(* receiver rebuilds the lists and numbers its contacts on its own.        *)
(*                                                                         *)
(* Unlike TuioWire, which follows the one object per frame that SPRITS     *)
(* sends, a frame may touch any number of contacts here.  Bundles may be   *)
(* lost, but arrive in order and once.  Of a contact there is where it is  *)
(* and how fast; a blob's shape is left out.                               *)
(***************************************************************************)
EXTENDS TuioPool, Sequences

CONSTANTS
  Kinds,       \* the kinds that are used, of "cursor" and "blob"
  Places,      \* where a contact may be
  Speeds,      \* how fast a contact may be, 0 among them
  Room,        \* contact messages that fit into one bundle
  MaxSession,  \* bound on session ids
  MaxFrame,    \* bound on frames
  MaxWire      \* bound on the bundles that are on their way when a frame begins
               \* (the client is done with those before them)

ASSUME ContactsAssumption ==
  /\ Kinds \subseteq {"cursor", "blob"}
  /\ 0 \in Speeds /\ Speeds \subseteq Nat
  /\ Room \in Nat \ {0}
  /\ MaxSession \in Nat /\ MaxFrame \in Nat /\ MaxWire \in Nat

VARIABLES
  phase,         \* what the application has the server do
  sweeping,      \* the kinds whose contacts are being removed in a loop
  currentFrame,  \* TuioManager::currentFrame
  sessionID,     \* TuioManager::sessionID, shared by all kinds
  list,          \* cursorList and blobList
  pool,          \* maxCursorID and freeCursorList, maxBlobID and freeBlobList
  updated,       \* updateCursor and updateBlob
  full,          \* TuioServer::full_update
  periodic,      \* TuioServer::periodic_update
  wire,          \* bundles on their way
  frame,         \* TuioClient::currentFrame
  seen,          \* TuioClient::cursorList and blobList
  seenPool,      \* the pools of the client
  work           \* what the client has left to do for the bundle it took

serverVars == <<phase, sweeping, currentFrame, sessionID, list, pool, updated, full, periodic>>

clientVars == <<frame, seen, seenPool, work>>

vars == <<serverVars, wire, clientVars>>

\* touched: its time is the time of the present frame.  moving: its state is
\* accelerating or decelerating.
Contact == [sid : Nat, id : Nat, pos : Places, speed : Speeds, moving : BOOLEAN,
            touched : BOOLEAN]

Message == [sid : Nat, pos : Places, speed : Speeds]

Bundle == [kind : Kinds, fseq : Nat \cup {-1}, alive : SUBSET Nat, set : SUBSET Message]

SeenContact == [sid : Nat, id : Nat, pos : Places, speed : Speeds]

Work == [kind : Kinds, set : SUBSET Message, gone : SUBSET Nat]

NoWork(k) == [kind |-> k, set |-> {}, gone |-> {}]

Phases == {"idle", "frame", "sweep", "reset", "exit", "gone"}

Sids(contacts) == {c.sid : c \in contacts}

Ids(contacts) == {c.id : c \in contacts}

TypeOK ==
  /\ phase \in Phases
  /\ sweeping \in SUBSET Kinds
  /\ currentFrame \in Nat \cup {-1}
  /\ sessionID \in Nat \cup {-1}
  /\ list \in [Kinds -> SUBSET Contact]
  /\ pool \in [Kinds -> Pool]
  /\ updated \in [Kinds -> BOOLEAN]
  /\ full \in BOOLEAN /\ periodic \in BOOLEAN
  /\ wire \in Seq(Bundle)
  /\ frame \in Nat \cup {-1}
  /\ seen \in [Kinds -> SUBSET SeenContact]
  /\ seenPool \in [Kinds -> Pool]
  /\ work \in Work

EmptyBundle(k) == [kind |-> k, fseq |-> -1, alive |-> {}, set |-> {}]

\* The server sends its bundles of cursors before those of blobs.
InOrder(bundlesOf) == (IF "cursor" \in Kinds THEN bundlesOf["cursor"] ELSE <<>>)
                      \o (IF "blob" \in Kinds THEN bundlesOf["blob"] ELSE <<>>)

EmptyBundles == InOrder([k \in Kinds |-> <<EmptyBundle(k)>>])

\* The constructor announces that there is nothing.
Init ==
  /\ phase = "idle"
  /\ sweeping = {}
  /\ currentFrame = -1
  /\ sessionID = -1
  /\ list = [k \in Kinds |-> {}]
  /\ pool = [k \in Kinds |-> EmptyPool]
  /\ updated = [k \in Kinds |-> FALSE]
  /\ full \in BOOLEAN /\ periodic \in BOOLEAN
  /\ wire = EmptyBundles
  /\ frame = -1
  /\ seen = [k \in Kinds |-> {}]
  /\ seenPool = [k \in Kinds |-> EmptyPool]
  /\ \E k \in Kinds : work = NoWork(k)

-----------------------------------------------------------------------------
(***************************************************************************)
(* The manager                                                             *)
(***************************************************************************)

Bounded == Len(wire) <= MaxWire /\ work.set = {} /\ work.gone = {}

\* No two frames begin within the same microsecond.
InitFrame ==
  /\ phase = "idle" /\ currentFrame < MaxFrame /\ Bounded
  /\ phase' = "frame"
  /\ currentFrame' = currentFrame + 1
  /\ list' = [k \in Kinds |-> {[c EXCEPT !.touched = FALSE] : c \in list[k]}]
  /\ UNCHANGED <<sweeping, sessionID, pool, updated, full, periodic, wire, clientVars>>

AddContact(k) ==
  /\ phase = "frame" /\ sessionID < MaxSession
  /\ \E took \in ManagerTake(Cardinality(list[k]), pool[k]), p \in Places :
       /\ list' = [list EXCEPT ![k] = @ \cup
            {[sid |-> sessionID + 1, id |-> took.id, pos |-> p, speed |-> 0, moving |-> FALSE,
              touched |-> TRUE]}]
       /\ pool' = [pool EXCEPT ![k] = took.pool]
  /\ sessionID' = sessionID + 1
  /\ updated' = [updated EXCEPT ![k] = TRUE]
  /\ UNCHANGED <<phase, sweeping, currentFrame, full, periodic, wire, clientVars>>

\* A contact is taken to move when its speed changed, not when it has one.
Updated(c, p, s) ==
  [c EXCEPT !.pos = p, !.speed = s, !.moving = s # c.speed, !.touched = TRUE]

\* The speed follows from the distance.  A second update within a frame is ignored.
UpdateContact(k) ==
  /\ phase = "frame"
  /\ \E c \in list[k], p \in Places, s \in Speeds :
       /\ ~c.touched
       /\ s = 0 <=> p = c.pos
       /\ list' = [list EXCEPT ![k] = (@ \ {c}) \cup {Updated(c, p, s)}]
  /\ updated' = [updated EXCEPT ![k] = TRUE]
  /\ UNCHANGED <<phase, sweeping, currentFrame, sessionID, pool, full, periodic, wire, clientVars>>

\* Mutation: a removal does not set updateCursor.
RemovalUnsent(k, c) ==
  LET left == list[k] \ {c}
  IN /\ list' = [list EXCEPT ![k] = left]
     /\ pool' = [pool EXCEPT ![k] = Give(c.id, Ids(left), @)]
     /\ UNCHANGED updated

Removal(k, c) ==
  LET left == list[k] \ {c}
  IN /\ list' = [list EXCEPT ![k] = left]
     /\ pool' = [pool EXCEPT ![k] = Give(c.id, Ids(left), @)]
     /\ updated' = [updated EXCEPT ![k] = TRUE]

RemoveContact(k) ==
  /\ phase = "frame"
  /\ \E c \in list[k] : Removal(k, c)
  /\ UNCHANGED <<phase, sweeping, currentFrame, sessionID, full, periodic, wire, clientVars>>

Stopped(c) == IF ~c.touched /\ c.moving THEN Updated(c, c.pos, 0) ELSE c

StopUntouchedMoving(k) ==
  /\ phase = "frame"
  /\ list' = [list EXCEPT ![k] = {Stopped(c) : c \in @}]
  /\ updated' = [updated EXCEPT ![k] = @ \/ \E c \in list[k] : ~c.touched /\ c.moving]
  /\ UNCHANGED <<phase, sweeping, currentFrame, sessionID, pool, full, periodic, wire, clientVars>>

\* removeUntouchedStopped and reset remove one contact per turn of their loops.
BeginSweep(k) ==
  /\ phase = "frame"
  /\ phase' \in {"sweep", "reset"}
  /\ sweeping' = {k}
  /\ UNCHANGED <<currentFrame, sessionID, list, pool, updated, full, periodic, wire, clientVars>>

Swept(k) ==
  {c \in list[k] : k \in sweeping /\ (phase = "reset" \/ (~c.touched /\ ~c.moving))}

Sweep(k) ==
  /\ Swept(k) # {}
  /\ \E c \in Swept(k) : (\A d \in Swept(k) : c.sid <= d.sid) /\ Removal(k, c)
  /\ UNCHANGED <<phase, sweeping, currentFrame, sessionID, full, periodic, wire, clientVars>>

EndSweep ==
  /\ phase \in {"sweep", "reset"} /\ \A k \in Kinds : Swept(k) = {}
  /\ phase' = "frame"
  /\ sweeping' = {}
  /\ UNCHANGED <<currentFrame, sessionID, list, pool, updated, full, periodic, wire, clientVars>>

-----------------------------------------------------------------------------
(***************************************************************************)
(* The server                                                              *)
(***************************************************************************)
MessageOf(c) == [sid |-> c.sid, pos |-> c.pos, speed |-> c.speed]

\* Before each contact of the list a full bundle is sent and another one begun:
\* that contact's bundle is told by the messages about contacts before it.
PartOf(c, selected) ==
  1 + Cardinality({d \in selected : d.sid < c.sid}) \div Room

BundlesOf(k, selected) ==
  LET parts == {1} \cup {PartOf(c, selected) : c \in list[k]}
  IN [i \in 1 .. Cardinality(parts) |->
        [kind |-> k, fseq |-> currentFrame, alive |-> Sids(list[k]),
         set |-> {MessageOf(c) : c \in {d \in selected : PartOf(d, selected) = i}}]]

\* What commitFrame sends of one kind: what was updated; or, when the interval
\* has passed since something was sent, an alive message, with everything if
\* full updates are on.
Sent(k, elapsed) ==
  IF updated[k] THEN BundlesOf(k, {c \in list[k] : full \/ c.touched})
  ELSE IF periodic /\ elapsed THEN BundlesOf(k, IF full THEN list[k] ELSE {})
  ELSE <<>>

CommitFrame ==
  /\ phase = "frame"
  /\ phase' = "idle"
  /\ \E elapsed \in [Kinds -> BOOLEAN] :
       wire' = wire \o InOrder([k \in Kinds |-> Sent(k, elapsed[k])])
  /\ updated' = [k \in Kinds |-> FALSE]
  /\ UNCHANGED <<sweeping, currentFrame, sessionID, list, pool, full, periodic, clientVars>>

\* The destructor stops what moves in one frame and, in a second one, removes
\* what is at rest by then.
Destroy ==
  /\ phase = "idle" /\ Bounded
  /\ phase' = "exit"
  /\ sweeping' = Kinds
  /\ currentFrame' = currentFrame + 2
  /\ list' = [k \in Kinds |->
       {[Stopped([c EXCEPT !.touched = FALSE]) EXCEPT !.touched = FALSE] : c \in list[k]}]
  /\ UNCHANGED <<sessionID, pool, updated, full, periodic, wire, clientVars>>

EndDestroy ==
  /\ phase = "exit" /\ \A k \in Kinds : Swept(k) = {}
  /\ phase' = "gone"
  /\ sweeping' = {}
  /\ wire' = wire \o EmptyBundles
  /\ UNCHANGED <<currentFrame, sessionID, list, pool, updated, full, periodic, clientVars>>

-----------------------------------------------------------------------------
(***************************************************************************)
(* The transport and the receiver                                          *)
(***************************************************************************)
Lose ==
  /\ wire # <<>>
  /\ wire' = Tail(wire)
  /\ UNCHANGED <<serverVars, clientVars>>

\* frame - b.fseq > 100 would be taken for a server that was started again.
Late(b) == b.fseq > 0 /\ b.fseq < frame

\* Messages that tell the client something new.
News(b) ==
  {m \in b.set : \A c \in seen[b.kind] :
     c.sid = m.sid => c.pos # m.pos \/ c.speed # m.speed}

Receive ==
  /\ wire # <<>> /\ work.set = {} /\ work.gone = {}
  /\ wire' = Tail(wire)
  /\ LET b == Head(wire)
     IN IF Late(b) THEN UNCHANGED <<frame, work>>
        ELSE /\ frame' = IF b.fseq > 0 THEN b.fseq ELSE frame
             /\ work' = [kind |-> b.kind, set |-> News(b),
                         gone |-> Sids(seen[b.kind]) \ b.alive]
  /\ UNCHANGED <<serverVars, seen, seenPool>>

\* How fast a listed contact is after a message about it.  Of one that has moved
\* it is what the message says, unless that is 0 along a way it has moved: then
\* the receiver reckons it from the distance.
SpeedsAfter(k, m) ==
  IF \E c \in seen[k] : c.sid = m.sid /\ c.pos # m.pos THEN Speeds \ {0} ELSE {m.speed}

\* The set messages come first, as the bundle lists them.  A contact that was not
\* listed is taken to rest, whatever the message says.
ProcessSet ==
  LET k == work.kind
  IN /\ work.set # {}
     /\ \E m \in work.set :
          /\ \A n \in work.set : m.sid <= n.sid
          /\ work' = [work EXCEPT !.set = @ \ {m}]
          /\ IF m.sid \in Sids(seen[k])
             THEN /\ \E s \in SpeedsAfter(k, m) :
                       seen' = [seen EXCEPT ![k] =
                         {IF c.sid = m.sid THEN [c EXCEPT !.pos = m.pos, !.speed = s] ELSE c :
                            c \in @}]
                  /\ UNCHANGED seenPool
             ELSE \E took \in ClientTake(Cardinality(seen[k]), seenPool[k]) :
                    /\ seen' = [seen EXCEPT ![k] = @ \cup
                         {[sid |-> m.sid, id |-> took.id, pos |-> m.pos, speed |-> 0]}]
                    /\ seenPool' = [seenPool EXCEPT ![k] = took.pool]
     /\ UNCHANGED <<serverVars, wire, frame>>

\* Then the contacts that are not alive any more.
ProcessGone ==
  LET k == work.kind
  IN /\ work.set = {}
     /\ \E c \in seen[k] :
          LET left == seen[k] \ {c}
          IN /\ c.sid \in work.gone
             /\ work' = [work EXCEPT !.gone = @ \ {c.sid}]
             /\ seen' = [seen EXCEPT ![k] = left]
             /\ seenPool' = [seenPool EXCEPT ![k] = Give(c.id, Ids(left), @)]
     /\ UNCHANGED <<serverVars, wire, frame>>

Server ==
  \/ InitFrame
  \/ \E k \in Kinds :
       \/ AddContact(k) \/ UpdateContact(k) \/ RemoveContact(k)
       \/ StopUntouchedMoving(k) \/ BeginSweep(k) \/ Sweep(k)
  \/ EndSweep
  \/ CommitFrame
  \/ Destroy
  \/ EndDestroy

Client == Receive \/ ProcessSet \/ ProcessGone

Next == Server \/ Lose \/ Client

Spec == Init /\ [][Next]_vars

-----------------------------------------------------------------------------
\* No two contacts of a list have the same number, and every number up to the
\* highest is either in use or free: addTuioCursor, which compares the length
\* of cursorList with maxCursorID, then finds a free cursor when it expects one
\* and gives a number nobody has when it does not.
ManagerPoolIsWhole ==
  \A k \in Kinds :
    /\ \A c, d \in list[k] : c.id = d.id => c = d
    /\ Whole(Ids(list[k]), pool[k])

\* The same of the receiver, which decides by the length of the free list and
\* sees contacts come and go in another order than the manager does.
ReceiverPoolIsWhole ==
  \A k \in Kinds :
    /\ \A c, d \in seen[k] : c.id = d.id => c = d
    /\ Whole(Ids(seen[k]), seenPool[k])

=============================================================================
