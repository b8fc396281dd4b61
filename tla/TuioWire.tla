------------------------------ MODULE TuioWire ------------------------------
(***************************************************************************)
(* TUIO objects on their way to a receiver: the bundles that TuioServer    *)
(* sends for the notifications it gets (src/include/TUIO/TuioServer.cpp),  *)
(* a transport that loses them, may deliver them late or twice, and the    *)
(* TuioClient that rebuilds the object list from what arrives              *)
(* (src/include/TUIO/TuioClient.cpp).  The server may exit, crash and be   *)
(* started again while the receiver runs on.                               *)
(*                                                                         *)
(* TUIOPublisher::fire makes one frame of each notification: initFrame,    *)
(* one add, update or remove, commitFrame.  A bundle therefore carries     *)
(* every live session id and at most one object message, and fits into one *)
(* packet.  Which notification may follow which is TagLife, which the      *)
(* tracker implements.  A tag has no TUIO object until its first ADD; the  *)
(* entry of objects[] it would use is taken to be null (Tracking models    *)
(* the other case).                                                        *)
(***************************************************************************)
EXTENDS Integers, Sequences

CONSTANTS
  Tags,      \* tag ids, the symbol ids of TUIO objects
  Poses,     \* positions and angles
  Window,    \* 100 in the code: a frame number further back is a new count
  MaxDelay,  \* a bundle may arrive again, or late, within this many frames
  MaxFrame,  \* bound on the frame number of a server
  MaxRuns    \* bound on how often the server is started

ASSUME WireAssumption ==
  /\ Window \in Nat /\ MaxDelay \in Nat /\ MaxDelay <= Window
  /\ MaxFrame \in Nat /\ MaxRuns \in Nat

VARIABLES
  run,           \* which start of the server this is
  up,            \* whether that server is still there
  heard,         \* the last notification about each tag in this run
  objectList,    \* TuioManager::objectList
  sessionID,     \* TuioManager::sessionID
  currentFrame,  \* TuioManager::currentFrame
  sent,          \* every bundle sent so far
  last,          \* how many of them the transport has delivered or passed over
  view,          \* TuioClient::objectList
  frame          \* TuioClient::currentFrame

serverVars == <<run, up, heard, objectList, sessionID, currentFrame>>

clientVars == <<view, frame>>

vars == <<serverVars, sent, last, clientVars>>

TuioObject == [sid : Nat, symbol : Tags, pose : Poses]

\* "alive", at most one "set", "fseq"; a bundle out of sequence has fseq -1.
Bundle == [run : Nat, fseq : Nat \cup {-1}, alive : SUBSET Nat, set : SUBSET TuioObject]

Sids(list) == {o.sid : o \in list}

Life == INSTANCE TagLife WITH lastOp <- heard

TypeOK ==
  /\ run \in Nat
  /\ up \in BOOLEAN
  /\ heard \in [Tags -> {"NONE", "ADD", "UPDATE", "REMOVE"}]
  /\ objectList \in SUBSET TuioObject
  /\ sessionID \in Nat \cup {-1}
  /\ currentFrame \in Nat \cup {-1}
  /\ sent \in Seq(Bundle)
  /\ last \in 0 .. Len(sent)
  /\ view \in SUBSET TuioObject
  /\ frame \in Nat \cup {-1}

-----------------------------------------------------------------------------
(***************************************************************************)
(* The server                                                              *)
(***************************************************************************)
EmptyBundle(r) == [run |-> r, fseq |-> -1, alive |-> {}, set |-> {}]

\* The constructor announces that there are no objects.
Init ==
  /\ run = 1
  /\ up = TRUE
  /\ heard = [t \in Tags |-> "NONE"]
  /\ objectList = {}
  /\ sessionID = -1
  /\ currentFrame = -1
  /\ sent = <<EmptyBundle(1)>>
  /\ last = 0
  /\ view = {}
  /\ frame = -1

ObjectOf(t) == {o \in objectList : o.symbol = t}

\* commitFrame: every session id, and the object that this frame touched.
Commit(touched) ==
  sent' = Append(sent, [run |-> run, fseq |-> currentFrame + 1,
                        alive |-> Sids(objectList'), set |-> touched])

Add(t, p) ==
  LET new == [sid |-> sessionID + 1, symbol |-> t, pose |-> p]
  IN /\ sessionID' = sessionID + 1
     /\ objectList' = objectList \cup {new}
     /\ Commit({new})

\* With no object to update nothing is marked for sending.
Update(t, p) ==
  /\ UNCHANGED sessionID
  /\ IF ObjectOf(t) = {} THEN UNCHANGED <<objectList, sent>>
     ELSE LET moved == {[o EXCEPT !.pose = p] : o \in ObjectOf(t)}
          IN /\ objectList' = (objectList \ ObjectOf(t)) \cup moved
             /\ Commit(moved)

\* Mutation: a removal does not set updateObject.
RemoveUnsent(t) ==
  /\ objectList' = objectList \ ObjectOf(t)
  /\ UNCHANGED <<sessionID, sent>>

Remove(t) ==
  /\ UNCHANGED sessionID
  /\ IF ObjectOf(t) = {} THEN UNCHANGED <<objectList, sent>>
     ELSE /\ objectList' = objectList \ ObjectOf(t)
          /\ Commit({})

Fire(t) ==
  /\ up /\ currentFrame < MaxFrame
  /\ currentFrame' = currentFrame + 1
  /\ \E op \in Life!Follows(heard[t]) :
       /\ heard' = [heard EXCEPT ![t] = op]
       /\ \/ op = "ADD" /\ \E p \in Poses : Add(t, p)
          \/ op = "UPDATE" /\ \E p \in Poses : Update(t, p)
          \/ op = "REMOVE" /\ Remove(t)
  /\ UNCHANGED <<run, up, last, clientVars>>

\* The destructor drops what it holds and says so.
Exit ==
  /\ up
  /\ up' = FALSE
  /\ sent' = Append(sent, EmptyBundle(run))
  /\ UNCHANGED <<run, heard, objectList, sessionID, currentFrame, last, clientVars>>

\* The program ends by an exception or a signal: no destructor runs.
Crash ==
  /\ up
  /\ up' = FALSE
  /\ UNCHANGED <<run, heard, objectList, sessionID, currentFrame, sent, last, clientVars>>

Restart ==
  /\ ~up /\ run < MaxRuns
  /\ run' = run + 1
  /\ up' = TRUE
  /\ heard' = [t \in Tags |-> "NONE"]
  /\ objectList' = {}
  /\ sessionID' = -1
  /\ currentFrame' = -1
  /\ sent' = Append(sent, EmptyBundle(run + 1))
  /\ UNCHANGED <<last, clientVars>>

-----------------------------------------------------------------------------
(***************************************************************************)
(* The transport and the receiver                                          *)
(***************************************************************************)

\* Bundles arrive in the order they were sent, any of them left out; those of
\* recent frames may also arrive late or again while their server runs.
Deliverable(n) ==
  \/ n > last
  \/ /\ up /\ sent[n].run = run /\ sent[n].fseq > 0
     /\ currentFrame - sent[n].fseq <= MaxDelay

\* Mutation: no bundle is ever late.
NeverLate(b) == FALSE

\* A frame number is late unless it is far back, or out of sequence.
Late(b) == b.fseq > 0 /\ b.fseq < frame /\ frame - b.fseq <= Window

\* Mutation: a known object is not moved.
SetNew(list, m) == IF m.sid \in Sids(list) THEN list ELSE list \cup {m}

\* "set": an object with that session id is moved and keeps its symbol; without
\* one, a new object is listed.
Set(list, m) ==
  IF m.sid \in Sids(list)
  THEN {IF o.sid = m.sid THEN [o EXCEPT !.pose = m.pose] ELSE o : o \in list}
  ELSE list \cup {m}

AfterSet(list, b) == IF b.set = {} THEN list ELSE Set(list, CHOOSE m \in b.set : TRUE)

\* A bundle as a whole, when fseq closes it: the message, then the removal of
\* the objects that were listed and are not alive any more.
Apply(list, b) == {o \in AfterSet(list, b) : o.sid \in b.alive \/ o.sid \notin Sids(list)}

\* Mutation: the frame number never falls back.
AcceptHighest(b) ==
  /\ view' = Apply(view, b)
  /\ frame' = IF b.fseq > frame THEN b.fseq ELSE frame

Accept(b) ==
  /\ view' = Apply(view, b)
  /\ frame' = IF b.fseq > 0 THEN b.fseq ELSE frame

\* Mutation: the position runs ahead of what was sent.
DeliverTooFar(n) ==
  /\ Deliverable(n)
  /\ last' = IF n > last THEN n + 1 ELSE last
  /\ IF Late(sent[n]) THEN UNCHANGED clientVars ELSE Accept(sent[n])
  /\ UNCHANGED <<serverVars, sent>>

Deliver(n) ==
  /\ Deliverable(n)
  /\ last' = IF n > last THEN n ELSE last
  /\ IF Late(sent[n]) THEN UNCHANGED clientVars ELSE Accept(sent[n])
  /\ UNCHANGED <<serverVars, sent>>

Next ==
  \/ \E t \in Tags : Fire(t)
  \/ Exit
  \/ Crash
  \/ Restart
  \/ \E n \in 1 .. Len(sent) : Deliver(n)

Spec == Init /\ [][Next]_vars

=============================================================================
