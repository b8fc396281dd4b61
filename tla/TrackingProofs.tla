--------------------------- MODULE TrackingProofs ---------------------------
(***************************************************************************)
(* Proofs about Tracking, for every set of tags and of poses.              *)
(***************************************************************************)
EXTENDS MCTracking, TLAPS

(***************************************************************************)
(* The first strengthening ties the three places that remember whether a   *)
(* tag is present: the tracker's alive, the Plane's seen_, and what the    *)
(* subscribers were last told.  An exception breaks the tie (seen_ forgets *)
(* the tag before the message is out), hence the condition on phase.       *)
(***************************************************************************)
Tied ==
  phase = "running" =>
    /\ seen = {t \in Tags : lastOp[t] = "REMOVE"}
    /\ alive = Shown

\* Where fire() is, in terms of the sets it has built so far.
Progress ==
  /\ tracked \subseteq alive
  /\ stage = "idle" => alive = tracked
  /\ phase = "running" /\ stage = "sweeping" => gone = alive \ tracked

IInv == TypeOK /\ Tied /\ Progress /\ EraseDefined

LEMMA InitIInv == Init => IInv
<1> SUFFICES ASSUME Init PROVE IInv
  OBVIOUS
<1> USE PoseAssumption DEF Init, PlaneInit, TuioInit, Empty
<1>1. TypeOK
  BY DEF TypeOK, PlaneTypeOK, TuioTypeOK, Frame, Null, Wild
<1>2. Tied
  BY DEF Tied, Shown
<1>3. Progress /\ EraseDefined
  BY DEF Progress, EraseDefined
<1>4. QED
  BY <1>1, <1>2, <1>3 DEF IInv

\* What a publisher does with a notification keeps the TUIO state well typed.
LEMMA TuioFireType ==
  ASSUME TuioTypeOK, NEW op, NEW id \in Tags, NEW p \in Poses,
         TuioFire(op, id, p)
  PROVE  TuioTypeOK'
<1> USE DEF TuioTypeOK, TuioObject, Null, Wild
<1>1. CASE UNCHANGED tuioVars
  BY <1>1 DEF tuioVars
<1>2. CASE AddTuioObject(id, p)
  BY <1>2 DEF AddTuioObject
<1>3. CASE UpdateTuioObject(id, p)
  <2>1. \A o \in objectList : Updated(o, id, p) \in TuioObject
    BY DEF Updated
  <2>2. QED
    BY <1>3, <2>1 DEF UpdateTuioObject
<1>4. CASE RemoveTuioObject(id)
  BY <1>4 DEF RemoveTuioObject
<1>5. QED
  BY <1>1, <1>2, <1>3, <1>4 DEF TuioFire

\* A read never returns Absent, and leaves an entry behind.
LEMMA PoseType ==
  ASSUME NEW pts \in Frame, NEW id \in Tags
  PROVE  /\ Pose(pts, id) \in Poses
         /\ AfterRead(pts, id) \in Frame
         /\ \A t \in Tags : pts[t] # Absent => AfterRead(pts, id)[t] # Absent
BY PoseAssumption DEF Pose, AfterRead, Frame

LEMMA NextTypeOK == TypeOK /\ [Next]_vars => TypeOK'
<1> SUFFICES ASSUME TypeOK, [Next]_vars PROVE TypeOK'
  OBVIOUS
<1> USE DEF TypeOK
<1>p. points \in Frame
  BY DEF PlaneTypeOK, Frame
<1>1. ASSUME NEW frame \in Frame, NewFrame(frame) PROVE TypeOK'
  BY <1>1 DEF NewFrame, planeVars, tuioVars, messageVars, PlaneTypeOK, TuioTypeOK
<1>2. ASSUME NEW t \in Tags, Mark(t) PROVE TypeOK'
  <2>1. Pose(points, t) \in Poses /\ pending[t] \in Poses
    BY <1>p, <1>2, PoseType DEF Mark, IsNext, Found, Frame
  <2>2. TuioTypeOK'
    BY <1>2, <2>1, TuioFireType DEF Mark
  <2>3. PlaneTypeOK'
    BY <1>2, <2>1 DEF Mark, SetElement, PlaneTypeOK
  <2>4. lastOp' \in [Tags -> {"NONE", "ADD", "UPDATE", "REMOVE"}]
    BY <1>2 DEF Mark, WebSocketFire, NotificationOf
  <2>5. QED
    BY <1>2, <2>1, <2>2, <2>3, <2>4 DEF Mark, WebSocketFire, Frame
<1>3. ASSUME NEW t \in Tags, MarkThrows(t) PROVE TypeOK'
  <2>1. Pose(points, t) \in Poses /\ AfterRead(points, t) \in Frame
    BY <1>p, PoseType
  <2>2. TuioTypeOK'
    BY <1>3, <2>1, TuioFireType DEF MarkThrows
  <2>3. PlaneTypeOK'
    BY <1>3, <2>1 DEF MarkThrows, SetElementThrown, PlaneTypeOK, Frame
  <2>4. QED
    BY <1>3, <2>2, <2>3 DEF MarkThrows, trackerVars, messageVars
<1>4. ASSUME NEW t \in Tags, MarkUndefined(t) PROVE TypeOK'
  BY <1>4 DEF MarkUndefined, planeVars, tuioVars, trackerVars, messageVars,
              PlaneTypeOK, TuioTypeOK
<1>5. CASE EndMarking
  BY <1>5 DEF EndMarking, planeVars, tuioVars, messageVars, PlaneTypeOK, TuioTypeOK
<1>e. ASSUME NEW t \in Tags, ClearElement(t)
      PROVE  PlaneTypeOK' /\ Pose(Erased(t), t) \in Poses
  <2>1. Erased(t) \in Frame
    BY <1>p DEF Erased, Frame
  <2>2. QED
    BY <1>e, <2>1, PoseType DEF ClearElement, PlaneTypeOK, Frame
<1>6. ASSUME NEW t \in Tags, Sweep(t) PROVE TypeOK'
  <2>1. PlaneTypeOK' /\ Pose(Erased(t), t) \in Poses
    BY <1>6, <1>e DEF Sweep
  <2>2. TuioTypeOK'
    BY <1>6, TuioFireType, PoseAssumption DEF Sweep
  <2>3. QED
    BY <1>6, <2>1, <2>2 DEF Sweep, WebSocketFire, Frame
<1>7. ASSUME NEW t \in Tags, SweepThrows(t) PROVE TypeOK'
  <2>1. PlaneTypeOK'
    BY <1>7, <1>e DEF SweepThrows
  <2>2. TuioTypeOK'
    BY <1>7, TuioFireType, PoseAssumption DEF SweepThrows
  <2>3. QED
    BY <1>7, <2>1, <2>2 DEF SweepThrows, messageVars
<1>8. CASE EndFrame
  BY <1>8 DEF EndFrame, planeVars, tuioVars, messageVars, PlaneTypeOK, TuioTypeOK
<1>9. CASE UNCHANGED vars
  BY <1>9 DEF vars, planeVars, tuioVars, trackerVars, messageVars,
              PlaneTypeOK, TuioTypeOK
<1>10. QED
  BY <1>1, <1>2, <1>3, <1>4, <1>5, <1>6, <1>7, <1>8, <1>9 DEF Next

\* Type correctness of the pipeline.
THEOREM TypeCorrect == Spec => []TypeOK
<1>1. Init => TypeOK
  BY InitIInv DEF IInv
<1>2. QED
  BY <1>1, NextTypeOK, PTL DEF Spec


(***************************************************************************)
(* The strengthened invariant is preserved: one step per action.           *)
(***************************************************************************)
LEMMA NextIInv == IInv /\ [Next]_vars => IInv'
<1> SUFFICES ASSUME IInv, [Next]_vars PROVE IInv'
  OBVIOUS
<1> USE DEF IInv
<1>t. TypeOK'
  BY NextTypeOK
<1>p. points \in Frame /\ seen \in SUBSET Tags
  BY DEF TypeOK, PlaneTypeOK, Frame
<1>o. lastOp \in [Tags -> {"NONE", "ADD", "UPDATE", "REMOVE"}]
  BY DEF TypeOK
<1>1. ASSUME NEW frame \in Frame, NewFrame(frame) PROVE IInv'
  BY <1>1, <1>t DEF NewFrame, Tied, Progress, EraseDefined, Shown,
     planeVars, messageVars
<1>2. ASSUME NEW t \in Tags, Mark(t) PROVE IInv'
  <2> USE <1>2 DEF Mark
  <2>1. Tied'
    BY <1>o DEF Tied, Shown, SetElement, WebSocketFire, NotificationOf
  <2>2. EraseDefined'
    BY <1>p, PoseAssumption DEF EraseDefined, SetElement, Frame, IsNext, Found
  <2>3. Progress'
    BY DEF Progress
  <2>4. QED
    BY <1>t, <2>1, <2>2, <2>3
<1>3. ASSUME NEW t \in Tags, MarkThrows(t) PROVE IInv'
  <2> USE <1>3 DEF MarkThrows, trackerVars
  <2>1. EraseDefined'
    BY <1>p, PoseType DEF EraseDefined, SetElementThrown, TypeOK
  <2>2. Tied' /\ Progress'
    BY DEF Tied, Progress
  <2>3. QED
    BY <1>t, <2>1, <2>2
<1>4. ASSUME NEW t \in Tags, MarkUndefined(t) PROVE IInv'
  BY <1>4, <1>t DEF MarkUndefined, Tied, Progress, EraseDefined, Shown,
     planeVars, trackerVars, messageVars
<1>5. CASE EndMarking
  BY <1>5, <1>t DEF EndMarking, Tied, Progress, EraseDefined, Shown,
     planeVars, messageVars
<1>e. ASSUME NEW t \in Tags, ClearElement(t)
      PROVE  \A u \in Tags : points[u] # Absent => points'[u] # Absent
  BY <1>e, <1>p, PoseAssumption DEF ClearElement, Erased, AfterRead, Pose, Frame
<1>6. ASSUME NEW t \in Tags, Sweep(t) PROVE IInv'
  <2> USE <1>6 DEF Sweep
  <2>1. Tied'
    BY <1>o DEF Tied, Shown, ClearElement, WebSocketFire
  <2>2. EraseDefined'
    BY <1>e DEF EraseDefined, TypeOK
  <2>3. Progress'
    BY DEF Progress, IsNext
  <2>4. QED
    BY <1>t, <2>1, <2>2, <2>3
<1>7. ASSUME NEW t \in Tags, SweepThrows(t) PROVE IInv'
  <2> USE <1>7 DEF SweepThrows
  <2>1. EraseDefined'
    BY <1>e DEF EraseDefined, TypeOK
  <2>2. Tied' /\ Progress'
    BY DEF Tied, Progress, IsNext
  <2>3. QED
    BY <1>t, <2>1, <2>2
<1>8. CASE EndFrame
  BY <1>8, <1>t DEF EndFrame, Tied, Progress, EraseDefined, Shown,
     planeVars, messageVars
<1>9. CASE UNCHANGED vars
  BY <1>9, <1>t DEF vars, Tied, Progress, EraseDefined, Shown,
     planeVars, trackerVars, messageVars
<1>10. QED
  BY <1>1, <1>2, <1>3, <1>4, <1>5, <1>6, <1>7, <1>8, <1>9 DEF Next

LEMMA Inductive == Spec => []IInv
BY InitIInv, NextIInv, PTL DEF Spec

\* points_.erase(points_.find(id)) in Plane::setElement(id) always finds the id.
THEOREM EraseIsDefined == Spec => []EraseDefined
<1>1. IInv => EraseDefined
  BY DEF IInv
<1>2. QED
  BY <1>1, Inductive, PTL

\* After every frame that the tracker finishes, the subscribers of the Plane
\* show exactly the tags found in that frame.
THEOREM BoardIsRight == Spec => []BoardMatchesFrame
<1>1. IInv => BoardMatchesFrame
  BY DEF IInv, Tied, Progress, BoardMatchesFrame
<1>2. QED
  BY <1>1, Inductive, PTL

(***************************************************************************)
(* Refinement: the pipeline implements the order of notifications that     *)
(* TagLife promises to a subscriber.  Only Mark and Sweep send a message;  *)
(* the tie between seen_, alive and lastOp makes its kind the right one.   *)
(***************************************************************************)
LEMMA NextLife == IInv /\ [Next]_vars => [Life!Next]_lastOp
<1> SUFFICES ASSUME IInv, Next PROVE [Life!Next]_lastOp
  BY DEF vars, messageVars
<1> USE DEF IInv
<1>o. lastOp \in [Tags -> {"NONE", "ADD", "UPDATE", "REMOVE"}]
  BY DEF TypeOK
<1>1. ASSUME NEW t \in Tags, Mark(t) PROVE Life!Notify(t)
  BY <1>1, <1>o DEF Mark, WebSocketFire, NotificationOf, Tied, Life!Notify, Life!Follows
<1>2. ASSUME NEW t \in Tags, Sweep(t) PROVE Life!Notify(t)
  <2>1. lastOp[t] \in {"ADD", "UPDATE"}
    BY <1>2 DEF Sweep, IsNext, Tied, Progress, Shown
  <2>2. QED
    BY <1>2, <2>1 DEF Sweep, WebSocketFire, Life!Notify, Life!Follows
<1>3. CASE \E t \in Tags : Mark(t) \/ Sweep(t)
  BY <1>1, <1>2, <1>3 DEF Life!Next
<1>4. CASE ~\E t \in Tags : Mark(t) \/ Sweep(t)
  BY <1>4 DEF Next, NewFrame, MarkThrows, MarkUndefined, EndMarking, SweepThrows,
     EndFrame, messageVars
<1>5. QED
  BY <1>3, <1>4

\* Each subscriber hears of each tag in the order TagLife allows.
THEOREM ImplementsTagLife == Spec => LifeSpec
<1>1. Init => Life!Init
  BY DEF Init, Life!Init
<1>2. QED
  BY <1>1, Inductive, NextLife, PTL DEF Spec, LifeSpec, Life!Spec

(***************************************************************************)
(* The TUIO side.  Session ids are handed out in increasing order, so that *)
(* no two objects share one; and an object stands for an alive tag, so     *)
(* that the slot an ADD overwrites holds no live object.                   *)
(***************************************************************************)
SessionsDistinct ==
  /\ \A o \in objectList : o.sid <= sessionID
  /\ \A o1, o2 \in objectList : o1.sid = o2.sid => o1 = o2

ObjInv ==
  /\ SessionsDistinct
  /\ ObjectsMatchTable
  /\ NoGhostObject
  /\ ~TuioEnabled => objectList = {}

LEMMA AddKeepsObjects ==
  ASSUME TuioTypeOK, SessionsDistinct, ObjectsMatchTable,
         NEW id \in Tags, NEW p \in Poses, AddTuioObject(id, p),
         \A o \in objectList : o.symbol # id
  PROVE  SessionsDistinct' /\ ObjectsMatchTable'
<1> USE DEF TuioTypeOK, TuioObject, AddTuioObject, Null, Wild
<1>1. \A o \in objectList : o.sid \in Nat /\ o.sid <= sessionID
  BY DEF SessionsDistinct
<1>2. SessionsDistinct'
  BY <1>1 DEF SessionsDistinct
<1>3. \A o \in objectList' : objects'[o.symbol] = o.sid
  BY DEF ObjectsMatchTable
<1>4. ASSUME NEW t \in Tags, objects'[t] >= 0
      PROVE  \E o \in objectList' : o.symbol = t /\ o.sid = objects'[t]
  <2>1. CASE t = id
    <3> DEFINE new == [sid |-> sessionID + 1, symbol |-> id, pose |-> p]
    <3>1. new \in objectList' /\ new.symbol = t /\ new.sid = objects'[t]
      BY <2>1
    <3>2. QED
      BY <3>1
  <2>2. CASE t # id
    BY <1>4, <2>2 DEF ObjectsMatchTable
  <2>3. QED
    BY <2>1, <2>2
<1>5. QED
  BY <1>2, <1>3, <1>4 DEF ObjectsMatchTable

LEMMA UpdateKeepsObjects ==
  ASSUME TuioTypeOK, SessionsDistinct, ObjectsMatchTable,
         NEW id \in Tags, NEW p \in Poses, UpdateTuioObject(id, p)
  PROVE  SessionsDistinct' /\ ObjectsMatchTable'
<1> USE DEF TuioTypeOK, TuioObject, UpdateTuioObject, Null, Wild
<1>1. \A o \in objectList : /\ Updated(o, id, p).sid = o.sid
                            /\ Updated(o, id, p).symbol = o.symbol
  BY DEF Updated
<1>2. \A o \in objectList' : \E u \in objectList : o = Updated(u, id, p)
  OBVIOUS
<1>3. SessionsDistinct'
  BY <1>1, <1>2 DEF SessionsDistinct
<1>4. ObjectsMatchTable'
  BY <1>1, <1>2 DEF ObjectsMatchTable
<1>5. QED
  BY <1>3, <1>4

LEMMA RemoveKeepsObjects ==
  ASSUME TuioTypeOK, SessionsDistinct, ObjectsMatchTable,
         NEW id \in Tags, RemoveTuioObject(id)
  PROVE  /\ SessionsDistinct' /\ ObjectsMatchTable'
         /\ \A o \in objectList' : o.symbol # id
<1> USE DEF TuioTypeOK, TuioObject, RemoveTuioObject, Null, Wild
<1>1. SessionsDistinct'
  BY DEF SessionsDistinct
<1>2. \A o \in objectList' : o \in objectList /\ o.symbol # id
  BY DEF ObjectsMatchTable
<1>3. ASSUME NEW t \in Tags, objects'[t] >= 0
      PROVE  \E o \in objectList' : o.symbol = t /\ o.sid = objects'[t]
  <2>1. t # id /\ objects'[t] = objects[t]
    BY <1>3
  <2>2. PICK o \in objectList : o.symbol = t /\ o.sid = objects[t]
    BY <1>3, <2>1 DEF ObjectsMatchTable
  <2>3. o.sid # objects[id]
    BY <2>1, <2>2 DEF SessionsDistinct, ObjectsMatchTable
  <2>4. QED
    BY <2>1, <2>2, <2>3
<1>4. \A o \in objectList' : objects'[o.symbol] = o.sid
  BY <1>2 DEF ObjectsMatchTable
<1>5. QED
  BY <1>1, <1>2, <1>3, <1>4 DEF ObjectsMatchTable

\* The publisher's fire, for the notification the Plane makes: an ADD is made
\* only for a tag that is not alive, and so has no object.
LEMMA FireKeepsObjects ==
  ASSUME IInv, ObjInv, phase = "running",
         NEW id \in Tags, NEW p \in Poses, NEW op,
         TuioFire(op, id, p), op = "ADD" => id \notin alive
  PROVE  /\ SessionsDistinct' /\ ObjectsMatchTable'
         /\ \A o \in objectList' : o.symbol \in alive \cup {id}
         /\ op = "REMOVE" => \A o \in objectList' : o.symbol # id
         /\ ~TuioEnabled => objectList' = {}
<1> USE DEF ObjInv, IInv, TypeOK, NoGhostObject
<1>1. CASE UNCHANGED tuioVars /\ ~TuioEnabled
  BY <1>1 DEF tuioVars, SessionsDistinct, ObjectsMatchTable
<1>2. CASE TuioEnabled /\ op = "ADD" /\ AddTuioObject(id, p)
  <2>1. SessionsDistinct' /\ ObjectsMatchTable'
    BY <1>2, AddKeepsObjects
  <2>2. QED
    BY <1>2, <2>1 DEF AddTuioObject
<1>3. CASE TuioEnabled /\ op = "UPDATE" /\ UpdateTuioObject(id, p)
  <2>1. SessionsDistinct' /\ ObjectsMatchTable'
    BY <1>3, UpdateKeepsObjects
  <2>2. \A o \in objectList : Updated(o, id, p).symbol = o.symbol
    BY DEF Updated, TuioTypeOK, TuioObject
  <2>3. QED
    BY <1>3, <2>1, <2>2 DEF UpdateTuioObject
<1>4. CASE TuioEnabled /\ op = "REMOVE" /\ RemoveTuioObject(id)
  <2>1. /\ SessionsDistinct' /\ ObjectsMatchTable'
        /\ \A o \in objectList' : o.symbol # id
    BY <1>4, RemoveKeepsObjects
  <2>2. QED
    BY <1>4, <2>1 DEF RemoveTuioObject
<1>5. QED
  BY <1>1, <1>2, <1>3, <1>4 DEF TuioFire

LEMMA NextObjInv == IInv /\ ObjInv /\ [Next]_vars => ObjInv'
<1> SUFFICES ASSUME IInv, ObjInv, [Next]_vars PROVE ObjInv'
  OBVIOUS
<1>p. points \in Frame
  BY DEF IInv, TypeOK, PlaneTypeOK, Frame
<1>k. ASSUME UNCHANGED tuioVars, phase' = phase \/ phase' # "running",
             alive \subseteq alive'
      PROVE  ObjInv'
  BY <1>k DEF ObjInv, tuioVars, SessionsDistinct, ObjectsMatchTable, NoGhostObject
<1>a. ASSUME NEW t \in Tags, phase = "running",
             NotificationOf(t) = "ADD"
      PROVE  t \notin alive
  BY <1>a DEF NotificationOf, IInv, Tied, Shown
<1>1. ASSUME NEW frame \in Frame, NewFrame(frame) PROVE ObjInv'
  BY <1>1, <1>k DEF NewFrame
<1>2. ASSUME NEW t \in Tags, Mark(t) PROVE ObjInv'
  <2>1. Pose(points, t) \in Poses
    BY <1>p, PoseType
  <2>2. /\ SessionsDistinct' /\ ObjectsMatchTable'
        /\ \A o \in objectList' : o.symbol \in alive \cup {t}
        /\ ~TuioEnabled => objectList' = {}
    BY <1>2, <1>a, <2>1, FireKeepsObjects DEF Mark
  <2>3. NoGhostObject'
    BY <1>2, <2>2 DEF Mark, NoGhostObject
  <2>4. QED
    BY <2>2, <2>3 DEF ObjInv
<1>3. ASSUME NEW t \in Tags, MarkThrows(t) PROVE ObjInv'
  <2>1. Pose(points, t) \in Poses
    BY <1>p, PoseType
  <2>2. SessionsDistinct' /\ ObjectsMatchTable' /\ (~TuioEnabled => objectList' = {})
    BY <1>3, <1>a, <2>1, FireKeepsObjects DEF MarkThrows
  <2>3. NoGhostObject'
    BY <1>3 DEF MarkThrows, NoGhostObject
  <2>4. QED
    BY <2>2, <2>3 DEF ObjInv
<1>4. ASSUME NEW t \in Tags, MarkUndefined(t) PROVE ObjInv'
  BY <1>4, <1>k DEF MarkUndefined, trackerVars
<1>5. CASE EndMarking
  BY <1>5, <1>k DEF EndMarking
<1>6. ASSUME NEW t \in Tags, Sweep(t) PROVE ObjInv'
  <2>1. /\ SessionsDistinct' /\ ObjectsMatchTable'
        /\ \A o \in objectList' : o.symbol \in alive \cup {t} /\ o.symbol # t
        /\ ~TuioEnabled => objectList' = {}
    BY <1>6, FireKeepsObjects, PoseAssumption DEF Sweep
  <2>2. NoGhostObject'
    BY <1>6, <2>1 DEF Sweep, NoGhostObject
  <2>3. QED
    BY <2>1, <2>2 DEF ObjInv
<1>7. ASSUME NEW t \in Tags, SweepThrows(t) PROVE ObjInv'
  <2>1. SessionsDistinct' /\ ObjectsMatchTable' /\ (~TuioEnabled => objectList' = {})
    BY <1>7, FireKeepsObjects, PoseAssumption DEF SweepThrows
  <2>2. NoGhostObject'
    BY <1>7 DEF SweepThrows, NoGhostObject
  <2>3. QED
    BY <2>1, <2>2 DEF ObjInv
<1>8. CASE EndFrame
  BY <1>8, <1>k DEF EndFrame
<1>9. CASE UNCHANGED vars
  BY <1>9, <1>k DEF vars, trackerVars
<1>10. QED
  BY <1>1, <1>2, <1>3, <1>4, <1>5, <1>6, <1>7, <1>8, <1>9 DEF Next

LEMMA InitObjInv == Init => ObjInv
BY DEF Init, TuioInit, ObjInv, SessionsDistinct, ObjectsMatchTable, NoGhostObject,
   Null, Wild

LEMMA ObjInductive == Spec => []ObjInv
<1>1. Init /\ [][Next]_vars => []ObjInv
  BY Inductive, InitObjInv, NextObjInv, PTL DEF Spec
<1>2. QED
  BY <1>1 DEF Spec

\* TUIOPublisher's table and the manager's list of objects stay in one-to-one
\* correspondence: no TuioObject leaks and none is deleted twice.
THEOREM ObjectsAreOwned == Spec => []ObjectsMatchTable
<1>1. ObjInv => ObjectsMatchTable
  BY DEF ObjInv
<1>2. QED
  BY <1>1, ObjInductive, PTL

\* While the loop runs, every TuioObject stands for a tag on the plane.
THEOREM NoObjectOutlivesItsTag == Spec => []NoGhostObject
<1>1. ObjInv => NoGhostObject
  BY DEF ObjInv
<1>2. QED
  BY <1>1, ObjInductive, PTL

(***************************************************************************)
(* What is published.  A notification changes the objects of its own tag   *)
(* only, and those it leaves have the pose it carried.                     *)
(***************************************************************************)
LEMMA FireTells ==
  ASSUME IInv, ObjInv, phase = "running",
         NEW id \in Tags, NEW p \in Poses, NEW op,
         TuioFire(op, id, p), op = "ADD" => id \notin alive
  PROVE  \A o \in objectList' : IF o.symbol = id THEN o.pose = p ELSE o \in objectList
<1> USE DEF ObjInv, IInv, TypeOK, TuioTypeOK, TuioObject
<1>1. CASE UNCHANGED tuioVars /\ ~TuioEnabled
  BY <1>1 DEF tuioVars
<1>2. CASE AddTuioObject(id, p) /\ op = "ADD"
  BY <1>2 DEF AddTuioObject, NoGhostObject
<1>3. CASE UpdateTuioObject(id, p)
  <2>1. ASSUME NEW u \in objectList
        PROVE  /\ Updated(u, id, p).symbol = u.symbol
               /\ IF u.symbol = id THEN Updated(u, id, p).pose = p
                                   ELSE Updated(u, id, p) = u
    <3>1. CASE u.symbol = id
      BY <3>1 DEF Updated, ObjectsMatchTable
    <3>2. CASE u.symbol # id
      <4>1. u.sid # objects[id]
        BY <3>2 DEF ObjectsMatchTable, SessionsDistinct
      <4>2. QED
        BY <3>2, <4>1 DEF Updated
    <3>3. QED
      BY <3>1, <3>2
  <2>2. QED
    BY <1>3, <2>1 DEF UpdateTuioObject
<1>4. CASE RemoveTuioObject(id)
  <2>1. \A o \in objectList' : o.symbol # id
    BY <1>4, RemoveKeepsObjects
  <2>2. QED
    BY <1>4, <2>1 DEF RemoveTuioObject
<1>5. QED
  BY <1>1, <1>2, <1>3, <1>4 DEF TuioFire

LEMMA NextAgree == IInv /\ ObjInv /\ PublishersAgree /\ [Next]_vars => PublishersAgree'
<1> SUFFICES ASSUME IInv, ObjInv, PublishersAgree, [Next]_vars, phase' = "running"
             PROVE  \A o \in objectList' : o.pose = lastPose'[o.symbol]
  BY DEF PublishersAgree
<1>t. lastPose \in [Tags -> Poses \cup {Absent}] /\ objectList \in SUBSET TuioObject
  BY DEF IInv, TypeOK, TuioTypeOK
<1>s. objectList' \in SUBSET TuioObject
  BY NextTypeOK DEF IInv, TypeOK, TuioTypeOK
<1>p. points \in Frame
  BY DEF IInv, TypeOK, PlaneTypeOK, Frame
<1>k. ASSUME phase = "running", objectList' = objectList, lastPose' = lastPose
      PROVE  \A o \in objectList' : o.pose = lastPose'[o.symbol]
  BY <1>k DEF PublishersAgree
\* Both publishers have got the pose p about the tag t.
<1>f. ASSUME phase = "running", NEW t \in Tags, NEW p \in Poses,
             \A o \in objectList' : IF o.symbol = t THEN o.pose = p ELSE o \in objectList,
             lastPose' = [lastPose EXCEPT ![t] = p]
      PROVE  \A o \in objectList' : o.pose = lastPose'[o.symbol]
  BY <1>f, <1>t, <1>s DEF PublishersAgree, TuioObject
<1>1. ASSUME NEW t \in Tags, Mark(t)
      PROVE  \A o \in objectList' : o.pose = lastPose'[o.symbol]
  <2>1. Pose(points, t) \in Poses
    BY <1>p, PoseType
  <2>2. NotificationOf(t) = "ADD" => t \notin alive
    BY <1>1 DEF Mark, NotificationOf, IInv, Tied, Shown
  <2>3. \A o \in objectList' :
          IF o.symbol = t THEN o.pose = Pose(points, t) ELSE o \in objectList
    BY <1>1, <2>1, <2>2, FireTells DEF Mark
  <2>4. QED
    BY <1>1, <1>f, <2>1, <2>3 DEF Mark, WebSocketFire
<1>2. ASSUME NEW t \in Tags, Sweep(t)
      PROVE  \A o \in objectList' : o.pose = lastPose'[o.symbol]
  <2>1. Pose(Erased(t), t) = Zero
    BY <1>p DEF Pose, Erased, Frame
  <2>2. \A o \in objectList' : IF o.symbol = t THEN o.pose = Zero ELSE o \in objectList
    BY <1>2, FireTells, PoseAssumption DEF Sweep
  <2>3. QED
    BY <1>2, <1>f, <2>1, <2>2, PoseAssumption DEF Sweep, WebSocketFire
<1>3. CASE UNCHANGED vars
  BY <1>3, <1>k DEF vars, tuioVars, messageVars
<1>4. CASE EndMarking \/ EndFrame \/ \E frame \in Frame : NewFrame(frame)
  BY <1>4, <1>k DEF EndMarking, EndFrame, NewFrame, tuioVars, messageVars
<1>5. QED
  BY <1>1, <1>2, <1>3, <1>4 DEF Next, MarkThrows, MarkUndefined, SweepThrows

\* What a TUIO receiver is told of a tag agrees with what a WebSocket client is
\* told, for as long as there is an object for the tag.
THEOREM PublishersNeverDisagree == Spec => []PublishersAgree
<1>1. Init => PublishersAgree
  BY DEF Init, TuioInit, PublishersAgree
<1>2. Init /\ [][Next]_vars => []PublishersAgree
  BY <1>1, Inductive, ObjInductive, NextAgree, PTL DEF Spec
<1>3. QED
  BY <1>2 DEF Spec

(***************************************************************************)
(* The pose that is published.  A notification carries what the Plane held *)
(* before it: of the frame being handled for a tag already marked, of the  *)
(* frame before for one that waits, and the default for a tag that is not  *)
(* on the plane, whether it was never seen or was read after its removal.  *)
(***************************************************************************)
FramesTyped == frameNow \in Frame /\ frameBefore \in Frame

MarkedIsNew ==
  \A t \in tracked : /\ frameNow[t] # Absent
                     /\ points[t] = frameNow[t]
                     /\ lastPose[t] = Pose(frameBefore, t)

WaitingIsOld ==
  \A t \in Tags \ tracked : /\ pending[t] = frameNow[t]
                            /\ Pose(points, t) = Pose(frameBefore, t)

Told ==
  phase = "running" =>
    /\ \A t \in Tags \ alive : Pose(points, t) = Zero
    /\ MarkedIsNew
    /\ stage = "marking" => WaitingIsOld /\ \A t \in tracked : pending[t] = Absent
    /\ stage # "marking" => tracked = Found(frameNow)

LEMMA InitTold == MCInit => FramesTyped /\ Told
BY PoseAssumption DEF MCInit, Init, PlaneInit, Empty, FramesTyped, Told, MarkedIsNew,
   WaitingIsOld, Pose, Frame, Found

LEMMA NextFrames == IInv /\ FramesTyped /\ [MCNext]_<<vars, frameNow, frameBefore>>
                      => FramesTyped'
<1> SUFFICES ASSUME IInv, FramesTyped, [MCNext]_<<vars, frameNow, frameBefore>>
             PROVE  FramesTyped'
  OBVIOUS
<1>1. [Next]_vars
  BY DEF MCNext
<1>2. pending' \in Frame
  BY <1>1, NextTypeOK DEF IInv, TypeOK
<1>3. QED
  BY <1>2 DEF MCNext, FramesTyped

\* The history stays as it is except at the start of a frame.
LEMMA NextHistory ==
  ASSUME [MCNext]_<<vars, frameNow, frameBefore>>,
         ~(stage = "idle" /\ stage' = "marking")
  PROVE  [Next]_vars /\ UNCHANGED <<frameNow, frameBefore>>
BY DEF MCNext

\* A tag is handed to the Plane: from now on the Plane has its new pose, and
\* what was published is the one of the frame before.
LEMMA MarkTells ==
  ASSUME IInv, FramesTyped, Told, NEW t \in Tags, Mark(t),
         UNCHANGED <<frameNow, frameBefore>>
  PROVE  Told'
<1> USE DEF Mark, IInv
<1>1. /\ points \in Frame /\ pending \in Frame /\ tracked \subseteq Tags
      /\ frameNow \in Frame /\ frameBefore \in Frame
      /\ lastPose \in [Tags -> Poses \cup {Absent}]
  BY DEF TypeOK, PlaneTypeOK, Frame, FramesTyped
<1>2. pending[t] # Absent /\ t \notin tracked
  BY DEF IsNext, Found, Told
<1>3. /\ MarkedIsNew /\ WaitingIsOld
      /\ \A u \in tracked : pending[u] = Absent
      /\ \A u \in Tags \ alive : Pose(points, u) = Zero
  BY DEF Told
<1>4. /\ points' = [points EXCEPT ![t] = pending[t]]
      /\ pending' = [pending EXCEPT ![t] = Absent]
      /\ lastPose' = [lastPose EXCEPT ![t] = Pose(points, t)]
      /\ tracked' = tracked \cup {t} /\ alive' = alive \cup {t}
      /\ stage' = "marking"
  BY DEF SetElement, WebSocketFire
<1>5. \A u \in Tags \ {t} : /\ points'[u] = points[u]
                            /\ pending'[u] = pending[u]
                            /\ lastPose'[u] = lastPose[u]
                            /\ Pose(points', u) = Pose(points, u)
  BY <1>1, <1>4 DEF Pose, Frame
<1>6. points'[t] = frameNow[t] /\ pending'[t] = Absent /\ lastPose'[t] = Pose(frameBefore, t)
  BY <1>1, <1>2, <1>3, <1>4 DEF WaitingIsOld, Frame
<1>7. MarkedIsNew'
  BY <1>1, <1>2, <1>3, <1>4, <1>5, <1>6 DEF MarkedIsNew, WaitingIsOld
<1>8. WaitingIsOld'
  BY <1>3, <1>4, <1>5 DEF WaitingIsOld
<1>9. \A u \in tracked' : pending'[u] = Absent
  BY <1>1, <1>3, <1>4, <1>5, <1>6
<1>10. \A u \in Tags \ alive' : Pose(points', u) = Zero
  BY <1>3, <1>4, <1>5
<1>11. QED
  BY <1>4, <1>7, <1>8, <1>9, <1>10 DEF Told

\* A tag that is gone is forgotten; the read that its last notification makes
\* leaves the default pose behind.
LEMMA SweepTells ==
  ASSUME IInv, FramesTyped, Told, NEW t \in Tags, Sweep(t),
         UNCHANGED <<frameNow, frameBefore>>
  PROVE  Told'
<1> USE DEF Sweep, IInv
<1>1. /\ points \in Frame /\ tracked \subseteq Tags
      /\ lastPose \in [Tags -> Poses \cup {Absent}]
  BY DEF TypeOK, PlaneTypeOK, Frame
<1>2. t \notin tracked
  BY DEF IsNext, Progress
<1>3. /\ MarkedIsNew /\ tracked = Found(frameNow)
      /\ \A u \in Tags \ alive : Pose(points, u) = Zero
  BY DEF Told
<1>4. points'[t] = Zero /\ \A u \in Tags \ {t} : points'[u] = points[u]
  BY <1>1 DEF ClearElement, AfterRead, Erased, Pose, Frame
<1>5. \A u \in Tags \ {t} : lastPose'[u] = lastPose[u]
  BY <1>1 DEF WebSocketFire
<1>6. MarkedIsNew'
  BY <1>1, <1>2, <1>3, <1>4, <1>5 DEF MarkedIsNew
<1>7. \A u \in Tags \ alive' : Pose(points', u) = Zero
  BY <1>3, <1>4 DEF Pose
<1>8. QED
  BY <1>3, <1>6, <1>7 DEF Told, Found

\* A frame begins: what was new becomes old, for every tag, seen or not.
LEMMA NewFrameTells ==
  ASSUME IInv, FramesTyped, Told, NEW f \in Frame, NewFrame(f),
         frameNow' = pending', frameBefore' = frameNow
  PROVE  Told'
<1> USE DEF NewFrame, IInv
<1>1. /\ MarkedIsNew /\ tracked = Found(frameNow) /\ alive = tracked
      /\ \A u \in Tags \ alive : Pose(points, u) = Zero
  BY DEF Told, Progress
<1>2. points' = points /\ alive' = alive /\ tracked' = {} /\ stage' = "marking"
  BY DEF planeVars
<1>3. \A u \in Tags : Pose(points, u) = Pose(frameNow, u)
  BY <1>1 DEF MarkedIsNew, Found, Pose
<1>4. WaitingIsOld'
  BY <1>2, <1>3 DEF WaitingIsOld
<1>5. QED
  BY <1>1, <1>2, <1>4 DEF Told, MarkedIsNew

\* All tags of the frame are marked: what was found is what is tracked.
LEMMA EndMarkingTells ==
  ASSUME IInv, FramesTyped, Told, EndMarking, UNCHANGED <<frameNow, frameBefore>>
  PROVE  Told'
<1> USE DEF EndMarking, IInv
<1>1. /\ MarkedIsNew /\ WaitingIsOld /\ tracked \subseteq Tags
      /\ \A u \in Tags \ alive : Pose(points, u) = Zero
  BY DEF Told, TypeOK
<1>2. tracked = Found(frameNow)
  BY <1>1 DEF MarkedIsNew, WaitingIsOld, Found
<1>3. QED
  BY <1>1, <1>2 DEF Told, MarkedIsNew, Found, planeVars, messageVars

LEMMA NextTold == IInv /\ FramesTyped /\ Told /\ [MCNext]_<<vars, frameNow, frameBefore>>
                    => Told'
<1> SUFFICES ASSUME IInv, FramesTyped, Told,
                    [MCNext]_<<vars, frameNow, frameBefore>>, phase' = "running"
             PROVE  Told'
  BY DEF Told
<1>k. ASSUME phase = "running", UNCHANGED <<points, alive, tracked, lastPose, pending>>,
             stage' = stage \/ (stage # "marking" /\ stage' # "marking"),
             UNCHANGED <<frameNow, frameBefore>>
      PROVE  Told'
  BY <1>k DEF Told, MarkedIsNew, WaitingIsOld, Found
<1>1. ASSUME NEW f \in Frame, NewFrame(f) PROVE Told'
  BY <1>1, NewFrameTells DEF MCNext, NewFrame, vars, trackerVars
<1>2. ASSUME NEW t \in Tags, Mark(t) PROVE Told'
  BY <1>2, MarkTells, NextHistory DEF Mark
<1>3. CASE EndMarking
  BY <1>3, EndMarkingTells, NextHistory DEF EndMarking
<1>4. ASSUME NEW t \in Tags, Sweep(t) PROVE Told'
  BY <1>4, SweepTells, NextHistory DEF Sweep
<1>5. CASE EndFrame
  BY <1>5, <1>k, NextHistory DEF EndFrame, planeVars, messageVars
<1>6. CASE UNCHANGED vars
  BY <1>6, <1>k, NextHistory DEF vars, planeVars, trackerVars, messageVars
<1>7. QED
  BY <1>1, <1>2, <1>3, <1>4, <1>5, <1>6
     DEF MCNext, Next, MarkThrows, MarkUndefined, SweepThrows

LEMMA MCImplementsSpec == MCSpec => Spec
<1>1. MCInit => Init
  BY DEF MCInit
<1>2. [MCNext]_<<vars, frameNow, frameBefore>> => [Next]_vars
  BY DEF MCNext
<1>3. QED
  BY <1>1, <1>2, PTL DEF MCSpec, Spec

\* A tag that stays where it is is published where it is from its second frame
\* on, and in its first frame at the default pose, although every notification
\* shows the pose that was stored before it.
THEOREM RestingTagsAreRight == MCSpec => []RestingTagIsRight
<1>1. FramesTyped /\ Told => RestingTagIsRight
  BY DEF FramesTyped, Told, MarkedIsNew, RestingTagIsRight, Found, Pose
<1>2. MCInit /\ [][MCNext]_<<vars, frameNow, frameBefore>> /\ []IInv => []FramesTyped
  BY InitTold, NextFrames, PTL
<1>3. MCInit /\ [][MCNext]_<<vars, frameNow, frameBefore>> /\ []IInv /\ []FramesTyped => []Told
  BY InitTold, NextTold, PTL
<1>4. MCSpec => []IInv
  BY MCImplementsSpec, Inductive, PTL
<1>5. QED
  BY <1>1, <1>2, <1>3, <1>4, PTL DEF MCSpec

=============================================================================
