------------------------------- MODULE Plane -------------------------------
(***************************************************************************)
(* The Plane of src/spaces/Plane.cc: the Space that holds the pose of      *)
(* every fiducial tag, and that tells its observers (the publishers) about *)
(* each change.                                                            *)
(*                                                                         *)
(* points_ is a std::map and seen_ a std::set in the code.  A missing map  *)
(* entry is Absent here.  An observer is called back while setElement is   *)
(* still running, and reads the pose through getElement, whose operator[]  *)
(* inserts a default pose when there is none: reading is a write, and both *)
(* operations below include the reads that the observers make.             *)
(***************************************************************************)
EXTENDS Integers

CONSTANTS
  Tags,     \* the tag ids, the keys of points_
  Poses,    \* the <x, y, angle> triples, abstracted to distinct values
  Zero,     \* the value-initialised triple (0, 0, 0)
  Absent    \* no entry in the map

ASSUME PoseAssumption == Zero \in Poses /\ Absent \notin Poses

ASSUME TagAssumption == Tags \subseteq Int

VARIABLES
  points,   \* points_
  seen      \* seen_: the ids whose last notification was a REMOVE

planeVars == <<points, seen>>

PlaneTypeOK ==
  /\ points \in [Tags -> Poses \cup {Absent}]
  /\ seen \in SUBSET Tags

PlaneInit ==
  /\ points = [t \in Tags |-> Absent]
  /\ seen = {}

(***************************************************************************)
(* getElement: the pose an observer gets, and the map after it asked.      *)
(***************************************************************************)
\* Mutation: at() in place of operator[], no entry and no default.
PoseWithoutDefault(pts, id) == pts[id]

Pose(pts, id) == IF pts[id] = Absent THEN Zero ELSE pts[id]

AfterRead(pts, id) == [pts EXCEPT ![id] = Pose(pts, id)]

(***************************************************************************)
(* setElement(id, point): the notification is chosen by seen_, is sent     *)
(* before the new pose is stored, and so shows the pose stored before.     *)
(***************************************************************************)
\* Mutation: the two branches exchanged.
NotificationSwapped(id) == IF id \in seen THEN "UPDATE" ELSE "ADD"

NotificationOf(id) == IF id \in seen THEN "ADD" ELSE "UPDATE"

\* Mutation: only an existing entry is overwritten.
SetExistingElement(id, pose) ==
  /\ seen' = seen \ {id}
  /\ points' = [points EXCEPT ![id] = IF points[id] = Absent THEN Absent ELSE pose]

\* Mutation: the new pose is not stored.
SetNothing(id, pose) ==
  /\ seen' = seen \ {id}
  /\ points' = AfterRead(points, id)

SetElement(id, pose) ==
  /\ seen' = seen \ {id}
  /\ points' = [points EXCEPT ![id] = pose]

\* An observer throws: setElement is left before the new pose is stored.
SetElementThrown(id) ==
  /\ seen' = seen \ {id}
  /\ points' = AfterRead(points, id)

(***************************************************************************)
(* setElement(id): erase, remember the id, notify REMOVE.  The WebSocket   *)
(* publisher reads the pose of a REMOVE too, which puts an entry back.     *)
(***************************************************************************)
Erased(id) == [points EXCEPT ![id] = Absent]

ClearElement(id) ==
  /\ seen' = seen \cup {id}
  /\ points' = AfterRead(Erased(id), id)

=============================================================================
