------------------------------ MODULE Tracking ------------------------------
(***************************************************************************)
(* One camera frame through the pipeline: ChiliTracker::fire               *)
(* (src/trackers/ChiliTracker.cc) turns the tags found in a frame into     *)
(* calls of Plane::setElement, and each of these calls the publishers,     *)
(* TUIO first and WebSocket second, before it returns.  All of it runs on  *)
(* the thread that delivers camera frames, one setElement after another.   *)
(*                                                                         *)
(* The WebSocket publisher always exists: main() leaves with an exception  *)
(* when --websocket is missing.  Its send may throw (WsPublisher tells     *)
(* when); nothing up to main() catches it, so the loop ends there.         *)
(***************************************************************************)
EXTENDS TuioPublisher

CONSTANT MaxSession    \* bound: no further frame once this many ids are used

ASSUME MaxSessionAssumption == MaxSession \in Nat

VARIABLES
  phase,     \* "running", "thrown" (left by exception), "undefined" (wild read)
  stage,     \* where fire() is: "idle", "marking" or "sweeping"
  pending,   \* tags of this frame not yet handed to the Plane, with their pose
  tracked,   \* tags of this frame already handed to the Plane
  gone,      \* notfound: tags that must still be removed
  alive,     \* ChiliTracker::alive
  lastOp,    \* "op" of the last WebSocket message about each tag
  lastPose   \* "pos" and "angle" of that message

trackerVars == <<stage, pending, tracked, gone, alive>>

messageVars == <<lastOp, lastPose>>

vars == <<planeVars, tuioVars, trackerVars, messageVars, phase>>

Frame == [Tags -> Poses \cup {Absent}]

Found(frame) == {t \in Tags : frame[t] # Absent}

Empty == [t \in Tags |-> Absent]

TypeOK ==
  /\ PlaneTypeOK
  /\ TuioTypeOK
  /\ phase \in {"running", "thrown", "undefined"}
  /\ stage \in {"idle", "marking", "sweeping"}
  /\ pending \in Frame
  /\ tracked \in SUBSET Tags
  /\ gone \in SUBSET Tags
  /\ alive \in SUBSET Tags
  /\ lastOp \in [Tags -> {"NONE", "ADD", "UPDATE", "REMOVE"}]
  /\ lastPose \in [Tags -> Poses \cup {Absent}]

Init ==
  /\ PlaneInit
  /\ TuioInit
  /\ phase = "running"
  /\ stage = "idle"
  /\ pending = Empty
  /\ tracked = {}
  /\ gone = {}
  /\ alive = {}
  /\ lastOp = [t \in Tags |-> "NONE"]
  /\ lastPose = Empty

(***************************************************************************)
(* A colour frame arrives and trackedChilitags.find returns some tags.     *)
(***************************************************************************)
NewFrame(frame) ==
  /\ phase = "running" /\ stage = "idle"
  /\ sessionID < MaxSession
  /\ stage' = "marking"
  /\ pending' = frame
  /\ tracked' = {}
  /\ UNCHANGED <<planeVars, tuioVars, messageVars, phase, gone, alive>>

\* The loops run over a std::map and a std::set: smallest id first.
IsNext(t, S) == t \in S /\ \A u \in S : t <= u

\* WebSocketPublisher::fire, when every send succeeds.
WebSocketFire(op, id, pose) ==
  /\ lastOp' = [lastOp EXCEPT ![id] = op]
  /\ lastPose' = [lastPose EXCEPT ![id] = pose]

(***************************************************************************)
(* One turn of the first loop: setElement(id, pose), with both publishers, *)
(* then the two inserts.                                                   *)
(***************************************************************************)
Mark(t) ==
  /\ phase = "running" /\ stage = "marking" /\ IsNext(t, Found(pending))
  /\ ~DereferencesWild(NotificationOf(t), t)
  /\ TuioFire(NotificationOf(t), t, Pose(points, t))
  /\ WebSocketFire(NotificationOf(t), t, Pose(points, t))
  /\ SetElement(t, pending[t])
  /\ pending' = [pending EXCEPT ![t] = Absent]
  /\ tracked' = tracked \cup {t}
  /\ alive' = alive \cup {t}
  /\ UNCHANGED <<phase, stage, gone>>

MarkThrows(t) ==
  /\ phase = "running" /\ stage = "marking" /\ IsNext(t, Found(pending))
  /\ ~DereferencesWild(NotificationOf(t), t)
  /\ TuioFire(NotificationOf(t), t, Pose(points, t))
  /\ SetElementThrown(t)
  /\ phase' = "thrown"
  /\ UNCHANGED <<trackerVars, messageVars>>

MarkUndefined(t) ==
  /\ phase = "running" /\ stage = "marking" /\ IsNext(t, Found(pending))
  /\ DereferencesWild(NotificationOf(t), t)
  /\ phase' = "undefined"
  /\ UNCHANGED <<planeVars, tuioVars, trackerVars, messageVars>>

\* Mutation: the ranges of std::set_difference exchanged.
EndMarkingSwapped ==
  /\ phase = "running" /\ stage = "marking" /\ Found(pending) = {}
  /\ stage' = "sweeping"
  /\ gone' = tracked \ alive
  /\ UNCHANGED <<planeVars, tuioVars, messageVars, phase, pending, tracked, alive>>

\* notfound = alive \ tracked, by std::set_difference.
EndMarking ==
  /\ phase = "running" /\ stage = "marking" /\ Found(pending) = {}
  /\ stage' = "sweeping"
  /\ gone' = alive \ tracked
  /\ UNCHANGED <<planeVars, tuioVars, messageVars, phase, pending, tracked, alive>>

(***************************************************************************)
(* One turn of the second loop: forget the tag, then setElement(id).       *)
(***************************************************************************)
Sweep(t) ==
  /\ phase = "running" /\ stage = "sweeping" /\ IsNext(t, gone)
  /\ ~DereferencesWild("REMOVE", t)
  /\ gone' = gone \ {t}
  /\ alive' = alive \ {t}
  /\ TuioFire("REMOVE", t, Zero)
  /\ WebSocketFire("REMOVE", t, Pose(Erased(t), t))
  /\ ClearElement(t)
  /\ UNCHANGED <<phase, stage, pending, tracked>>

SweepThrows(t) ==
  /\ phase = "running" /\ stage = "sweeping" /\ IsNext(t, gone)
  /\ ~DereferencesWild("REMOVE", t)
  /\ alive' = alive \ {t}
  /\ TuioFire("REMOVE", t, Zero)
  /\ ClearElement(t)
  /\ phase' = "thrown"
  /\ UNCHANGED <<messageVars, stage, pending, tracked, gone>>

EndFrame ==
  /\ phase = "running" /\ stage = "sweeping" /\ gone = {}
  /\ stage' = "idle"
  /\ UNCHANGED <<planeVars, tuioVars, messageVars, phase, pending, tracked, gone, alive>>

Next ==
  \/ \E frame \in Frame : NewFrame(frame)
  \/ \E t \in Tags : Mark(t) \/ MarkThrows(t) \/ MarkUndefined(t)
  \/ EndMarking
  \/ \E t \in Tags : Sweep(t) \/ SweepThrows(t)
  \/ EndFrame

Spec == Init /\ [][Next]_vars

-----------------------------------------------------------------------------
(***************************************************************************)
(* Properties                                                              *)
(***************************************************************************)

\* A subscriber hears of a tag in a sensible order (TagLife), although the
\* ADD/UPDATE choice is made by seen_, the REMOVEs by the tracker's alive set,
\* and neither consults the other.
Life == INSTANCE TagLife

LifeSpec == Life!Spec

\* Plane::setElement(id) erases points_.find(id) without looking at it: a tag
\* about to be removed must have an entry, or erase(end()) is undefined.
EraseDefined == \A t \in alive : points[t] # Absent

\* The tags a subscriber believes to be on the plane.
Shown == {t \in Tags : lastOp[t] \in {"ADD", "UPDATE"}}

\* When fire() has returned, the subscribers show exactly the tags that were
\* found in the frame: none is missed, and none outlives its disappearance.
BoardMatchesFrame ==
  phase = "running" /\ stage = "idle" => Shown = tracked /\ alive = tracked

\* The TUIO object table and the manager's list never drift apart: the live
\* objects are exactly those the table points to, each from the slot of its
\* own tag and no other, so that none leaks or is deleted twice.
ObjectsMatchTable ==
  /\ \A o \in objectList : objects[o.symbol] = o.sid
  /\ \A t \in Tags : objects[t] >= 0 =>
       \E o \in objectList : o.symbol = t /\ o.sid = objects[t]

\* No TUIO object is left over for a tag that is not on the plane.
NoGhostObject ==
  phase = "running" => \A o \in objectList : o.symbol \in alive

\* Every call of updateTuioObject and removeTuioObject that the publisher
\* makes refers to a TuioObject, or to none at all.
RefersToObject == phase # "undefined"

=============================================================================
