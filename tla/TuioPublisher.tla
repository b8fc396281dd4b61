--------------------------- MODULE TuioPublisher ---------------------------
(***************************************************************************)
(* TUIOPublisher of src/publishers/TUIO.cc with the object half of the     *)
(* TuioManager it drives (src/include/TUIO/TuioManager.cpp): the table     *)
(* objects[] from tag id to TuioObject, and the manager's objectList.      *)
(*                                                                         *)
(* A TuioObject is identified by its session id, which the manager never   *)
(* reuses.  objects[] is a plain array member that no constructor fills:   *)
(* until its first assignment an entry holds whatever the memory held,     *)
(* which is a null pointer (fresh zeroed pages) or a Wild one.             *)
(***************************************************************************)
EXTENDS Plane

CONSTANT TuioEnabled    \* --tuio was given

ASSUME TuioAssumption == TuioEnabled \in BOOLEAN

Null == -1       \* the null pointer
Wild == -2       \* a pointer to no TuioObject at all

VARIABLES
  objects,       \* TUIOPublisher::objects
  objectList,    \* TuioManager::objectList
  sessionID      \* TuioManager::sessionID

tuioVars == <<objects, objectList, sessionID>>

TuioObject == [sid : Nat, symbol : Tags, pose : Poses]

TuioTypeOK ==
  /\ objects \in [Tags -> Nat \cup {Null, Wild}]
  /\ objectList \in SUBSET TuioObject
  /\ sessionID \in Nat \cup {-1}

TuioInit ==
  /\ objects \in [Tags -> {Null, Wild}]
  /\ objectList = {}
  /\ sessionID = -1

(***************************************************************************)
(* The three calls of TUIOPublisher::fire, each with the TuioManager       *)
(* operation it makes.  update and remove return early on a null pointer.  *)
(* (update also does when the object was updated at this very microsecond; *)
(* two notifications about one tag are a camera frame apart.)              *)
(***************************************************************************)
AddTuioObject(id, p) ==
  /\ sessionID' = sessionID + 1
  /\ objectList' =
       objectList \cup {[sid |-> sessionID + 1, symbol |-> id, pose |-> p]}
  /\ objects' = [objects EXCEPT ![id] = sessionID + 1]

\* Mutation: the early return of updateTuioObject is taken always.
NotUpdated(o, id, p) == o

Updated(o, id, p) == IF o.sid = objects[id] THEN [o EXCEPT !.pose = p] ELSE o

UpdateTuioObject(id, p) ==
  /\ objectList' = {Updated(o, id, p) : o \in objectList}
  /\ UNCHANGED <<objects, sessionID>>

\* Mutation: objects[id] = NULL is left out.
RemoveWithoutNull(id) ==
  /\ objectList' = {o \in objectList : o.sid # objects[id]}
  /\ UNCHANGED <<objects, sessionID>>

\* Mutation: the object is not taken from the list.
RemoveWithoutList(id) ==
  /\ objects' = [objects EXCEPT ![id] = Null]
  /\ UNCHANGED <<objectList, sessionID>>

RemoveTuioObject(id) ==
  /\ objectList' = {o \in objectList : o.sid # objects[id]}
  /\ objects' = [objects EXCEPT ![id] = Null]
  /\ UNCHANGED sessionID

TuioFire(op, id, p) ==
  IF ~TuioEnabled THEN UNCHANGED tuioVars
  ELSE \/ op = "ADD"    /\ AddTuioObject(id, p)
       \/ op = "UPDATE" /\ UpdateTuioObject(id, p)
       \/ op = "REMOVE" /\ RemoveTuioObject(id)

\* update and remove look inside the object that objects[id] points to.
DereferencesWild(op, id) ==
  TuioEnabled /\ op \in {"UPDATE", "REMOVE"} /\ objects[id] = Wild

=============================================================================
