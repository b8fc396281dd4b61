------------------------------ MODULE TagLife ------------------------------
(***************************************************************************)
(* What a subscriber of the tag space may rely on: the order in which the  *)
(* notifications about one tag can arrive.  A tag is first heard of by an  *)
(* UPDATE, is updated while it stays, and is never removed or added twice  *)
(* in a row: after a REMOVE the next word about the tag is an ADD.         *)
(***************************************************************************)
CONSTANT Tags

VARIABLE lastOp    \* the last notification about each tag

Follows(op) ==
  IF op = "NONE" THEN {"UPDATE"}
  ELSE IF op = "REMOVE" THEN {"ADD"}
  ELSE {"UPDATE", "REMOVE"}

Init == lastOp = [t \in Tags |-> "NONE"]

Notify(t) == \E op \in Follows(lastOp[t]) : lastOp' = [lastOp EXCEPT ![t] = op]

Next == \E t \in Tags : Notify(t)

Spec == Init /\ [][Next]_lastOp

=============================================================================
