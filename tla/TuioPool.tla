------------------------------ MODULE TuioPool ------------------------------
(***************************************************************************)
(* The numbers of TUIO cursors and blobs.  A TuioManager and a TuioClient  *)
(* number the contacts they list from 0 and hand a number out again when   *)
(* its contact has gone: they keep the highest number in use (maxCursorID, *)
(* maxBlobID) and the contacts that left a lower number behind             *)
(* (freeCursorList, freeBlobList), of which a new contact takes the        *)
(* closest one's number.                                                   *)
(*                                                                         *)
(* A pool is a record [max, free].  The numbers in use are those of the    *)
(* list of contacts, which the pool does not hold: the code compares the   *)
(* length of one list with what it keeps about the other.                  *)
(***************************************************************************)
EXTENDS Integers, FiniteSets, FiniteSetsExt

Pool == [max : Nat \cup {-1}, free : SUBSET Nat]

EmptyPool == [max |-> -1, free |-> {}]

\* A number that was left behind, whose contact was the closest one: which one
\* that is depends on where contacts were seen, any of them may be.
Reused(pool) == {[id |-> i, pool |-> [pool EXCEPT !.free = @ \ {i}]] : i \in pool.free}

\* Mutation: the first number is the one before the length of the list.
FreshBefore(n, pool) == {[id |-> n - 1, pool |-> [pool EXCEPT !.max = n - 1]]}

Fresh(n, pool) == {[id |-> n, pool |-> [pool EXCEPT !.max = n]]}

\* Mutation: the last number that was left behind is not handed out.
ManagerTakeBelow(n, pool) == IF n < pool.max THEN Reused(pool) ELSE Fresh(n, pool)

\* TuioManager: n contacts are listed.  With none left behind the code would
\* look at the end of an empty list; there is no outcome to that here.
ManagerTake(n, pool) == IF n <= pool.max THEN Reused(pool) ELSE Fresh(n, pool)

\* Mutation: as many left behind as the highest number are too many.
ClientTakeBelow(n, pool) ==
  IF pool.free # {} /\ Cardinality(pool.free) < pool.max THEN Reused(pool) ELSE Fresh(n, pool)

\* TuioClient: it asks the list of those left behind instead.
ClientTake(n, pool) ==
  IF pool.free # {} /\ Cardinality(pool.free) <= pool.max THEN Reused(pool) ELSE Fresh(n, pool)

\* A contact has gone and the numbers in use are those in `used`.
Give(id, used, pool) ==
  IF id = pool.max
  THEN IF used = {} THEN EmptyPool
       ELSE [max |-> Max(used), free |-> {i \in pool.free : i <= Max(used)}]
  ELSE [pool EXCEPT !.free = IF id < pool.max THEN @ \cup {id} ELSE @]

\* What both must keep true of a pool and the numbers in use: every number up
\* to the highest is in use or left behind, and not both.
Whole(used, pool) ==
  /\ used \cup pool.free = 0 .. pool.max
  /\ used \cap pool.free = {}
  /\ pool.max = -1 \/ pool.max \in used

=============================================================================
