------------------------- MODULE TuioContactsProofs -------------------------
(***************************************************************************)
(* Proofs about the TUIO publisher, for any number of contacts, frames and *)
(* bundles on their way: the numbers that cursors and blobs get, and, for  *)
(* every loss of bundles, that the receiver lists what the manager does.   *)
(***************************************************************************)
EXTENDS MCTuioContacts, FiniteSetTheorems, SequenceTheorems, TLAPS

(***************************************************************************)
(* The pool on its own                                                     *)
(***************************************************************************)

\* A set of numbers below a bound has a greatest element: the least distance
\* to the bound exists because < is well founded.
LEMMA GreatestExists ==
  ASSUME NEW n \in Nat, NEW S \in SUBSET (0 .. n), S # {}
  PROVE  Max(S) \in S /\ \A i \in S : i <= Max(S)
<1>0. S \subseteq Int
  OBVIOUS
<1> DEFINE T == {n - i : i \in S}
<1>1. T \subseteq Nat /\ T # {}
  <2>1. \A i \in S : i \in Nat /\ n - i \in Nat
    OBVIOUS
  <2>2. PICK i \in S : TRUE
    OBVIOUS
  <2>3. n - i \in T
    OBVIOUS
  <2>4. QED
    BY <2>1, <2>3
<1>2. PICK d \in T : \A e \in T : ~ (<<e, d>> \in OpToRel(<, Nat))
  BY <1>1, NatLessThanWellFounded, WFMin, Zenon
<1>3. \A e \in T : ~ (e < d)
  BY <1>1, <1>2, Zenon DEF OpToRel
<1>4. n - d \in S /\ \A i \in S : n - d >= i
  <2>1. PICK j \in S : d = n - j
    OBVIOUS
  <2>2. ASSUME NEW i \in S PROVE j >= i
    <3>1. n - i \in T
      OBVIOUS
    <3>2. ~ (n - i < n - j)
      BY <1>3, <2>1, <3>1, Zenon
    <3>3. i \in Int /\ j \in Int
      BY <1>0, Zenon
    <3> HIDE DEF T
    <3>4. QED
      BY <3>2, <3>3
  <2>3. QED
    BY <2>1, <2>2
<1>5. Max(S) \in S /\ \A y \in S : Max(S) >= y
  BY <1>4, Zenon DEF Max
<1>6. QED
  BY <1>5

\* The numbers in use and those left behind make up all numbers that there are.
LEMMA WholeCounts ==
  ASSUME NEW p \in Pool, NEW used, Whole(used, p)
  PROVE  /\ IsFiniteSet(used) /\ IsFiniteSet(p.free) /\ used \subseteq Nat
         /\ Cardinality(used) \in Nat /\ Cardinality(p.free) \in Nat
         /\ Cardinality(used) + Cardinality(p.free) = p.max + 1
<1>1. p.max \in Int /\ p.max >= -1 /\ p.free \in SUBSET Nat
  BY DEF Pool
<1>2. IsFiniteSet(0 .. p.max) /\ Cardinality(0 .. p.max) = p.max + 1
  <2> DEFINE m == p.max
  <2>1. m \in Int /\ m >= -1
    BY <1>1
  <2> HIDE DEF m
  <2>2. IsFiniteSet(0 .. m) /\ Cardinality(0 .. m) = IF 0 > m THEN 0 ELSE m - 0 + 1
    BY <2>1, FS_Interval
  <2>3. Cardinality(0 .. m) = m + 1
    BY <2>1, <2>2
  <2>4. QED
    BY <2>2, <2>3 DEF m
<1>3. used \cup p.free = 0 .. p.max /\ used \cap p.free = {}
  BY DEF Whole
<1>4. used \in SUBSET (0 .. p.max) /\ p.free \in SUBSET (0 .. p.max)
  BY <1>3
<1>5. IsFiniteSet(used) /\ IsFiniteSet(p.free)
  BY <1>2, <1>4, FS_Subset
<1>6. Cardinality(used) \in Nat /\ Cardinality(p.free) \in Nat
  BY <1>5, FS_CardinalityType
<1>7. Cardinality(used \cup p.free) =
        Cardinality(used) + Cardinality(p.free) - Cardinality(used \cap p.free)
  BY <1>5, FS_Union
<1>8. Cardinality(used \cap p.free) = 0
  BY <1>3, FS_EmptySet
<1>9. Cardinality(0 .. p.max) = Cardinality(used) + Cardinality(p.free)
  <2>1. Cardinality(used \cup p.free) = Cardinality(used) + Cardinality(p.free)
    BY <1>6, <1>7, <1>8
  <2>2. QED
    BY <1>3, <2>1, Zenon
<1>10. used \subseteq Nat
  BY <1>4
<1>11. QED
  BY <1>1, <1>2, <1>5, <1>6, <1>9, <1>10

\* Handing out a number that was left behind.
LEMMA ReusedKeeps ==
  ASSUME NEW p \in Pool, NEW used, Whole(used, p), NEW t \in Reused(p)
  PROVE  /\ t.id \in Nat \ used /\ t.pool \in Pool
         /\ Whole(used \cup {t.id}, t.pool)
<1>1. PICK i \in p.free : t = [id |-> i, pool |-> [p EXCEPT !.free = @ \ {i}]]
  BY DEF Reused
<1>2. t.id = i /\ t.pool = [max |-> p.max, free |-> p.free \ {i}]
  BY <1>1 DEF Pool
<1>3. t.pool \in Pool /\ i \in Nat
  BY <1>2 DEF Pool
<1>4. i \notin used
  BY DEF Whole
<1>5. Whole(used \cup {i}, t.pool)
  BY <1>2, <1>4 DEF Whole
<1>6. QED
  BY <1>2, <1>3, <1>4, <1>5

\* A new number, when none was left behind.
LEMMA FreshKeeps ==
  ASSUME NEW p \in Pool, NEW used, Whole(used, p), p.free = {},
         NEW t \in Fresh(Cardinality(used), p)
  PROVE  /\ t.id \in Nat \ used /\ t.pool \in Pool
         /\ Whole(used \cup {t.id}, t.pool)
<1> DEFINE n == Cardinality(used)
<1>1. t = [id |-> n, pool |-> [p EXCEPT !.max = n]]
  BY DEF Fresh
<1>2. n \in Nat /\ n = p.max + 1
  <2>1. Cardinality(p.free) = 0
    BY FS_EmptySet
  <2>2. Cardinality(used) \in Nat /\ Cardinality(used) + Cardinality(p.free) = p.max + 1
    BY WholeCounts
  <2>3. QED
    BY <2>1, <2>2
<1>3. t.id = n /\ t.pool = [max |-> n, free |-> {}]
  BY <1>1 DEF Pool
<1>4. used = 0 .. p.max
  BY DEF Whole
<1>5. p.max \in Int /\ p.max >= -1
  BY DEF Pool
<1> HIDE DEF n
<1>6. t.pool \in Pool
  BY <1>2, <1>3 DEF Pool
<1>7. n \notin used /\ used \cup {n} = 0 .. n
  BY <1>2, <1>4, <1>5
<1>8. QED
  BY <1>2, <1>3, <1>6, <1>7 DEF Whole

\* addTuioCursor and addTuioBlob: with as many contacts as numbers in use, a
\* contact that was left behind is there when the code goes for one.
LEMMA ManagerTakeKeeps ==
  ASSUME NEW p \in Pool, NEW used, Whole(used, p),
         NEW t \in ManagerTake(Cardinality(used), p)
  PROVE  /\ t.id \in Nat \ used /\ t.pool \in Pool
         /\ Whole(used \cup {t.id}, t.pool)
<1>1. CASE Cardinality(used) <= p.max
  BY <1>1, ReusedKeeps DEF ManagerTake
<1>2. CASE ~ (Cardinality(used) <= p.max)
  <2>1. Cardinality(p.free) = 0
    BY <1>2, WholeCounts DEF Pool
  <2>2. p.free = {}
    BY <2>1, WholeCounts, FS_EmptySet
  <2>3. QED
    BY <1>2, <2>2, FreshKeeps DEF ManagerTake
<1>3. QED
  BY <1>1, <1>2

\* And there is one, so that the code never looks at the end of an empty list.
LEMMA ManagerFindsFree ==
  ASSUME NEW p \in Pool, NEW used, Whole(used, p), Cardinality(used) <= p.max
  PROVE  p.free # {}
<1>1. Cardinality(p.free) # 0
  BY WholeCounts DEF Pool
<1>2. QED
  BY <1>1, FS_EmptySet

\* The condition of TuioClient comes to the same.
LEMMA ClientTakeKeeps ==
  ASSUME NEW p \in Pool, NEW used, Whole(used, p),
         NEW t \in ClientTake(Cardinality(used), p)
  PROVE  /\ t.id \in Nat \ used /\ t.pool \in Pool
         /\ Whole(used \cup {t.id}, t.pool)
<1>1. CASE p.free # {} /\ Cardinality(p.free) <= p.max
  BY <1>1, ReusedKeeps DEF ClientTake
<1>2. CASE p.free = {}
  BY <1>2, FreshKeeps DEF ClientTake
<1>3. CASE p.free # {} /\ ~ (Cardinality(p.free) <= p.max)
  <2>1. Cardinality(used) = 0
    BY <1>3, WholeCounts DEF Pool
  <2>2. used = {}
    BY <2>1, WholeCounts, FS_EmptySet
  <2>3. p.free = 0 .. p.max /\ p.max = -1
    BY <2>2 DEF Whole
  <2>4. QED
    BY <1>3, <2>3
<1>4. QED
  BY <1>1, <1>2, <1>3

\* Taking a number back.
LEMMA GiveKeeps ==
  ASSUME NEW p \in Pool, NEW used, Whole(used, p), NEW id \in used
  PROVE  /\ Give(id, used \ {id}, p) \in Pool
         /\ Whole(used \ {id}, Give(id, used \ {id}, p))
<1> DEFINE left == used \ {id}
           g == Give(id, left, p)
<1>1. p.max \in Int /\ p.max >= -1 /\ p.free \in SUBSET Nat
  BY DEF Pool
<1>2. used \cup p.free = 0 .. p.max /\ used \cap p.free = {}
  BY DEF Whole
<1>3. id \in 0 .. p.max /\ p.max \in Nat
  BY <1>1, <1>2
<1>4. CASE id # p.max
  <2>1. g = [max |-> p.max, free |-> p.free \cup {id}]
    BY <1>3, <1>4 DEF Give, Pool
  <2>2. g \in Pool
    BY <1>1, <1>3, <2>1 DEF Pool
  <2>3. p.max \in left
    BY <1>3, <1>4 DEF Whole
  <2>4. left \cup g.free = 0 .. g.max /\ left \cap g.free = {}
    BY <1>2, <1>3, <2>1
  <2>5. QED
    BY <2>1, <2>2, <2>3, <2>4 DEF Whole
<1>5. CASE id = p.max /\ left = {}
  <2>1. g = EmptyPool
    BY <1>5 DEF Give
  <2>2. QED
    BY <1>5, <2>1 DEF EmptyPool, Pool, Whole
<1>6. CASE id = p.max /\ left # {}
  <2>1. left \in SUBSET (0 .. p.max)
    BY <1>2
  <2>2. Max(left) \in left /\ \A i \in left : i <= Max(left)
    BY <1>3, <1>6, <2>1, GreatestExists
  <2>3. Max(left) \in 0 .. p.max
    BY <2>1, <2>2
  <2> DEFINE m == Max(left)
  <2>4. g = [max |-> m, free |-> {i \in p.free : i <= m}]
    BY <1>6 DEF Give
  <2> HIDE DEF m
  <2>5. m \in left /\ m \in 0 .. p.max /\ \A i \in left : i <= m
    BY <2>2, <2>3 DEF m
  <2>6. g \in Pool
    BY <1>1, <2>4, <2>5 DEF Pool
  <2>7. left \cup g.free = 0 .. g.max
    BY <1>2, <1>6, <2>1, <2>4, <2>5
  <2>8. left \cap g.free = {}
    BY <1>2, <2>4
  <2>9. QED
    BY <2>4, <2>5, <2>6, <2>7, <2>8 DEF Whole
<1>7. QED
  BY <1>4, <1>5, <1>6

(***************************************************************************)
(* The lists                                                               *)
(***************************************************************************)
Distinct(contacts) == \A c, d \in contacts : c.id = d.id => c = d

\* A list as long as there are numbers in use: the lengths that the code
\* compares are counts of numbers.
LEMMA AsManyContactsAsNumbers ==
  ASSUME NEW S, Distinct(S), IsFiniteSet(Ids(S))
  PROVE  IsFiniteSet(S) /\ Cardinality(S) = Cardinality(Ids(S))
<1> DEFINE f == [c \in S |-> c.id]
<1>1. f \in Injection(S, Ids(S)) /\ f \in Surjection(S, Ids(S))
  BY DEF Injection, Surjection, IsInjective, Ids, Distinct
<1>2. QED
  BY <1>1, FS_Injection

\* Contacts that are changed and keep their numbers.
LEMMA RelabelKeeps ==
  ASSUME NEW S, NEW f, \A c \in S : f[c].id = c.id, Distinct(S)
  PROVE  LET R == {f[c] : c \in S} IN Distinct(R) /\ Ids(R) = Ids(S)
BY DEF Distinct, Ids

LEMMA AddKeeps ==
  ASSUME NEW S, NEW c, Distinct(S), c.id \notin Ids(S)
  PROVE  Distinct(S \cup {c}) /\ Ids(S \cup {c}) = Ids(S) \cup {c.id}
BY DEF Distinct, Ids

LEMMA RemoveKeeps ==
  ASSUME NEW S, NEW c \in S, Distinct(S)
  PROVE  Distinct(S \ {c}) /\ Ids(S \ {c}) = Ids(S) \ {c.id} /\ c.id \in Ids(S)
BY DEF Distinct, Ids

\* What is to be kept of one kind, of either side.
Kept(contacts, p) == Distinct(contacts) /\ Whole(Ids(contacts), p)

LEMMA GivenBack ==
  ASSUME NEW S, NEW p \in Pool, NEW c \in S, Kept(S, p)
  PROVE  /\ Give(c.id, Ids(S \ {c}), p) \in Pool
         /\ Kept(S \ {c}, Give(c.id, Ids(S \ {c}), p))
<1>1. Whole(Ids(S), p) /\ Distinct(S)
  BY DEF Kept
<1>2. Distinct(S \ {c}) /\ Ids(S \ {c}) = Ids(S) \ {c.id} /\ c.id \in Ids(S)
  BY <1>1, RemoveKeeps
<1>3. /\ Give(c.id, Ids(S) \ {c.id}, p) \in Pool
      /\ Whole(Ids(S) \ {c.id}, Give(c.id, Ids(S) \ {c.id}, p))
  BY <1>1, <1>2, GiveKeeps
<1>4. QED
  BY <1>2, <1>3 DEF Kept

LEMMA TakenByManager ==
  ASSUME NEW S, NEW p \in Pool, Kept(S, p), NEW t \in ManagerTake(Cardinality(S), p),
         NEW c, c.id = t.id
  PROVE  t.id \in Nat /\ t.pool \in Pool /\ Kept(S \cup {c}, t.pool)
<1>1. Cardinality(S) = Cardinality(Ids(S))
  BY WholeCounts, AsManyContactsAsNumbers DEF Kept
<1>2. Whole(Ids(S), p) /\ Distinct(S)
  BY DEF Kept
<1>3. t \in ManagerTake(Cardinality(Ids(S)), p)
  BY <1>1
<1>4. /\ t.id \in Nat \ Ids(S) /\ t.pool \in Pool
      /\ Whole(Ids(S) \cup {t.id}, t.pool)
  BY <1>2, <1>3, ManagerTakeKeeps
<1>5. Distinct(S \cup {c}) /\ Ids(S \cup {c}) = Ids(S) \cup {t.id}
  BY <1>2, <1>4, AddKeeps
<1>6. QED
  BY <1>4, <1>5 DEF Kept

LEMMA TakenByClient ==
  ASSUME NEW S, NEW p \in Pool, Kept(S, p), NEW t \in ClientTake(Cardinality(S), p),
         NEW c, c.id = t.id
  PROVE  t.id \in Nat /\ t.pool \in Pool /\ Kept(S \cup {c}, t.pool)
<1>1. Cardinality(S) = Cardinality(Ids(S))
  BY WholeCounts, AsManyContactsAsNumbers DEF Kept
<1>2. Whole(Ids(S), p) /\ Distinct(S)
  BY DEF Kept
<1>3. t \in ClientTake(Cardinality(Ids(S)), p)
  BY <1>1
<1>4. /\ t.id \in Nat \ Ids(S) /\ t.pool \in Pool
      /\ Whole(Ids(S) \cup {t.id}, t.pool)
  BY <1>2, <1>3, ClientTakeKeeps
<1>5. Distinct(S \cup {c}) /\ Ids(S \cup {c}) = Ids(S) \cup {t.id}
  BY <1>2, <1>4, AddKeeps
<1>6. QED
  BY <1>4, <1>5 DEF Kept

(***************************************************************************)
(* The specification.  The pools need no strengthening; the types, which   *)
(* the wire carries to the client, need the lists to be finite, which the  *)
(* pools show.                                                             *)
(***************************************************************************)
ManagerKept == \A k \in Kinds : Kept(list[k], pool[k])

ReceiverKept == \A k \in Kinds : Kept(seen[k], seenPool[k])

IInv == TypeOK /\ ManagerKept /\ ReceiverKept

LEMMA EmptyKept == Kept({}, EmptyPool) /\ EmptyPool \in Pool
BY DEF Kept, Distinct, Ids, Whole, EmptyPool, Pool

LEMMA InOrderType ==
  ASSUME NEW f \in [Kinds -> Seq(Bundle)]
  PROVE  InOrder(f) \in Seq(Bundle)
<1>1. (IF "cursor" \in Kinds THEN f["cursor"] ELSE <<>>) \in Seq(Bundle)
  OBVIOUS
<1>2. (IF "blob" \in Kinds THEN f["blob"] ELSE <<>>) \in Seq(Bundle)
  OBVIOUS
<1>3. QED
  BY <1>1, <1>2 DEF InOrder

LEMMA EmptyBundlesType == EmptyBundles \in Seq(Bundle)
<1>1. \A k \in Kinds : EmptyBundle(k) \in Bundle
  BY DEF EmptyBundle, Bundle
<1>2. \A k \in Kinds : <<EmptyBundle(k)>> \in Seq(Bundle)
  BY <1>1
<1>3. [k \in Kinds |-> <<EmptyBundle(k)>>] \in [Kinds -> Seq(Bundle)]
  BY <1>2
<1>4. QED
  BY <1>3, InOrderType DEF EmptyBundles

LEMMA InitIInv == Init => IInv
<1> SUFFICES ASSUME Init PROVE IInv
  OBVIOUS
<1>1. ManagerKept /\ ReceiverKept
  BY EmptyKept DEF Init, ManagerKept, ReceiverKept
<1>2. TypeOK
  <2>1. work \in Work
    BY DEF Init, NoWork, Work
  <2>2. wire \in Seq(Bundle)
    BY EmptyBundlesType DEF Init
  <2>3. QED
    BY <2>1, <2>2, EmptyKept DEF Init, TypeOK, Phases
<1>3. QED
  BY <1>1, <1>2 DEF IInv

\* What commitFrame sends.
LEMMA BundlesType ==
  ASSUME TypeOK, NEW k \in Kinds, Kept(list[k], pool[k]), NEW selected \in SUBSET list[k]
  PROVE  BundlesOf(k, selected) \in Seq(Bundle)
<1> DEFINE image == {PartOf(c, selected) : c \in list[k]}
           part == [c \in list[k] |-> PartOf(c, selected)]
           n == Cardinality({1} \cup image)
           bundle(i) == [kind |-> k, fseq |-> currentFrame, alive |-> Sids(list[k]),
                         set |-> {MessageOf(c) : c \in {d \in selected : PartOf(d, selected) = i}}]
<1>1. IsFiniteSet(list[k])
  BY WholeCounts, AsManyContactsAsNumbers DEF Kept, TypeOK
<1>2. part \in Surjection(list[k], image)
  BY DEF Surjection
<1>3. IsFiniteSet(image)
  BY <1>1, <1>2, FS_Surjection
<1>4. n \in Nat
  BY <1>3, FS_Singleton, FS_Union, FS_CardinalityType
<1>5. list[k] \subseteq Contact
  BY DEF TypeOK
<1>6. \A i \in 1 .. n : bundle(i) \in Bundle
  <2>1. Sids(list[k]) \in SUBSET Nat
    BY <1>5 DEF Sids, Contact
  <2>2. \A c \in selected : MessageOf(c) \in Message
    BY <1>5 DEF MessageOf, Message, Contact
  <2>3. currentFrame \in Nat \cup {-1}
    BY DEF TypeOK
  <2>4. QED
    BY <2>1, <2>2, <2>3 DEF Bundle
<1> HIDE DEF bundle, n
<1>7. [i \in 1 .. n |-> bundle(i)] \in Seq(Bundle)
  BY <1>4, <1>6
<1>8. QED
  BY <1>7 DEF BundlesOf, bundle, n

LEMMA SentType ==
  ASSUME TypeOK, NEW k \in Kinds, Kept(list[k], pool[k]), NEW elapsed \in BOOLEAN
  PROVE  Sent(k, elapsed) \in Seq(Bundle)
<1>1. BundlesOf(k, {c \in list[k] : full \/ c.touched}) \in Seq(Bundle)
  BY BundlesType
<1>2. BundlesOf(k, IF full THEN list[k] ELSE {}) \in Seq(Bundle)
  BY BundlesType
<1>3. QED
  BY <1>1, <1>2 DEF Sent

\* The part of the state that only the server changes, and the wire.
ServerType ==
  /\ phase \in Phases
  /\ sweeping \in SUBSET Kinds
  /\ currentFrame \in Nat \cup {-1}
  /\ sessionID \in Nat \cup {-1}
  /\ list \in [Kinds -> SUBSET Contact]
  /\ pool \in [Kinds -> Pool]
  /\ updated \in [Kinds -> BOOLEAN]
  /\ full \in BOOLEAN /\ periodic \in BOOLEAN
  /\ wire \in Seq(Bundle)

ClientType ==
  /\ frame \in Nat \cup {-1}
  /\ seen \in [Kinds -> SUBSET SeenContact]
  /\ seenPool \in [Kinds -> Pool]
  /\ work \in Work

LEMMA TypeParts == TypeOK <=> ServerType /\ ClientType
BY DEF TypeOK, ServerType, ClientType

\* Steps that change contacts and leave them their numbers.
LEMMA Relabelled ==
  ASSUME ManagerKept, pool' = pool, list \in [Kinds -> SUBSET Contact],
         NEW f, \A c \in Contact : f[c] \in Contact /\ f[c].id = c.id,
         NEW k \in Kinds, list'[k] = {f[c] : c \in list[k]}
  PROVE  Kept(list'[k], pool'[k]) /\ list'[k] \in SUBSET Contact
<1>1. Kept(list[k], pool[k])
  BY DEF ManagerKept
<1>2. \A c \in list[k] : f[c].id = c.id
  OBVIOUS
<1>3. Distinct(list'[k]) /\ Ids(list'[k]) = Ids(list[k])
  <2> DEFINE S == list[k]
  <2>1. Distinct(S) /\ \A c \in S : f[c].id = c.id
    BY <1>1, <1>2 DEF Kept
  <2> HIDE DEF S
  <2>2. Distinct({f[c] : c \in S}) /\ Ids({f[c] : c \in S}) = Ids(S)
    BY <2>1, RelabelKeeps
  <2>3. QED
    BY <2>2 DEF S
<1>4. list'[k] \in SUBSET Contact
  OBVIOUS
<1>5. QED
  BY <1>1, <1>3, <1>4 DEF Kept

LEMMA UpdatedType ==
  ASSUME ContactsAssumption, NEW c \in Contact, NEW p \in Places, NEW s \in Speeds
  PROVE  Updated(c, p, s) \in Contact /\ Updated(c, p, s).id = c.id
BY DEF Updated, Contact

LEMMA StoppedType ==
  ASSUME NEW c \in Contact
  PROVE  Stopped(c) \in Contact /\ Stopped(c).id = c.id
<1>1. c.pos \in Places /\ 0 \in Speeds
  BY ContactsAssumption DEF Contact, ContactsAssumption
<1>2. QED
  BY <1>1, ContactsAssumption, UpdatedType DEF Stopped

LEMMA InitFrameKeeps == IInv /\ InitFrame => ManagerKept' /\ ServerType'
<1> SUFFICES ASSUME IInv, InitFrame PROVE ManagerKept' /\ ServerType'
  OBVIOUS
<1> DEFINE f == [c \in Contact |-> [c EXCEPT !.touched = FALSE]]
<1>1. \A c \in Contact : f[c] \in Contact /\ f[c].id = c.id
  BY DEF Contact
<1>2. list \in [Kinds -> SUBSET Contact] /\ ManagerKept
  BY DEF IInv, TypeOK
<1>3. \A k \in Kinds :
        {[c EXCEPT !.touched = FALSE] : c \in list[k]} = {f[c] : c \in list[k]}
  BY <1>2
<1>4. /\ DOMAIN list' = Kinds /\ list' = [k \in Kinds |-> list'[k]]
      /\ \A k \in Kinds : list'[k] = {f[c] : c \in list[k]}
  BY <1>3 DEF InitFrame
<1>5. pool' = pool
  BY DEF InitFrame
<1> HIDE DEF f
<1>6. ManagerKept' /\ list' \in [Kinds -> SUBSET Contact]
  <2>1. \A k \in Kinds : Kept(list'[k], pool'[k]) /\ list'[k] \in SUBSET Contact
    BY <1>1, <1>2, <1>4, <1>5, Relabelled
  <2>2. QED
    BY <1>4, <2>1 DEF ManagerKept
<1>7. QED
  BY <1>6 DEF IInv, TypeOK, ServerType, InitFrame, Phases

LEMMA DestroyKeeps == IInv /\ Destroy => ManagerKept' /\ ServerType'
<1> SUFFICES ASSUME IInv, Destroy PROVE ManagerKept' /\ ServerType'
  OBVIOUS
<1> DEFINE f == [c \in Contact |->
                   [Stopped([c EXCEPT !.touched = FALSE]) EXCEPT !.touched = FALSE]]
<1>1. \A c \in Contact : f[c] \in Contact /\ f[c].id = c.id
  <2> SUFFICES ASSUME NEW c \in Contact PROVE f[c] \in Contact /\ f[c].id = c.id
    OBVIOUS
  <2>1. [c EXCEPT !.touched = FALSE] \in Contact /\ [c EXCEPT !.touched = FALSE].id = c.id
    BY DEF Contact
  <2>2. PICK d : d = Stopped([c EXCEPT !.touched = FALSE])
    OBVIOUS
  <2>3. d \in Contact /\ d.id = c.id
    BY <2>1, <2>2, StoppedType
  <2>4. [d EXCEPT !.touched = FALSE] \in Contact /\ [d EXCEPT !.touched = FALSE].id = d.id
    BY <2>3 DEF Contact
  <2>5. QED
    BY <2>2, <2>3, <2>4
<1>2. list \in [Kinds -> SUBSET Contact] /\ ManagerKept
  BY DEF IInv, TypeOK
<1>3. \A k \in Kinds :
        {[Stopped([c EXCEPT !.touched = FALSE]) EXCEPT !.touched = FALSE] : c \in list[k]} =
        {f[c] : c \in list[k]}
  BY <1>2
<1>4. /\ DOMAIN list' = Kinds /\ list' = [k \in Kinds |-> list'[k]]
      /\ \A k \in Kinds : list'[k] = {f[c] : c \in list[k]}
  BY <1>3 DEF Destroy
<1>5. pool' = pool
  BY DEF Destroy
<1> HIDE DEF f
<1>6. ManagerKept' /\ list' \in [Kinds -> SUBSET Contact]
  <2>1. \A k \in Kinds : Kept(list'[k], pool'[k]) /\ list'[k] \in SUBSET Contact
    BY <1>1, <1>2, <1>4, <1>5, Relabelled
  <2>2. QED
    BY <1>4, <2>1 DEF ManagerKept
<1>7. currentFrame' \in Nat \cup {-1}
  BY DEF IInv, TypeOK, Destroy
<1>8. QED
  BY <1>6, <1>7 DEF IInv, TypeOK, ServerType, Destroy, Phases

LEMMA StopKeeps ==
  ASSUME IInv, NEW k \in Kinds, StopUntouchedMoving(k)
  PROVE  ManagerKept' /\ ServerType'
<1> DEFINE f == [c \in Contact |-> Stopped(c)]
<1>1. \A c \in Contact : f[c] \in Contact /\ f[c].id = c.id
  BY StoppedType
<1>2. list \in [Kinds -> SUBSET Contact] /\ ManagerKept
  BY DEF IInv, TypeOK
<1>3. {Stopped(c) : c \in list[k]} = {f[c] : c \in list[k]}
  BY <1>2
<1>4. /\ list' = [list EXCEPT ![k] = {f[c] : c \in list[k]}]
      /\ list'[k] = {f[c] : c \in list[k]}
  BY <1>2, <1>3 DEF StopUntouchedMoving
<1>5. pool' = pool
  BY DEF StopUntouchedMoving
<1> HIDE DEF f
<1>6. Kept(list'[k], pool'[k]) /\ list'[k] \in SUBSET Contact
  BY <1>1, <1>2, <1>4, <1>5, Relabelled
<1>9. ManagerKept' /\ list' \in [Kinds -> SUBSET Contact]
  BY <1>2, <1>4, <1>5, <1>6 DEF ManagerKept
<1>7. updated' \in [Kinds -> BOOLEAN]
  BY DEF IInv, TypeOK, StopUntouchedMoving
<1>8. QED
  BY <1>9, <1>7 DEF IInv, TypeOK, ServerType, StopUntouchedMoving

LEMMA UpdateKeeps ==
  ASSUME IInv, NEW k \in Kinds, UpdateContact(k)
  PROVE  ManagerKept' /\ ServerType'
<1>1. PICK c \in list[k], p \in Places, s \in Speeds :
        list' = [list EXCEPT ![k] = (@ \ {c}) \cup {Updated(c, p, s)}]
  BY DEF UpdateContact
<1>2. list \in [Kinds -> SUBSET Contact] /\ ManagerKept /\ c \in Contact
  BY DEF IInv, TypeOK
<1>3. Updated(c, p, s) \in Contact /\ Updated(c, p, s).id = c.id
  BY <1>2, UpdatedType, ContactsAssumption
<1>4. list' \in [Kinds -> SUBSET Contact]
      /\ list'[k] = (list[k] \ {c}) \cup {Updated(c, p, s)}
  BY <1>1, <1>2, <1>3
<1>5. Kept(list'[k], pool[k])
  <2>1. Kept(list[k], pool[k])
    BY <1>2 DEF ManagerKept
  <2>2. Distinct(list[k] \ {c}) /\ Ids(list[k] \ {c}) = Ids(list[k]) \ {c.id}
        /\ c.id \in Ids(list[k])
    BY <2>1, RemoveKeeps DEF Kept
  <2>3. Distinct(list'[k]) /\ Ids(list'[k]) = (Ids(list[k]) \ {c.id}) \cup {c.id}
    <3> DEFINE S == list[k] \ {c}
               u == Updated(c, p, s)
    <3>1. Distinct(S) /\ u.id \notin Ids(S) /\ u.id = c.id
      BY <1>3, <2>2
    <3>2. Ids(S) = Ids(list[k]) \ {c.id}
      BY <2>2
    <3> HIDE DEF S, u
    <3>3. Distinct(S \cup {u}) /\ Ids(S \cup {u}) = Ids(S) \cup {u.id}
      BY <3>1, AddKeeps
    <3>4. QED
      BY <1>4, <3>1, <3>2, <3>3 DEF S, u
  <2>4. Ids(list'[k]) = Ids(list[k])
    BY <2>2, <2>3
  <2>5. QED
    BY <2>1, <2>3, <2>4 DEF Kept
<1>6. ManagerKept'
  BY <1>1, <1>2, <1>5 DEF ManagerKept, UpdateContact
<1>7. updated' \in [Kinds -> BOOLEAN]
  BY DEF IInv, TypeOK, UpdateContact
<1>8. QED
  BY <1>4, <1>6, <1>7 DEF IInv, TypeOK, ServerType, UpdateContact

LEMMA AddContactKeeps ==
  ASSUME IInv, NEW k \in Kinds, AddContact(k)
  PROVE  ManagerKept' /\ ServerType'
<1>1. PICK took \in ManagerTake(Cardinality(list[k]), pool[k]), p \in Places :
        /\ list' = [list EXCEPT ![k] = @ \cup
             {[sid |-> sessionID + 1, id |-> took.id, pos |-> p, speed |-> 0, moving |-> FALSE,
               touched |-> TRUE]}]
        /\ pool' = [pool EXCEPT ![k] = took.pool]
  BY DEF AddContact
<1> DEFINE new == [sid |-> sessionID + 1, id |-> took.id, pos |-> p, speed |-> 0, moving |-> FALSE,
                   touched |-> TRUE]
<1>2. /\ list \in [Kinds -> SUBSET Contact] /\ pool \in [Kinds -> Pool] /\ ManagerKept
      /\ sessionID + 1 \in Nat
  BY DEF IInv, TypeOK
<1>3. new.id = took.id
  OBVIOUS
<1>4. took.id \in Nat /\ took.pool \in Pool /\ Kept(list[k] \cup {new}, took.pool)
  <2>1. Kept(list[k], pool[k]) /\ pool[k] \in Pool
    BY <1>2 DEF ManagerKept
  <2> HIDE DEF new
  <2>2. QED
    BY <1>1, <1>3, <2>1, TakenByManager
<1>5. new \in Contact
  BY <1>2, <1>4, ContactsAssumption DEF Contact, ContactsAssumption
<1>6. /\ list' = [list EXCEPT ![k] = list[k] \cup {new}]
      /\ pool' = [pool EXCEPT ![k] = took.pool]
  BY <1>1
<1> HIDE DEF new
<1>7. ManagerKept'
  BY <1>2, <1>4, <1>6 DEF ManagerKept
<1>8. list' \in [Kinds -> SUBSET Contact] /\ pool' \in [Kinds -> Pool]
  BY <1>2, <1>4, <1>5, <1>6
<1>9. sessionID' \in Nat \cup {-1} /\ updated' \in [Kinds -> BOOLEAN]
  BY <1>2 DEF IInv, TypeOK, AddContact
<1>10. QED
  BY <1>7, <1>8, <1>9 DEF IInv, TypeOK, ServerType, AddContact

LEMMA RemovalKeeps ==
  ASSUME IInv, NEW k \in Kinds, NEW c \in list[k], Removal(k, c),
         UNCHANGED <<phase, sweeping, currentFrame, sessionID, full, periodic, wire>>
  PROVE  ManagerKept' /\ ServerType'
<1> DEFINE left == list[k] \ {c}
           given == Give(c.id, Ids(left), pool[k])
<1>1. /\ list \in [Kinds -> SUBSET Contact] /\ pool \in [Kinds -> Pool] /\ ManagerKept
      /\ updated \in [Kinds -> BOOLEAN]
  BY DEF IInv, TypeOK
<1>2. /\ list' = [list EXCEPT ![k] = left]
      /\ pool' = [pool EXCEPT ![k] = given]
      /\ updated' = [updated EXCEPT ![k] = TRUE]
  BY <1>1 DEF Removal
<1>3. given \in Pool /\ Kept(left, given)
  <2>1. Kept(list[k], pool[k]) /\ pool[k] \in Pool
    BY <1>1 DEF ManagerKept
  <2>2. QED
    BY <2>1, GivenBack
<1>4. left \in SUBSET Contact
  BY <1>1
<1> HIDE DEF left, given
<1>5. ManagerKept'
  BY <1>1, <1>2, <1>3 DEF ManagerKept
<1>6. /\ list' \in [Kinds -> SUBSET Contact] /\ pool' \in [Kinds -> Pool]
      /\ updated' \in [Kinds -> BOOLEAN]
  BY <1>1, <1>2, <1>3, <1>4
<1>7. QED
  BY <1>5, <1>6 DEF IInv, TypeOK, ServerType

LEMMA CommitKeeps == IInv /\ CommitFrame => ManagerKept' /\ ServerType'
<1> SUFFICES ASSUME IInv, CommitFrame PROVE ManagerKept' /\ ServerType'
  OBVIOUS
<1>1. PICK elapsed \in [Kinds -> BOOLEAN] :
        wire' = wire \o InOrder([k \in Kinds |-> Sent(k, elapsed[k])])
  BY DEF CommitFrame
<1>2. \A k \in Kinds : Sent(k, elapsed[k]) \in Seq(Bundle)
  BY SentType DEF IInv, ManagerKept
<1>3. InOrder([k \in Kinds |-> Sent(k, elapsed[k])]) \in Seq(Bundle)
  BY <1>2, InOrderType
<1>4. wire' \in Seq(Bundle)
  BY <1>1, <1>3 DEF IInv, TypeOK
<1>5. ManagerKept'
  BY DEF IInv, ManagerKept, CommitFrame
<1>6. QED
  BY <1>4, <1>5 DEF IInv, TypeOK, ServerType, CommitFrame, Phases

LEMMA ServerKeeps == IInv /\ Server => ManagerKept' /\ ServerType'
<1> SUFFICES ASSUME IInv, Server PROVE ManagerKept' /\ ServerType'
  OBVIOUS
<1>1. CASE InitFrame
  BY <1>1, InitFrameKeeps
<1>2. ASSUME NEW k \in Kinds, AddContact(k) PROVE ManagerKept' /\ ServerType'
  BY <1>2, AddContactKeeps
<1>3. ASSUME NEW k \in Kinds, UpdateContact(k) PROVE ManagerKept' /\ ServerType'
  BY <1>3, UpdateKeeps
<1>4. ASSUME NEW k \in Kinds, RemoveContact(k) PROVE ManagerKept' /\ ServerType'
  BY <1>4, RemovalKeeps DEF RemoveContact
<1>5. ASSUME NEW k \in Kinds, StopUntouchedMoving(k) PROVE ManagerKept' /\ ServerType'
  BY <1>5, StopKeeps
<1>6. ASSUME NEW k \in Kinds, BeginSweep(k) PROVE ManagerKept' /\ ServerType'
  BY <1>6 DEF BeginSweep, IInv, TypeOK, ServerType, ManagerKept, Phases
<1>7. ASSUME NEW k \in Kinds, Sweep(k) PROVE ManagerKept' /\ ServerType'
  BY <1>7, RemovalKeeps DEF Sweep, Swept
<1>8. CASE EndSweep
  BY <1>8 DEF EndSweep, IInv, TypeOK, ServerType, ManagerKept, Phases
<1>9. CASE CommitFrame
  BY <1>9, CommitKeeps
<1>10. CASE Destroy
  BY <1>10, DestroyKeeps
<1>11. CASE EndDestroy
  <2>1. wire' \in Seq(Bundle)
    BY <1>11, EmptyBundlesType DEF EndDestroy, IInv, TypeOK
  <2>2. QED
    BY <1>11, <2>1 DEF EndDestroy, IInv, TypeOK, ServerType, ManagerKept, Phases
<1>12. QED
  BY <1>1, <1>2, <1>3, <1>4, <1>5, <1>6, <1>7, <1>8, <1>9, <1>10, <1>11 DEF Server

(***************************************************************************)
(* The receiver                                                            *)
(***************************************************************************)
LEMMA ReceiveKeeps == IInv /\ Receive => ReceiverKept' /\ ClientType' /\ wire' \in Seq(Bundle)
<1> SUFFICES ASSUME IInv, Receive
             PROVE  ReceiverKept' /\ ClientType' /\ wire' \in Seq(Bundle)
  OBVIOUS
<1> DEFINE b == Head(wire)
<1>1. b \in Bundle /\ wire' \in Seq(Bundle)
  BY DEF Receive, IInv, TypeOK
<1>2. ReceiverKept'
  BY DEF Receive, IInv, ReceiverKept
<1>3. frame' \in Nat \cup {-1}
  BY <1>1 DEF Receive, IInv, TypeOK, Bundle
<1>4. work' \in Work
  <2>1. CASE Late(b)
    BY <2>1 DEF Receive, IInv, TypeOK
  <2>2. CASE ~ Late(b)
    <3>1. work' = [kind |-> b.kind, set |-> News(b), gone |-> Sids(seen[b.kind]) \ b.alive]
      BY <2>2 DEF Receive
    <3>2. b.kind \in Kinds /\ News(b) \in SUBSET Message
      BY <1>1 DEF Bundle, News
    <3>3. Sids(seen[b.kind]) \in SUBSET Nat
      BY <3>2 DEF Sids, SeenContact, IInv, TypeOK
    <3> HIDE DEF b
    <3>4. QED
      BY <3>1, <3>2, <3>3 DEF Work
  <2>3. QED
    BY <2>1, <2>2
<1>5. QED
  BY <1>1, <1>2, <1>3, <1>4 DEF Receive, IInv, TypeOK, ClientType

LEMMA ProcessSetKeeps == IInv /\ ProcessSet => ReceiverKept' /\ ClientType'
<1> SUFFICES ASSUME IInv, ProcessSet PROVE ReceiverKept' /\ ClientType'
  OBVIOUS
<1> DEFINE k == work.kind
           moved(m, s) == {IF c.sid = m.sid THEN [c EXCEPT !.pos = m.pos, !.speed = s] ELSE c :
                             c \in seen[k]}
           new(m, id) == [sid |-> m.sid, id |-> id, pos |-> m.pos, speed |-> 0]
<1>1. PICK m \in work.set :
        /\ work' = [work EXCEPT !.set = @ \ {m}]
        /\ \/ /\ \E s \in SpeedsAfter(k, m) : seen' = [seen EXCEPT ![k] = moved(m, s)]
              /\ UNCHANGED seenPool
           \/ \E took \in ClientTake(Cardinality(seen[k]), seenPool[k]) :
                /\ seen' = [seen EXCEPT ![k] = @ \cup {new(m, took.id)}]
                /\ seenPool' = [seenPool EXCEPT ![k] = took.pool]
  BY DEF ProcessSet
<1>2. /\ seen \in [Kinds -> SUBSET SeenContact] /\ seenPool \in [Kinds -> Pool]
      /\ work \in Work /\ ReceiverKept
  BY DEF IInv, TypeOK
<1>3. k \in Kinds /\ m \in Message
  BY <1>2 DEF Work
<1>4. Kept(seen[k], seenPool[k]) /\ seenPool[k] \in Pool /\ seen[k] \in SUBSET SeenContact
  BY <1>2, <1>3 DEF ReceiverKept
<1>5. work' \in Work /\ frame' \in Nat \cup {-1}
  BY <1>1, <1>2 DEF Work, ProcessSet, IInv, TypeOK
<1>6. ASSUME NEW s \in SpeedsAfter(k, m),
             seen' = [seen EXCEPT ![k] = moved(m, s)], UNCHANGED seenPool
      PROVE  ReceiverKept' /\ ClientType'
  <2> DEFINE f == [c \in SeenContact |->
                     IF c.sid = m.sid THEN [c EXCEPT !.pos = m.pos, !.speed = s] ELSE c]
             S == seen[k]
  <2>0. s \in Speeds /\ m.pos \in Places
    BY <1>3 DEF SpeedsAfter, Message
  <2>1. \A c \in SeenContact : f[c] \in SeenContact /\ f[c].id = c.id
    BY <2>0 DEF SeenContact
  <2>2. moved(m, s) = {f[c] : c \in S}
    BY <1>4
  <2>3. Distinct(S) /\ S \in SUBSET SeenContact /\ Whole(Ids(S), seenPool[k])
    BY <1>4 DEF Kept
  <2> HIDE DEF f, S
  <2>4. Distinct({f[c] : c \in S}) /\ Ids({f[c] : c \in S}) = Ids(S)
    BY <2>1, <2>3, RelabelKeeps
  <2>5. Kept(moved(m, s), seenPool[k]) /\ moved(m, s) \in SUBSET SeenContact
    BY <2>1, <2>2, <2>3, <2>4 DEF Kept
  <2> HIDE DEF moved, k
  <2>6. ReceiverKept'
    BY <1>2, <1>6, <2>5 DEF ReceiverKept
  <2>7. seen' \in [Kinds -> SUBSET SeenContact] /\ seenPool' \in [Kinds -> Pool]
    BY <1>2, <1>6, <2>5
  <2>8. QED
    BY <1>5, <2>6, <2>7 DEF ClientType
<1>7. ASSUME NEW took \in ClientTake(Cardinality(seen[k]), seenPool[k]),
             seen' = [seen EXCEPT ![k] = @ \cup {new(m, took.id)}],
             seenPool' = [seenPool EXCEPT ![k] = took.pool]
      PROVE  ReceiverKept' /\ ClientType'
  <2> DEFINE c == new(m, took.id)
  <2>1. c.id = took.id
    OBVIOUS
  <2>2. seen' = [seen EXCEPT ![k] = seen[k] \cup {c}]
    BY <1>7
  <2>3. took.id \in Nat /\ took.pool \in Pool /\ Kept(seen[k] \cup {c}, took.pool)
    <3> HIDE DEF c
    <3>1. QED
      BY <1>4, <2>1, TakenByClient
  <2>4. c \in SeenContact
    BY <1>3, <2>3, ContactsAssumption DEF SeenContact, Message, ContactsAssumption
  <2> HIDE DEF c, k
  <2>5. ReceiverKept'
    BY <1>2, <1>3, <1>7, <2>2, <2>3 DEF ReceiverKept
  <2>6. seen' \in [Kinds -> SUBSET SeenContact] /\ seenPool' \in [Kinds -> Pool]
    BY <1>2, <1>3, <1>7, <2>2, <2>3, <2>4
  <2>7. QED
    BY <1>5, <2>5, <2>6 DEF ClientType
<1>8. QED
  BY <1>1, <1>6, <1>7

LEMMA ProcessGoneKeeps == IInv /\ ProcessGone => ReceiverKept' /\ ClientType'
<1> SUFFICES ASSUME IInv, ProcessGone PROVE ReceiverKept' /\ ClientType'
  OBVIOUS
<1> DEFINE k == work.kind
<1>1. PICK c \in seen[k] :
        /\ work' = [work EXCEPT !.gone = @ \ {c.sid}]
        /\ seen' = [seen EXCEPT ![k] = seen[k] \ {c}]
        /\ seenPool' = [seenPool EXCEPT ![k] = Give(c.id, Ids(seen[k] \ {c}), @)]
  BY DEF ProcessGone
<1>2. /\ seen \in [Kinds -> SUBSET SeenContact] /\ seenPool \in [Kinds -> Pool]
      /\ work \in Work /\ ReceiverKept
  BY DEF IInv, TypeOK
<1>3. k \in Kinds
  BY <1>2 DEF Work
<1> DEFINE given == Give(c.id, Ids(seen[k] \ {c}), seenPool[k])
           left == seen[k] \ {c}
<1>4. given \in Pool /\ Kept(left, given)
  <2>1. Kept(seen[k], seenPool[k]) /\ seenPool[k] \in Pool
    BY <1>2, <1>3 DEF ReceiverKept
  <2>2. QED
    BY <2>1, GivenBack
<1>5. /\ seen' = [seen EXCEPT ![k] = left] /\ left \in SUBSET SeenContact
      /\ seenPool' = [seenPool EXCEPT ![k] = given]
  BY <1>1, <1>2, <1>3
<1>6. work' \in Work /\ frame' \in Nat \cup {-1}
  BY <1>1, <1>2 DEF Work, ProcessGone, IInv, TypeOK
<1> HIDE DEF given, left, k
<1>7. ReceiverKept'
  BY <1>2, <1>3, <1>4, <1>5 DEF ReceiverKept
<1>8. seen' \in [Kinds -> SUBSET SeenContact] /\ seenPool' \in [Kinds -> Pool]
  BY <1>2, <1>3, <1>4, <1>5
<1>9. QED
  BY <1>6, <1>7, <1>8 DEF ClientType

(***************************************************************************)
(* The theorems                                                            *)
(***************************************************************************)
LEMMA NextIInv == IInv /\ [Next]_vars => IInv'
<1> SUFFICES ASSUME IInv, [Next]_vars PROVE IInv'
  OBVIOUS
<1>1. CASE Server
  <2>1. ManagerKept' /\ ServerType'
    BY <1>1, ServerKeeps
  <2>2. UNCHANGED clientVars
    BY <1>1 DEF Server, InitFrame, AddContact, UpdateContact, RemoveContact,
       StopUntouchedMoving, BeginSweep, Sweep, EndSweep, CommitFrame, Destroy, EndDestroy
  <2>3. ReceiverKept' /\ ClientType'
    BY <2>2 DEF IInv, ReceiverKept, ClientType, TypeOK, clientVars
  <2>4. QED
    BY <2>1, <2>3, TypeParts DEF IInv, TypeOK, ServerType, ClientType
<1>2. CASE Lose
  <2>1. wire' \in Seq(Bundle)
    BY <1>2 DEF Lose, IInv, TypeOK
  <2>2. QED
    BY <1>2, <2>1
       DEF Lose, IInv, TypeOK, ManagerKept, ReceiverKept, serverVars, clientVars
<1>3. CASE Client
  <2>1. ReceiverKept' /\ ClientType' /\ wire' \in Seq(Bundle)
    <3>1. CASE Receive
      BY <3>1, ReceiveKeeps
    <3>2. CASE ProcessSet
      BY <3>2, ProcessSetKeeps DEF ProcessSet, IInv, TypeOK
    <3>3. CASE ProcessGone
      BY <3>3, ProcessGoneKeeps DEF ProcessGone, IInv, TypeOK
    <3>4. QED
      BY <1>3, <3>1, <3>2, <3>3 DEF Client
  <2>2. UNCHANGED serverVars
    BY <1>3 DEF Client, Receive, ProcessSet, ProcessGone
  <2>3. QED
    BY <2>1, <2>2 DEF IInv, TypeOK, ManagerKept, serverVars, ClientType
<1>4. CASE UNCHANGED vars
  BY <1>4 DEF vars, serverVars, clientVars, IInv, TypeOK, ManagerKept, ReceiverKept
<1>5. QED
  BY <1>1, <1>2, <1>3, <1>4 DEF Next

LEMMA Invariance == Spec => []IInv
<1>1. QED
  BY InitIInv, NextIInv, PTL DEF Spec

\* Everything stays of its type, the bundles on the wire included.
THEOREM TypeCorrect == Spec => []TypeOK
<1>1. IInv => TypeOK
  BY DEF IInv
<1>2. QED
  BY <1>1, Invariance, PTL

\* However many contacts come and go, the manager never gives two contacts of
\* a kind the same number, and no number is lost between those in use and those
\* left behind.
THEOREM ManagerNumbersAreWhole == Spec => []ManagerPoolIsWhole
<1>1. IInv => ManagerPoolIsWhole
  BY DEF IInv, ManagerKept, Kept, Distinct, ManagerPoolIsWhole
<1>2. QED
  BY <1>1, Invariance, PTL

\* So is it at the receiver, whatever the wire loses.
THEOREM ReceiverNumbersAreWhole == Spec => []ReceiverPoolIsWhole
<1>1. IInv => ReceiverPoolIsWhole
  BY DEF IInv, ReceiverKept, Kept, Distinct, ReceiverPoolIsWhole
<1>2. QED
  BY <1>1, Invariance, PTL

\* addTuioCursor and addTuioBlob take the first entry of the free list without
\* asking whether there is one: there is, whenever they do.
THEOREM FreeContactIsThere ==
  Spec => [](\A k \in Kinds : Cardinality(list[k]) <= pool[k].max => pool[k].free # {})
<1>1. ASSUME IInv, NEW k \in Kinds, Cardinality(list[k]) <= pool[k].max
      PROVE  pool[k].free # {}
  <2>1. Kept(list[k], pool[k]) /\ pool[k] \in Pool
    BY <1>1 DEF IInv, TypeOK, ManagerKept
  <2>2. Cardinality(list[k]) = Cardinality(Ids(list[k]))
    BY <2>1, WholeCounts, AsManyContactsAsNumbers DEF Kept
  <2>3. QED
    BY <1>1, <2>1, <2>2, ManagerFindsFree DEF Kept
<1>2. IInv => \A k \in Kinds : Cardinality(list[k]) <= pool[k].max => pool[k].free # {}
  BY <1>1
<1>3. QED
  BY <1>2, Invariance, PTL

-----------------------------------------------------------------------------
(***************************************************************************)
(* The manager: session ids tell contacts apart, and what a frame touched  *)
(* will be sent when the frame is committed.                               *)
(***************************************************************************)
OneEach(S) == \A m, n \in S : m.sid = n.sid => m = n

Framing == phase \in {"frame", "sweep", "reset"}

ManagerInv ==
  /\ \A k \in Kinds : OneEach(list[k]) /\ \A c \in list[k] : c.sid <= sessionID
  /\ Framing => \A k \in Kinds : \A c \in list[k] : c.touched => updated[k]
  /\ phase = "idle" => \A k \in Kinds : ~updated[k]
  /\ phase \in {"idle", "frame", "gone"} => sweeping = {}

(***************************************************************************)
(* The wire, and the bundle that the receiver is working on.               *)
(***************************************************************************)
WellMade(b) == OneEach(b.set) /\ Sids(b.set) \subseteq b.alive

\* No bundle is late.
Punctual ==
  /\ frame <= currentFrame
  /\ \A i \in DOMAIN wire :
       wire[i].fseq <= currentFrame /\ (wire[i].fseq > 0 => frame <= wire[i].fseq)
  /\ \A i, j \in DOMAIN wire : i < j /\ wire[j].fseq > 0 => wire[i].fseq <= wire[j].fseq

WireInv == Punctual /\ \A i \in DOMAIN wire : WellMade(wire[i])

WorkInv ==
  /\ OneEach(work.set) /\ Sids(work.set) \cap work.gone = {}
  /\ \A k \in Kinds : OneEach(seen[k])

HistoryType == missed \in [Kinds -> SUBSET Nat] /\ deaf \in [Kinds -> BOOLEAN]

(***************************************************************************)
(* What has been said of one contact: s is its session id, v its place.    *)
(***************************************************************************)
Tells(b, k, s) == b.kind = k /\ s \in Sids(b.set)

LaterTells(i, k, s) == \E j \in DOMAIN wire : i < j /\ Tells(wire[j], k, s)

\* The last bundle that tells of the contact has it right.
LastWord(k, s, v) ==
  \A i \in DOMAIN wire : \A m \in wire[i].set :
    wire[i].kind = k /\ m.sid = s /\ m.pos # v => LaterTells(i, k, s)

\* A bundle that does not list the contact is followed by one that tells of it.
NotDropped(k, s) ==
  \A i \in DOMAIN wire : wire[i].kind = k /\ s \notin wire[i].alive => LaterTells(i, k, s)

\* The receiver has the contact right, once its work is done.
Shows(k, s, v) ==
  /\ work.kind = k => s \notin work.gone
  /\ \/ work.kind = k /\ \E m \in work.set : m.sid = s /\ m.pos = v
     \/ /\ work.kind = k => s \notin Sids(work.set)
        /\ \E c \in seen[k] : c.sid = s /\ c.pos = v

Known(k, s, v) ==
  (\A i \in DOMAIN wire : ~Tells(wire[i], k, s)) => s \in missed[k] \/ Shows(k, s, v)

Said(k, s, v) == LastWord(k, s, v) /\ NotDropped(k, s) /\ Known(k, s, v)

SaidInv ==
  \A k \in Kinds : \A c \in list[k] :
    phase = "idle" \/ (Framing /\ ~c.touched) => Said(k, c.sid, c.pos)

(***************************************************************************)
(* What has been listed: S are the session ids that there are.             *)
(***************************************************************************)
LastList(k, S) ==
  \A i \in DOMAIN wire : wire[i].kind = k /\ wire[i].alive # S =>
    \E j \in DOMAIN wire : i < j /\ wire[j].kind = k

\* What the receiver will list, once its work is done.
Remaining(k) ==
  IF work.kind = k THEN (Sids(seen[k]) \cup Sids(work.set)) \ work.gone ELSE Sids(seen[k])

ListKnown(k, S) ==
  (\A i \in DOMAIN wire : wire[i].kind # k) => deaf[k] \/ Remaining(k) \subseteq S

Listed(k, S) == LastList(k, S) /\ ListKnown(k, S)

ListedInv ==
  /\ phase = "idle" \/ Framing => \A k \in Kinds : ~updated[k] => Listed(k, Sids(list[k]))
  /\ phase = "gone" => \A k \in Kinds : Listed(k, {})

MirrorInv == ManagerInv /\ WireInv /\ WorkInv /\ HistoryType /\ SaidInv /\ ListedInv

-----------------------------------------------------------------------------
(***************************************************************************)
(* A frame in several bundles.  Contacts are counted off by their session  *)
(* ids, so that the bundles of a frame are numbered without a gap and each *)
(* message is in one that is sent.                                         *)
(***************************************************************************)
Before(c, S) == {d \in S : d.sid < c.sid}

\* A set of naturals has a least element.
LEMMA LeastExists ==
  ASSUME NEW N \in SUBSET Nat, N # {}
  PROVE  \E n \in N : \A m \in N : n <= m
<1>1. PICK n \in N : \A m \in N : ~ (<<m, n>> \in OpToRel(<, Nat))
  BY NatLessThanWellFounded, WFMin, Zenon
<1>2. \A m \in N : ~ (m < n)
  BY <1>1, Zenon DEF OpToRel
<1>3. QED
  BY <1>2

\* Of the contacts that precede c one is the last.
LEMMA LastBefore ==
  ASSUME NEW S, IsFiniteSet(S), OneEach(S), \A d \in S : d.sid \in Nat,
         NEW c \in S, Before(c, S) # {}
  PROVE  \E d \in Before(c, S) :
           Cardinality(Before(c, S)) = Cardinality(Before(d, S)) + 1
<1> DEFINE B == Before(c, S)
           N == {d.sid : d \in B}
<1>1. N \subseteq 0 .. c.sid /\ N # {}
  BY DEF Before
<1>2. PICK d \in B : d.sid = Max(N)
  <2>1. Max(N) \in N
    BY <1>1, GreatestExists
  <2>2. QED
    BY <2>1
<1>3. \A e \in B : e.sid <= d.sid
  <2>1. \A n \in N : n <= Max(N)
    BY <1>1, GreatestExists
  <2>2. QED
    BY <1>2, <2>1
<1>4. B = Before(d, S) \cup {d} /\ d \notin Before(d, S)
  <2>1. ASSUME NEW e \in B PROVE e \in Before(d, S) \cup {d}
    <3>1. e \in S /\ d \in S /\ e.sid <= d.sid
      BY <1>3, <2>1 DEF Before
    <3>2. QED
      BY <3>1 DEF Before, OneEach
  <2>2. ASSUME NEW e \in Before(d, S) PROVE e \in B
    BY <2>2 DEF Before
  <2>3. d \notin Before(d, S)
    BY DEF Before
  <2>4. QED
    BY <2>1, <2>2, <2>3
<1>5. IsFiniteSet(Before(d, S))
  BY FS_Subset DEF Before
<1>6. Cardinality(B) = Cardinality(Before(d, S)) + 1
  BY <1>4, <1>5, FS_AddElement
<1>7. QED
  BY <1>6

\* Every smaller number is that of a contact, too.
LEMMA NoGap ==
  ASSUME NEW S, IsFiniteSet(S), OneEach(S), \A c \in S : c.sid \in Nat,
         NEW d \in S, NEW v \in 0 .. Cardinality(Before(d, S))
  PROVE  \E e \in S : Cardinality(Before(e, S)) = v
<1>f. \A c \in S : IsFiniteSet(Before(c, S)) /\ Cardinality(Before(c, S)) \in Nat
  BY FS_Subset, FS_CardinalityType DEF Before
<1> SUFFICES ASSUME \A e \in S : Cardinality(Before(e, S)) # v PROVE FALSE
  OBVIOUS
<1> DEFINE W == {e \in S : Cardinality(Before(e, S)) > v}
           N == {e.sid : e \in W}
<1>1. d \in W
  BY <1>f
<1>2. PICK e \in W : \A c \in W : e.sid <= c.sid
  <2>1. N \in SUBSET Nat /\ N # {}
    BY <1>1
  <2>2. PICK n \in N : \A m \in N : n <= m
    BY <2>1, LeastExists
  <2>3. QED
    BY <2>2
<1>3. Before(e, S) # {}
  BY <1>f, <1>2, FS_EmptySet
<1>4. PICK c \in Before(e, S) : Cardinality(Before(e, S)) = Cardinality(Before(c, S)) + 1
  BY <1>2, <1>3, LastBefore
<1>5. c \in S /\ c.sid < e.sid
  BY <1>4 DEF Before
<1>6. c \in W
  BY <1>f, <1>2, <1>4, <1>5
<1>7. QED
  BY <1>2, <1>5, <1>6

LEMMA Quotient ==
  ASSUME NEW r \in Nat \ {0}, NEW a \in Nat
  PROVE  /\ a \div r \in Nat
         /\ \A p \in 0 .. a \div r : p * r \in 0 .. a /\ (p * r) \div r = p
<1>1. a \div r \in Nat /\ (a \div r) * r <= a
  OBVIOUS
<1>2. ASSUME NEW p \in 0 .. a \div r PROVE p * r \in 0 .. a /\ (p * r) \div r = p
  OBVIOUS
<1>3. QED
  BY <1>1, <1>2

LEMMA BundlesFacts ==
  ASSUME TypeOK, NEW k \in Kinds, IsFiniteSet(list[k]), OneEach(list[k]),
         NEW S \in SUBSET list[k], NEW i \in DOMAIN BundlesOf(k, S)
  PROVE  LET b == BundlesOf(k, S)[i]
         IN /\ b.kind = k /\ b.fseq = currentFrame /\ b.alive = Sids(list[k])
            /\ \A m \in b.set : \E c \in S : m = MessageOf(c)
            /\ WellMade(b)
<1> DEFINE chosen == {d \in S : PartOf(d, S) = i}
           b == [kind |-> k, fseq |-> currentFrame, alive |-> Sids(list[k]),
                 set |-> {MessageOf(c) : c \in chosen}]
<1>1. BundlesOf(k, S)[i] = b
  BY DEF BundlesOf
<1>2. chosen \subseteq list[k]
  OBVIOUS
<1>3. \A m \in b.set : \E c \in chosen : m = MessageOf(c)
  OBVIOUS
<1>4. OneEach(b.set)
  BY <1>2, <1>3 DEF OneEach, MessageOf
<1>5. Sids(b.set) \subseteq b.alive
  BY <1>2, <1>3 DEF Sids, MessageOf
<1>6. b.kind = k /\ b.fseq = currentFrame /\ b.alive = Sids(list[k])
  OBVIOUS
<1>7. \A m \in b.set : \E c \in S : m = MessageOf(c)
  BY <1>3
<1> HIDE DEF b
<1>8. QED
  BY <1>1, <1>4, <1>5, <1>6, <1>7 DEF WellMade

\* At least one bundle is sent, and what is selected is in one of those sent.
LEMMA SelectedIsSent ==
  ASSUME TypeOK, NEW k \in Kinds, IsFiniteSet(list[k]), OneEach(list[k]),
         NEW S \in SUBSET list[k]
  PROVE  /\ 1 \in DOMAIN BundlesOf(k, S)
         /\ \A c \in S : \E i \in DOMAIN BundlesOf(k, S) : MessageOf(c) \in BundlesOf(k, S)[i].set
<1> DEFINE image == {PartOf(c, S) : c \in list[k]}
           parts == {1} \cup image
           n == Cardinality(parts)
<1>r. Room \in Nat \ {0}
  BY ContactsAssumption DEF ContactsAssumption
<1>1. IsFiniteSet(parts) /\ n \in Nat
  <2> DEFINE f == [c \in list[k] |-> PartOf(c, S)]
  <2>1. f \in Surjection(list[k], image)
    BY DEF Surjection
  <2>2. IsFiniteSet(image)
    BY <2>1, FS_Surjection
  <2>3. QED
    BY <2>2, FS_Singleton, FS_Union, FS_CardinalityType
<1>2. DOMAIN BundlesOf(k, S) = 1 .. n
  BY DEF BundlesOf
<1>3. IsFiniteSet(S) /\ OneEach(S) /\ \A c \in S : c.sid \in Nat
  <2>1. \A c \in list[k] : c.sid \in Nat
    BY DEF TypeOK, Contact
  <2>2. QED
    BY <2>1, FS_Subset DEF OneEach
<1>4. \A c \in S : PartOf(c, S) = 1 + Cardinality(Before(c, S)) \div Room
  BY DEF PartOf, Before
<1>f. \A c \in S : Cardinality(Before(c, S)) \in Nat
  BY <1>3, FS_Subset, FS_CardinalityType DEF Before
<1>5. ASSUME NEW c \in S PROVE PartOf(c, S) \in Nat \ {0} /\ 1 .. PartOf(c, S) \subseteq parts
  <2> DEFINE a == Cardinality(Before(c, S))
             q == a \div Room
  <2>1. /\ a \in Nat /\ q \in Nat /\ PartOf(c, S) = 1 + q
        /\ \A p \in 0 .. q : p * Room \in 0 .. a /\ (p * Room) \div Room = p
    BY <1>4, <1>f, <1>r, Quotient
  <2>2. ASSUME NEW j \in 1 .. PartOf(c, S) PROVE j \in parts
    <3>1. j - 1 \in 0 .. q /\ j = 1 + (j - 1)
      BY <2>1
    <3> DEFINE v == (j - 1) * Room
    <3>2. v \in 0 .. a /\ v \div Room = j - 1
      BY <2>1, <3>1
    <3> HIDE DEF v
    <3>3. PICK e \in S : Cardinality(Before(e, S)) = v
      BY <1>3, <3>2, NoGap
    <3>4. PartOf(e, S) = j
      BY <1>4, <3>1, <3>2, <3>3
    <3>5. QED
      BY <3>4
  <2>3. QED
    BY <2>1, <2>2
<1>6. ASSUME NEW j \in Nat \ {0}, 1 .. j \subseteq parts PROVE j \in 1 .. n
  <2>1. Cardinality(1 .. j) <= n
    BY <1>1, <1>6, FS_Subset
  <2>2. Cardinality(1 .. j) = j
    BY FS_Interval
  <2>3. QED
    BY <1>1, <2>1, <2>2
<1>7. 1 \in 1 .. n
  <2>1. 1 .. 1 \subseteq parts
    OBVIOUS
  <2> HIDE DEF parts
  <2>2. QED
    BY <1>6, <2>1
<1> HIDE DEF parts, n
<1>8. ASSUME NEW c \in S
      PROVE  \E i \in DOMAIN BundlesOf(k, S) : MessageOf(c) \in BundlesOf(k, S)[i].set
  <2>1. PartOf(c, S) \in 1 .. n
    BY <1>5, <1>6
  <2>2. MessageOf(c) \in {MessageOf(d) : d \in {e \in S : PartOf(e, S) = PartOf(c, S)}}
    OBVIOUS
  <2>3. BundlesOf(k, S)[PartOf(c, S)].set =
          {MessageOf(d) : d \in {e \in S : PartOf(e, S) = PartOf(c, S)}}
    BY <1>2, <2>1 DEF BundlesOf
  <2>4. QED
    BY <1>2, <2>1, <2>2, <2>3
<1>9. QED
  BY <1>2, <1>7, <1>8

\* What commitFrame sends of a kind.
LEMMA SentFacts ==
  ASSUME TypeOK, NEW k \in Kinds, IsFiniteSet(list[k]), OneEach(list[k]),
         NEW elapsed \in BOOLEAN
  PROVE  LET sent == Sent(k, elapsed)
         IN /\ \A i \in DOMAIN sent :
                 /\ sent[i].kind = k /\ sent[i].fseq = currentFrame
                 /\ sent[i].alive = Sids(list[k]) /\ WellMade(sent[i])
                 /\ \A m \in sent[i].set : \E c \in list[k] : m = MessageOf(c)
            /\ updated[k] =>
                 /\ DOMAIN sent # {}
                 /\ \A c \in list[k] : c.touched =>
                      \E i \in DOMAIN sent : MessageOf(c) \in sent[i].set
<1>1. CASE updated[k]
  <2> DEFINE S == {c \in list[k] : full \/ c.touched}
  <2>1. Sent(k, elapsed) = BundlesOf(k, S) /\ S \in SUBSET list[k]
    BY <1>1 DEF Sent
  <2>2. \A c \in list[k] : c.touched => c \in S
    OBVIOUS
  <2> HIDE DEF S
  <2>3. QED
    BY <2>1, <2>2, BundlesFacts, SelectedIsSent
<1>2. CASE ~updated[k]
  <2> DEFINE S == IF full THEN list[k] ELSE {}
  <2>1. Sent(k, elapsed) = BundlesOf(k, S) \/ Sent(k, elapsed) = <<>>
    BY <1>2 DEF Sent
  <2>2. S \in SUBSET list[k]
    OBVIOUS
  <2> HIDE DEF S
  <2>3. QED
    BY <1>2, <2>1, <2>2, BundlesFacts
<1>3. QED
  BY <1>1, <1>2

-----------------------------------------------------------------------------
(***************************************************************************)
(* Bundles that are sent                                                   *)
(***************************************************************************)
\* The elements of two sequences put together, and their order.
LEMMA Joined ==
  ASSUME NEW R, NEW p \in Seq(R), NEW q \in Seq(R)
  PROVE  /\ p \o q \in Seq(R) /\ DOMAIN (p \o q) \subseteq Nat /\ Len(p) \in Nat
         /\ \A i \in DOMAIN p : /\ i \in DOMAIN (p \o q) /\ (p \o q)[i] = p[i]
                                /\ i \in Nat /\ i <= Len(p)
         /\ \A i \in DOMAIN q : /\ i + Len(p) \in DOMAIN (p \o q) /\ i \in Nat /\ i > 0
                                /\ (p \o q)[i + Len(p)] = q[i]
         /\ \A i \in DOMAIN (p \o q) :
              i \in DOMAIN p \/ \E j \in DOMAIN q : i = j + Len(p)
<1>1. /\ p \o q \in Seq(R) /\ Len(p) \in Nat /\ Len(q) \in Nat
      /\ DOMAIN p = 1 .. Len(p) /\ DOMAIN q = 1 .. Len(q)
      /\ DOMAIN (p \o q) = 1 .. (Len(p) + Len(q))
      /\ \A i \in 1 .. (Len(p) + Len(q)) :
           (p \o q)[i] = IF i <= Len(p) THEN p[i] ELSE q[i - Len(p)]
  OBVIOUS
<1>2. ASSUME NEW i \in DOMAIN q
      PROVE  /\ i + Len(p) \in DOMAIN (p \o q) /\ i \in Nat /\ i > 0
             /\ (p \o q)[i + Len(p)] = q[i]
  <2>1. /\ i + Len(p) \in 1 .. (Len(p) + Len(q)) /\ ~(i + Len(p) <= Len(p))
        /\ (i + Len(p)) - Len(p) = i
    BY <1>1
  <2>2. QED
    BY <1>1, <2>1
<1>3. ASSUME NEW i \in DOMAIN (p \o q), i \notin DOMAIN p
      PROVE  \E j \in DOMAIN q : i = j + Len(p)
  <2>1. i - Len(p) \in DOMAIN q /\ i = (i - Len(p)) + Len(p)
    BY <1>1, <1>3
  <2>2. QED
    BY <2>1
<1>4. QED
  BY <1>1, <1>2, <1>3

LEMMA InOrderElements ==
  ASSUME NEW f \in [Kinds -> Seq(Bundle)]
  PROVE  /\ InOrder(f) \in Seq(Bundle)
         /\ \A i \in DOMAIN InOrder(f) : \E k \in Kinds : \E j \in DOMAIN f[k] :
              InOrder(f)[i] = f[k][j]
         /\ \A k \in Kinds : \A j \in DOMAIN f[k] : \E i \in DOMAIN InOrder(f) :
              InOrder(f)[i] = f[k][j]
<1> DEFINE p == IF "cursor" \in Kinds THEN f["cursor"] ELSE <<>>
           q == IF "blob" \in Kinds THEN f["blob"] ELSE <<>>
<1>1. p \in Seq(Bundle) /\ q \in Seq(Bundle) /\ InOrder(f) = p \o q
  BY DEF InOrder
<1>2. \A i \in DOMAIN p : "cursor" \in Kinds /\ p = f["cursor"]
  OBVIOUS
<1>3. \A i \in DOMAIN q : "blob" \in Kinds /\ q = f["blob"]
  OBVIOUS
<1>4. \A k \in Kinds : f[k] = p \/ f[k] = q
  BY ContactsAssumption DEF ContactsAssumption
<1> HIDE DEF p, q
<1>5. /\ p \o q \in Seq(Bundle)
      /\ \A i \in DOMAIN p : i \in DOMAIN (p \o q) /\ (p \o q)[i] = p[i]
      /\ \A i \in DOMAIN q : i + Len(p) \in DOMAIN (p \o q) /\ (p \o q)[i + Len(p)] = q[i]
      /\ \A i \in DOMAIN (p \o q) : i \in DOMAIN p \/ \E j \in DOMAIN q : i = j + Len(p)
  BY <1>1, Joined
<1>6. ASSUME NEW i \in DOMAIN (p \o q)
      PROVE  \E k \in Kinds : \E j \in DOMAIN f[k] : (p \o q)[i] = f[k][j]
  <2>1. CASE i \in DOMAIN p
    BY <1>2, <1>5, <2>1
  <2>2. ASSUME NEW j \in DOMAIN q, i = j + Len(p)
        PROVE  \E k \in Kinds : \E l \in DOMAIN f[k] : (p \o q)[i] = f[k][l]
    BY <1>3, <1>5, <2>2
  <2>3. QED
    BY <1>5, <2>1, <2>2
<1>7. ASSUME NEW k \in Kinds, NEW j \in DOMAIN f[k]
      PROVE  \E i \in DOMAIN (p \o q) : (p \o q)[i] = f[k][j]
  BY <1>4, <1>5
<1>8. QED
  BY <1>1, <1>5, <1>6, <1>7

\* The server sends the bundles of e.
Sends(e) ==
  /\ e \in Seq(Bundle) /\ wire' = wire \o e
  /\ UNCHANGED <<clientVars, history>>

\* Where the bundles are after that.
LEMMA SentBehind ==
  ASSUME TypeOK, NEW e, Sends(e)
  PROVE  /\ wire' \in Seq(Bundle) /\ DOMAIN wire' \subseteq Nat
         /\ \A i \in DOMAIN wire : i \in DOMAIN wire' /\ wire'[i] = wire[i]
         /\ \A i \in DOMAIN e : \E j \in DOMAIN wire' :
              wire'[j] = e[i] /\ \A l \in DOMAIN wire : l < j
         /\ \A j \in DOMAIN wire' :
              \/ j \in DOMAIN wire
              \/ (\E i \in DOMAIN e : wire'[j] = e[i]) /\ \A l \in DOMAIN wire : l < j
<1>1. wire \in Seq(Bundle) /\ e \in Seq(Bundle) /\ wire' = wire \o e
  BY DEF TypeOK, Sends
<1> DEFINE w == wire \o e
           n == Len(wire)
<1>2. /\ w \in Seq(Bundle) /\ DOMAIN w \subseteq Nat /\ n \in Nat
      /\ \A i \in DOMAIN wire : i \in DOMAIN w /\ w[i] = wire[i] /\ i \in Nat /\ i <= n
      /\ \A i \in DOMAIN e : i + n \in DOMAIN w /\ i \in Nat /\ i > 0 /\ w[i + n] = e[i]
      /\ \A i \in DOMAIN w : i \in DOMAIN wire \/ \E j \in DOMAIN e : i = j + n
  BY <1>1, Joined
<1> HIDE DEF w, n
<1>3. ASSUME NEW i \in DOMAIN e PROVE \A l \in DOMAIN wire : l < i + n
  BY <1>2
<1>4. \A i \in DOMAIN e : \E j \in DOMAIN w : w[j] = e[i] /\ \A l \in DOMAIN wire : l < j
  BY <1>2, <1>3
<1>5. \A j \in DOMAIN w : \/ j \in DOMAIN wire
                          \/ (\E i \in DOMAIN e : w[j] = e[i]) /\ \A l \in DOMAIN wire : l < j
  BY <1>2, <1>3
<1>6. wire' = w
  BY <1>1 DEF w
<1>7. QED
  BY <1>2, <1>4, <1>5, <1>6

\* The bundles have the present frame's number, or none.
LEMMA SendsInTime ==
  ASSUME TypeOK, WireInv, NEW e, Sends(e), UNCHANGED currentFrame,
         \A i \in DOMAIN e : WellMade(e[i]) /\ e[i].fseq \in {-1, currentFrame}
  PROVE  WireInv'
<1>1. /\ DOMAIN wire' \subseteq Nat
      /\ \A i \in DOMAIN wire : i \in DOMAIN wire' /\ wire'[i] = wire[i]
      /\ \A j \in DOMAIN wire' :
           \/ j \in DOMAIN wire
           \/ (\E i \in DOMAIN e : wire'[j] = e[i]) /\ \A l \in DOMAIN wire : l < j
  BY SentBehind
<1>2. frame' = frame /\ currentFrame \in Nat \cup {-1} /\ frame <= currentFrame
  BY DEF Sends, clientVars, TypeOK, WireInv, Punctual
<1>3. \A j \in DOMAIN wire' : \/ j \in DOMAIN wire /\ wire'[j] = wire[j]
                              \/ WellMade(wire'[j]) /\ wire'[j].fseq \in {-1, currentFrame}
  BY <1>1
<1>4. \A j \in DOMAIN wire' : WellMade(wire'[j])
  BY <1>3 DEF WireInv
<1>5. ASSUME NEW j \in DOMAIN wire'
      PROVE  wire'[j].fseq <= currentFrame /\ (wire'[j].fseq > 0 => frame <= wire'[j].fseq)
  BY <1>2, <1>3 DEF WireInv, Punctual
<1>6. ASSUME NEW i \in DOMAIN wire', NEW j \in DOMAIN wire', i < j, wire'[j].fseq > 0
      PROVE  wire'[i].fseq <= wire'[j].fseq
  <2>1. CASE j \in DOMAIN wire
    <3>1. i \in DOMAIN wire
      BY <1>1, <1>6, <2>1
    <3>2. QED
      BY <1>1, <1>6, <2>1, <3>1 DEF WireInv, Punctual
  <2>2. CASE j \notin DOMAIN wire
    <3>1. wire'[j].fseq = currentFrame
      BY <1>2, <1>6, <1>1, <2>2
    <3>2. QED
      BY <1>5, <3>1
  <2>3. QED
    BY <2>1, <2>2
<1>7. QED
  BY <1>2, <1>4, <1>5, <1>6 DEF WireInv, Punctual

\* What is told of a contact stays right, or becomes so.
LEMMA SendsSaid ==
  ASSUME TypeOK, NEW e, Sends(e), NEW k, NEW s, NEW v,
         Said(k, s, v) \/ \E i \in DOMAIN e : Tells(e[i], k, s),
         \A i \in DOMAIN e : e[i].kind = k =>
           s \in e[i].alive /\ \A m \in e[i].set : m.sid = s => m.pos = v
  PROVE  Said(k, s, v)'
<1>1. /\ \A i \in DOMAIN wire : i \in DOMAIN wire' /\ wire'[i] = wire[i]
      /\ \A i \in DOMAIN e : \E j \in DOMAIN wire' :
           wire'[j] = e[i] /\ \A l \in DOMAIN wire : l < j
      /\ \A j \in DOMAIN wire' : j \in DOMAIN wire \/ \E i \in DOMAIN e : wire'[j] = e[i]
  BY SentBehind
<1>2. ASSUME NEW i \in DOMAIN wire, LaterTells(i, k, s) \/ ~Said(k, s, v)
      PROVE  LaterTells(i, k, s)'
  <2>1. CASE LaterTells(i, k, s)
    BY <1>1, <2>1 DEF LaterTells, Tells
  <2>2. CASE ~Said(k, s, v)
    BY <1>1, <2>2 DEF LaterTells, Tells
  <2>3. QED
    BY <1>2, <2>1, <2>2
<1>3. LastWord(k, s, v)'
  BY <1>1, <1>2 DEF LastWord, Said
<1>4. NotDropped(k, s)'
  BY <1>1, <1>2 DEF NotDropped, Said
<1>5. Known(k, s, v)'
  <2> SUFFICES ASSUME \A i \in DOMAIN wire' : ~Tells(wire'[i], k, s)
               PROVE  s \in missed'[k] \/ Shows(k, s, v)'
    BY DEF Known, Tells
  <2>1. \A i \in DOMAIN e : ~Tells(e[i], k, s)
    BY <1>1
  <2>2. \A i \in DOMAIN wire : ~Tells(wire[i], k, s)
    BY <1>1
  <2>3. s \in missed[k] \/ Shows(k, s, v)
    BY <2>1, <2>2 DEF Said, Known
  <2>4. QED
    BY <2>3 DEF Sends, clientVars, history, Shows
<1>6. QED
  BY <1>3, <1>4, <1>5 DEF Said

LEMMA SendsListed ==
  ASSUME TypeOK, NEW e, Sends(e), NEW k, NEW S,
         Listed(k, S) \/ \E i \in DOMAIN e : e[i].kind = k,
         \A i \in DOMAIN e : e[i].kind = k => e[i].alive = S
  PROVE  Listed(k, S)'
<1>1. /\ \A i \in DOMAIN wire : i \in DOMAIN wire' /\ wire'[i] = wire[i]
      /\ \A i \in DOMAIN e : \E j \in DOMAIN wire' :
           wire'[j] = e[i] /\ \A l \in DOMAIN wire : l < j
      /\ \A j \in DOMAIN wire' : j \in DOMAIN wire \/ \E i \in DOMAIN e : wire'[j] = e[i]
  BY SentBehind
<1>2. LastList(k, S)'
  BY <1>1 DEF Listed, LastList
<1>3. ListKnown(k, S)'
  <2> SUFFICES ASSUME \A i \in DOMAIN wire' : wire'[i].kind # k
               PROVE  deaf'[k] \/ Remaining(k)' \subseteq S
    BY DEF ListKnown
  <2>1. Listed(k, S) /\ \A i \in DOMAIN wire : wire[i].kind # k
    BY <1>1
  <2>2. QED
    BY <2>1 DEF Listed, ListKnown, Remaining, Sends, clientVars, history
<1>4. QED
  BY <1>2, <1>3 DEF Listed

-----------------------------------------------------------------------------
(***************************************************************************)
(* The server                                                              *)
(***************************************************************************)
LEMMA ListsAreFinite ==
  ASSUME IInv
  PROVE  \A k \in Kinds : IsFiniteSet(list[k]) /\ list[k] \in SUBSET Contact
BY WholeCounts, AsManyContactsAsNumbers DEF IInv, ManagerKept, Kept, TypeOK

\* commitFrame tells of every contact that was touched.
LEMMA CommitMirrors ==
  ASSUME IInv, MirrorInv, CommitFrame, UNCHANGED history
  PROVE  MirrorInv'
<1>1. PICK elapsed \in [Kinds -> BOOLEAN] :
        wire' = wire \o InOrder([k \in Kinds |-> Sent(k, elapsed[k])])
  BY DEF CommitFrame
<1> DEFINE f == [k \in Kinds |-> Sent(k, elapsed[k])]
           e == InOrder(f)
<1>2. TypeOK /\ f \in [Kinds -> Seq(Bundle)]
  BY SentType DEF IInv, ManagerKept
<1>3. \A k \in Kinds : LET sent == f[k]
         IN /\ \A i \in DOMAIN sent :
                 /\ sent[i].kind = k /\ sent[i].fseq = currentFrame
                 /\ sent[i].alive = Sids(list[k]) /\ WellMade(sent[i])
                 /\ \A m \in sent[i].set : \E c \in list[k] : m = MessageOf(c)
            /\ updated[k] =>
                 /\ DOMAIN sent # {}
                 /\ \A c \in list[k] : c.touched =>
                      \E i \in DOMAIN sent : MessageOf(c) \in sent[i].set
  BY <1>2, ListsAreFinite, SentFacts DEF MirrorInv, ManagerInv
<1> HIDE DEF f
<1>4. /\ e \in Seq(Bundle)
      /\ \A i \in DOMAIN e : \E k \in Kinds : \E j \in DOMAIN f[k] : e[i] = f[k][j]
      /\ \A k \in Kinds : \A j \in DOMAIN f[k] : \E i \in DOMAIN e : e[i] = f[k][j]
  BY <1>2, InOrderElements
<1>5. Sends(e) /\ UNCHANGED <<currentFrame, list>> /\ phase = "frame" /\ phase' = "idle"
  BY <1>1, <1>4 DEF Sends, CommitFrame, f
<1> HIDE DEF e
<1>6. \A i \in DOMAIN e :
        /\ e[i].kind \in Kinds /\ e[i].fseq = currentFrame /\ WellMade(e[i])
        /\ e[i].alive = Sids(list[e[i].kind])
        /\ \A m \in e[i].set : \E c \in list[e[i].kind] : m = MessageOf(c)
  BY <1>3, <1>4
<1>7. \A k \in Kinds : updated[k] =>
        /\ \E i \in DOMAIN e : e[i].kind = k
        /\ \A c \in list[k] : c.touched =>
             \E i \in DOMAIN e : e[i].kind = k /\ MessageOf(c) \in e[i].set
  BY <1>3, <1>4
<1>8. WireInv'
  <2>1. \A i \in DOMAIN e : WellMade(e[i]) /\ e[i].fseq \in {-1, currentFrame}
    BY <1>6
  <2>2. QED
    BY <1>2, <1>5, <2>1, SendsInTime DEF MirrorInv
<1>9. SaidInv'
  <2> SUFFICES ASSUME NEW k \in Kinds, NEW c \in list[k]
               PROVE  Said(k, c.sid, c.pos)'
    BY <1>5 DEF SaidInv
  <2>1. OneEach(list[k])
    BY DEF MirrorInv, ManagerInv
  <2>2. Said(k, c.sid, c.pos) \/ \E i \in DOMAIN e : Tells(e[i], k, c.sid)
    <3>1. CASE c.touched
      <4>1. updated[k]
        BY <1>5, <3>1 DEF MirrorInv, ManagerInv, Framing
      <4>2. PICK i \in DOMAIN e : e[i].kind = k /\ MessageOf(c) \in e[i].set
        BY <1>7, <3>1, <4>1
      <4>3. Tells(e[i], k, c.sid)
        BY <4>2 DEF Tells, Sids, MessageOf
      <4>4. QED
        BY <4>3
    <3>2. CASE ~c.touched
      BY <1>5, <3>2 DEF MirrorInv, SaidInv, Framing
    <3>3. QED
      BY <3>1, <3>2
  <2>3. \A i \in DOMAIN e : e[i].kind = k =>
          c.sid \in e[i].alive /\ \A m \in e[i].set : m.sid = c.sid => m.pos = c.pos
    BY <1>6, <2>1 DEF Sids, MessageOf, OneEach
  <2>4. QED
    BY <1>2, <1>5, <2>2, <2>3, SendsSaid
<1>10. ListedInv'
  <2> SUFFICES ASSUME NEW k \in Kinds PROVE Listed(k, Sids(list[k]))'
    BY <1>5 DEF ListedInv
  <2>1. Listed(k, Sids(list[k])) \/ \E i \in DOMAIN e : e[i].kind = k
    BY <1>5, <1>7 DEF MirrorInv, ListedInv, Framing
  <2>2. \A i \in DOMAIN e : e[i].kind = k => e[i].alive = Sids(list[k])
    BY <1>6
  <2>3. ASSUME NEW S, S = Sids(list[k]) PROVE Listed(k, S)'
    <3>1. Listed(k, S) \/ \E i \in DOMAIN e : e[i].kind = k
      BY <2>1, <2>3
    <3>2. \A i \in DOMAIN e : e[i].kind = k => e[i].alive = S
      BY <2>2, <2>3
    <3>3. QED
      BY <1>2, <1>5, <3>1, <3>2, SendsListed
  <2>4. QED
    BY <1>5, <2>3 DEF Listed, LastList, ListKnown
<1>11. ManagerInv'
  BY <1>5 DEF MirrorInv, ManagerInv, CommitFrame, Framing
<1>12. WorkInv' /\ HistoryType'
  BY <1>5 DEF MirrorInv, WorkInv, HistoryType, Sends, clientVars, history
<1>13. QED
  BY <1>8, <1>9, <1>10, <1>11, <1>12 DEF MirrorInv

\* The constructor and the destructor send an empty bundle of each kind.
LEMMA EmptyElements ==
  /\ EmptyBundles \in Seq(Bundle)
  /\ \A i \in DOMAIN EmptyBundles : \E k \in Kinds : EmptyBundles[i] = EmptyBundle(k)
  /\ \A k \in Kinds : \E i \in DOMAIN EmptyBundles : EmptyBundles[i] = EmptyBundle(k)
<1> DEFINE f == [k \in Kinds |-> <<EmptyBundle(k)>>]
<1>1. f \in [Kinds -> Seq(Bundle)]
  <2>1. \A k \in Kinds : EmptyBundle(k) \in Bundle
    BY DEF EmptyBundle, Bundle
  <2>2. \A k \in Kinds : <<EmptyBundle(k)>> \in Seq(Bundle)
    BY <2>1
  <2>3. QED
    BY <2>2
<1>2. \A k \in Kinds : DOMAIN f[k] = {1} /\ f[k][1] = EmptyBundle(k)
  OBVIOUS
<1>3. EmptyBundles = InOrder(f)
  BY DEF EmptyBundles
<1> HIDE DEF f
<1>4. QED
  BY <1>1, <1>2, <1>3, InOrderElements

LEMMA EmptyIsWellMade ==
  ASSUME NEW k
  PROVE  /\ WellMade(EmptyBundle(k)) /\ EmptyBundle(k).fseq = -1
         /\ EmptyBundle(k).kind = k /\ EmptyBundle(k).alive = {}
BY DEF EmptyBundle, WellMade, OneEach, Sids

LEMMA EndDestroyMirrors ==
  ASSUME IInv, MirrorInv, EndDestroy, UNCHANGED history
  PROVE  MirrorInv'
<1> DEFINE e == EmptyBundles
<1>1. /\ \A i \in DOMAIN e : /\ WellMade(e[i]) /\ e[i].fseq \in {-1, currentFrame}
                             /\ e[i].alive = {}
      /\ \A k \in Kinds : \E i \in DOMAIN e : e[i].kind = k
  BY EmptyElements, EmptyIsWellMade
<1>2. /\ Sends(e) /\ UNCHANGED <<currentFrame, list, sessionID>>
      /\ phase' = "gone" /\ sweeping' = {}
  BY EmptyElements DEF Sends, EndDestroy
<1> HIDE DEF e
<1>3. WireInv'
  BY <1>1, <1>2, SendsInTime DEF MirrorInv, IInv
<1>4. ASSUME NEW k \in Kinds PROVE Listed(k, {})'
  <2>1. TypeOK
    BY DEF IInv
  <2>2. ASSUME NEW S, S = {} PROVE Listed(k, S)'
    <3>1. Listed(k, S) \/ \E i \in DOMAIN e : e[i].kind = k
      BY <1>1
    <3>2. \A i \in DOMAIN e : e[i].kind = k => e[i].alive = S
      BY <1>1, <2>2
    <3>3. QED
      BY <1>2, <2>1, <3>1, <3>2, SendsListed
  <2>3. QED
    BY <2>2
<1>5. ListedInv'
  BY <1>2, <1>4 DEF ListedInv, Framing
<1>6. SaidInv' /\ ManagerInv'
  BY <1>2 DEF SaidInv, MirrorInv, ManagerInv, Framing
<1>7. WorkInv' /\ HistoryType'
  BY <1>2 DEF MirrorInv, WorkInv, HistoryType, Sends, clientVars, history
<1>8. QED
  BY <1>3, <1>5, <1>6, <1>7 DEF MirrorInv

LEMMA InitMirror == MCInit => MirrorInv
<1> SUFFICES ASSUME MCInit PROVE MirrorInv
  OBVIOUS
<1>1. /\ wire = EmptyBundles /\ frame = -1 /\ currentFrame = -1
      /\ phase = "idle" /\ sweeping = {}
      /\ \A k \in Kinds : list[k] = {} /\ seen[k] = {} /\ ~updated[k]
      /\ work.set = {} /\ work.gone = {}
  BY DEF MCInit, Init, NoWork
<1>2. /\ DOMAIN wire \subseteq Nat
      /\ \A i \in DOMAIN wire : /\ WellMade(wire[i]) /\ wire[i].fseq = -1
                                /\ wire[i].alive = {}
  BY <1>1, EmptyElements, EmptyIsWellMade
<1>3. ManagerInv
  BY <1>1 DEF ManagerInv, OneEach, Framing
<1>4. WireInv
  BY <1>1, <1>2 DEF WireInv, Punctual
<1>5. WorkInv /\ HistoryType
  BY <1>1 DEF WorkInv, OneEach, Sids, HistoryType, MCInit
<1>6. SaidInv
  BY <1>1 DEF SaidInv
<1>7. ASSUME NEW k \in Kinds PROVE Listed(k, Sids(list[k]))
  <2>1. Sids(list[k]) = {} /\ Remaining(k) = {}
    BY <1>1 DEF Sids, Remaining
  <2>2. QED
    BY <1>2, <2>1 DEF Listed, LastList, ListKnown
<1>8. ListedInv
  BY <1>1, <1>7 DEF ListedInv
<1>9. QED
  BY <1>3, <1>4, <1>5, <1>6, <1>8 DEF MirrorInv

LEMMA OnTheWire ==
  ASSUME wire \in Seq(Bundle)
  PROVE  \A i \in DOMAIN wire : /\ i \in Nat \ {0} /\ wire[i].kind \in Kinds
                                /\ wire[i].fseq \in Int /\ Sids(wire[i].set) \subseteq Nat
<1> SUFFICES ASSUME NEW i \in DOMAIN wire
             PROVE  /\ i \in Nat \ {0} /\ wire[i].kind \in Kinds
                    /\ wire[i].fseq \in Int /\ Sids(wire[i].set) \subseteq Nat
  OBVIOUS
<1>1. i \in Nat \ {0} /\ wire[i] \in Bundle
  OBVIOUS
<1>2. QED
  BY <1>1 DEF Bundle, Message, Sids

\* Steps of the server that send nothing: what they change is not what the
\* receiver was told, or is marked as changed.
LEMMA QuietMirrors ==
  ASSUME MirrorInv, ManagerInv', UNCHANGED <<wire, clientVars, history>>,
         currentFrame \in Int, currentFrame' \in Int, frame \in Int, wire \in Seq(Bundle),
         currentFrame <= currentFrame', phase' # "gone",
         \A k \in Kinds : \A c \in list'[k] :
           phase' = "idle" \/ (Framing' /\ ~c.touched) =>
             \E d \in list[k] : /\ d.sid = c.sid /\ d.pos = c.pos
                                /\ phase = "idle" \/ (Framing /\ ~d.touched),
         phase' = "idle" \/ Framing' =>
           /\ phase = "idle" \/ Framing
           /\ \A k \in Kinds : ~updated'[k] => ~updated[k] /\ Sids(list'[k]) = Sids(list[k])
  PROVE  MirrorInv'
<1>1. /\ wire' = wire /\ frame' = frame /\ seen' = seen /\ work' = work
      /\ missed' = missed /\ deaf' = deaf
  BY DEF clientVars, history
<1>2. WireInv'
  <2>1. \A i \in DOMAIN wire : wire[i].fseq \in Int
    BY OnTheWire
  <2>2. QED
    BY <1>1, <2>1 DEF MirrorInv, WireInv, Punctual
<1>3. ASSUME NEW k \in Kinds, NEW s, NEW v, Said(k, s, v) PROVE Said(k, s, v)'
  BY <1>1, <1>3 DEF Said, LastWord, NotDropped, Known, LaterTells, Tells, Shows
<1>4. SaidInv'
  <2> SUFFICES ASSUME NEW k \in Kinds, NEW c \in list'[k],
                      phase' = "idle" \/ (Framing' /\ ~c.touched)
               PROVE  Said(k, c.sid, c.pos)'
    BY DEF SaidInv, Framing
  <2>1. PICK d \in list[k] : /\ d.sid = c.sid /\ d.pos = c.pos
                             /\ phase = "idle" \/ (Framing /\ ~d.touched)
    OBVIOUS
  <2>2. Said(k, d.sid, d.pos)
    BY <2>1 DEF MirrorInv, SaidInv
  <2>3. QED
    BY <1>3, <2>1, <2>2
<1>5. ASSUME NEW k \in Kinds, NEW S, Listed(k, S) PROVE Listed(k, S)'
  BY <1>1, <1>5 DEF Listed, LastList, ListKnown, Remaining
<1>6. ListedInv'
  <2> SUFFICES ASSUME phase' = "idle" \/ Framing', NEW k \in Kinds, ~updated'[k]
               PROVE  Listed(k, Sids(list[k]))'
    BY DEF ListedInv, Framing
  <2>1. Listed(k, Sids(list[k])) /\ Sids(list'[k]) = Sids(list[k])
    BY DEF MirrorInv, ListedInv
  <2>2. QED
    BY <1>1, <2>1 DEF Listed, LastList, ListKnown, Remaining, Sids
<1>7. WorkInv' /\ HistoryType'
  BY <1>1 DEF MirrorInv, WorkInv, HistoryType
<1>8. QED
  BY <1>2, <1>4, <1>6, <1>7 DEF MirrorInv

LEMMA InitFrameMirrors ==
  ASSUME IInv, MirrorInv, InitFrame, UNCHANGED history
  PROVE  MirrorInv'
<1> DEFINE Rest(d) == [d EXCEPT !.touched = FALSE]
<1>1. \A k \in Kinds : list'[k] = {Rest(d) : d \in list[k]}
  BY DEF InitFrame
<1>2. \A k \in Kinds : \A d \in list[k] :
        Rest(d).sid = d.sid /\ Rest(d).pos = d.pos /\ ~Rest(d).touched
  <2>1. \A d \in Contact : Rest(d).sid = d.sid /\ Rest(d).pos = d.pos /\ ~Rest(d).touched
    BY DEF Contact
  <2>2. QED
    BY <2>1 DEF IInv, TypeOK
<1> HIDE DEF Rest
<1>3. /\ phase = "idle" /\ phase' = "frame" /\ updated' = updated
      /\ currentFrame' = currentFrame + 1 /\ UNCHANGED <<sessionID, sweeping>>
      /\ UNCHANGED <<wire, clientVars, history>>
  BY DEF InitFrame
<1>4. ManagerInv'
  BY <1>1, <1>2, <1>3 DEF MirrorInv, ManagerInv, OneEach, Framing
<1>5. \A k \in Kinds : Sids(list'[k]) = Sids(list[k])
  BY <1>1, <1>2 DEF Sids
<1>6. \A k \in Kinds : \A c \in list'[k] :
        \E d \in list[k] : d.sid = c.sid /\ d.pos = c.pos
  BY <1>1, <1>2
<1>7. /\ currentFrame \in Int /\ currentFrame' \in Int /\ currentFrame <= currentFrame'
      /\ frame \in Int /\ wire \in Seq(Bundle)
  BY <1>3 DEF IInv, TypeOK
<1>8. QED
  BY <1>3, <1>4, <1>5, <1>6, <1>7, QuietMirrors

\* The facts on types that QuietMirrors wants.
LEMMA QuietTypes ==
  ASSUME IInv, UNCHANGED currentFrame
  PROVE  /\ currentFrame \in Int /\ currentFrame' \in Int /\ currentFrame <= currentFrame'
         /\ frame \in Int /\ wire \in Seq(Bundle)
BY DEF IInv, TypeOK

\* Steps within a frame: a list changes only in contacts that are touched, and
\* is then marked.
LEMMA FrameMirrors ==
  ASSUME IInv, MirrorInv, Framing,
         UNCHANGED <<phase, sweeping, currentFrame, wire, clientVars, history>>,
         sessionID <= sessionID', sessionID' \in Int,
         NEW k \in Kinds, \A j \in Kinds \ {k} : list'[j] = list[j] /\ updated'[j] = updated[j],
         \A c \in list'[k] : /\ c \in list[k] \/ (c.touched /\ updated'[k])
                             /\ c.sid <= sessionID',
         OneEach(list'[k]), updated[k] => updated'[k],
         updated'[k] \/ Sids(list'[k]) = Sids(list[k])
  PROVE  MirrorInv'
<1>1. /\ phase # "idle" /\ phase # "gone" /\ phase' # "idle" /\ phase' # "gone"
  BY DEF Framing
<1>2. \A j \in Kinds : \A c \in list[j] : c.sid \in Nat /\ c.sid <= sessionID
  BY DEF MirrorInv, ManagerInv, IInv, TypeOK, Contact
<1>3. sessionID \in Int
  BY DEF IInv, TypeOK
<1>4. \A j \in Kinds : \A c \in list[j] : c.sid <= sessionID'
  BY <1>2, <1>3
<1>5. ManagerInv'
  <2>1. \A j \in Kinds : OneEach(list'[j]) /\ \A c \in list'[j] : c.sid <= sessionID'
    BY <1>4 DEF MirrorInv, ManagerInv
  <2>2. \A j \in Kinds : \A c \in list'[j] : c.touched => updated'[j]
    BY DEF MirrorInv, ManagerInv
  <2>3. phase' = "frame" => sweeping' = {}
    BY DEF MirrorInv, ManagerInv
  <2>4. QED
    BY <1>1, <2>1, <2>2, <2>3 DEF ManagerInv, OneEach
<1>6. \A j \in Kinds : \A c \in list'[j] : ~c.touched => c \in list[j]
  OBVIOUS
<1>7. \A j \in Kinds : ~updated'[j] => ~updated[j] /\ Sids(list'[j]) = Sids(list[j])
  OBVIOUS
<1>8. QED
  BY <1>1, <1>5, <1>6, <1>7, QuietMirrors, QuietTypes

LEMMA AddMirrors ==
  ASSUME IInv, MirrorInv, UNCHANGED history, NEW k \in Kinds, AddContact(k)
  PROVE  MirrorInv'
<1>1. PICK took \in ManagerTake(Cardinality(list[k]), pool[k]), p \in Places :
        list' = [list EXCEPT ![k] = @ \cup
            {[sid |-> sessionID + 1, id |-> took.id, pos |-> p, speed |-> 0, moving |-> FALSE,
              touched |-> TRUE]}]
  BY DEF AddContact
<1> DEFINE new == [sid |-> sessionID + 1, id |-> took.id, pos |-> p, speed |-> 0, moving |-> FALSE,
                   touched |-> TRUE]
<1>2. TypeOK /\ OneEach(list[k]) /\ \A c \in list[k] : c.sid \in Nat /\ c.sid <= sessionID
  BY DEF IInv, MirrorInv, ManagerInv, TypeOK, Contact
<1>3. new.sid = sessionID + 1 /\ new.touched
  OBVIOUS
<1> HIDE DEF new
<1>4. /\ list'[k] = list[k] \cup {new} /\ updated'[k]
      /\ \A j \in Kinds \ {k} : list'[j] = list[j] /\ updated'[j] = updated[j]
  BY <1>1, <1>2 DEF AddContact, TypeOK, new
<1>5. sessionID \in Int /\ sessionID' = sessionID + 1
  BY <1>2 DEF TypeOK, AddContact
<1>6. OneEach(list'[k]) /\ \A c \in list'[k] : c.sid <= sessionID'
  BY <1>2, <1>3, <1>4, <1>5 DEF OneEach
<1>7. Framing /\ UNCHANGED <<phase, sweeping, currentFrame, wire, clientVars, history>>
  BY DEF AddContact, Framing
<1>8. sessionID <= sessionID' /\ sessionID' \in Int
  BY <1>5
<1>9. QED
  BY <1>3, <1>4, <1>6, <1>7, <1>8, FrameMirrors

LEMMA UpdateMirrors ==
  ASSUME IInv, MirrorInv, UNCHANGED history, NEW k \in Kinds, UpdateContact(k)
  PROVE  MirrorInv'
<1>1. PICK c \in list[k], p \in Places, s \in Speeds :
        list' = [list EXCEPT ![k] = (@ \ {c}) \cup {Updated(c, p, s)}]
  BY DEF UpdateContact
<1>2. TypeOK /\ OneEach(list[k]) /\ \A d \in list[k] : d.sid \in Nat /\ d.sid <= sessionID
  BY DEF IInv, MirrorInv, ManagerInv, TypeOK, Contact
<1>3. Updated(c, p, s).sid = c.sid /\ Updated(c, p, s).touched
  <2>1. c \in Contact
    BY <1>2 DEF TypeOK
  <2>2. QED
    BY <2>1 DEF Updated, Contact
<1>4. /\ list'[k] = (list[k] \ {c}) \cup {Updated(c, p, s)} /\ updated'[k]
      /\ \A j \in Kinds \ {k} : list'[j] = list[j] /\ updated'[j] = updated[j]
  BY <1>1, <1>2 DEF UpdateContact, TypeOK
<1>5. sessionID' \in Int /\ sessionID' = sessionID
  BY <1>2 DEF TypeOK, UpdateContact
<1>6. OneEach(list'[k]) /\ \A d \in list'[k] : d.sid <= sessionID'
  BY <1>2, <1>3, <1>4, <1>5 DEF OneEach
<1>7. Framing /\ UNCHANGED <<phase, sweeping, currentFrame, wire, clientVars, history>>
  BY DEF UpdateContact, Framing
<1>8. sessionID <= sessionID'
  BY <1>5
<1>9. QED
  BY <1>3, <1>4, <1>5, <1>6, <1>7, <1>8, FrameMirrors

LEMMA RemovalMirrors ==
  ASSUME IInv, MirrorInv, NEW k \in Kinds, NEW c \in list[k], Removal(k, c),
         UNCHANGED <<phase, sweeping, sessionID, currentFrame, wire, clientVars, history>>,
         Framing
  PROVE  MirrorInv'
<1>1. TypeOK /\ OneEach(list[k]) /\ \A d \in list[k] : d.sid <= sessionID
  BY DEF IInv, MirrorInv, ManagerInv
<1>2. /\ list'[k] = list[k] \ {c} /\ updated'[k]
      /\ \A j \in Kinds \ {k} : list'[j] = list[j] /\ updated'[j] = updated[j]
  BY <1>1 DEF Removal, TypeOK
<1>3. OneEach(list'[k]) /\ \A d \in list'[k] : d.sid <= sessionID'
  BY <1>1, <1>2 DEF OneEach
<1>4. sessionID <= sessionID' /\ sessionID' \in Int
  BY <1>1 DEF TypeOK, Framing
<1>5. QED
  BY <1>2, <1>3, <1>4, FrameMirrors

LEMMA StopMirrors ==
  ASSUME IInv, MirrorInv, UNCHANGED history, NEW k \in Kinds, StopUntouchedMoving(k)
  PROVE  MirrorInv'
<1>1. TypeOK /\ OneEach(list[k]) /\ \A d \in list[k] : d.sid <= sessionID
  BY DEF IInv, MirrorInv, ManagerInv
<1>2. /\ list'[k] = {Stopped(c) : c \in list[k]}
      /\ updated'[k] = (updated[k] \/ \E c \in list[k] : ~c.touched /\ c.moving)
      /\ \A j \in Kinds \ {k} : list'[j] = list[j] /\ updated'[j] = updated[j]
  BY <1>1 DEF StopUntouchedMoving, TypeOK
<1>3. ASSUME NEW c \in list[k]
      PROVE  /\ Stopped(c).sid = c.sid
             /\ Stopped(c) = c \/ (Stopped(c).touched /\ ~c.touched /\ c.moving)
  <2>1. c \in Contact
    BY <1>1 DEF TypeOK
  <2>2. QED
    BY <2>1 DEF Stopped, Updated, Contact
<1>u. /\ updated[k] => updated'[k]
      /\ (\E c \in list[k] : ~c.touched /\ c.moving) => updated'[k]
  BY <1>2, Zenon
<1>4. \A c \in list'[k] : c \in list[k] \/ (c.touched /\ updated'[k])
  <2>1. ASSUME NEW c \in list[k]
        PROVE  Stopped(c) \in list[k] \/ (Stopped(c).touched /\ updated'[k])
    <3>1. Stopped(c) \in list[k] \/ (Stopped(c).touched /\ ~c.touched /\ c.moving)
      BY <1>3
    <3>2. QED
      BY <1>u, <3>1, Zenon
  <2>2. QED
    BY <1>2, <2>1, Zenon
<1>5. OneEach(list'[k]) /\ \A c \in list'[k] : c.sid <= sessionID
  BY <1>1, <1>2, <1>3 DEF OneEach
<1>6. Sids(list'[k]) = Sids(list[k])
  BY <1>2, <1>3 DEF Sids
<1>7. /\ Framing /\ UNCHANGED <<phase, sweeping, currentFrame, wire, clientVars, history>>
      /\ sessionID' = sessionID /\ sessionID \in Int
  BY <1>1 DEF StopUntouchedMoving, Framing, TypeOK
<1>8. sessionID <= sessionID' /\ sessionID' \in Int /\ \A c \in list'[k] : c.sid <= sessionID'
  BY <1>5, <1>7
<1>9. QED
  BY <1>u, <1>2, <1>4, <1>5, <1>6, <1>7, <1>8, FrameMirrors

\* Steps that leave the lists alone, and the loops of the destructor.
LEMMA SweepMirrors ==
  ASSUME IInv, MirrorInv, UNCHANGED history,
         EndSweep \/ \E k \in Kinds : BeginSweep(k) \/ Sweep(k)
  PROVE  MirrorInv'
<1>1. ASSUME UNCHANGED <<currentFrame, sessionID, list, updated, wire, clientVars>>,
             Framing, Framing', phase' = "frame" => sweeping' = {}
      PROVE  MirrorInv'
  <2>1. phase # "idle" /\ phase' # "idle" /\ phase' # "gone"
    BY <1>1 DEF Framing
  <2>2. ManagerInv'
    BY <1>1, <2>1 DEF MirrorInv, ManagerInv, OneEach
  <2>3. QED
    BY <1>1, <2>1, <2>2, QuietMirrors, QuietTypes
<1>2. CASE EndSweep
  BY <1>1, <1>2 DEF EndSweep, Framing
<1>3. ASSUME NEW k \in Kinds, BeginSweep(k) PROVE MirrorInv'
  BY <1>1, <1>3 DEF BeginSweep, Framing
<1>4. ASSUME NEW k \in Kinds, Sweep(k) PROVE MirrorInv'
  <2>1. PICK c \in list[k] : Removal(k, c)
    BY <1>4 DEF Sweep, Swept
  <2>2. UNCHANGED <<phase, sweeping, sessionID, currentFrame, wire, clientVars, history>>
    BY <1>4 DEF Sweep
  <2>3. CASE Framing
    BY <2>1, <2>2, <2>3, RemovalMirrors
  <2>4. CASE phase = "exit"
    <3>1. phase' = "exit"
      BY <2>2, <2>4
    <3>2. ~Framing' /\ phase' # "idle" /\ phase' # "gone"
      BY <3>1 DEF Framing
    <3>3. list' = [list EXCEPT ![k] = list[k] \ {c}] /\ sessionID' = sessionID
      BY <2>1, <2>2 DEF Removal
    <3>4. \A j \in Kinds : list'[j] \subseteq list[j]
      BY <3>3 DEF IInv, TypeOK
    <3>5. ManagerInv'
      BY <3>1, <3>2, <3>3, <3>4 DEF MirrorInv, ManagerInv, OneEach
    <3>6. QED
      BY <2>2, <3>2, <3>5, QuietMirrors, QuietTypes
  <2>5. phase \in Phases /\ phase \notin {"idle", "frame", "gone"}
    BY <1>4 DEF Sweep, Swept, MirrorInv, ManagerInv, IInv, TypeOK
  <2>6. QED
    BY <2>3, <2>4, <2>5 DEF Framing, Phases
<1>5. QED
  BY <1>2, <1>3, <1>4

LEMMA DestroyMirrors ==
  ASSUME IInv, MirrorInv, Destroy, UNCHANGED history
  PROVE  MirrorInv'
<1> DEFINE Left(c) == [Stopped([c EXCEPT !.touched = FALSE]) EXCEPT !.touched = FALSE]
<1>1. \A k \in Kinds : list'[k] = {Left(c) : c \in list[k]}
  BY DEF Destroy
<1>2. \A k \in Kinds : \A c \in list[k] : Left(c).sid = c.sid
  <2>1. \A c \in Contact : Left(c).sid = c.sid
    BY DEF Stopped, Updated, Contact
  <2>2. QED
    BY <2>1 DEF IInv, TypeOK
<1> HIDE DEF Left
<1>3. /\ phase' = "exit" /\ ~Framing' /\ phase' # "idle" /\ phase' # "gone"
      /\ currentFrame' = currentFrame + 2 /\ sessionID' = sessionID
      /\ UNCHANGED <<wire, clientVars, history>>
  BY DEF Destroy, Framing
<1>4. ManagerInv'
  BY <1>1, <1>2, <1>3 DEF MirrorInv, ManagerInv, OneEach
<1>5. /\ currentFrame \in Int /\ currentFrame' \in Int /\ currentFrame <= currentFrame'
      /\ frame \in Int /\ wire \in Seq(Bundle)
  BY <1>3 DEF IInv, TypeOK
<1>6. QED
  BY <1>3, <1>4, <1>5, QuietMirrors

LEMMA ServerMirrors ==
  ASSUME IInv, MirrorInv, Server, UNCHANGED history
  PROVE  MirrorInv'
<1>1. CASE InitFrame
  BY <1>1, InitFrameMirrors
<1>2. ASSUME NEW k \in Kinds, AddContact(k) PROVE MirrorInv'
  BY <1>2, AddMirrors
<1>3. ASSUME NEW k \in Kinds, UpdateContact(k) PROVE MirrorInv'
  BY <1>3, UpdateMirrors
<1>4. ASSUME NEW k \in Kinds, RemoveContact(k) PROVE MirrorInv'
  <2>1. PICK c \in list[k] : Removal(k, c)
    BY <1>4 DEF RemoveContact
  <2>2. /\ UNCHANGED <<phase, sweeping, sessionID, currentFrame, wire, clientVars, history>>
        /\ Framing
    BY <1>4 DEF RemoveContact, Framing
  <2>3. QED
    BY <2>1, <2>2, RemovalMirrors
<1>5. ASSUME NEW k \in Kinds, StopUntouchedMoving(k) PROVE MirrorInv'
  BY <1>5, StopMirrors
<1>6. ASSUME NEW k \in Kinds, BeginSweep(k) \/ Sweep(k) PROVE MirrorInv'
  BY <1>6, SweepMirrors
<1>7. CASE EndSweep
  BY <1>7, SweepMirrors
<1>8. CASE CommitFrame
  BY <1>8, CommitMirrors
<1>9. CASE Destroy
  BY <1>9, DestroyMirrors
<1>10. CASE EndDestroy
  BY <1>10, EndDestroyMirrors
<1>11. QED
  BY <1>1, <1>2, <1>3, <1>4, <1>5, <1>6, <1>7, <1>8, <1>9, <1>10 DEF Server

-----------------------------------------------------------------------------
(***************************************************************************)
(* The transport and the receiver                                          *)
(***************************************************************************)
\* The first bundle leaves the wire; lost says whether it is lost.
Leaves(lost) == wire # <<>> /\ wire' = Tail(wire) /\ Note(lost)

\* Where the other bundles are after that.
LEMMA OthersMove ==
  ASSUME TypeOK, wire # <<>>, wire' = Tail(wire)
  PROVE  /\ wire' \in Seq(Bundle) /\ 1 \in DOMAIN wire /\ Head(wire) = wire[1]
         /\ Head(wire) \in Bundle
         /\ \A i \in DOMAIN wire' : i \in Nat /\ i + 1 \in DOMAIN wire /\ wire'[i] = wire[i + 1]
         /\ \A i \in DOMAIN wire : i \in Nat /\ i >= 1
         /\ \A i \in DOMAIN wire : i # 1 => i - 1 \in DOMAIN wire' /\ wire'[i - 1] = wire[i]
<1>1. wire \in Seq(Bundle) /\ wire # <<>> /\ wire' = Tail(wire)
  BY DEF TypeOK
<1>2. /\ wire' \in Seq(Bundle) /\ Head(wire) = wire[1] /\ Len(wire) \in Nat \ {0}
      /\ DOMAIN wire = 1 .. Len(wire) /\ DOMAIN wire' = 1 .. Len(wire) - 1
      /\ \A i \in 1 .. Len(wire) - 1 : wire'[i] = wire[i + 1]
  BY <1>1
<1>3. 1 \in DOMAIN wire /\ wire[1] \in Bundle
  BY <1>1, <1>2
<1>4. ASSUME NEW i \in DOMAIN wire, i # 1
      PROVE  i - 1 \in DOMAIN wire' /\ wire'[i - 1] = wire[i]
  <2>1. i - 1 \in 1 .. Len(wire) - 1 /\ (i - 1) + 1 = i
    BY <1>2, <1>4
  <2>2. QED
    BY <1>2, <2>1
<1>5. \A i \in DOMAIN wire' : i \in Nat /\ i + 1 \in DOMAIN wire /\ wire'[i] = wire[i + 1]
  BY <1>2
<1>6. \A i \in DOMAIN wire : i \in Nat /\ i >= 1
  BY <1>2
<1>7. QED
  BY <1>2, <1>3, <1>4, <1>5, <1>6

\* The bundle was not late, and the wire stays in order.
LEMMA LeavesInTime ==
  ASSUME TypeOK, WireInv, wire # <<>>, wire' = Tail(wire), UNCHANGED currentFrame,
         frame' \in {frame} \cup (IF Head(wire).fseq > 0 THEN {Head(wire).fseq} ELSE {})
  PROVE  WireInv' /\ ~Late(Head(wire)) /\ WellMade(Head(wire))
<1>1. /\ 1 \in DOMAIN wire /\ Head(wire) = wire[1]
      /\ \A i \in DOMAIN wire' : i \in Nat /\ i + 1 \in DOMAIN wire /\ wire'[i] = wire[i + 1]
      /\ \A i \in DOMAIN wire : i \in Nat /\ i >= 1
  BY OthersMove
<1>2. \A i \in DOMAIN wire : wire[i].fseq \in Int
  BY OnTheWire DEF TypeOK
<1>3. frame \in Int /\ currentFrame \in Int
  BY DEF TypeOK
<1>4. ~Late(Head(wire))
  BY <1>1, <1>2, <1>3 DEF Late, WireInv, Punctual
<1>5. frame' \in Int /\ frame' <= currentFrame /\ frame' \in {frame, wire[1].fseq}
      /\ (frame' = frame \/ wire[1].fseq > 0)
  BY <1>1, <1>2, <1>3 DEF WireInv, Punctual
<1>6. ASSUME NEW i \in DOMAIN wire'
      PROVE  /\ wire'[i].fseq <= currentFrame /\ WellMade(wire'[i])
             /\ wire'[i].fseq > 0 => frame' <= wire'[i].fseq
  <2>1. /\ wire[i + 1].fseq <= currentFrame
        /\ wire[i + 1].fseq > 0 => frame <= wire[i + 1].fseq /\ wire[1].fseq <= wire[i + 1].fseq
    <3>1. i \in Nat /\ i + 1 \in DOMAIN wire /\ 1 < i + 1 /\ 1 \in DOMAIN wire
      BY <1>1
    <3>2. QED
      BY <3>1 DEF WireInv, Punctual
  <2>2. QED
    BY <1>1, <1>5, <2>1 DEF WireInv
<1>7. ASSUME NEW i \in DOMAIN wire', NEW j \in DOMAIN wire', i < j, wire'[j].fseq > 0
      PROVE  wire'[i].fseq <= wire'[j].fseq
  <2>1. i + 1 \in DOMAIN wire /\ j + 1 \in DOMAIN wire /\ i + 1 < j + 1
    BY <1>1, <1>7
  <2>2. QED
    BY <1>1, <1>7, <2>1 DEF WireInv, Punctual
<1>8. QED
  BY <1>1, <1>4, <1>5, <1>6, <1>7 DEF WireInv, Punctual

LEMMA NoteFacts ==
  ASSUME TypeOK, HistoryType, wire # <<>>, wire' = Tail(wire), NEW lost \in BOOLEAN, Note(lost)
  PROVE  /\ HistoryType'
         /\ \A k \in Kinds : k # wire[1].kind => missed'[k] = missed[k] /\ deaf'[k] = deaf[k]
         /\ LET k == wire[1].kind
            IN /\ deaf'[k] = lost
               /\ missed'[k] = IF lost THEN missed[k] \cup Sids(wire[1].set)
                               ELSE missed[k] \ Sids(wire[1].set)
<1> DEFINE b == wire[1]
<1>1. b.kind \in Kinds /\ Sids(b.set) \subseteq Nat /\ Head(wire) = b
  BY OthersMove, OnTheWire DEF TypeOK
<1>2. /\ missed' = [missed EXCEPT ![b.kind] =
                      IF lost THEN @ \cup Sids(b.set) ELSE @ \ Sids(b.set)]
      /\ deaf' = [deaf EXCEPT ![b.kind] = lost]
  BY <1>1 DEF Note
<1> HIDE DEF b
<1>3. HistoryType'
  BY <1>1, <1>2 DEF HistoryType
<1>4. /\ \A k \in Kinds : k # b.kind => missed'[k] = missed[k] /\ deaf'[k] = deaf[k]
      /\ deaf'[b.kind] = lost
      /\ missed'[b.kind] = IF lost THEN missed[b.kind] \cup Sids(b.set)
                           ELSE missed[b.kind] \ Sids(b.set)
  BY <1>1, <1>2 DEF HistoryType
<1>5. QED
  BY <1>3, <1>4 DEF b

\* What the bundles behind the first one tell.
LEMMA LeavesWords ==
  ASSUME TypeOK, wire # <<>>, wire' = Tail(wire), NEW k, NEW s, NEW v
  PROVE  /\ LastWord(k, s, v) => LastWord(k, s, v)'
         /\ NotDropped(k, s) => NotDropped(k, s)'
         /\ (\A i \in DOMAIN wire' : ~Tells(wire'[i], k, s)) =>
              /\ ~LaterTells(1, k, s)
              /\ ~Tells(wire[1], k, s) => \A i \in DOMAIN wire : ~Tells(wire[i], k, s)
<1>1. /\ \A i \in DOMAIN wire' : i \in Nat /\ i + 1 \in DOMAIN wire /\ wire'[i] = wire[i + 1]
      /\ \A i \in DOMAIN wire : i \in Nat /\ i >= 1
      /\ \A i \in DOMAIN wire : i # 1 => i - 1 \in DOMAIN wire' /\ wire'[i - 1] = wire[i]
  BY OthersMove
<1>2. ASSUME NEW i \in DOMAIN wire', LaterTells(i + 1, k, s) PROVE LaterTells(i, k, s)'
  <2>1. PICK j \in DOMAIN wire : i + 1 < j /\ Tells(wire[j], k, s)
    BY <1>2 DEF LaterTells
  <2>2. j - 1 \in DOMAIN wire' /\ i < j - 1 /\ wire'[j - 1] = wire[j]
    BY <1>1, <2>1
  <2>3. Tells(wire'[j - 1], k, s)
    BY <2>1, <2>2
  <2>4. QED
    BY <2>2, <2>3 DEF LaterTells, Tells
<1>3. LastWord(k, s, v) => LastWord(k, s, v)'
  BY <1>1, <1>2 DEF LastWord
<1>4. NotDropped(k, s) => NotDropped(k, s)'
  BY <1>1, <1>2 DEF NotDropped
<1>5. ASSUME \A i \in DOMAIN wire' : ~Tells(wire'[i], k, s)
      PROVE  \A i \in DOMAIN wire : i # 1 => ~Tells(wire[i], k, s)
  BY <1>1, <1>5
<1>6. ASSUME \A i \in DOMAIN wire' : ~Tells(wire'[i], k, s)
      PROVE  /\ ~LaterTells(1, k, s)
             /\ ~Tells(wire[1], k, s) => \A i \in DOMAIN wire : ~Tells(wire[i], k, s)
  BY <1>1, <1>5, <1>6 DEF LaterTells
<1>7. QED
  BY <1>3, <1>4, <1>6

LEMMA LostSaid ==
  ASSUME TypeOK, HistoryType, Lose, Note(TRUE), NEW k \in Kinds, NEW s, NEW v, Said(k, s, v)
  PROVE  Said(k, s, v)'
<1>1. wire # <<>> /\ wire' = Tail(wire) /\ UNCHANGED <<seen, work>>
  BY DEF Lose, clientVars
<1>2. LastWord(k, s, v)' /\ NotDropped(k, s)'
  BY <1>1, LeavesWords DEF Said
<1>3. Known(k, s, v)'
  <2> SUFFICES ASSUME \A i \in DOMAIN wire' : ~Tells(wire'[i], k, s)
               PROVE  s \in missed'[k] \/ Shows(k, s, v)'
    BY DEF Known, Tells
  <2>1. CASE Tells(wire[1], k, s)
    BY <1>1, <2>1, NoteFacts DEF Tells
  <2>2. CASE ~Tells(wire[1], k, s)
    <3>1. s \in missed[k] \/ Shows(k, s, v)
      BY <1>1, <2>2, LeavesWords DEF Said, Known
    <3>2. s \in missed[k] => s \in missed'[k]
      BY <1>1, NoteFacts
    <3>3. QED
      BY <1>1, <3>1, <3>2 DEF Shows
  <2>3. QED
    BY <2>1, <2>2
<1>4. QED
  BY <1>2, <1>3 DEF Said

LEMMA ReceivedSaid ==
  ASSUME TypeOK, HistoryType, Receive, Note(FALSE), ~Late(Head(wire)), WellMade(Head(wire)),
         NEW k \in Kinds, NEW s, NEW v, Said(k, s, v)
  PROVE  Said(k, s, v)'
<1> DEFINE b == wire[1]
<1>1. /\ wire # <<>> /\ wire' = Tail(wire) /\ UNCHANGED seen
      /\ work.set = {} /\ work.gone = {} /\ WellMade(b) /\ 1 \in DOMAIN wire
      /\ work' = [kind |-> b.kind, set |-> News(b), gone |-> Sids(seen[b.kind]) \ b.alive]
  BY OthersMove DEF Receive
<1>w. work'.kind = b.kind /\ work'.set = News(b) /\ work'.gone = Sids(seen[b.kind]) \ b.alive
  BY <1>1
<1> HIDE DEF b
<1>2. LastWord(k, s, v)' /\ NotDropped(k, s)'
  BY <1>1, LeavesWords DEF Said
<1>3. Known(k, s, v)'
  <2> SUFFICES ASSUME \A i \in DOMAIN wire' : ~Tells(wire'[i], k, s)
               PROVE  s \in missed'[k] \/ Shows(k, s, v)'
    BY DEF Known, Tells
  <2>1. ~LaterTells(1, k, s)
    BY <1>1, LeavesWords
  <2>2. CASE Tells(b, k, s)
    <3>1. PICK m \in b.set : m.sid = s
      BY <2>2 DEF Tells, Sids
    <3>2. b.kind = k /\ m.pos = v
      BY <1>1, <2>1, <2>2, <3>1 DEF Said, LastWord, Tells, b
    <3>3. s \in b.alive /\ \A n \in b.set : n.sid = s => n = m
      BY <1>1, <3>1 DEF WellMade, OneEach, Sids
    <3>4. CASE m \in News(b)
      BY <1>w, <3>1, <3>2, <3>3, <3>4 DEF Shows
    <3>5. CASE m \notin News(b)
      <4>1. \E c \in seen[k] : c.sid = s /\ c.pos = v
        BY <3>1, <3>2, <3>5 DEF News
      <4>2. s \notin Sids(News(b))
        BY <3>3, <3>5 DEF News, Sids
      <4>3. QED
        BY <1>1, <1>w, <3>2, <3>3, <4>1, <4>2 DEF Shows
    <3>6. QED
      BY <3>4, <3>5
  <2>3. CASE ~Tells(b, k, s)
    <3>1. s \in missed[k] \/ Shows(k, s, v)
      BY <1>1, <2>3, LeavesWords DEF Said, Known, b
    <3>2. CASE s \in missed[k]
      BY <1>1, <2>3, <3>2, NoteFacts DEF Tells, b
    <3>3. CASE Shows(k, s, v)
      <4>1. \E c \in seen[k] : c.sid = s /\ c.pos = v
        BY <1>1, <3>3 DEF Shows
      <4>2. b.kind = k => s \in b.alive /\ s \notin Sids(News(b))
        BY <1>1, <2>1, <2>3 DEF Said, NotDropped, Tells, News, Sids, b
      <4>3. QED
        BY <1>1, <1>w, <4>1, <4>2 DEF Shows
    <3>4. QED
      BY <3>1, <3>2, <3>3
  <2>4. QED
    BY <2>2, <2>3
<1>4. QED
  BY <1>2, <1>3 DEF Said

LEMMA LeavesLists ==
  ASSUME TypeOK, wire # <<>>, wire' = Tail(wire), NEW k, NEW S, LastList(k, S)
  PROVE  /\ LastList(k, S)'
         /\ (\A i \in DOMAIN wire' : wire'[i].kind # k) =>
              /\ wire[1].kind # k => \A i \in DOMAIN wire : wire[i].kind # k
              /\ wire[1].kind = k => wire[1].alive = S
<1>1. /\ \A i \in DOMAIN wire' : i \in Nat /\ i + 1 \in DOMAIN wire /\ wire'[i] = wire[i + 1]
      /\ 1 \in DOMAIN wire /\ \A i \in DOMAIN wire : i \in Nat /\ i >= 1
      /\ \A i \in DOMAIN wire : i # 1 => i - 1 \in DOMAIN wire' /\ wire'[i - 1] = wire[i]
  BY OthersMove
<1>2. ASSUME NEW i \in DOMAIN wire', wire'[i].kind = k, wire'[i].alive # S
      PROVE  \E j \in DOMAIN wire' : i < j /\ wire'[j].kind = k
  <2>1. PICK j \in DOMAIN wire : i + 1 < j /\ wire[j].kind = k
    BY <1>1, <1>2 DEF LastList
  <2>2. j - 1 \in DOMAIN wire' /\ i < j - 1 /\ wire'[j - 1] = wire[j]
    BY <1>1, <2>1
  <2>3. QED
    BY <2>1, <2>2
<1>3. LastList(k, S)'
  BY <1>2 DEF LastList
<1>4. ASSUME \A i \in DOMAIN wire' : wire'[i].kind # k
      PROVE  \A i \in DOMAIN wire : i # 1 => wire[i].kind # k
  <2>1. ASSUME NEW i \in DOMAIN wire, i # 1 PROVE wire[i].kind # k
    <3>1. i - 1 \in DOMAIN wire' /\ wire'[i - 1] = wire[i]
      BY <1>1, <2>1
    <3>2. QED
      BY <1>4, <3>1
  <2>2. QED
    BY <2>1
<1>5. ASSUME \A i \in DOMAIN wire' : wire'[i].kind # k
      PROVE  /\ wire[1].kind # k => \A i \in DOMAIN wire : wire[i].kind # k
             /\ wire[1].kind = k => wire[1].alive = S
  BY <1>1, <1>4, <1>5 DEF LastList
<1>6. QED
  BY <1>3, <1>5

LEMMA LostListed ==
  ASSUME TypeOK, HistoryType, Lose, Note(TRUE), NEW k \in Kinds, NEW S, Listed(k, S)
  PROVE  Listed(k, S)'
<1>1. wire # <<>> /\ wire' = Tail(wire) /\ UNCHANGED <<seen, work>>
  BY DEF Lose, clientVars
<1>2. ListKnown(k, S)'
  <2> SUFFICES ASSUME \A i \in DOMAIN wire' : wire'[i].kind # k
               PROVE  deaf'[k] \/ Remaining(k)' \subseteq S
    BY DEF ListKnown
  <2>1. CASE wire[1].kind = k
    BY <1>1, <2>1, NoteFacts
  <2>2. CASE wire[1].kind # k
    <3>1. deaf[k] \/ Remaining(k) \subseteq S
      BY <1>1, <2>2, LeavesLists DEF Listed, ListKnown
    <3>2. deaf'[k] = deaf[k]
      BY <1>1, <2>2, NoteFacts
    <3>3. Remaining(k)' = Remaining(k)
      BY <1>1 DEF Remaining, Sids
    <3>4. QED
      BY <3>1, <3>2, <3>3
  <2>3. QED
    BY <2>1, <2>2
<1>3. QED
  BY <1>1, <1>2, LeavesLists DEF Listed

LEMMA ReceivedListed ==
  ASSUME TypeOK, HistoryType, Receive, Note(FALSE), ~Late(Head(wire)), WellMade(Head(wire)),
         NEW k \in Kinds, NEW S, Listed(k, S)
  PROVE  Listed(k, S)'
<1> DEFINE b == wire[1]
<1>1. /\ wire # <<>> /\ wire' = Tail(wire) /\ UNCHANGED seen
      /\ work.set = {} /\ work.gone = {} /\ WellMade(b)
      /\ work' = [kind |-> b.kind, set |-> News(b), gone |-> Sids(seen[b.kind]) \ b.alive]
  BY OthersMove DEF Receive
<1>w. work'.kind = b.kind /\ work'.set = News(b) /\ work'.gone = Sids(seen[b.kind]) \ b.alive
  BY <1>1
<1> HIDE DEF b
<1>2. ListKnown(k, S)'
  <2> SUFFICES ASSUME \A i \in DOMAIN wire' : wire'[i].kind # k
               PROVE  deaf'[k] \/ Remaining(k)' \subseteq S
    BY DEF ListKnown
  <2>1. CASE b.kind = k
    <3>1. b.alive = S
      BY <1>1, <2>1, LeavesLists DEF Listed, b
    <3>2. Sids(News(b)) \subseteq b.alive
      BY <1>1 DEF WellMade, News, Sids
    <3>3. Remaining(k)' = (Sids(seen[k]) \cup Sids(News(b))) \ (Sids(seen[k]) \ b.alive)
      BY <1>1, <1>w, <2>1 DEF Remaining, Sids
    <3>4. QED
      BY <3>1, <3>2, <3>3
  <2>2. CASE b.kind # k
    <3>1. deaf[k] \/ Remaining(k) \subseteq S
      BY <1>1, <2>2, LeavesLists DEF Listed, ListKnown, b
    <3>2. deaf'[k] = deaf[k]
      BY <1>1, <2>2, NoteFacts DEF b
    <3>3. Remaining(k) = Sids(seen[k]) /\ Remaining(k)' = Sids(seen[k])
      BY <1>1, <1>w, <2>2 DEF Remaining, Sids
    <3>4. QED
      BY <3>1, <3>2, <3>3
  <2>3. QED
    BY <2>1, <2>2
<1>3. QED
  BY <1>1, <1>2, LeavesLists DEF Listed

\* Steps of the transport and of the receiver: what was said and listed stays so.
LEMMA ClientMirrors ==
  ASSUME MirrorInv, UNCHANGED serverVars, WireInv', WorkInv', HistoryType',
         \A k \in Kinds : \A s, v : Said(k, s, v) => Said(k, s, v)',
         \A k \in Kinds : \A S : Listed(k, S) => Listed(k, S)'
  PROVE  MirrorInv'
<1>1. UNCHANGED <<phase, sweeping, currentFrame, sessionID, list, updated>>
  BY DEF serverVars
<1>2. ManagerInv'
  BY <1>1 DEF MirrorInv, ManagerInv, OneEach, Framing
<1>3. SaidInv'
  BY <1>1 DEF MirrorInv, SaidInv, Framing
<1>4. ListedInv'
  BY <1>1 DEF MirrorInv, ListedInv, Framing
<1>5. QED
  BY <1>2, <1>3, <1>4 DEF MirrorInv

LEMMA LoseMirrors ==
  ASSUME IInv, MirrorInv, Lose, Note(TRUE)
  PROVE  MirrorInv'
<1>1. /\ TypeOK /\ HistoryType /\ wire # <<>> /\ wire' = Tail(wire)
      /\ UNCHANGED <<currentFrame, frame, seen, work>> /\ UNCHANGED serverVars
  BY DEF IInv, MirrorInv, Lose, serverVars, clientVars
<1>2. WireInv'
  BY <1>1, LeavesInTime DEF MirrorInv
<1>3. HistoryType'
  BY <1>1, NoteFacts
<1>4. WorkInv'
  BY <1>1 DEF MirrorInv, WorkInv, OneEach, Sids
<1>5. \A k \in Kinds : \A s, v : Said(k, s, v) => Said(k, s, v)'
  BY <1>1, LostSaid
<1>6. \A k \in Kinds : \A S : Listed(k, S) => Listed(k, S)'
  BY <1>1, LostListed
<1>7. QED
  BY <1>1, <1>2, <1>3, <1>4, <1>5, <1>6, ClientMirrors

LEMMA ReceiveMirrors ==
  ASSUME IInv, MirrorInv, Receive, Note(FALSE)
  PROVE  MirrorInv'
<1> DEFINE b == Head(wire)
<1>1. /\ TypeOK /\ HistoryType /\ WireInv /\ wire # <<>> /\ wire' = Tail(wire)
      /\ UNCHANGED <<currentFrame, seen>> /\ UNCHANGED serverVars
      /\ frame' \in {frame} \cup (IF b.fseq > 0 THEN {b.fseq} ELSE {})
  BY DEF IInv, MirrorInv, Receive, serverVars
<1>2. WireInv' /\ ~Late(b) /\ WellMade(b)
  BY <1>1, LeavesInTime
<1>3. work'.set = News(b) /\ work'.gone = Sids(seen[b.kind]) \ b.alive
  BY <1>2 DEF Receive
<1> HIDE DEF b
<1>4. HistoryType'
  BY <1>1, NoteFacts
<1>5. WorkInv'
  <2>1. OneEach(News(b)) /\ Sids(News(b)) \subseteq b.alive
    BY <1>2 DEF WellMade, OneEach, News, Sids
  <2>2. QED
    BY <1>1, <1>3, <2>1 DEF MirrorInv, WorkInv, OneEach, Sids
<1>6. \A k \in Kinds : \A s, v : Said(k, s, v) => Said(k, s, v)'
  BY <1>1, <1>2, ReceivedSaid DEF b
<1>7. \A k \in Kinds : \A S : Listed(k, S) => Listed(k, S)'
  BY <1>1, <1>2, ReceivedListed DEF b
<1>8. QED
  BY <1>1, <1>2, <1>4, <1>5, <1>6, <1>7, ClientMirrors

\* The receiver's work does not change what it will show.
LEMMA WorkKeeps ==
  ASSUME IInv, MirrorInv, WorkInv', UNCHANGED <<serverVars, wire, frame, history>>,
         \A k \in Kinds : \A s, v : Shows(k, s, v) => Shows(k, s, v)',
         \A k \in Kinds : Remaining(k)' \subseteq Remaining(k)
  PROVE  MirrorInv'
<1>1. UNCHANGED <<currentFrame, wire, frame, missed, deaf>>
  BY DEF serverVars, history
<1>2. WireInv' /\ HistoryType'
  BY <1>1 DEF MirrorInv, WireInv, Punctual, HistoryType
<1>3. ASSUME NEW k \in Kinds, NEW s, NEW v, Said(k, s, v) PROVE Said(k, s, v)'
  <2>1. (LastWord(k, s, v) /\ NotDropped(k, s))'
    BY <1>1, <1>3 DEF Said, LastWord, NotDropped, LaterTells, Tells
  <2>2. Known(k, s, v)'
    BY <1>1, <1>3 DEF Said, Known, Tells
  <2>3. QED
    BY <2>1, <2>2 DEF Said
<1>4. ASSUME NEW k \in Kinds, NEW S, Listed(k, S) PROVE Listed(k, S)'
  <2>1. LastList(k, S)'
    BY <1>1, <1>4 DEF Listed, LastList
  <2>2. ListKnown(k, S)'
    BY <1>1, <1>4 DEF Listed, ListKnown
  <2>3. QED
    BY <2>1, <2>2 DEF Listed
<1>5. QED
  BY <1>2, <1>3, <1>4, ClientMirrors

LEMMA ProcessSetMirrors ==
  ASSUME IInv, MirrorInv, ProcessSet, UNCHANGED history
  PROVE  MirrorInv'
<1> DEFINE k == work.kind
<1>1. TypeOK /\ k \in Kinds /\ WorkInv /\ OneEach(seen[k]) /\ OneEach(work.set)
  BY DEF IInv, TypeOK, Work, MirrorInv, WorkInv
<1>2. PICK m \in work.set, sp \in Speeds :
        /\ work' = [work EXCEPT !.set = @ \ {m}]
        /\ IF m.sid \in Sids(seen[k])
           THEN seen' = [seen EXCEPT ![k] =
                  {IF c.sid = m.sid THEN [c EXCEPT !.pos = m.pos, !.speed = sp] ELSE c :
                     c \in @}]
           ELSE \E took \in ClientTake(Cardinality(seen[k]), seenPool[k]) :
                  seen' = [seen EXCEPT ![k] = @ \cup
                    {[sid |-> m.sid, id |-> took.id, pos |-> m.pos, speed |-> 0]}]
  <2>1. PICK m \in work.set :
          /\ work' = [work EXCEPT !.set = @ \ {m}]
          /\ IF m.sid \in Sids(seen[k])
             THEN \E sp \in SpeedsAfter(k, m) :
                    seen' = [seen EXCEPT ![k] =
                      {IF c.sid = m.sid THEN [c EXCEPT !.pos = m.pos, !.speed = sp] ELSE c :
                         c \in @}]
             ELSE \E took \in ClientTake(Cardinality(seen[k]), seenPool[k]) :
                    seen' = [seen EXCEPT ![k] = @ \cup
                      {[sid |-> m.sid, id |-> took.id, pos |-> m.pos, speed |-> 0]}]
    BY DEF ProcessSet
  <2>2. SpeedsAfter(k, m) \subseteq Speeds /\ 0 \in Speeds
    BY <1>1, ContactsAssumption DEF TypeOK, Work, Message, SpeedsAfter, ContactsAssumption
  <2> HIDE DEF k
  <2>3. QED
    BY <2>1, <2>2
<1>3. work'.kind = k /\ work'.set = work.set \ {m} /\ work'.gone = work.gone
  BY <1>1, <1>2 DEF TypeOK, Work
<1>4. /\ \A j \in Kinds \ {k} : seen'[j] = seen[j]
      /\ \A c \in seen'[k] : c.sid \in Sids(seen[k]) \cup {m.sid}
      /\ \E c \in seen'[k] : c.sid = m.sid /\ c.pos = m.pos
      /\ \A c \in seen[k] : c.sid # m.sid => c \in seen'[k]
      /\ OneEach(seen'[k])
  <2>1. CASE m.sid \in Sids(seen[k])
    <3> DEFINE F(c) == IF c.sid = m.sid THEN [c EXCEPT !.pos = m.pos, !.speed = sp] ELSE c
    <3>1. seen' = [seen EXCEPT ![k] = {F(c) : c \in seen[k]}]
      BY <1>2, <2>1
    <3>2. \A c \in seen[k] : /\ F(c).sid = c.sid
                             /\ IF c.sid = m.sid THEN F(c).pos = m.pos ELSE F(c) = c
      <4>1. \A c \in SeenContact :
              /\ F(c).sid = c.sid
              /\ IF c.sid = m.sid THEN F(c).pos = m.pos ELSE F(c) = c
        BY DEF SeenContact
      <4>2. QED
        BY <1>1, <4>1 DEF TypeOK
    <3> HIDE DEF F
    <3>3. seen'[k] = {F(c) : c \in seen[k]} /\ \A j \in Kinds \ {k} : seen'[j] = seen[j]
      BY <1>1, <3>1 DEF TypeOK
    <3>4. QED
      BY <1>1, <2>1, <3>2, <3>3 DEF OneEach, Sids
  <2>2. CASE m.sid \notin Sids(seen[k])
    <3>1. PICK took \in ClientTake(Cardinality(seen[k]), seenPool[k]) :
            seen' = [seen EXCEPT ![k] = @ \cup
              {[sid |-> m.sid, id |-> took.id, pos |-> m.pos, speed |-> 0]}]
      BY <1>2, <2>2
    <3> DEFINE new == [sid |-> m.sid, id |-> took.id, pos |-> m.pos, speed |-> 0]
    <3>2. new.sid = m.sid /\ new.pos = m.pos
      OBVIOUS
    <3>3. seen' = [seen EXCEPT ![k] = seen[k] \cup {new}]
      BY <3>1
    <3> HIDE DEF new
    <3>4. seen'[k] = seen[k] \cup {new} /\ \A j \in Kinds \ {k} : seen'[j] = seen[j]
      BY <1>1, <3>3 DEF TypeOK
    <3>5. QED
      BY <1>1, <2>2, <3>2, <3>4 DEF OneEach, Sids
  <2>3. QED
    BY <2>1, <2>2
<1>5. UNCHANGED <<serverVars, wire, frame>>
  BY DEF ProcessSet
<1> HIDE DEF k
<1>6. WorkInv'
  <2>1. OneEach(work'.set) /\ Sids(work'.set) \cap work'.gone = {}
    BY <1>1, <1>3 DEF WorkInv, OneEach, Sids
  <2>2. \A j \in Kinds : OneEach(seen'[j])
    BY <1>1, <1>4 DEF WorkInv
  <2>3. QED
    BY <2>1, <2>2 DEF WorkInv, OneEach, Sids
<1>7. ASSUME NEW j \in Kinds, NEW s, NEW v, Shows(j, s, v) PROVE Shows(j, s, v)'
  <2>1. CASE j # k
    BY <1>3, <1>4, <1>7, <2>1 DEF Shows, k
  <2>2. CASE j = k
    <3>1. s \notin work'.gone
      BY <1>3, <1>7, <2>2 DEF Shows, k
    <3>2. CASE \E n \in work.set : n.sid = s /\ n.pos = v
      <4>1. PICK n \in work.set : n.sid = s /\ n.pos = v
        BY <3>2
      <4>2. CASE n = m
        <5>1. s \notin Sids(work'.set)
          BY <1>1, <1>3, <4>1, <4>2 DEF OneEach, Sids
        <5>2. QED
          BY <1>4, <2>2, <3>1, <4>1, <4>2, <5>1 DEF Shows
      <4>3. CASE n # m
        BY <1>3, <2>2, <3>1, <4>1, <4>3 DEF Shows
      <4>4. QED
        BY <4>2, <4>3
    <3>3. CASE s \notin Sids(work.set) /\ \E c \in seen[k] : c.sid = s /\ c.pos = v
      <4>1. s # m.sid /\ s \notin Sids(work'.set)
        BY <1>2, <1>3, <3>3 DEF Sids
      <4>2. QED
        BY <1>4, <2>2, <3>1, <3>3, <4>1 DEF Shows
    <3>4. QED
      BY <1>7, <2>2, <3>2, <3>3 DEF Shows, k
  <2>3. QED
    BY <2>1, <2>2
<1>8. ASSUME NEW j \in Kinds PROVE Remaining(j)' \subseteq Remaining(j)
  <2>1. CASE j # k
    BY <1>3, <1>4, <2>1 DEF Remaining, Sids, k
  <2>2. CASE j = k
    <3>1. Remaining(j)' = (Sids(seen'[k]) \cup Sids(work'.set)) \ work'.gone
      BY <1>3, <2>2 DEF Remaining, Sids
    <3>2. Remaining(j) = (Sids(seen[k]) \cup Sids(work.set)) \ work.gone
      BY <2>2 DEF Remaining, k
    <3>3. Sids(seen'[k]) \cup Sids(work'.set) \subseteq Sids(seen[k]) \cup Sids(work.set)
      <4>1. m \in work.set
        OBVIOUS
      <4>2. QED
        BY <1>3, <1>4, <4>1 DEF Sids
    <3>4. QED
      BY <1>3, <3>1, <3>2, <3>3
  <2>3. QED
    BY <2>1, <2>2
<1>9. QED
  BY <1>5, <1>6, <1>7, <1>8, WorkKeeps

LEMMA ProcessGoneMirrors ==
  ASSUME IInv, MirrorInv, ProcessGone, UNCHANGED history
  PROVE  MirrorInv'
<1> DEFINE k == work.kind
<1>1. TypeOK /\ k \in Kinds /\ WorkInv /\ OneEach(seen[k])
  BY DEF IInv, TypeOK, Work, MirrorInv, WorkInv
<1>2. PICK c \in seen[k] :
        /\ c.sid \in work.gone /\ work' = [work EXCEPT !.gone = @ \ {c.sid}]
        /\ seen' = [seen EXCEPT ![k] = seen[k] \ {c}]
  BY DEF ProcessGone
<1>3. /\ work.set = {} /\ UNCHANGED <<serverVars, wire, frame>>
      /\ work'.kind = k /\ work'.set = {} /\ work'.gone = work.gone \ {c.sid}
  BY <1>1, <1>2 DEF ProcessGone, TypeOK, Work
<1>4. seen'[k] = seen[k] \ {c} /\ \A j \in Kinds \ {k} : seen'[j] = seen[j]
  BY <1>1, <1>2 DEF TypeOK
<1> HIDE DEF k
<1>5. WorkInv'
  <2>1. OneEach(work'.set) /\ Sids(work'.set) \cap work'.gone = {}
    BY <1>3 DEF OneEach, Sids
  <2>2. \A j \in Kinds : OneEach(seen'[j])
    BY <1>1, <1>4 DEF WorkInv, OneEach
  <2>3. QED
    BY <2>1, <2>2 DEF WorkInv, OneEach, Sids
<1>6. ASSUME NEW j \in Kinds, NEW s, NEW v, Shows(j, s, v) PROVE Shows(j, s, v)'
  <2>1. CASE j # k
    BY <1>3, <1>4, <1>6, <2>1 DEF Shows, k
  <2>2. CASE j = k
    <3>1. s \notin work.gone /\ \E d \in seen[k] : d.sid = s /\ d.pos = v
      BY <1>3, <1>6, <2>2 DEF Shows, k
    <3>2. \E d \in seen'[k] : d.sid = s /\ d.pos = v
      BY <1>2, <1>4, <3>1
    <3>3. QED
      BY <1>3, <2>2, <3>1, <3>2 DEF Shows, Sids
  <2>3. QED
    BY <2>1, <2>2
<1>7. ASSUME NEW j \in Kinds PROVE Remaining(j)' \subseteq Remaining(j)
  <2>1. CASE j # k
    BY <1>3, <1>4, <2>1 DEF Remaining, Sids, k
  <2>2. CASE j = k
    <3>1. Sids(work.set) = {} /\ Sids(work'.set) = {}
      BY <1>3 DEF Sids
    <3>2. Remaining(j)' = Sids(seen'[k]) \ work'.gone
      BY <1>3, <2>2, <3>1 DEF Remaining, Sids
    <3>3. Remaining(j) = Sids(seen[k]) \ work.gone
      BY <2>2, <3>1 DEF Remaining, k
    <3>4. c.sid \notin Sids(seen'[k])
      BY <1>1, <1>4 DEF OneEach, Sids
    <3>5. Sids(seen'[k]) \subseteq Sids(seen[k])
      BY <1>4 DEF Sids
    <3>6. QED
      BY <1>3, <3>2, <3>3, <3>4, <3>5
  <2>3. QED
    BY <2>1, <2>2
<1>8. QED
  BY <1>3, <1>5, <1>6, <1>7, WorkKeeps

LEMMA NextMirror == IInv /\ MirrorInv /\ [MCNext]_<<vars, history>> => MirrorInv'
<1> SUFFICES ASSUME IInv, MirrorInv, [MCNext]_<<vars, history>> PROVE MirrorInv'
  OBVIOUS
<1>1. CASE Server /\ UNCHANGED history
  BY <1>1, ServerMirrors
<1>2. CASE Lose /\ Note(TRUE)
  BY <1>2, LoseMirrors
<1>3. CASE Receive /\ Note(FALSE)
  BY <1>3, ReceiveMirrors
<1>4. CASE (ProcessSet \/ ProcessGone) /\ UNCHANGED history
  BY <1>4, ProcessSetMirrors, ProcessGoneMirrors
<1>5. CASE UNCHANGED <<vars, history>>
  <2>1. UNCHANGED <<serverVars, wire, frame, seen, work, missed, deaf>>
    BY <1>5 DEF vars, clientVars, history
  <2>2. WorkInv'
    BY <2>1 DEF MirrorInv, WorkInv, OneEach, Sids
  <2>3. \A k \in Kinds : \A s, v : Shows(k, s, v) => Shows(k, s, v)'
    BY <2>1 DEF Shows, Sids
  <2>4. \A k \in Kinds : Remaining(k)' \subseteq Remaining(k)
    BY <2>1 DEF Remaining, Sids
  <2>5. QED
    BY <2>1, <2>2, <2>3, <2>4, WorkKeeps DEF history
<1>6. QED
  BY <1>1, <1>2, <1>3, <1>4, <1>5 DEF MCNext

\* What was said is what is shown, when nothing is on its way.
LEMMA MirrorShows == IInv /\ MirrorInv => ReceiverMirrors
<1> SUFFICES ASSUME IInv, MirrorInv, wire = <<>>, work.set = {}, work.gone = {},
                    NEW k \in Kinds, ~deaf[k]
             PROVE  /\ phase = "idle" =>
                         /\ Sids(seen[k]) \subseteq Sids(list[k])
                         /\ \A c \in list[k] : c.sid \notin missed[k] =>
                              \E v \in seen[k] : v.sid = c.sid /\ v.pos = c.pos
                    /\ phase = "gone" => seen[k] = {}
  BY DEF ReceiverMirrors
<1>1. DOMAIN wire = {}
  OBVIOUS
<1>2. Remaining(k) = Sids(seen[k])
  BY DEF Remaining, Sids
<1>3. ASSUME NEW S, Listed(k, S) PROVE Sids(seen[k]) \subseteq S
  BY <1>1, <1>2, <1>3 DEF Listed, ListKnown
<1>4. ASSUME phase = "idle" PROVE Sids(seen[k]) \subseteq Sids(list[k])
  BY <1>3, <1>4 DEF MirrorInv, ManagerInv, ListedInv
<1>5. ASSUME phase = "idle", NEW c \in list[k], c.sid \notin missed[k]
      PROVE  \E v \in seen[k] : v.sid = c.sid /\ v.pos = c.pos
  <2>1. Known(k, c.sid, c.pos)
    BY <1>5 DEF MirrorInv, SaidInv, Said
  <2>2. Shows(k, c.sid, c.pos)
    BY <1>1, <1>5, <2>1 DEF Known
  <2>3. QED
    BY <2>2 DEF Shows
<1>6. ASSUME phase = "gone" PROVE seen[k] = {}
  <2>1. Sids(seen[k]) \subseteq {}
    BY <1>3, <1>6 DEF MirrorInv, ListedInv
  <2>2. QED
    BY <2>1 DEF Sids
<1>7. QED
  BY <1>4, <1>5, <1>6

\* However many contacts a frame touches, into however many bundles it is split
\* and whichever of them are lost: once everything sent has arrived or was lost,
\* the receiver lists no contact that has gone, unless the last bundle of its
\* kind was lost, and every contact whose last message it got, where it
\* is; after the destructor of the server it lists none (TuioManager.cpp,
\* TuioServer::commitFrame, TuioClient::ProcessMessage).
THEOREM ReceiverMirrorsManager == MCSpec => []ReceiverMirrors
<1>1. MCInit => IInv /\ MirrorInv
  BY InitIInv, InitMirror DEF MCInit
<1>2. IInv /\ MirrorInv /\ [MCNext]_<<vars, history>> => (IInv /\ MirrorInv)'
  <2> SUFFICES ASSUME IInv, MirrorInv, [MCNext]_<<vars, history>> PROVE (IInv /\ MirrorInv)'
    OBVIOUS
  <2>1. [Next]_vars
    BY DEF MCNext, Next, Client
  <2>2. QED
    BY <2>1, NextIInv, NextMirror
<1>3. IInv /\ MirrorInv => ReceiverMirrors
  BY MirrorShows
<1>4. QED
  BY <1>1, <1>2, <1>3, PTL DEF MCSpec

=============================================================================
