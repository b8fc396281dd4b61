-------------------------- MODULE LifecycleProofs ---------------------------
(***************************************************************************)
(* Proofs about Lifecycle, for every set of texts after --websocket, every *)
(* conversion of texts to integers and every combination of options.       *)
(***************************************************************************)
EXTENDS Lifecycle, SequenceTheorems, TLAPS

(***************************************************************************)
(* The plan of main: the phases in todo.  Each object that the options ask *)
(* for is, or will be, in the last phase of the plan; an object is not     *)
(* begun before its base class subscribes, and that happens once.          *)
(***************************************************************************)
Used == IF args.tuio THEN Objects ELSE Objects \ {"tuio"}

\* A constructor or destructor that has begun will be done.
Finishes(plan, final) ==
  \A i \in DOMAIN plan : plan[i][2] # final =>
    \E j \in DOMAIN plan : i < j /\ plan[j] = <<plan[i][1], final>>

Towards(final) ==
  /\ Finishes(todo, final)
  /\ \A o \in Used : phase[o] = final \/ \E i \in DOMAIN todo : todo[i] = <<o, final>>

\* The plan begins an object with its base, and no object twice.
Begins ==
  \A i \in DOMAIN todo :
    LET o == todo[i][1]
        before == {j \in DOMAIN todo : j < i}
    IN  IF todo[i][2] = "base"
        THEN phase[o] = "none" /\ \A j \in before : todo[j][1] # o
        ELSE phase[o] # "none" \/ \E j \in before : todo[j] = <<o, "base">>

Planned ==
  /\ todo \in Seq(Used \X (Phases \ {"none"}))
  /\ \A o \in Objects \ Used : phase[o] = "none"
  /\ Begins
  /\ phase["websocket"] # "none" =>
       args.websocket # <<>> /\ args.websocket[1] \in DOMAIN PortOf

Building == {"base", "body", "live"}

Deleting == {"closing", "stripped", "gone"}

AtStart == pc \in {"parse", "usage", "camera", "depth"}

\* Where main is after its destructors have begun, unless an exception led there.
AtEnd == \/ pc \in {"delete", "close", "closed"}
         \/ pc \in {"drop", "exit", "exited"} /\ error = "none"

Stages ==
  /\ AtStart => todo = <<>> /\ \A o \in Objects : phase[o] = "none"
  /\ pc = "build" => Towards("live")
  /\ pc \in {"loop", "update"} => todo = <<>> /\ \A o \in Used : phase[o] = "live"
  /\ AtEnd => Towards("gone") /\ (pc # "delete" => todo = <<>>)
  /\ pc \in {"delete", "unwind"} => \A i \in DOMAIN todo : todo[i][2] \in Deleting
  /\ pc \in {"catch", "unwind"} => error # "none"

(***************************************************************************)
(* Who is subscribed, and who is being called.                             *)
(***************************************************************************)
Begun == {o \in Objects : phase[o] # "none"}

\* Nobody is called twice for one frame or one notification.
Distinct(slots) == \A i, j \in DOMAIN slots : slots[i] = slots[j] => i = j

Slots ==
  /\ ToSet(observers) \subseteq Begun
  /\ \A o \in ToSet(publishers) : phase[o] \notin {"none", "gone"}
  /\ Distinct(observers) /\ Distinct(publishers)

Called ==
  /\ frame.in \subseteq Begun
  /\ frame.in \cap Publishers # {} => "tracker" \in frame.in
  /\ frame.at # "calls" => frame.in = {} /\ frame.slots = <<>> /\ frame.inner = <<>>

(***************************************************************************)
(* What keeps threads apart: a VideoStream delivers on main, no frame      *)
(* comes while the crop window is open, and the streams end before the     *)
(* camera does.                                                            *)
(***************************************************************************)
Apart ==
  /\ (access["color"] # "none") <=> (frame.at = "table")
  /\ access["main"] # "none" =>
       \/ pc = "aborted"
       \/ pc = "build" /\ \E o \in CameraObservers : NextIs(o, "base")
  /\ cropping => frame = NoFrame /\ access["depth"] = "none"
  /\ args.camera = "VideoStream" =>
       /\ pc # "depth" /\ streams = {} /\ access["depth"] = "none"
       /\ pc # "update" => frame = NoFrame

Stopped ==
  /\ pc \in {"parse", "usage", "camera"} => streams = {}
  /\ pc = "close" => "color" \notin streams
  /\ AtEnd /\ pc \notin {"delete", "close"} => streams = {} /\ frame = NoFrame
  /\ AtEnd /\ pc \in {"drop", "exit", "exited"} => access["depth"] = "none" /\ observers = <<>>

IInv == TypeOK /\ Planned /\ Stages /\ Slots /\ Called /\ Apart /\ Stopped

-----------------------------------------------------------------------------
(***************************************************************************)
(* Lemmas about plans                                                      *)
(***************************************************************************)
\* What is left of a plan after its first phase.
LEMMA NextIsFirst ==
  ASSUME NEW S, todo \in Seq(S), NEW o, NEW ph, NextIs(o, ph), Enter(o, ph)
  PROVE  /\ todo[1] = <<o, ph>> /\ <<o, ph>> \in S
         /\ 1 \in DOMAIN todo /\ DOMAIN todo \subseteq Nat \ {0}
         /\ todo' \in Seq(S) /\ DOMAIN todo' \subseteq Nat \ {0}
         /\ \A i \in DOMAIN todo' : i + 1 \in DOMAIN todo /\ todo'[i] = todo[i + 1]
         /\ \A i \in DOMAIN todo \ {1} : i - 1 \in DOMAIN todo' /\ todo'[i - 1] = todo[i]
<1>1. todo # <<>> /\ Len(todo) \in Nat \ {0} /\ DOMAIN todo = 1 .. Len(todo)
  BY DEF NextIs
<1>2. /\ Head(todo) = todo[1] /\ todo[1] \in S
      /\ todo' \in Seq(S) /\ Len(todo') = Len(todo) - 1
      /\ \A i \in 1 .. Len(todo') : todo'[i] = todo[i + 1]
  BY <1>1 DEF Enter
<1>3. DOMAIN todo' = 1 .. (Len(todo) - 1)
  BY <1>2
<1>4. ASSUME NEW i \in DOMAIN todo \ {1}
      PROVE  i - 1 \in DOMAIN todo' /\ todo'[i - 1] = todo[i]
  <2>1. i - 1 \in 1 .. (Len(todo) - 1) /\ (i - 1) + 1 = i
    BY <1>1
  <2>2. QED
    BY <1>2, <1>3, <2>1
<1>5. \A i \in DOMAIN todo' : i + 1 \in DOMAIN todo /\ todo'[i] = todo[i + 1]
  BY <1>1, <1>2, <1>3
<1>6. DOMAIN todo \subseteq Nat \ {0} /\ DOMAIN todo' \subseteq Nat \ {0} /\ 1 \in DOMAIN todo
  BY <1>1, <1>3
<1>7. QED
  BY <1>2, <1>4, <1>5, <1>6 DEF NextIs

\* A phase on the way: what was to be done is done or still to be done.
LEMMA EnterTowards ==
  ASSUME NEW S, todo \in Seq(S), phase \in [Objects -> Phases],
         NEW o, NEW ph, NextIs(o, ph), Enter(o, ph), UNCHANGED args,
         NEW final, Towards(final)
  PROVE  Towards(final)'
<1>1. /\ todo[1] = <<o, ph>> /\ 1 \in DOMAIN todo /\ DOMAIN todo \subseteq Nat
      /\ \A i \in DOMAIN todo' : i + 1 \in DOMAIN todo /\ todo'[i] = todo[i + 1]
      /\ \A i \in DOMAIN todo \ {1} : i - 1 \in DOMAIN todo' /\ todo'[i - 1] = todo[i]
      /\ DOMAIN todo' \subseteq Nat \ {0}
  BY NextIsFirst
<1>2. Finishes(todo', final)
  <2> SUFFICES ASSUME NEW i \in DOMAIN todo', todo'[i][2] # final
               PROVE  \E j \in DOMAIN todo' : i < j /\ todo'[j] = <<todo'[i][1], final>>
    BY DEF Finishes
  <2>1. PICK k \in DOMAIN todo : i + 1 < k /\ todo[k] = <<todo[i + 1][1], final>>
    BY <1>1 DEF Towards, Finishes
  <2>2. k \in Nat /\ i \in Nat /\ k # 1 /\ i < k - 1
    BY <1>1, <2>1
  <2>3. QED
    BY <1>1, <2>1, <2>2
<1>3. ASSUME NEW u \in Used
      PROVE  phase'[u] = final \/ \E i \in DOMAIN todo' : todo'[i] = <<u, final>>
  <2>1. u \in Objects
    BY DEF Used
  <2>2. CASE phase[u] = final /\ u # o
    BY <2>1, <2>2 DEF Enter
  <2>3. CASE u = o /\ ph = final
    BY <2>1, <2>3 DEF Enter
  <2>4. CASE u = o /\ ph # final
    <3>1. PICK k \in DOMAIN todo : 1 < k /\ todo[k] = <<o, final>>
      BY <1>1, <2>4 DEF Towards, Finishes
    <3>2. k \in DOMAIN todo \ {1}
      BY <3>1
    <3>3. QED
      BY <1>1, <2>4, <3>1, <3>2
  <2>5. CASE u # o /\ \E i \in DOMAIN todo : todo[i] = <<u, final>>
    BY <1>1, <2>5
  <2>6. QED
    BY <2>2, <2>3, <2>4, <2>5 DEF Towards
<1>4. Used' = Used
  BY DEF Used
<1>5. QED
  BY <1>2, <1>3, <1>4 DEF Towards

LEMMA EnterPlanned ==
  ASSUME TypeOK, Planned, NEW o, NEW ph, NextIs(o, ph), Enter(o, ph), UNCHANGED args,
         o = "websocket" /\ ph = "base" =>
           args.websocket # <<>> /\ args.websocket[1] \in DOMAIN PortOf
  PROVE  Planned' /\ o \in Used /\ ph \in Phases \ {"none"}
<1> DEFINE S == Used \X (Phases \ {"none"})
<1>1. /\ todo[1] = <<o, ph>> /\ <<o, ph>> \in S
      /\ 1 \in DOMAIN todo /\ DOMAIN todo \subseteq Nat \ {0}
      /\ todo' \in Seq(S) /\ DOMAIN todo' \subseteq Nat \ {0}
      /\ \A i \in DOMAIN todo' : i + 1 \in DOMAIN todo /\ todo'[i] = todo[i + 1]
      /\ \A i \in DOMAIN todo \ {1} : i - 1 \in DOMAIN todo' /\ todo'[i - 1] = todo[i]
  BY NextIsFirst DEF Planned
<1>2. o \in Used /\ o \in Objects /\ ph \in Phases \ {"none"} /\ Used' = Used
  BY <1>1 DEF Used
<1>t. phase \in [Objects -> Phases]
  BY DEF TypeOK
<1>3. phase' = [phase EXCEPT ![o] = ph] /\ phase \in [Objects -> Phases]
  BY <1>t DEF Enter
<1>4. \A u \in Objects \ Used' : phase'[u] = "none"
  BY <1>2, <1>3 DEF Planned
<1>5. phase'["websocket"] # "none" =>
        args'.websocket # <<>> /\ args'.websocket[1] \in DOMAIN PortOf
  <2>1. CASE o = "websocket" /\ ph # "base"
    <3>1. \A j \in DOMAIN todo : ~(j < 1)
      BY <1>1
    <3>2. todo[1][1] = "websocket" /\ todo[1][2] # "base"
      BY <1>1, <2>1
    <3>3. \/ phase[todo[1][1]] # "none"
          \/ \E j \in {k \in DOMAIN todo : k < 1} : todo[j] = <<todo[1][1], "base">>
      BY <1>1, <3>2 DEF Planned, Begins
    <3>4. phase["websocket"] # "none"
      BY <3>1, <3>2, <3>3
    <3>5. QED
      BY <3>4 DEF Planned
  <2>2. CASE o # "websocket"
    BY <1>3, <2>2 DEF Planned
  <2>3. CASE o = "websocket" /\ ph = "base"
    BY <2>3
  <2>4. QED
    BY <2>1, <2>2, <2>3
<1>6. Begins'
  <2> SUFFICES ASSUME NEW i \in DOMAIN todo'
               PROVE  IF todo'[i][2] = "base"
                      THEN /\ phase'[todo'[i][1]] = "none"
                           /\ \A j \in DOMAIN todo' : j < i => todo'[j][1] # todo'[i][1]
                      ELSE \/ phase'[todo'[i][1]] # "none"
                           \/ \E j \in DOMAIN todo' : j < i /\ todo'[j] = <<todo'[i][1], "base">>
    BY DEF Begins
  <2>1. /\ i + 1 \in DOMAIN todo /\ todo'[i] = todo[i + 1] /\ i \in Nat /\ 1 < i + 1
        /\ todo'[i][1] \in Objects
    BY <1>1 DEF Used
  <2>2. CASE todo'[i][2] = "base"
    <3>1. /\ phase[todo[i + 1][1]] = "none"
          /\ \A j \in DOMAIN todo : j < i + 1 => todo[j][1] # todo[i + 1][1]
      BY <2>1, <2>2 DEF Planned, Begins
    <3>2. todo[1][1] # todo[i + 1][1]
      BY <1>1, <2>1, <3>1
    <3>3. phase'[todo'[i][1]] = "none"
      BY <1>1, <1>3, <2>1, <3>1, <3>2
    <3>4. ASSUME NEW j \in DOMAIN todo', j < i PROVE todo'[j][1] # todo'[i][1]
      <4>1. j + 1 \in DOMAIN todo /\ j + 1 < i + 1 /\ todo'[j] = todo[j + 1]
        BY <1>1, <2>1, <3>4
      <4>2. QED
        BY <2>1, <3>1, <4>1
    <3>5. QED
      BY <2>2, <3>3, <3>4
  <2>3. CASE todo'[i][2] # "base"
    <3>1. \/ phase[todo[i + 1][1]] # "none"
          \/ \E j \in DOMAIN todo : j < i + 1 /\ todo[j] = <<todo[i + 1][1], "base">>
      BY <2>1, <2>3 DEF Planned, Begins
    <3>2. CASE phase[todo[i + 1][1]] # "none" \/ todo'[i][1] = o
      BY <1>2, <1>3, <2>1, <2>3, <3>2
    <3>3. CASE todo'[i][1] # o /\ phase[todo[i + 1][1]] = "none"
      <4>1. PICK j \in DOMAIN todo : j < i + 1 /\ todo[j] = <<todo[i + 1][1], "base">>
        BY <3>1, <3>3
      <4>2. j # 1 /\ j \in Nat
        BY <1>1, <2>1, <3>3, <4>1
      <4>3. j - 1 \in DOMAIN todo' /\ todo'[j - 1] = todo[j] /\ j - 1 < i
        BY <1>1, <2>1, <4>1, <4>2
      <4>4. QED
        BY <2>1, <2>3, <4>1, <4>3
    <3>4. QED
      BY <3>2, <3>3
  <2>4. QED
    BY <2>2, <2>3
<1>7. QED
  BY <1>1, <1>2, <1>4, <1>5, <1>6 DEF Planned

-----------------------------------------------------------------------------
(***************************************************************************)
(* The two plans.  Each takes every object of a set through all phases of  *)
(* a kind; put one after the other they do so for the union.               *)
(***************************************************************************)
Covers(plan, S, P, final) ==
  /\ plan \in Seq(S \X P)
  /\ Finishes(plan, final)
  /\ \A o \in S : \E i \in DOMAIN plan : plan[i] = <<o, final>>

\* An object's base comes first.
BaseFirst(plan) ==
  \A i \in DOMAIN plan :
    IF plan[i][2] = "base"
    THEN \A j \in DOMAIN plan : j < i => plan[j][1] # plan[i][1]
    ELSE \E j \in DOMAIN plan : j < i /\ plan[j] = <<plan[i][1], "base">>

\* The elements of a concatenation, as all proofs below use them.
LEMMA Concatenated ==
  ASSUME NEW R, NEW p \in Seq(R), NEW q \in Seq(R)
  PROVE  /\ p \o q \in Seq(R)
         /\ DOMAIN p \subseteq DOMAIN (p \o q) /\ DOMAIN (p \o q) \subseteq Nat
         /\ Len(p) \in Nat
         /\ \A i \in DOMAIN p : (p \o q)[i] = p[i] /\ i \in Nat /\ i <= Len(p)
         /\ \A i \in DOMAIN q : /\ i + Len(p) \in DOMAIN (p \o q) /\ i \in Nat /\ i > 0
                                /\ (p \o q)[i + Len(p)] = q[i]
         /\ \A i \in DOMAIN (p \o q) :
              i \in DOMAIN p \/ \E k \in DOMAIN q : i = k + Len(p)
<1>1. /\ p \o q \in Seq(R) /\ Len(p) \in Nat /\ Len(q) \in Nat
      /\ DOMAIN p = 1 .. Len(p) /\ DOMAIN q = 1 .. Len(q)
      /\ DOMAIN (p \o q) = 1 .. (Len(p) + Len(q))
      /\ \A i \in 1 .. (Len(p) + Len(q)) :
           (p \o q)[i] = IF i <= Len(p) THEN p[i] ELSE q[i - Len(p)]
  OBVIOUS
<1>2. ASSUME NEW i \in DOMAIN q
      PROVE  /\ i + Len(p) \in DOMAIN (p \o q) /\ i \in Nat /\ i > 0
             /\ (p \o q)[i + Len(p)] = q[i]
  <2>1. /\ i + Len(p) \in 1 .. (Len(p) + Len(q)) /\ ~(i + Len(p) <= Len(p))
        /\ (i + Len(p)) - Len(p) = i
    BY <1>1
  <2>2. QED
    BY <1>1, <2>1
<1>3. ASSUME NEW i \in DOMAIN (p \o q), i \notin DOMAIN p
      PROVE  \E k \in DOMAIN q : i = k + Len(p)
  <2>1. i - Len(p) \in DOMAIN q /\ i = (i - Len(p)) + Len(p)
    BY <1>1, <1>3
  <2>2. QED
    BY <2>1
<1>4. QED
  BY <1>1, <1>2, <1>3

LEMMA CoversBoth ==
  ASSUME NEW S, NEW T, NEW P, NEW p, NEW q, NEW final,
         Covers(p, S, P, final), Covers(q, T, P, final)
  PROVE  Covers(p \o q, S \cup T, P, final)
<1> DEFINE R == (S \cup T) \X P
<1>1. p \in Seq(R) /\ q \in Seq(R)
  <2>1. S \X P \subseteq R /\ T \X P \subseteq R
    OBVIOUS
  <2> HIDE DEF R
  <2>2. QED
    BY <2>1, SeqMonotonic DEF Covers
<1> HIDE DEF R
<1> DEFINE r == p \o q
<1>2. /\ r \in Seq(R) /\ DOMAIN p \subseteq DOMAIN r /\ DOMAIN r \subseteq Nat /\ Len(p) \in Nat
      /\ \A i \in DOMAIN p : r[i] = p[i] /\ i \in Nat /\ i <= Len(p)
      /\ \A i \in DOMAIN q : i + Len(p) \in DOMAIN r /\ i \in Nat /\ r[i + Len(p)] = q[i]
      /\ \A i \in DOMAIN r : i \in DOMAIN p \/ \E k \in DOMAIN q : i = k + Len(p)
  BY <1>1, Concatenated
<1> HIDE DEF r
<1>3. Finishes(r, final)
  <2> SUFFICES ASSUME NEW i \in DOMAIN r, r[i][2] # final
               PROVE  \E j \in DOMAIN r : i < j /\ r[j] = <<r[i][1], final>>
    BY DEF Finishes
  <2>1. CASE i \in DOMAIN p
    <3>1. PICK j \in DOMAIN p : i < j /\ p[j] = <<p[i][1], final>>
      BY <1>2, <2>1 DEF Covers, Finishes
    <3>2. j \in DOMAIN r /\ r[j] = <<r[i][1], final>>
      BY <1>2, <2>1, <3>1
    <3>3. QED
      BY <3>1, <3>2
  <2>2. ASSUME NEW k \in DOMAIN q, i = k + Len(p)
        PROVE  \E j \in DOMAIN r : i < j /\ r[j] = <<r[i][1], final>>
    <3>1. PICK j \in DOMAIN q : k < j /\ q[j] = <<q[k][1], final>>
      BY <1>2, <2>2 DEF Covers, Finishes
    <3>2. j + Len(p) \in DOMAIN r /\ i < j + Len(p) /\ r[j + Len(p)] = <<r[i][1], final>>
      BY <1>2, <2>2, <3>1
    <3>3. QED
      BY <3>2
  <2>3. QED
    BY <1>2, <2>1, <2>2
<1>4. ASSUME NEW o \in S \cup T PROVE \E i \in DOMAIN r : r[i] = <<o, final>>
  BY <1>2 DEF Covers
<1>5. QED
  BY <1>2, <1>3, <1>4 DEF Covers, R, r

LEMMA BaseFirstBoth ==
  ASSUME NEW S, NEW T, NEW P, NEW p \in Seq(S \X P), NEW q \in Seq(T \X P),
         S \cap T = {}, BaseFirst(p), BaseFirst(q)
  PROVE  BaseFirst(p \o q)
<1> DEFINE R == (S \cup T) \X P
<1>1. p \in Seq(R) /\ q \in Seq(R)
  <2>1. S \X P \subseteq R /\ T \X P \subseteq R
    OBVIOUS
  <2> HIDE DEF R
  <2>2. QED
    BY <2>1, SeqMonotonic
<1> HIDE DEF R
<1> DEFINE r == p \o q
<1>2. /\ DOMAIN p \subseteq DOMAIN r /\ DOMAIN r \subseteq Nat /\ Len(p) \in Nat
      /\ \A i \in DOMAIN p : r[i] = p[i] /\ i \in Nat /\ i <= Len(p)
      /\ \A i \in DOMAIN q : /\ i + Len(p) \in DOMAIN r /\ i \in Nat /\ i > 0
                             /\ r[i + Len(p)] = q[i]
      /\ \A i \in DOMAIN r : i \in DOMAIN p \/ \E k \in DOMAIN q : i = k + Len(p)
  BY <1>1, Concatenated
<1>o. /\ \A i \in DOMAIN p : p[i][1] \in S
      /\ \A i \in DOMAIN q : q[i][1] \in T
  OBVIOUS
<1> HIDE DEF r
<1>3. ASSUME NEW i \in DOMAIN p
      PROVE  IF r[i][2] = "base" THEN \A j \in DOMAIN r : j < i => r[j][1] # r[i][1]
             ELSE \E j \in DOMAIN r : j < i /\ r[j] = <<r[i][1], "base">>
  <2>1. \A j \in DOMAIN r : j < i => j \in DOMAIN p
    BY <1>2
  <2>2. QED
    BY <1>2, <2>1 DEF BaseFirst
<1>4. ASSUME NEW k \in DOMAIN q
      PROVE  IF r[k + Len(p)][2] = "base"
             THEN \A j \in DOMAIN r : j < k + Len(p) => r[j][1] # r[k + Len(p)][1]
             ELSE \E j \in DOMAIN r : j < k + Len(p) /\ r[j] = <<r[k + Len(p)][1], "base">>
  <2>1. CASE q[k][2] = "base"
    <3>1. ASSUME NEW j \in DOMAIN r, j < k + Len(p) PROVE r[j][1] # q[k][1]
      <4>1. CASE j \in DOMAIN p
        BY <1>2, <1>o, <4>1
      <4>2. ASSUME NEW l \in DOMAIN q, j = l + Len(p) PROVE r[j][1] # q[k][1]
        <5>1. l < k /\ r[j] = q[l]
          BY <1>2, <3>1, <4>2
        <5>2. QED
          BY <2>1, <5>1 DEF BaseFirst
      <4>3. QED
        BY <1>2, <4>1, <4>2
    <3>2. QED
      BY <1>2, <2>1, <3>1
  <2>2. CASE q[k][2] # "base"
    <3>1. PICK l \in DOMAIN q : l < k /\ q[l] = <<q[k][1], "base">>
      BY <2>2 DEF BaseFirst
    <3>2. l + Len(p) \in DOMAIN r /\ l + Len(p) < k + Len(p)
      BY <1>2, <3>1
    <3>3. QED
      BY <1>2, <2>2, <3>1, <3>2
  <2>3. QED
    BY <2>1, <2>2
<1>5. ASSUME NEW i \in DOMAIN r
      PROVE  IF r[i][2] = "base" THEN \A j \in DOMAIN r : j < i => r[j][1] # r[i][1]
             ELSE \E j \in DOMAIN r : j < i /\ r[j] = <<r[i][1], "base">>
  <2>1. CASE i \in DOMAIN p
    BY <1>3, <2>1
  <2>2. ASSUME NEW k \in DOMAIN q, i = k + Len(p)
        PROVE  IF r[i][2] = "base" THEN \A j \in DOMAIN r : j < i => r[j][1] # r[i][1]
               ELSE \E j \in DOMAIN r : j < i /\ r[j] = <<r[i][1], "base">>
    BY <1>4, <2>2
  <2>3. QED
    BY <1>2, <2>1, <2>2
<1>6. BaseFirst(r)
  BY <1>5 DEF BaseFirst
<1>7. QED
  BY <1>6 DEF r

LEMMA JoinPlans ==
  ASSUME NEW S, NEW T, NEW p, NEW q, NEW P, NEW final,
         Covers(p, S, P, final), Covers(q, T, P, final),
         S \cap T = {}, BaseFirst(p), BaseFirst(q)
  PROVE  Covers(p \o q, S \cup T, P, final) /\ BaseFirst(p \o q)
<1>1. p \in Seq(S \X P) /\ q \in Seq(T \X P)
  BY DEF Covers
<1>2. QED
  BY <1>1, CoversBoth, BaseFirstBoth

LEMMA NothingCovers ==
  ASSUME NEW P, NEW final
  PROVE  Covers(<<>>, {}, P, final) /\ BaseFirst(<<>>)
BY DEF Covers, Finishes, BaseFirst

LEMMA ConstructedCovers ==
  ASSUME NEW o
  PROVE  Covers(Constructed(o), {o}, Building, "live") /\ BaseFirst(Constructed(o))
<1> DEFINE p == Constructed(o)
<1>1. /\ p \in Seq({o} \X Building) /\ DOMAIN p = 1 .. 3
      /\ p[1] = <<o, "base">> /\ p[2] = <<o, "body">> /\ p[3] = <<o, "live">>
  BY DEF Constructed, Building
<1> HIDE DEF p
<1>2. \A i \in DOMAIN p : i = 1 \/ i = 2 \/ i = 3
  BY <1>1
<1>3. Finishes(p, "live") /\ BaseFirst(p)
  BY <1>1, <1>2 DEF Finishes, BaseFirst
<1>4. \A u \in {o} : \E i \in DOMAIN p : p[i] = <<u, "live">>
  BY <1>1
<1>5. QED
  BY <1>1, <1>3, <1>4 DEF Covers, p

LEMMA DeletedCovers ==
  ASSUME NEW o
  PROVE  Covers(Deleted(o), {o}, Deleting, "gone")
<1> DEFINE p == Deleted(o)
<1>1. /\ p \in Seq({o} \X Deleting) /\ DOMAIN p = 1 .. 3
      /\ p[1] = <<o, "closing">> /\ p[2] = <<o, "stripped">> /\ p[3] = <<o, "gone">>
  BY DEF Deleted, Deleting
<1> HIDE DEF p
<1>2. \A i \in DOMAIN p : i = 1 \/ i = 2 \/ i = 3
  BY <1>1
<1>3. Finishes(p, "gone")
  BY <1>1, <1>2 DEF Finishes
<1>4. \A u \in {o} : \E i \in DOMAIN p : p[i] = <<u, "gone">>
  BY <1>1
<1>5. QED
  BY <1>1, <1>3, <1>4 DEF Covers, p

\* The decorator's destructor has that of the decorated observer inside.
LEMMA DecoratorCovers == Covers(DeletedDecorator, CameraObservers, Deleting, "gone")
<1> DEFINE R == CameraObservers \X Deleting
           a == << <<"tracker", "closing">>, <<"tracker", "stripped">> >>
           b == << <<"debug", "closing">>, <<"debug", "stripped">>, <<"debug", "gone">> >>
           c == << <<"tracker", "gone">> >>
           p == (a \o b) \o c
<1>1. a \in Seq(R) /\ b \in Seq(R) /\ c \in Seq(R) /\ Len(a) = 2 /\ Len(b) = 3 /\ Len(c) = 1
  BY DEF CameraObservers, Deleting
<1>2. /\ p \in Seq(R) /\ DOMAIN p = 1 .. 6
      /\ p[1] = a[1] /\ p[2] = a[2] /\ p[3] = b[1] /\ p[4] = b[2] /\ p[5] = b[3] /\ p[6] = c[1]
  <2> DEFINE d == a \o b
  <2> HIDE DEF R, a, b, c
  <2>a. /\ d \in Seq(R) /\ Len(d) = Len(a) + Len(b)
        /\ \A i \in 1 .. Len(a) + Len(b) : d[i] = IF i <= Len(a) THEN a[i] ELSE b[i - Len(a)]
    BY <1>1, ConcatProperties
  <2>1. /\ d \in Seq(R) /\ Len(d) = 5
        /\ \A i \in 1 .. 5 : d[i] = IF i <= 2 THEN a[i] ELSE b[i - 2]
    BY <1>1, <2>a
  <2>2. d[1] = a[1] /\ d[2] = a[2] /\ d[3] = b[1] /\ d[4] = b[2] /\ d[5] = b[3]
    BY <2>1
  <2> HIDE DEF d
  <2>c. /\ d \o c \in Seq(R) /\ Len(d \o c) = Len(d) + Len(c)
        /\ \A i \in 1 .. Len(d) + Len(c) :
             (d \o c)[i] = IF i <= Len(d) THEN d[i] ELSE c[i - Len(d)]
    BY <1>1, <2>1, ConcatProperties
  <2>3. /\ d \o c \in Seq(R) /\ Len(d \o c) = 6
        /\ \A i \in 1 .. 6 : (d \o c)[i] = IF i <= 5 THEN d[i] ELSE c[i - 5]
    BY <1>1, <2>1, <2>c
  <2>4. /\ (d \o c)[1] = d[1] /\ (d \o c)[2] = d[2] /\ (d \o c)[3] = d[3]
        /\ (d \o c)[4] = d[4] /\ (d \o c)[5] = d[5] /\ (d \o c)[6] = c[1]
    BY <2>3
  <2>5. DOMAIN (d \o c) = 1 .. 6
    BY <2>3
  <2>6. QED
    BY <2>2, <2>3, <2>4, <2>5 DEF d
<1>3. /\ p[1] = <<"tracker", "closing">> /\ p[2] = <<"tracker", "stripped">>
      /\ p[3] = <<"debug", "closing">> /\ p[4] = <<"debug", "stripped">>
      /\ p[5] = <<"debug", "gone">> /\ p[6] = <<"tracker", "gone">>
  BY <1>2
<1>4. p = DeletedDecorator
  BY DEF DeletedDecorator, Deleted
<1>5. p \in Seq(CameraObservers \X Deleting) /\ DOMAIN p = 1 .. 6
  BY <1>2
<1> HIDE DEF p, R
<1>6. \A i \in DOMAIN p : i \in {1, 2, 3, 4, 5, 6}
  BY <1>5
<1>7. Finishes(p, "gone")
  BY <1>3, <1>5, <1>6 DEF Finishes
<1>8. \A u \in CameraObservers : \E i \in DOMAIN p : p[i] = <<u, "gone">>
  BY <1>3, <1>5 DEF CameraObservers
<1>9. QED
  BY <1>4, <1>5, <1>7, <1>8 DEF Covers

\* What main builds: every object that the options ask for.
LEMMA ConstructionCovers ==
  Covers(Construction, Used, Building, "live") /\ BaseFirst(Construction)
<1> DEFINE c == Constructed("debug") \o Constructed("tracker")
           t == IF args.tuio THEN Constructed("tuio") ELSE <<>>
           T == IF args.tuio THEN {"tuio"} ELSE {}
<1>1. Covers(c, {"debug"} \cup {"tracker"}, Building, "live") /\ BaseFirst(c)
  <2>1. {"debug"} \cap {"tracker"} = {}
    OBVIOUS
  <2>2. QED
    BY <2>1, ConstructedCovers, JoinPlans
<1>2. Covers(t, T, Building, "live") /\ BaseFirst(t)
  BY ConstructedCovers, NothingCovers
<1> HIDE DEF c, t
<1>3. ({"debug"} \cup {"tracker"}) \cap T = {}
  OBVIOUS
<1>4. Covers(c \o t, ({"debug"} \cup {"tracker"}) \cup T, Building, "live") /\ BaseFirst(c \o t)
  <2> HIDE DEF T
  <2>1. QED
    BY <1>1, <1>2, <1>3, JoinPlans
<1>5. (({"debug"} \cup {"tracker"}) \cup T) \cap {"websocket"} = {}
  OBVIOUS
<1>6. Used = (({"debug"} \cup {"tracker"}) \cup T) \cup {"websocket"}
  BY DEF Used, Objects, CameraObservers, Publishers
<1>7. /\ Covers((c \o t) \o Constructed("websocket"), Used, Building, "live")
      /\ BaseFirst((c \o t) \o Constructed("websocket"))
  <2>1. /\ Covers(Constructed("websocket"), {"websocket"}, Building, "live")
        /\ BaseFirst(Constructed("websocket"))
    BY ConstructedCovers
  <2> HIDE DEF T
  <2>2. QED
    BY <1>4, <1>5, <1>6, <2>1, JoinPlans
<1>8. QED
  BY <1>7 DEF Construction, c, t

\* What main deletes: the same objects.
LEMMA DestructionCovers == Covers(Destruction, Used, Deleting, "gone")
<1> DEFINE t == IF args.tuio THEN Deleted("tuio") ELSE <<>>
           T == IF args.tuio THEN {"tuio"} ELSE {}
<1>1. Covers(t, T, Deleting, "gone")
  BY DeletedCovers, NothingCovers
<1>2. Used = (T \cup {"websocket"}) \cup CameraObservers
  BY DEF Used, Objects, CameraObservers, Publishers
<1> HIDE DEF t, T
<1>3. Covers(t \o Deleted("websocket"), T \cup {"websocket"}, Deleting, "gone")
  BY <1>1, DeletedCovers, CoversBoth
<1>4. Covers((t \o Deleted("websocket")) \o DeletedDecorator, Used, Deleting, "gone")
  BY <1>2, <1>3, DecoratorCovers, CoversBoth
<1>5. QED
  BY <1>4 DEF Destruction, t

-----------------------------------------------------------------------------
(***************************************************************************)
(* The invariant, conjunct by conjunct                                     *)
(***************************************************************************)
LEMMA TypeFacts ==
  ASSUME TypeOK
  PROVE  /\ phase \in [Objects -> Phases] /\ todo \in Seq(Objects \X Phases)
         /\ access \in [Threads -> {"none", "find", "insert"}]
         /\ observers \in Seq(CameraObservers) /\ publishers \in Seq(Publishers)
         /\ frame \in [at : {"idle", "table", "calls"}, slots : Seq(CameraObservers),
                       inner : Seq(Publishers), in : SUBSET Objects]
BY DEF TypeOK

\* Nothing is built: before the camera, and before main has read its options.
LEMMA NothingBuiltIInv ==
  pc \in {"parse", "usage", "camera"} /\ args \in Arguments /\ NothingBuilt => IInv
<1> SUFFICES ASSUME pc \in {"parse", "usage", "camera"}, args \in Arguments, NothingBuilt
             PROVE  IInv
  OBVIOUS
<1>0. /\ pc \in {"parse", "usage", "camera"} /\ args \in Arguments /\ error = "none" /\ todo = <<>>
      /\ phase = [o \in Objects |-> "none"] /\ observers = <<>> /\ publishers = <<>>
      /\ keys = {} /\ access = [t \in Threads |-> "none"] /\ cropping = args.crop
      /\ streams = {} /\ frame = NoFrame /\ port = 0 /\ stop = FALSE /\ logger = TRUE
  BY DEF NothingBuilt
<1>1. TypeOK
  <2>1. cropping \in BOOLEAN
    BY <1>0 DEF Arguments
  <2>2. phase \in [Objects -> Phases] /\ access \in [Threads -> {"none", "find", "insert"}]
    BY <1>0 DEF Phases
  <2>3. frame \in [at : {"idle", "table", "calls"}, slots : Seq(CameraObservers),
                   inner : Seq(Publishers), in : SUBSET Objects]
    BY <1>0 DEF NoFrame
  <2>4. port \in 0 .. UInt16 - 1
    BY <1>0 DEF UInt16
  <2>5. todo \in Seq(Objects \X Phases) /\ observers \in Seq(CameraObservers)
        /\ publishers \in Seq(Publishers)
    BY <1>0
  <2>6. QED
    BY <1>0, <2>1, <2>2, <2>3, <2>4, <2>5 DEF TypeOK
<1>2. Planned
  <2>1. \A o \in Objects : phase[o] = "none"
    BY <1>0
  <2>2. Begins
    BY <1>0 DEF Begins
  <2>3. todo \in Seq(Used \X (Phases \ {"none"}))
    BY <1>0
  <2>4. "websocket" \in Objects
    BY DEF Objects, Publishers
  <2>5. QED
    BY <2>1, <2>2, <2>3, <2>4 DEF Planned
<1>3. Stages
  BY <1>0 DEF Stages, AtStart, AtEnd
<1>4. Slots /\ Called
  BY <1>0 DEF Slots, Called, Distinct, ToSet, NoFrame
<1>5. Apart
  BY <1>0 DEF Apart, NoFrame, Threads
<1>6. Stopped
  BY <1>0 DEF Stopped, AtEnd
<1>7. QED
  BY <1>1, <1>2, <1>3, <1>4, <1>5, <1>6 DEF IInv

LEMMA InitIInv == Init => IInv
BY NothingBuiltIInv DEF Init

\* What is planned depends on the options, the plan and the phases alone.
LEMMA KeepPlan ==
  ASSUME UNCHANGED <<args, todo, phase>>
  PROVE  /\ Planned => Planned'
         /\ \A final \in {"live", "gone"} : Towards(final) => Towards(final)'
         /\ Used' = Used
BY DEF Planned, Towards, Begins, Used

\* main drops what it has not begun, when an exception is thrown.
LEMMA DropPlan ==
  ASSUME Planned, UNCHANGED <<args, phase>>, todo' = <<>>
  PROVE  Planned'
BY DEF Planned, Begins, Used

LEMMA BeginConstruction ==
  ASSUME Planned, \A o \in Objects : phase[o] = "none",
         UNCHANGED <<args, phase>>, todo' = Construction
  PROVE  Planned' /\ Towards("live")'
<1>1. Covers(todo', Used, Building, "live") /\ BaseFirst(todo')
  BY ConstructionCovers
<1>2. todo' \in Seq(Used \X (Phases \ {"none"})) /\ \A i \in DOMAIN todo' : todo'[i][1] \in Objects
  <2>1. Used \X Building \subseteq Used \X (Phases \ {"none"})
    BY DEF Building, Phases
  <2>2. todo' \in Seq(Used \X (Phases \ {"none"}))
    BY <1>1, <2>1, SeqMonotonic DEF Covers
  <2>3. QED
    BY <2>2 DEF Used
<1>3. Used' = Used
  BY DEF Used
<1>4. Begins'
  BY <1>1, <1>2 DEF Begins, BaseFirst
<1>5. Towards("live")'
  BY <1>1, <1>3 DEF Towards, Covers
<1>6. QED
  BY <1>2, <1>3, <1>4, <1>5 DEF Planned

LEMMA BeginDestruction ==
  ASSUME Planned, \A o \in Used : phase[o] = "live",
         UNCHANGED <<args, phase>>, todo' = Destruction
  PROVE  Planned' /\ Towards("gone")' /\ \A i \in DOMAIN todo' : todo'[i][2] \in Deleting
<1>1. Covers(todo', Used, Deleting, "gone")
  BY DestructionCovers
<1>2. todo' \in Seq(Used \X (Phases \ {"none"})) /\ todo' \in Seq(Used \X Deleting)
  <2>1. Used \X Deleting \subseteq Used \X (Phases \ {"none"})
    BY DEF Deleting, Phases
  <2>2. QED
    BY <1>1, <2>1, SeqMonotonic DEF Covers
<1>3. Used' = Used
  BY DEF Used
<1>4. \A i \in DOMAIN todo' : todo'[i][1] \in Used /\ todo'[i][2] \in Deleting
  BY <1>2
<1>5. Begins'
  BY <1>4 DEF Begins, Deleting
<1>6. Towards("gone")'
  BY <1>1, <1>3 DEF Towards, Covers
<1>7. QED
  BY <1>2, <1>3, <1>4, <1>5, <1>6 DEF Planned

\* A step along the plan, in the construction or the destruction.
Advance(o, ph) ==
  /\ pc \in {"build", "delete", "unwind"} /\ NextIs(o, ph) /\ Enter(o, ph)
  /\ UNCHANGED <<pc, args, error>>
  /\ o = "websocket" /\ ph = "base" =>
       args.websocket # <<>> /\ args.websocket[1] \in DOMAIN PortOf

\* All steps along the plan are of this kind.
LEMMA Advances ==
  ASSUME NEW o, NEW ph,
         \/ Subscribe(o) /\ ph = "base" /\ o \in CameraObservers
         \/ SubscribePublisher(o) /\ ph = "base"
         \/ RunBody(o) /\ ph = "body"
         \/ Complete(o) /\ ph = "live"
         \/ Destroy(o, ph) /\ ph # "base"
  PROVE  Advance(o, ph)
<1> USE DEF Advance, At
<1>1. CASE Subscribe(o) /\ ph = "base" /\ o \in CameraObservers
  BY <1>1 DEF Subscribe, CameraObservers
<1>2. CASE SubscribePublisher(o) /\ ph = "base"
  BY <1>2 DEF SubscribePublisher
<1>3. CASE RunBody(o) /\ ph = "body"
  BY <1>3 DEF RunBody
<1>4. CASE Complete(o) /\ ph = "live"
  BY <1>4 DEF Complete
<1>5. CASE Destroy(o, ph) /\ ph # "base"
  BY <1>5 DEF Destroy
<1>6. QED
  BY <1>1, <1>2, <1>3, <1>4, <1>5

LEMMA AdvanceKeepsPlan ==
  ASSUME TypeOK, Planned, Stages, NEW o, NEW ph, Advance(o, ph)
  PROVE  Planned' /\ Stages' /\ o \in Used /\ ph \in Phases \ {"none"}
<1>t. phase \in [Objects -> Phases] /\ todo \in Seq(Objects \X Phases)
  BY TypeFacts
<1>1. Planned' /\ o \in Used /\ ph \in Phases \ {"none"}
  BY EnterPlanned DEF Advance
<1>2. ASSUME NEW final, Towards(final) PROVE Towards(final)'
  BY <1>t, <1>2, EnterTowards DEF Advance
<1>3. \A i \in DOMAIN todo' : i + 1 \in DOMAIN todo /\ todo'[i] = todo[i + 1]
  BY <1>t, NextIsFirst DEF Advance
<1>4. Stages'
  BY <1>2, <1>3 DEF Stages, Advance, AtStart, AtEnd
<1>5. QED
  BY <1>1, <1>4

\* A step that leaves the plan and the phases alone.
LEMMA Pauses ==
  ASSUME Planned, Stages, UNCHANGED <<pc, args, error, todo, phase>>
  PROVE  Planned' /\ Stages'
BY KeepPlan DEF Stages, AtStart, AtEnd

\* main goes on to its next place.
LEMMA Moves ==
  ASSUME Planned, Stages, UNCHANGED <<args, todo, phase>>,
         \/ pc = "camera" /\ pc' = "depth" /\ error' = error
         \/ pc = "build" /\ todo = <<>> /\ pc' = "loop" /\ error' = error
         \/ pc \in {"loop", "update"} /\ pc' \in {"loop", "update"} /\ error' = error
         \/ pc' = "catch" /\ error' # "none"
         \/ pc = "delete" /\ todo = <<>> /\ pc' = "close" /\ error' = error
         \/ pc = "close" /\ pc' = "closed" /\ error' = error
         \/ pc = "closed" /\ pc' = "drop" /\ error' = error
         \/ pc \in {"drop", "catch"} /\ pc' = "exit" /\ error' = error
         \/ pc = "exit" /\ pc' = "exited" /\ error' = error
         \/ pc' = "aborted"
  PROVE  Planned' /\ Stages'
<1>1. Planned' /\ Used' = Used
  BY KeepPlan
<1>2. Towards("gone") => Towards("gone")'
  BY KeepPlan
<1>3. todo = <<>> /\ Towards("live") => \A o \in Used : phase[o] = "live"
  BY DEF Towards
<1>4. Stages'
  BY <1>1, <1>2, <1>3 DEF Stages, AtStart, AtEnd
<1>5. QED
  BY <1>1, <1>4

\* A destructor's plan has no base in it.
LEMMA DestroyAdvances ==
  ASSUME TypeOK, Stages, NEW o, NEW ph, Destroy(o, ph)
  PROVE  Advance(o, ph)
<1>1. todo[1] = <<o, ph>> /\ 1 \in DOMAIN todo
  BY TypeFacts, NextIsFirst DEF Destroy
<1>2. ph # "base"
  BY <1>1 DEF Destroy, Stages, Deleting, At
<1>3. QED
  BY <1>2, Advances

LEMMA NextPlan == TypeOK /\ Planned /\ Stages /\ [Next]_vars => Planned' /\ Stages'
<1> SUFFICES ASSUME TypeOK, Planned, Stages, [Next]_vars PROVE Planned' /\ Stages'
  OBVIOUS
<1> USE DEF At
<1>1. CASE CameraFails \/ StartColor
  BY <1>1, Moves DEF CameraFails, StartColor, objectVars
<1>2. CASE OpenVideoStream \/ StartDepth
  <2>1. /\ pc \in {"camera", "depth"} /\ pc' = "build" /\ todo' = Construction
        /\ UNCHANGED <<args, phase>>
    BY <1>2 DEF OpenVideoStream, StartDepth, objectVars
  <2>2. Planned' /\ Towards("live")'
    BY <2>1, BeginConstruction DEF Stages, AtStart
  <2>3. QED
    BY <2>1, <2>2 DEF Stages, AtStart, AtEnd
<1>3. ASSUME NEW o \in CameraObservers, BeginSubscribe(o) PROVE Planned' /\ Stages'
  BY <1>3, Pauses DEF BeginSubscribe, mainVars, objectVars
<1>4. ASSUME NEW o \in CameraObservers, Subscribe(o) PROVE Planned' /\ Stages'
  BY <1>4, Advances, AdvanceKeepsPlan
<1>5. ASSUME NEW o \in Publishers, SubscribePublisher(o) PROVE Planned' /\ Stages'
  BY <1>5, Advances, AdvanceKeepsPlan
<1>6. ASSUME NEW o \in Objects, RunBody(o) \/ Complete(o) PROVE Planned' /\ Stages'
  BY <1>6, Advances, AdvanceKeepsPlan
<1>7. CASE PortIsNoNumber
  <2>1. pc' = "catch" /\ error' # "none" /\ todo' = <<>> /\ UNCHANGED <<args, phase>>
    BY <1>7 DEF PortIsNoNumber, objectVars
  <2>2. Planned'
    BY <2>1, DropPlan
  <2>3. QED
    BY <2>1, <2>2 DEF Stages, AtStart, AtEnd
<1>8. CASE ListenFails
  <2>1. /\ pc' = "unwind" /\ error' = "listen" /\ UNCHANGED <<args, phase>>
        /\ todo' = << <<"websocket", "stripped">>, <<"websocket", "gone">> >>
        /\ NextIs("websocket", "live")
    BY <1>8 DEF ListenFails, objectVars
  <2>2. /\ DOMAIN todo' = {1, 2} /\ todo'[1] = <<"websocket", "stripped">>
        /\ todo'[2] = <<"websocket", "gone">>
    BY <2>1
  <2>3. phase["websocket"] # "none"
    <3>1. /\ todo # <<>> /\ todo[1] = <<"websocket", "live">> /\ 1 \in DOMAIN todo
          /\ DOMAIN todo \subseteq Nat \ {0}
      BY <2>1, TypeFacts DEF NextIs
    <3>2. ~\E j \in {k \in DOMAIN todo : k < 1} : todo[j] = <<"websocket", "base">>
      BY <3>1
    <3>3. QED
      BY <3>1, <3>2 DEF Planned, Begins
  <2>4. Begins'
    BY <2>1, <2>2, <2>3 DEF Begins
  <2>5. todo' \in Seq(Used' \X (Phases \ {"none"}))
    BY <2>1 DEF Used, Objects, Publishers, Phases
  <2>6. Planned'
    BY <2>1, <2>4, <2>5 DEF Planned, Used
  <2>7. \A i \in DOMAIN todo' : todo'[i][2] \in Deleting
    BY <2>2 DEF Deleting
  <2>8. QED
    BY <2>1, <2>6, <2>7 DEF Stages, AtStart, AtEnd
<1>9. CASE EnterLoop
  BY <1>9, Moves DEF EnterLoop, objectVars
<1>10. CASE LeaveLoop
  <2>1. /\ pc = "loop" /\ pc' = "delete" /\ todo' = Destruction
        /\ UNCHANGED <<args, phase, error>>
    BY <1>10 DEF LeaveLoop, objectVars
  <2>2. Planned' /\ Towards("gone")' /\ \A i \in DOMAIN todo' : todo'[i][2] \in Deleting
    BY <2>1, BeginDestruction DEF Stages
  <2>3. QED
    BY <2>1, <2>2 DEF Stages, AtStart, AtEnd
<1>11. ASSUME NEW d \in BOOLEAN, Update(d) PROVE Planned' /\ Stages'
  BY <1>11, Moves DEF Update, objectVars
<1>12. CASE ShowWindow \/ UpdateThrows
  <2>1. UpdateThrows => error' # "none"
    BY DEF UpdateThrows
  <2>2. QED
    BY <1>12, <2>1, Moves DEF ShowWindow, UpdateThrows, objectVars
<1>13. ASSUME NEW o \in Objects, NEW ph \in Phases, Destroy(o, ph) PROVE Planned' /\ Stages'
  <2>1. Advance(o, ph)
    BY <1>13, DestroyAdvances
  <2>2. QED
    BY <2>1, AdvanceKeepsPlan
<1>14. CASE Unwound \/ RemoveColorListener \/ RemoveDepthListener
  <2>1. Unwound => error' # "none"
    BY DEF Unwound, Stages
  <2>2. QED
    BY <1>14, <2>1, Moves DEF Unwound, RemoveColorListener, RemoveDepthListener, objectVars
<1>15. CASE CloseCamera \/ DropLoggers \/ Exit
  BY <1>15, Moves DEF CloseCamera, DropLoggers, Exit, objectVars
<1>16. CASE Interrupt \/ NewFrame \/ NotifySpace \/ EndDepthFrame \/ UNCHANGED vars
  BY <1>16, Pauses DEF Interrupt, NewFrame, ColorFrame, BeginDepthFrame, NotifySpace, Calls,
     EndDepthFrame, vars, mainVars, objectVars
<1>17. CASE BeginCalls \/ CallObserver \/ CallPublisher \/ PublisherReturns \/ ObserverReturns
              \/ EndFrame
  BY <1>17, Pauses DEF BeginCalls, CallObserver, CallPublisher, PublisherReturns,
     ObserverReturns, EndFrame, Calls, mainVars, objectVars
<1>18. CASE PublisherThrows
  <2>1. /\ UNCHANGED <<args, todo, phase>>
        /\ (pc' = "catch" /\ error' # "none") \/ pc' = "aborted"
    BY <1>18 DEF PublisherThrows, objectVars
  <2>2. QED
    BY <2>1, Moves
<1>19. QED
  BY <1>1, <1>2, <1>3, <1>4, <1>5, <1>6, <1>7, <1>8, <1>9, <1>10, <1>11, <1>12, <1>13, <1>14,
     <1>15, <1>16, <1>17, <1>18
     DEF Next, Main, Build, Loop, TakeDown, Delivery

-----------------------------------------------------------------------------
(***************************************************************************)
(* Types.  What a step does to the plan is known by now, so that it is     *)
(* enough to look at the other variables, a group at a time.               *)
(***************************************************************************)
Frames == [at : {"idle", "table", "calls"}, slots : Seq(CameraObservers),
           inner : Seq(Publishers), in : SUBSET Objects]

MainTypes ==
  /\ pc \in {"parse", "usage", "camera", "depth", "build", "loop", "update", "delete", "unwind",
             "close", "closed", "catch", "drop", "exit", "exited", "aborted"}
  /\ args \in Arguments
  /\ error \in {"none", "camera", "port", "listen", "fire", "frame"}

TableTypes ==
  keys \subseteq {"COLOR", "DEPTH"} /\ access \in [Threads -> {"none", "find", "insert"}]

FlagTypes ==
  /\ cropping \in BOOLEAN /\ stop \in BOOLEAN /\ logger \in BOOLEAN
  /\ streams \subseteq {"color", "depth"}

SlotTypes == observers \in Seq(CameraObservers) /\ publishers \in Seq(Publishers)

LEMMA TypesInParts ==
  TypeOK <=> /\ MainTypes /\ TableTypes /\ FlagTypes /\ SlotTypes
             /\ todo \in Seq(Objects \X Phases) /\ phase \in [Objects -> Phases]
             /\ frame \in Frames /\ port \in 0 .. UInt16 - 1
BY DEF TypeOK, MainTypes, TableTypes, FlagTypes, SlotTypes, Frames

\* A slot list after one of its slots is disconnected.
LEMMA Disconnected ==
  ASSUME NEW S, NEW s \in Seq(S), NEW e, Distinct(s)
  PROVE  /\ RemoveFirst(s, e) \in Seq(S)
         /\ ToSet(RemoveFirst(s, e)) \subseteq ToSet(s) \ {e}
         /\ Distinct(RemoveFirst(s, e))
<1>1. CASE ~\E i \in 1 .. Len(s) : s[i] = e
  BY <1>1 DEF RemoveFirst, ToSet
<1>2. CASE \E i \in 1 .. Len(s) : s[i] = e
  <2>1. PICK k \in 1 .. Len(s) : s[k] = e
    BY <1>2
  <2> DEFINE r == SubSeq(s, 1, k - 1) \o SubSeq(s, k + 1, Len(s))
  <2>2. RemoveFirst(s, e) = r
    <3> DEFINE I == {i \in 1 .. Len(s) : s[i] = e}
    <3>1. RemoveFirst(s, e) = RemoveAt(s, SelectInSeq(s, LAMBDA v : v = e))
      BY <1>2 DEF RemoveFirst
    <3>2. SelectInSeq(s, LAMBDA v : v = e) = Min(I)
      BY <1>2 DEF SelectInSeq
    <3>3. I = {k}
      BY <2>1 DEF Distinct
    <3>4. Min({k}) = k
      BY <2>1 DEF Min
    <3>5. QED
      BY <3>1, <3>2, <3>3, <3>4 DEF RemoveAt
  <2>3. /\ SubSeq(s, 1, k - 1) \in Seq(S) /\ Len(SubSeq(s, 1, k - 1)) = k - 1
        /\ \A i \in 1 .. (k - 1) : SubSeq(s, 1, k - 1)[i] = s[i]
    BY <2>1
  <2>4. /\ SubSeq(s, k + 1, Len(s)) \in Seq(S) /\ Len(SubSeq(s, k + 1, Len(s))) = Len(s) - k
        /\ \A i \in 1 .. (Len(s) - k) : SubSeq(s, k + 1, Len(s))[i] = s[i + k]
    BY <2>1
  <2> DEFINE a == SubSeq(s, 1, k - 1)
             b == SubSeq(s, k + 1, Len(s))
  <2>5. /\ r \in Seq(S) /\ DOMAIN r = 1 .. (Len(s) - 1)
        /\ \A i \in DOMAIN r : r[i] = IF i < k THEN s[i] ELSE s[i + 1]
    <3> HIDE DEF a, b
    <3>1. /\ a \o b \in Seq(S) /\ Len(a \o b) = Len(a) + Len(b)
          /\ \A i \in 1 .. Len(a) + Len(b) :
               (a \o b)[i] = IF i <= Len(a) THEN a[i] ELSE b[i - Len(a)]
      BY <2>3, <2>4, ConcatProperties DEF a, b
    <3>2. Len(a) = k - 1 /\ Len(b) = Len(s) - k /\ Len(s) \in Nat
      BY <2>3, <2>4 DEF a, b
    <3>3. Len(a \o b) = Len(s) - 1
      BY <2>1, <3>1, <3>2
    <3>4. ASSUME NEW i \in 1 .. (Len(s) - 1)
          PROVE  (a \o b)[i] = IF i < k THEN s[i] ELSE s[i + 1]
      <4>1. CASE i < k
        BY <2>1, <2>3, <3>1, <3>2, <4>1 DEF a
      <4>2. CASE ~(i < k)
        <5>1. i - Len(a) \in 1 .. (Len(s) - k) /\ (i - Len(a)) + k = i + 1
          BY <2>1, <3>2, <4>2
        <5>2. QED
          BY <2>1, <2>4, <3>1, <3>2, <4>2, <5>1 DEF b
      <4>3. QED
        BY <4>1, <4>2
    <3>5. /\ a \o b \in Seq(S) /\ DOMAIN (a \o b) = 1 .. (Len(s) - 1)
          /\ \A i \in DOMAIN (a \o b) : (a \o b)[i] = IF i < k THEN s[i] ELSE s[i + 1]
      <4> DEFINE ab == a \o b
      <4>1. ab \in Seq(S) /\ Len(ab) = Len(s) - 1
        BY <3>1, <3>3
      <4>2. \A i \in 1 .. (Len(s) - 1) : ab[i] = IF i < k THEN s[i] ELSE s[i + 1]
        BY <3>4
      <4> HIDE DEF ab
      <4>3. DOMAIN ab = 1 .. (Len(s) - 1)
        BY <4>1
      <4>4. ab \in Seq(S) /\ DOMAIN ab = 1 .. (Len(s) - 1)
            /\ \A i \in DOMAIN ab : ab[i] = IF i < k THEN s[i] ELSE s[i + 1]
        BY <4>1, <4>2, <4>3
      <4>5. QED
        BY <4>4 DEF ab
    <3>6. QED
      BY <3>5 DEF a, b
  <2> HIDE DEF r
  <2>6. ASSUME NEW i \in DOMAIN r
        PROVE  \E j \in DOMAIN s : /\ j # k /\ r[i] = s[j]
                                   /\ j = IF i < k THEN i ELSE i + 1
    BY <2>1, <2>5
  <2>7. ToSet(r) \subseteq ToSet(s) \ {e}
    BY <2>1, <2>6 DEF ToSet, Distinct
  <2>8. Distinct(r)
    <3> SUFFICES ASSUME NEW i \in DOMAIN r, NEW j \in DOMAIN r, r[i] = r[j] PROVE i = j
      BY DEF Distinct
    <3>1. (IF i < k THEN i ELSE i + 1) = (IF j < k THEN j ELSE j + 1)
      BY <2>6 DEF Distinct
    <3>2. QED
      BY <2>1, <2>5, <3>1
  <2>9. QED
    BY <2>2, <2>5, <2>7, <2>8
<1>3. QED
  BY <1>1, <1>2

\* Destroy disconnects an object only in its last phase.
LEMMA DestroySlots ==
  ASSUME SlotTypes, Distinct(observers), Distinct(publishers), NEW o, NEW ph, Destroy(o, ph)
  PROVE  /\ SlotTypes' /\ Distinct(observers)' /\ Distinct(publishers)'
         /\ ToSet(observers') \subseteq ToSet(observers)
         /\ ToSet(publishers') \subseteq ToSet(publishers)
         /\ ph = "gone" => o \notin ToSet(publishers')
<1>1. CASE ph = "gone"
  BY <1>1, Disconnected DEF Destroy, SlotTypes
<1>2. CASE ph # "gone"
  BY <1>2 DEF Destroy, SlotTypes
<1>3. QED
  BY <1>1, <1>2

LEMMA NextFlagTypes == TypeOK /\ [Next]_vars => MainTypes' /\ TableTypes' /\ FlagTypes'
<1> SUFFICES ASSUME MainTypes, TableTypes, FlagTypes, [Next]_vars
             PROVE  MainTypes' /\ TableTypes' /\ FlagTypes'
  BY TypesInParts
<1>t. "color" \in Threads /\ "depth" \in Threads /\ "main" \in Threads
  BY DEF Threads
<1>e. ASSUME NEW t \in Threads, NEW key \in {"COLOR", "DEPTH"}
      PROVE  /\ EnterTable(t, key) /\ UNCHANGED keys => TableTypes'
             /\ LeaveTable(t, key) => TableTypes'
  BY DEF EnterTable, LeaveTable, TableTypes
<1>k. UNCHANGED tableVars => TableTypes'
  BY DEF TableTypes, tableVars
<1>m. UNCHANGED mainVars => MainTypes'
  BY DEF MainTypes, mainVars
<1>f. UNCHANGED <<cropping, stop, logger, streams>> => FlagTypes'
  BY DEF FlagTypes
<1>1. CASE CameraFails \/ OpenVideoStream \/ StartColor \/ StartDepth
  BY <1>1, <1>k DEF CameraFails, OpenVideoStream, StartColor, StartDepth, MainTypes, FlagTypes
<1>2. ASSUME NEW o \in CameraObservers, BeginSubscribe(o) \/ Subscribe(o)
      PROVE  MainTypes' /\ TableTypes' /\ FlagTypes'
  <2>1. TableTypes'
    BY <1>2, <1>t, <1>e DEF BeginSubscribe, Subscribe
  <2>2. MainTypes' /\ FlagTypes'
    BY <1>2, <1>m, <1>f DEF BeginSubscribe, Subscribe, MainTypes
  <2>3. QED
    BY <2>1, <2>2
<1>3. ASSUME NEW o, SubscribePublisher(o) \/ RunBody(o) \/ Complete(o) \/ (\E ph : Destroy(o, ph))
      PROVE  MainTypes' /\ TableTypes' /\ FlagTypes'
  BY <1>3, <1>k, <1>f DEF SubscribePublisher, RunBody, Complete, Destroy, MainTypes
<1>4. CASE \/ PortIsNoNumber \/ ListenFails \/ EnterLoop \/ LeaveLoop \/ UpdateThrows \/ Unwound
           \/ Exit
  BY <1>4, <1>k, <1>f DEF PortIsNoNumber, ListenFails, EnterLoop, LeaveLoop, UpdateThrows, Unwound,
     Exit, MainTypes
<1>5. ASSUME NEW d \in BOOLEAN, Update(d) PROVE MainTypes' /\ TableTypes' /\ FlagTypes'
  <2>1. TableTypes'
    BY <1>5, <1>t, <1>e, <1>k DEF Update, tableVars
  <2>2. QED
    BY <1>5, <1>f, <2>1 DEF Update, MainTypes
<1>6. CASE ShowWindow \/ RemoveColorListener \/ RemoveDepthListener \/ CloseCamera \/ DropLoggers
  BY <1>6, <1>k DEF ShowWindow, RemoveColorListener, RemoveDepthListener, CloseCamera, DropLoggers,
     MainTypes, FlagTypes
<1>7. CASE NewFrame \/ EndDepthFrame \/ BeginCalls
  <2>1. TableTypes'
    BY <1>7, <1>t, <1>e DEF NewFrame, ColorFrame, BeginDepthFrame, EndDepthFrame, BeginCalls
  <2>2. QED
    BY <1>7, <1>m, <1>f, <2>1 DEF NewFrame, ColorFrame, BeginDepthFrame, EndDepthFrame, BeginCalls
<1>8. CASE Interrupt \/ PublisherThrows
  BY <1>8, <1>k, <1>m DEF Interrupt, PublisherThrows, MainTypes, FlagTypes
<1>9. CASE \/ NotifySpace \/ CallObserver \/ CallPublisher \/ PublisherReturns \/ ObserverReturns
           \/ EndFrame
  BY <1>9, <1>k, <1>m, <1>f DEF NotifySpace, CallObserver, CallPublisher, PublisherReturns,
     ObserverReturns, EndFrame, Calls
<1>10. CASE UNCHANGED vars
  BY <1>10, <1>k, <1>m, <1>f DEF vars
<1>11. QED
  BY <1>1, <1>2, <1>3, <1>4, <1>5, <1>6, <1>7, <1>8, <1>9, <1>10
     DEF Next, Main, Build, Loop, TakeDown, Delivery

\* The first entry of the plan that begins an object finds it not begun.
LEMMA BaseIsNew ==
  ASSUME Planned, NEW o, NextIs(o, "base")
  PROVE  phase[o] = "none"
<1>1. todo # <<>> /\ todo[1] = <<o, "base">> /\ 1 \in DOMAIN todo
  BY DEF NextIs, Planned
<1>2. QED
  BY <1>1 DEF Planned, Begins

\* A step along the plan begins objects and ends none of the others.
LEMMA AdvanceBegins ==
  ASSUME TypeOK, Planned, Stages, NEW o, NEW ph, Advance(o, ph)
  PROVE  /\ o \in Objects /\ ph # "none"
         /\ phase'[o] = ph /\ \A u \in Objects \ {o} : phase'[u] = phase[u]
         /\ Begun \subseteq Begun'
<1>1. o \in Objects /\ ph # "none" /\ phase \in [Objects -> Phases]
  BY AdvanceKeepsPlan, TypeFacts DEF Used
<1>2. phase' = [phase EXCEPT ![o] = ph]
  BY DEF Advance, Enter
<1>3. QED
  BY <1>1, <1>2 DEF Begun

LEMMA SubscribeSlots ==
  ASSUME TypeOK, Planned, Stages, Slots, NEW o \in CameraObservers, Subscribe(o)
  PROVE  SlotTypes' /\ Slots'
<1>1. /\ NextIs(o, "base") /\ observers' = <<o>> \o observers /\ publishers' = publishers
      /\ Advance(o, "base")
  BY Advances DEF Subscribe
<1>2. o \notin ToSet(observers)
  BY <1>1, BaseIsNew DEF Slots, Begun
<1>3. /\ Begun \subseteq Begun' /\ o \in Begun'
      /\ \A u \in Objects \ {o} : phase'[u] = phase[u]
  BY <1>1, AdvanceBegins DEF Begun
<1>4. observers \in Seq(CameraObservers) /\ publishers \in Seq(Publishers)
  BY TypeFacts
<1> DEFINE n == <<o>> \o observers
<1>5. /\ n \in Seq(CameraObservers) /\ DOMAIN n = 1 .. (Len(observers) + 1)
      /\ n[1] = o /\ \A i \in DOMAIN n \ {1} : i - 1 \in DOMAIN observers /\ n[i] = observers[i - 1]
  BY <1>4
<1> HIDE DEF n
<1>6. Distinct(n)
  <2> SUFFICES ASSUME NEW i \in DOMAIN n, NEW j \in DOMAIN n, n[i] = n[j] PROVE i = j
    BY DEF Distinct
  <2>1. CASE i = 1 \/ j = 1
    BY <1>2, <1>5, <2>1 DEF ToSet
  <2>2. CASE i # 1 /\ j # 1
    <3>1. i - 1 = j - 1
      BY <1>5, <2>2 DEF Slots, Distinct
    <3>2. QED
      BY <1>5, <3>1
  <2>3. QED
    BY <2>1, <2>2
<1>7. ToSet(n) \subseteq Begun'
  BY <1>3, <1>5 DEF Slots, ToSet
<1>8. \A u \in ToSet(publishers') : phase'[u] \notin {"none", "gone"}
  <2>1. \A u \in ToSet(publishers) : u \in Objects \ {o}
    BY <1>4 DEF ToSet, Publishers, CameraObservers, Objects
  <2>2. QED
    BY <1>1, <1>3, <2>1 DEF Slots
<1>9. QED
  BY <1>1, <1>4, <1>5, <1>6, <1>7, <1>8 DEF SlotTypes, Slots, n

LEMMA SubscribePublisherSlots ==
  ASSUME TypeOK, Planned, Stages, Slots, NEW o \in Publishers, SubscribePublisher(o)
  PROVE  SlotTypes' /\ Slots'
<1>1. /\ NextIs(o, "base") /\ publishers' = Append(publishers, o) /\ observers' = observers
      /\ Advance(o, "base")
  BY Advances DEF SubscribePublisher
<1>2. o \notin ToSet(publishers)
  BY <1>1, BaseIsNew DEF Slots
<1>3. /\ Begun \subseteq Begun' /\ phase'[o] = "base"
      /\ \A u \in Objects \ {o} : phase'[u] = phase[u]
  BY <1>1, AdvanceBegins
<1>4. observers \in Seq(CameraObservers) /\ publishers \in Seq(Publishers)
  BY TypeFacts
<1> DEFINE n == Append(publishers, o)
<1>5. /\ n \in Seq(Publishers) /\ DOMAIN n = 1 .. (Len(publishers) + 1)
      /\ n[Len(publishers) + 1] = o /\ Len(publishers) \in Nat
      /\ \A i \in 1 .. Len(publishers) : n[i] = publishers[i]
  BY <1>4
<1> HIDE DEF n
<1>6. \A i \in DOMAIN n : \/ i = Len(publishers) + 1
                         \/ (i \in DOMAIN publishers /\ n[i] = publishers[i])
  BY <1>4, <1>5
<1>7. Distinct(n)
  BY <1>2, <1>5, <1>6 DEF Slots, Distinct, ToSet
<1>8. \A u \in ToSet(n) : u = o \/ u \in ToSet(publishers)
  BY <1>5, <1>6 DEF ToSet
<1>9. \A u \in ToSet(publishers) : u \in Objects \ {o}
  BY <1>2, <1>4 DEF ToSet, Objects
<1>10. \A u \in ToSet(n) : phase'[u] \notin {"none", "gone"}
  BY <1>3, <1>8, <1>9 DEF Slots
<1>11. QED
  BY <1>1, <1>3, <1>4, <1>5, <1>7, <1>10 DEF SlotTypes, Slots, n

LEMMA DestroyKeepsSlots ==
  ASSUME TypeOK, Planned, Stages, Slots, NEW o \in Objects, NEW ph \in Phases, Destroy(o, ph),
         Advance(o, ph)
  PROVE  SlotTypes' /\ Slots'
<1>1. SlotTypes
  BY TypesInParts
<1>2. /\ SlotTypes' /\ Distinct(observers)' /\ Distinct(publishers)'
      /\ ToSet(observers') \subseteq ToSet(observers)
      /\ ToSet(publishers') \subseteq ToSet(publishers)
      /\ ph = "gone" => o \notin ToSet(publishers')
  BY <1>1, DestroySlots DEF Slots
<1>3. /\ Begun \subseteq Begun' /\ phase'[o] = ph /\ ph # "none"
      /\ \A u \in Objects \ {o} : phase'[u] = phase[u]
  BY AdvanceBegins
<1>4. ToSet(publishers) \subseteq Objects
  BY <1>1 DEF SlotTypes, ToSet, Objects
<1>5. QED
  BY <1>2, <1>3, <1>4 DEF Slots

LEMMA NextSlots ==
  TypeOK /\ Planned /\ Stages /\ Slots /\ [Next]_vars => SlotTypes' /\ Slots'
<1> SUFFICES ASSUME TypeOK, Planned, Stages, Slots, [Next]_vars PROVE SlotTypes' /\ Slots'
  OBVIOUS
<1>t. SlotTypes
  BY TypesInParts
<1>k. UNCHANGED <<phase, observers, publishers>> => SlotTypes' /\ Slots'
  BY <1>t DEF SlotTypes, Slots, Begun
<1>o. UNCHANGED objectVars => SlotTypes' /\ Slots'
  BY <1>k DEF objectVars
<1>1. CASE CameraFails \/ OpenVideoStream \/ StartColor \/ StartDepth
  BY <1>1, <1>o DEF CameraFails, OpenVideoStream, StartColor, StartDepth
<1>2. ASSUME NEW o \in CameraObservers, BeginSubscribe(o) PROVE SlotTypes' /\ Slots'
  BY <1>2, <1>o DEF BeginSubscribe
<1>3. ASSUME NEW o \in CameraObservers, Subscribe(o) PROVE SlotTypes' /\ Slots'
  BY <1>3, SubscribeSlots
<1>4. ASSUME NEW o \in Publishers, SubscribePublisher(o) PROVE SlotTypes' /\ Slots'
  BY <1>4, SubscribePublisherSlots
<1>5. ASSUME NEW o \in Objects, RunBody(o) \/ Complete(o) PROVE SlotTypes' /\ Slots'
  <2>1. UNCHANGED <<observers, publishers>>
    BY <1>5 DEF RunBody, Complete
  <2>2. \E ph \in {"body", "live"} : Advance(o, ph)
    BY <1>5, Advances
  <2>3. PICK ph \in {"body", "live"} : Advance(o, ph)
    BY <2>2
  <2>4. /\ Begun \subseteq Begun' /\ phase'[o] = ph
        /\ \A u \in Objects \ {o} : phase'[u] = phase[u]
    BY <2>3, AdvanceBegins
  <2>5. ToSet(publishers) \subseteq Objects
    BY <1>t DEF SlotTypes, ToSet, Objects
  <2>6. QED
    BY <1>t, <2>1, <2>4, <2>5 DEF Slots, SlotTypes
<1>6. CASE PortIsNoNumber \/ ListenFails \/ EnterLoop \/ LeaveLoop \/ UpdateThrows
  BY <1>6, <1>o DEF PortIsNoNumber, ListenFails, EnterLoop, LeaveLoop, UpdateThrows
<1>7. ASSUME NEW d \in BOOLEAN, Update(d) PROVE SlotTypes' /\ Slots'
  BY <1>7, <1>o DEF Update
<1>8. ASSUME NEW o \in Objects, NEW ph \in Phases, Destroy(o, ph) PROVE SlotTypes' /\ Slots'
  <2>1. Advance(o, ph)
    BY <1>8, DestroyAdvances
  <2>2. QED
    BY <1>8, <2>1, DestroyKeepsSlots
<1>9. CASE ShowWindow \/ Unwound \/ RemoveColorListener \/ RemoveDepthListener \/ DropLoggers
             \/ Exit
  BY <1>9, <1>o DEF ShowWindow, Unwound, RemoveColorListener, RemoveDepthListener, DropLoggers,
     Exit
<1>10. CASE CloseCamera
  BY <1>10, <1>t DEF CloseCamera, SlotTypes, Slots, Begun, Distinct, ToSet
<1>11. CASE Interrupt \/ NewFrame \/ NotifySpace \/ EndDepthFrame \/ UNCHANGED vars
  BY <1>11, <1>o DEF Interrupt, NewFrame, ColorFrame, BeginDepthFrame, NotifySpace, Calls,
     EndDepthFrame, vars
<1>12. CASE Delivery
  BY <1>12, <1>o DEF Delivery, BeginCalls, CallObserver, CallPublisher, PublisherReturns,
     ObserverReturns, EndFrame, PublisherThrows, Calls
<1>13. QED
  BY <1>1, <1>2, <1>3, <1>4, <1>5, <1>6, <1>7, <1>8, <1>9, <1>10, <1>11, <1>12
     DEF Next, Main, Build, Loop, TakeDown

\* Phases change along the plan only.
LEMMA NextPhase ==
  ASSUME TypeOK, Planned, Stages, [Next]_vars
  PROVE  Begun \subseteq Begun' /\ phase' \in [Objects -> Phases]
<1>t. phase \in [Objects -> Phases]
  BY TypeFacts
<1>a. ASSUME NEW o, NEW ph, Advance(o, ph)
      PROVE  Begun \subseteq Begun' /\ phase' \in [Objects -> Phases]
  <2>1. ph \in Phases /\ phase' = [phase EXCEPT ![o] = ph]
    BY <1>a, AdvanceKeepsPlan DEF Advance, Enter
  <2>2. QED
    BY <1>a, <1>t, <2>1, AdvanceBegins
<1>k. phase' = phase => Begun \subseteq Begun' /\ phase' \in [Objects -> Phases]
  BY <1>t DEF Begun
<1>1. ASSUME NEW o \in CameraObservers, BeginSubscribe(o) PROVE phase' = phase
  BY <1>1 DEF BeginSubscribe, objectVars
<1>2. ASSUME NEW o \in CameraObservers, Subscribe(o) PROVE Advance(o, "base")
  BY <1>2, Advances
<1>3. ASSUME NEW o \in Publishers, SubscribePublisher(o) PROVE Advance(o, "base")
  BY <1>3, Advances
<1>4. ASSUME NEW o \in Objects, RunBody(o) PROVE Advance(o, "body")
  BY <1>4, Advances
<1>5. ASSUME NEW o \in Objects, Complete(o) PROVE Advance(o, "live")
  BY <1>5, Advances
<1>6. ASSUME NEW o \in Objects, NEW ph \in Phases, Destroy(o, ph) PROVE Advance(o, ph)
  BY <1>6, DestroyAdvances
<1>7. CASE CameraFails \/ OpenVideoStream \/ StartColor \/ StartDepth \/ PortIsNoNumber
             \/ ListenFails \/ EnterLoop
  BY <1>7, <1>k DEF CameraFails, OpenVideoStream, StartColor, StartDepth, PortIsNoNumber,
     ListenFails, EnterLoop, objectVars
<1>8. CASE Loop
  BY <1>8, <1>k DEF Loop, LeaveLoop, Update, UpdateThrows, ShowWindow, objectVars
<1>9. CASE Unwound \/ RemoveColorListener \/ RemoveDepthListener \/ CloseCamera \/ DropLoggers
             \/ Exit
  BY <1>9, <1>k DEF Unwound, RemoveColorListener, RemoveDepthListener, CloseCamera, DropLoggers,
     Exit, objectVars
<1>10. CASE Interrupt \/ NewFrame \/ NotifySpace \/ EndDepthFrame \/ UNCHANGED vars
  BY <1>10, <1>k DEF Interrupt, NewFrame, ColorFrame, BeginDepthFrame, NotifySpace, Calls,
     EndDepthFrame, vars, objectVars
<1>11. CASE Delivery
  BY <1>11, <1>k DEF Delivery, BeginCalls, CallObserver, CallPublisher, PublisherReturns,
     ObserverReturns, EndFrame, PublisherThrows, Calls, objectVars
<1>12. QED
  BY <1>a, <1>k, <1>1, <1>2, <1>3, <1>4, <1>5, <1>6, <1>7, <1>8, <1>9, <1>10, <1>11
     DEF Next, Main, Build, TakeDown

\* listen() gets a number that 16 bits can hold.
LEMMA NextPort ==
  ASSUME TypeOK, Planned, [Next]_vars
  PROVE  port' \in 0 .. UInt16 - 1
<1>t. port \in 0 .. UInt16 - 1
  BY TypesInParts
<1>k. UNCHANGED port => port' \in 0 .. UInt16 - 1
  BY <1>t
<1>1. ASSUME NEW o \in Objects, Complete(o) PROVE port' \in 0 .. UInt16 - 1
  <2>1. CASE o # "websocket"
    BY <1>1, <2>1, <1>t DEF Complete
  <2>2. CASE o = "websocket"
    <3>1. /\ todo # <<>> /\ todo[1] = <<o, "live">> /\ 1 \in DOMAIN todo
          /\ DOMAIN todo \subseteq Nat \ {0}
      BY <1>1, TypeFacts DEF Complete, NextIs
    <3>2. ~\E j \in {k \in DOMAIN todo : k < 1} : todo[j] = <<o, "base">>
      BY <3>1
    <3>3. phase["websocket"] # "none"
      BY <2>2, <3>1, <3>2 DEF Planned, Begins
    <3>4. PICK n : n = PortOf[args.websocket[1]]
      OBVIOUS
    <3>5. n \in Int
      BY <3>3, <3>4, PortAssumption DEF Planned
    <3>6. n % UInt16 \in 0 .. UInt16 - 1
      <4>1. UInt16 \in Nat \ {0}
        BY DEF UInt16
      <4>2. QED
        BY <3>5, <4>1
    <3>7. QED
      BY <1>1, <2>2, <3>4, <3>6 DEF Complete
  <2>3. QED
    BY <2>1, <2>2
<1>2. CASE CameraFails \/ OpenVideoStream \/ StartColor \/ StartDepth \/ PortIsNoNumber
             \/ ListenFails \/ EnterLoop
  BY <1>2, <1>k DEF CameraFails, OpenVideoStream, StartColor, StartDepth, PortIsNoNumber,
     ListenFails, EnterLoop
<1>3. ASSUME NEW o, BeginSubscribe(o) \/ Subscribe(o) \/ SubscribePublisher(o) \/ RunBody(o)
      PROVE  port' \in 0 .. UInt16 - 1
  BY <1>3, <1>k DEF BeginSubscribe, Subscribe, SubscribePublisher, RunBody, mainVars
<1>4. CASE Loop
  BY <1>4, <1>k DEF Loop, LeaveLoop, Update, UpdateThrows, ShowWindow
<1>5. ASSUME NEW o \in Objects, NEW ph \in Phases, Destroy(o, ph) PROVE port' \in 0 .. UInt16 - 1
  BY <1>5, <1>k DEF Destroy
<1>6. CASE Unwound \/ RemoveColorListener \/ RemoveDepthListener \/ CloseCamera \/ DropLoggers
             \/ Exit
  BY <1>6, <1>k DEF Unwound, RemoveColorListener, RemoveDepthListener, CloseCamera, DropLoggers,
     Exit
<1>7. CASE Interrupt \/ NewFrame \/ NotifySpace \/ EndDepthFrame \/ UNCHANGED vars
  BY <1>7, <1>k DEF Interrupt, NewFrame, ColorFrame, BeginDepthFrame, NotifySpace, Calls,
     EndDepthFrame, vars, mainVars
<1>8. CASE Delivery
  BY <1>8, <1>k DEF Delivery, BeginCalls, CallObserver, CallPublisher, PublisherReturns,
     ObserverReturns, EndFrame, PublisherThrows, Calls, mainVars
<1>9. QED
  BY <1>1, <1>2, <1>3, <1>4, <1>5, <1>6, <1>7, <1>8 DEF Next, Main, Build, TakeDown

\* The frame on its way: the observers it is shown to, one after another, and
\* the publishers that the tracker calls meanwhile.
LEMMA NextCalled ==
  ASSUME TypeOK, Planned, Stages, Slots, Called, Apart, [Next]_vars
  PROVE  frame' \in Frames /\ Called'
<1>t. frame \in Frames /\ observers \in Seq(CameraObservers) /\ publishers \in Seq(Publishers)
  BY TypeFacts DEF Frames
<1>b. Begun \subseteq Begun'
  BY NextPhase
<1>k. UNCHANGED frame => frame' \in Frames /\ Called'
  BY <1>t, <1>b DEF Called
<1>n. frame' = NoFrame => frame' \in Frames /\ Called'
  BY DEF NoFrame, Frames, Called
\* The frame begins.
<1>1. ASSUME frame = NoFrame, frame' = [frame EXCEPT !.at = "table"]
      PROVE  frame' \in Frames /\ Called'
  <2>1. frame' = [at |-> "table", slots |-> <<>>, inner |-> <<>>, in |-> {}]
    BY <1>1 DEF NoFrame
  <2>2. QED
    BY <2>1 DEF Frames, Called
<1>2. CASE BeginCalls
  BY <1>2, <1>t, <1>b DEF BeginCalls, Frames, Called
<1>3. CASE CallObserver
  <2>1. frame' = [frame EXCEPT !.slots = Tail(frame.slots),
                               !.in = {Head(frame.slots)} \cap ToSet(observers)]
    BY <1>3 DEF CallObserver
  <2>2. frame.slots # <<>> /\ frame.slots \in Seq(CameraObservers) /\ frame.at = "calls"
    BY <1>3, <1>t DEF CallObserver, Frames
  <2>3. Tail(frame.slots) \in Seq(CameraObservers) /\ Head(frame.slots) \in CameraObservers
    BY <2>2
  <2>4. {Head(frame.slots)} \cap ToSet(observers) \subseteq Begun \cap CameraObservers
    BY <2>3 DEF Slots
  <2>5. CameraObservers \subseteq Objects /\ CameraObservers \cap Publishers = {}
    BY DEF Objects, CameraObservers, Publishers
  <2> DEFINE hd == {Head(frame.slots)} \cap ToSet(observers)
             tl == Tail(frame.slots)
  <2>6. frame' = [frame EXCEPT !.slots = tl, !.in = hd]
    BY <2>1
  <2> HIDE DEF hd, tl
  <2>7. frame'.in = hd /\ frame'.at = "calls" /\ frame' \in Frames
    BY <1>t, <2>2, <2>3, <2>4, <2>5, <2>6 DEF Frames, hd, tl
  <2>8. hd \subseteq Begun' /\ hd \cap Publishers = {}
    BY <1>b, <2>4, <2>5 DEF hd
  <2>9. QED
    BY <2>7, <2>8 DEF Called
<1>4. CASE NotifySpace
  BY <1>4, <1>t, <1>b DEF NotifySpace, Frames, Called
<1>5. CASE CallPublisher
  <2> DEFINE hd == {"tracker"} \cup ({Head(frame.inner)} \cap ToSet(publishers))
             tl == Tail(frame.inner)
  <2>1. frame' = [frame EXCEPT !.inner = tl, !.in = hd]
    BY <1>5 DEF CallPublisher
  <2>2. frame.inner # <<>> /\ frame.inner \in Seq(Publishers) /\ frame.in = {"tracker"}
    BY <1>5, <1>t DEF CallPublisher, Frames
  <2>3. tl \in Seq(Publishers)
    BY <2>2
  <2>4. hd \subseteq Begun /\ hd \subseteq Objects /\ "tracker" \in hd
    <3>1. ToSet(publishers) \subseteq Begun /\ "tracker" \in Begun
      BY <1>t, <2>2 DEF Slots, Called, Begun, ToSet, Objects
    <3>2. QED
      BY <3>1 DEF Begun
  <2> HIDE DEF hd, tl
  <2>5. frame'.in = hd /\ frame'.at = frame.at /\ frame' \in Frames
    BY <1>t, <2>1, <2>3, <2>4 DEF Frames
  <2>6. frame.at = "calls"
    BY <2>2 DEF Called
  <2>7. QED
    BY <1>b, <2>4, <2>5, <2>6 DEF Called
<1>6. CASE PublisherReturns
  <2>1. frame' = [frame EXCEPT !.in = {"tracker"}] /\ "tracker" \in frame.in /\ frame.at = "calls"
    BY <1>6 DEF PublisherReturns, Called
  <2>2. "tracker" \in Objects
    BY DEF Objects, CameraObservers
  <2>3. frame' \in Frames /\ frame'.in = {"tracker"} /\ frame'.at = "calls"
    BY <1>t, <2>1, <2>2 DEF Frames
  <2>4. QED
    BY <1>b, <2>1, <2>3 DEF Called
<1>7. CASE ObserverReturns
  BY <1>7, <1>t, <1>b DEF ObserverReturns, Frames, Called
<1>8. CASE EndFrame \/ PublisherThrows
  BY <1>8, <1>n DEF EndFrame, PublisherThrows
<1>9. ASSUME NEW d \in BOOLEAN, Update(d) PROVE frame' \in Frames /\ Called'
  <2>1. d => frame = NoFrame
    BY <1>9 DEF Update, Apart, At
  <2>2. QED
    BY <1>9, <1>1, <1>k, <2>1 DEF Update
<1>10. CASE NewFrame
  BY <1>10, <1>1, <1>k DEF NewFrame, ColorFrame, BeginDepthFrame
<1>11. CASE CameraFails \/ OpenVideoStream \/ StartColor \/ StartDepth \/ PortIsNoNumber
             \/ ListenFails \/ EnterLoop \/ LeaveLoop \/ UpdateThrows \/ ShowWindow
  BY <1>11, <1>k DEF CameraFails, OpenVideoStream, StartColor, StartDepth, PortIsNoNumber,
     ListenFails, EnterLoop, LeaveLoop, UpdateThrows, ShowWindow
<1>12. ASSUME NEW o, \/ BeginSubscribe(o) \/ Subscribe(o) \/ SubscribePublisher(o) \/ RunBody(o)
                     \/ Complete(o) \/ \E ph : Destroy(o, ph)
       PROVE  frame' \in Frames /\ Called'
  BY <1>12, <1>k DEF BeginSubscribe, Subscribe, SubscribePublisher, RunBody, Complete, Destroy
<1>13. CASE Unwound \/ RemoveColorListener \/ RemoveDepthListener \/ CloseCamera \/ DropLoggers
              \/ Exit \/ Interrupt \/ EndDepthFrame \/ UNCHANGED vars
  BY <1>13, <1>k DEF Unwound, RemoveColorListener, RemoveDepthListener, CloseCamera, DropLoggers,
     Exit, Interrupt, EndDepthFrame, vars
<1>14. QED
  BY <1>2, <1>3, <1>4, <1>5, <1>6, <1>7, <1>8, <1>9, <1>10, <1>11, <1>12, <1>13
     DEF Next, Main, Build, Loop, TakeDown, Delivery

LEMMA NextTypeOK ==
  ASSUME TypeOK, Planned, Stages, Slots, Called, Apart, [Next]_vars
  PROVE  TypeOK'
<1>1. MainTypes' /\ TableTypes' /\ FlagTypes' /\ SlotTypes' /\ phase' \in [Objects -> Phases]
  BY NextFlagTypes, NextSlots, NextPhase
<1>2. frame' \in Frames /\ port' \in 0 .. UInt16 - 1
  BY NextCalled, NextPort
<1>3. todo' \in Seq(Objects \X Phases)
  <2> DEFINE U == Used' \X (Phases \ {"none"})
             O == Objects \X Phases
  <2>1. todo' \in Seq(U)
    BY NextPlan DEF Planned
  <2>2. U \subseteq O
    BY DEF Used
  <2> HIDE DEF U, O
  <2>3. todo' \in Seq(O)
    BY <2>1, <2>2, SeqMonotonic
  <2>4. QED
    BY <2>3 DEF O
<1>4. TypeOK' <=> /\ MainTypes' /\ TableTypes' /\ FlagTypes' /\ SlotTypes'
                  /\ todo' \in Seq(Objects \X Phases) /\ phase' \in [Objects -> Phases]
                  /\ frame' \in Frames /\ port' \in 0 .. UInt16 - 1
  BY DEF TypeOK, MainTypes, TableTypes, FlagTypes, SlotTypes, Frames
<1>5. QED
  BY <1>1, <1>2, <1>3, <1>4

-----------------------------------------------------------------------------
(***************************************************************************)
(* Threads: who is in the table of signals, and when streams and frames    *)
(* have ended                                                              *)
(***************************************************************************)
\* Between frames nothing is called.
LEMMA NothingToDeliver ==
  ASSUME frame = NoFrame
  PROVE  ~Delivery /\ ~NotifySpace
BY DEF NoFrame, Delivery, NotifySpace, BeginCalls, CallObserver, CallPublisher, PublisherReturns,
   ObserverReturns, EndFrame, PublisherThrows, Publishers

\* A thread of a delivery leaves the table before it calls anyone.
LEMMA CallsAreOutside ==
  ASSUME Called, Apart, Delivery, ~BeginCalls
  PROVE  frame.at = "calls" /\ access["color"] = "none"
<1>1. frame.at = "calls"
  BY DEF Called, Delivery, CallObserver, CallPublisher, PublisherReturns, ObserverReturns,
     EndFrame, PublisherThrows
<1>2. QED
  BY <1>1 DEF Apart

\* main is in the table only when the next phase is an observer's base.
LEMMA MainInTable ==
  ASSUME Apart, NEW o, NEW ph, pc # "aborted",
         pc = "build" =>
           todo = <<>> \/ (NextIs(o, ph) /\ (ph # "base" \/ o \notin CameraObservers))
  PROVE  access["main"] = "none"
BY DEF Apart, NextIs

LEMMA NextApart ==
  ASSUME TypeOK, Called, Apart, [Next]_vars
  PROVE  Apart'
<1>t. /\ access \in [Threads -> {"none", "find", "insert"}]
      /\ "color" \in Threads /\ "depth" \in Threads /\ "main" \in Threads
  BY TypeFacts DEF Threads
<1> USE DEF At
<1>1. CASE CameraFails \/ OpenVideoStream \/ StartColor \/ StartDepth
  <2>1. /\ access["main"] = "none" /\ UNCHANGED <<args, access, cropping, frame>>
        /\ pc \in {"camera", "depth"}
    BY <1>1 DEF CameraFails, OpenVideoStream, StartColor, StartDepth, tableVars, Apart
  <2>2. args.camera = "VideoStream" => streams' = streams /\ pc' # "depth"
    BY <1>1 DEF CameraFails, OpenVideoStream, StartColor, StartDepth, Apart
  <2>3. QED
    BY <2>1, <2>2 DEF Apart
<1>2. ASSUME NEW o \in CameraObservers, BeginSubscribe(o) PROVE Apart'
  <2>1. /\ access' = [access EXCEPT !["main"] = access'["main"]] /\ NextIs(o, "base")'
        /\ UNCHANGED <<pc, args, cropping, streams, frame>> /\ pc = "build"
    BY <1>2, <1>t DEF BeginSubscribe, EnterTable, mainVars, NextIs
  <2>2. access'["color"] = access["color"] /\ access'["depth"] = access["depth"]
    BY <1>t, <2>1
  <2>3. QED
    BY <2>1, <2>2 DEF Apart
<1>3. ASSUME NEW o \in CameraObservers, Subscribe(o) PROVE Apart'
  <2>1. /\ access' = [access EXCEPT !["main"] = "none"]
        /\ UNCHANGED <<pc, args, cropping, streams, frame>>
    BY <1>3 DEF Subscribe, LeaveTable
  <2>2. /\ access'["color"] = access["color"] /\ access'["depth"] = access["depth"]
        /\ access'["main"] = "none"
    BY <1>t, <2>1
  <2>3. QED
    BY <2>1, <2>2 DEF Apart
<1>4. ASSUME NEW o \in Publishers, SubscribePublisher(o) PROVE Apart'
  <2>1. access["main"] = "none"
    BY <1>4, MainInTable DEF SubscribePublisher, Publishers, CameraObservers
  <2>2. QED
    BY <1>4, <2>1 DEF SubscribePublisher, Apart, tableVars
<1>5. ASSUME NEW o \in Objects, RunBody(o) \/ Complete(o) PROVE Apart'
  <2>1. access["main"] = "none"
    BY <1>5, MainInTable DEF RunBody, Complete
  <2>2. QED
    BY <1>5, <2>1 DEF RunBody, Complete, Apart, tableVars
<1>6. CASE PortIsNoNumber \/ ListenFails
  <2>1. access["main"] = "none"
    BY <1>6, MainInTable DEF PortIsNoNumber, ListenFails, CameraObservers
  <2>2. /\ pc = "build" /\ pc' \in {"catch", "unwind"}
        /\ UNCHANGED <<args, access, cropping, streams, frame>>
    BY <1>6 DEF PortIsNoNumber, ListenFails, tableVars
  <2>3. QED
    BY <2>1, <2>2 DEF Apart
<1>7. CASE EnterLoop
  <2>1. access["main"] = "none"
    BY <1>7, MainInTable DEF EnterLoop
  <2>2. QED
    BY <1>7, <2>1 DEF EnterLoop, Apart, tableVars
<1>8. CASE LeaveLoop \/ UpdateThrows \/ ShowWindow
  <2>1. /\ access["main"] = "none" /\ UNCHANGED <<args, access, streams, frame>>
        /\ pc' # "depth" /\ (cropping' = cropping \/ cropping' = FALSE)
    BY <1>8 DEF LeaveLoop, UpdateThrows, ShowWindow, Apart, tableVars
  <2>2. args.camera = "VideoStream" => frame = NoFrame
    BY <1>8 DEF LeaveLoop, UpdateThrows, ShowWindow, Apart
  <2>3. QED
    BY <2>1, <2>2 DEF Apart
<1>9. ASSUME NEW d \in BOOLEAN, Update(d) PROVE Apart'
  <2>1. CASE ~d
    BY <1>9, <2>1 DEF Update, Apart
  <2>2. CASE d
    <3>1. /\ args.camera = "VideoStream" /\ ~cropping /\ frame = NoFrame /\ pc = "loop"
          /\ pc' = "update" /\ UNCHANGED <<args, cropping, streams>>
          /\ access["main"] = "none" /\ frame' = [frame EXCEPT !.at = "table"]
      BY <1>9, <2>2 DEF Update, Apart
    <3>2. access' = [access EXCEPT !["color"] = IF "COLOR" \in keys THEN "find" ELSE "insert"]
      BY <1>9, <2>2 DEF Update, EnterTable
    <3>3. /\ access'["color"] # "none" /\ access'["depth"] = access["depth"]
          /\ access'["main"] = access["main"]
      BY <1>t, <3>2
    <3>4. frame'.at = "table"
      BY <3>1 DEF NoFrame
    <3>5. QED
      BY <3>1, <3>3, <3>4 DEF Apart
  <2>3. QED
    BY <2>1, <2>2
<1>10. ASSUME NEW o \in Objects, NEW ph \in Phases, Destroy(o, ph) PROVE Apart'
  <2>1. access["main"] = "none"
    BY <1>10 DEF Destroy, Apart
  <2>2. QED
    BY <1>10, <2>1 DEF Destroy, Apart, tableVars
<1>11. CASE Unwound \/ RemoveColorListener \/ RemoveDepthListener \/ CloseCamera \/ DropLoggers
              \/ Exit
  BY <1>11 DEF Unwound, RemoveColorListener, RemoveDepthListener, CloseCamera, DropLoggers, Exit,
     Apart, tableVars
<1>12. CASE Interrupt \/ UNCHANGED vars
  BY <1>12 DEF Interrupt, vars, mainVars, tableVars, Apart, NextIs
<1>13. CASE ColorFrame
  <2>1. /\ "color" \in streams /\ ~cropping /\ frame = NoFrame
        /\ access' = [access EXCEPT !["color"] = IF "COLOR" \in keys THEN "find" ELSE "insert"]
        /\ frame' = [frame EXCEPT !.at = "table"]
        /\ UNCHANGED <<pc, args, todo, cropping, streams>>
    BY <1>13 DEF ColorFrame, EnterTable, mainVars
  <2>2. /\ access'["color"] # "none" /\ access'["depth"] = access["depth"]
        /\ access'["main"] = access["main"]
    BY <1>t, <2>1
  <2>3. frame'.at = "table"
    BY <2>1 DEF NoFrame
  <2>4. QED
    BY <2>1, <2>2, <2>3 DEF Apart, NextIs
<1>14. CASE BeginDepthFrame \/ EndDepthFrame
  <2>1. /\ \E v : access' = [access EXCEPT !["depth"] = v]
        /\ UNCHANGED <<pc, args, todo, cropping, streams, frame>>
        /\ ~(cropping \/ args.camera = "VideoStream")
    BY <1>14 DEF BeginDepthFrame, EndDepthFrame, EnterTable, LeaveTable, mainVars, Apart
  <2>2. access'["color"] = access["color"] /\ access'["main"] = access["main"]
    BY <1>t, <2>1
  <2>3. QED
    BY <2>1, <2>2 DEF Apart, NextIs
<1>15. CASE BeginCalls
  <2>1. /\ access' = [access EXCEPT !["color"] = "none"] /\ frame # NoFrame /\ frame.at = "table"
        /\ frame' = [frame EXCEPT !.at = "calls", !.slots = observers]
        /\ UNCHANGED <<pc, args, todo, cropping, streams>>
    BY <1>15 DEF BeginCalls, LeaveTable, mainVars, NoFrame
  <2>2. /\ access'["color"] = "none" /\ access'["depth"] = access["depth"]
        /\ access'["main"] = access["main"]
    BY <1>t, <2>1
  <2>3. frame'.at = "calls"
    <3>1. frame \in Frames
      BY TypeFacts DEF Frames
    <3>2. QED
      BY <2>1, <3>1 DEF Frames
  <2>4. QED
    BY <2>1, <2>2, <2>3 DEF Apart, NextIs
<1>16. CASE NotifySpace
  <2>1. /\ frame' = [frame EXCEPT !.inner = publishers] /\ frame # NoFrame
        /\ UNCHANGED <<pc, args, todo, cropping, streams, access>>
    BY <1>16 DEF NotifySpace, Calls, mainVars, tableVars, NoFrame
  <2>2. frame'.at = frame.at
    <3>1. frame \in Frames
      BY TypeFacts DEF Frames
    <3>2. QED
      BY <2>1, <3>1 DEF Frames
  <2>3. QED
    BY <2>1, <2>2 DEF Apart, NextIs
<1>17. CASE CallObserver \/ CallPublisher \/ PublisherReturns \/ ObserverReturns \/ EndFrame
  <2>1. Delivery /\ ~BeginCalls
    <3>1. frame.at # "table"
      BY <1>17 DEF Called, CallObserver, CallPublisher, PublisherReturns, ObserverReturns, EndFrame
    <3>2. QED
      BY <1>17, <3>1 DEF Delivery, BeginCalls
  <2>2. frame.at = "calls" /\ access["color"] = "none" /\ frame # NoFrame
    BY <2>1, CallsAreOutside, NothingToDeliver
  <2>3. frame'.at \in {"calls", "idle"}
    <3>1. frame \in Frames
      BY TypeFacts DEF Frames
    <3>2. CASE CallObserver
      BY <2>2, <3>1, <3>2 DEF Frames, CallObserver
    <3>3. CASE CallPublisher
      BY <2>2, <3>1, <3>3 DEF Frames, CallPublisher
    <3>4. CASE PublisherReturns \/ ObserverReturns
      BY <2>2, <3>1, <3>4 DEF Frames, PublisherReturns, ObserverReturns
    <3>5. CASE EndFrame
      BY <3>5 DEF EndFrame, NoFrame
    <3>6. QED
      BY <1>17, <3>2, <3>3, <3>4, <3>5
  <2>4. UNCHANGED <<pc, args, todo, cropping, streams, access>>
    BY <1>17 DEF CallObserver, CallPublisher, PublisherReturns, ObserverReturns, EndFrame,
       Calls, mainVars, tableVars
  <2>5. QED
    BY <2>2, <2>3, <2>4 DEF Apart, NextIs
<1>18. CASE PublisherThrows
  <2>1. frame.at = "calls" /\ frame # NoFrame
    BY <1>18 DEF PublisherThrows, Called, NoFrame
  <2>2. /\ frame' = NoFrame /\ UNCHANGED <<args, access, cropping, streams>>
        /\ IF args.camera = "VideoStream" THEN pc' = "catch" ELSE pc' = "aborted"
    BY <1>18 DEF PublisherThrows, tableVars
  <2>3. args.camera = "VideoStream" => access["main"] = "none"
    BY <2>1 DEF Apart
  <2>4. access["color"] = "none" /\ frame'.at = "idle"
    BY <2>1, <2>2 DEF Apart, NoFrame
  <2>5. QED
    BY <2>1, <2>2, <2>3, <2>4 DEF Apart
<1>19. QED
  BY <1>1, <1>2, <1>3, <1>4, <1>5, <1>6, <1>7, <1>8, <1>9, <1>10, <1>11, <1>12, <1>13, <1>14,
     <1>15, <1>16, <1>17, <1>18
     DEF Next, Main, Build, Loop, TakeDown, NewFrame, Delivery

LEMMA NextStopped ==
  ASSUME TypeOK, Stages, Stopped, [Next]_vars
  PROVE  Stopped'
<1>t. /\ access \in [Threads -> {"none", "find", "insert"}]
      /\ "depth" \in Threads
  BY TypeFacts DEF Threads
<1> USE DEF At
<1> DEFINE past == AtEnd /\ pc \notin {"delete", "close"}
<1>1. CASE CameraFails \/ OpenVideoStream \/ StartColor \/ StartDepth \/ PortIsNoNumber
             \/ ListenFails \/ EnterLoop \/ Loop
  <2>1. pc' \in {"depth", "build", "loop", "update", "delete", "unwind", "catch"}
    BY <1>1 DEF CameraFails, OpenVideoStream, StartColor, StartDepth, PortIsNoNumber,
       ListenFails, EnterLoop, Loop, LeaveLoop, Update, UpdateThrows, ShowWindow
  <2>2. QED
    BY <2>1 DEF Stopped, AtEnd
<1>2. ASSUME NEW o, \/ BeginSubscribe(o) \/ Subscribe(o) \/ SubscribePublisher(o) \/ RunBody(o)
                    \/ Complete(o) \/ \E ph : Destroy(o, ph)
      PROVE  Stopped'
  <2>1. pc' \in {"build", "delete", "unwind"}
    BY <1>2 DEF BeginSubscribe, Subscribe, SubscribePublisher, RunBody, Complete, Destroy, mainVars
  <2>2. QED
    BY <2>1 DEF Stopped, AtEnd
<1>3. CASE Unwound
  BY <1>3 DEF Unwound, Stopped, AtEnd
<1>4. CASE RemoveColorListener
  BY <1>4 DEF RemoveColorListener, Stopped, AtEnd
<1>5. CASE RemoveDepthListener
  BY <1>5 DEF RemoveDepthListener, Stopped, AtEnd
<1>6. CASE CloseCamera
  BY <1>6 DEF CloseCamera, Stopped, AtEnd, tableVars
<1>7. CASE DropLoggers
  BY <1>7 DEF DropLoggers, Stopped, Stages, AtEnd, tableVars, objectVars
<1>8. CASE Exit
  BY <1>8 DEF Exit, Stopped, AtEnd, tableVars, objectVars
<1>9. CASE Interrupt \/ UNCHANGED vars
  BY <1>9 DEF Interrupt, vars, mainVars, tableVars, objectVars, Stopped, AtEnd
<1>10. CASE NewFrame
  <2>1. streams # {} /\ UNCHANGED <<pc, error, streams>>
    BY <1>10 DEF NewFrame, ColorFrame, BeginDepthFrame, mainVars
  <2>2. ~past
    BY <2>1 DEF Stopped
  <2>3. QED
    BY <2>1, <2>2 DEF Stopped, AtEnd
<1>11. CASE EndDepthFrame
  <2>1. access'["depth"] = "none"
    BY <1>11, <1>t DEF EndDepthFrame, LeaveTable
  <2>2. QED
    BY <1>11, <2>1 DEF EndDepthFrame, Stopped, AtEnd, mainVars, objectVars
<1>12. CASE NotifySpace \/ Delivery
  <2>1. frame # NoFrame
    BY <1>12, NothingToDeliver
  <2>2. ~past
    BY <2>1 DEF Stopped
  <2>3. /\ \/ UNCHANGED <<pc, error>>
           \/ pc' \in {"catch", "aborted"}
        /\ UNCHANGED streams
    BY <1>12 DEF NotifySpace, Delivery, BeginCalls, CallObserver, CallPublisher, PublisherReturns,
       ObserverReturns, EndFrame, PublisherThrows, Calls, mainVars
  <2>4. QED
    BY <2>2, <2>3 DEF Stopped, AtEnd
<1>13. QED
  BY <1>1, <1>2, <1>3, <1>4, <1>5, <1>6, <1>7, <1>8, <1>9, <1>10, <1>11, <1>12
     DEF Next, Main, Build, TakeDown

-----------------------------------------------------------------------------
(***************************************************************************)
(* Theorems                                                                *)
(***************************************************************************)
LEMMA NextIInv == IInv /\ [Next]_vars => IInv'
<1> SUFFICES ASSUME IInv, [Next]_vars PROVE IInv'
  OBVIOUS
<1>1. TypeOK /\ Planned /\ Stages /\ Slots /\ Called /\ Apart /\ Stopped
  BY DEF IInv
<1>2. TypeOK'
  BY <1>1, NextTypeOK
<1>3. Planned' /\ Stages'
  BY <1>1, NextPlan
<1>4. Slots'
  BY <1>1, NextSlots
<1>5. Called'
  BY <1>1, NextCalled
<1>6. Apart' /\ Stopped'
  BY <1>1, NextApart, NextStopped
<1>7. QED
  BY <1>2, <1>3, <1>4, <1>5, <1>6 DEF IInv

LEMMA Inductive == Spec => []IInv
BY InitIInv, NextIInv, PTL DEF Spec

\* The types of the state of main, its objects and its threads, whatever the
\* options and the texts are: the port fits in 16 bits, every list of slots
\* holds objects of its own kind.
THEOREM TypeCorrect == Spec => []TypeOK
<1>1. IInv => TypeOK
  BY DEF IInv
<1>2. QED
  BY <1>1, Inductive, PTL

\* Nothing is called that is not begun, and an object that main has begun is
\* whole while it loops.
LEMMA LoopCallsWholeObjects == IInv /\ pc \in {"loop", "update"} => ~WildCall
<1> SUFFICES ASSUME IInv, pc \in {"loop", "update"}, NEW o \in frame.in PROVE Whole(o)
  BY DEF WildCall
<1>1. o \in Objects /\ phase[o] # "none"
  BY DEF IInv, Called, Begun
<1>2. o \in Used
  BY <1>1 DEF IInv, Planned
<1>3. QED
  BY <1>2 DEF IInv, Stages, Whole

LEMMA InvCallsWhole == IInv => CallsMeetWholeObjects
<1> SUFFICES ASSUME IInv, args.camera = "VideoStream" \/ cropping \/ pc \in {"loop", "update"}
             PROVE  ~WildCall
  BY DEF CallsMeetWholeObjects
<1>1. CASE pc \in {"loop", "update"}
  BY <1>1, LoopCallsWholeObjects
<1>2. CASE frame = NoFrame
  BY <1>2 DEF NoFrame, WildCall
<1>3. QED
  BY <1>1, <1>2 DEF IInv, Apart

\* The virtual calls of a frame reach whole objects when the camera is a
\* VideoStream, when the crop window is open, and in the loop whatever the
\* camera, for every combination of options.
THEOREM CallsMeetOnlyWholeObjects == Spec => []CallsMeetWholeObjects
BY InvCallsWhole, Inductive, PTL

LEMMA InvTableSafe == IInv => TableIsSafe
<1> SUFFICES ASSUME IInv, args.camera = "VideoStream" \/ cropping, NEW t \in Threads,
                    NEW u \in Threads, t # u, access[t] = "insert", access[u] # "none"
             PROVE  FALSE
  BY DEF TableIsSafe, Race
<1>1. access["depth"] = "none"
  BY DEF IInv, Apart
<1>2. access["color"] # "none" /\ access["main"] # "none"
  BY <1>1 DEF Threads
<1>3. frame # NoFrame
  BY <1>2 DEF IInv, Apart, NoFrame
<1>4. pc = "update"
  BY <1>3 DEF IInv, Apart
<1>5. QED
  BY <1>2, <1>4 DEF IInv, Apart

\* signals_ has one user at a time while frames are delivered on main or held
\* back: of two threads of which one inserts, none exists.
THEOREM TableStaysSafe == Spec => []TableIsSafe
BY InvTableSafe, Inductive, PTL

LEMMA InvNothingRuns == IInv => NothingRunsAfterClose
<1> SUFFICES ASSUME IInv, error = "none", pc \in {"drop", "exit", "exited"}
             PROVE  /\ frame = NoFrame /\ streams = {} /\ \A t \in Threads : access[t] = "none"
                    /\ observers = <<>> /\ publishers = <<>>
                    /\ \A o \in Objects : phase[o] \in {"none", "gone"}
  BY DEF NothingRunsAfterClose
<1>1. AtEnd
  BY DEF AtEnd
<1>2. streams = {} /\ frame = NoFrame /\ access["depth"] = "none" /\ observers = <<>>
  BY <1>1 DEF IInv, Stopped
<1>3. access["color"] = "none" /\ access["main"] = "none"
  BY <1>2 DEF IInv, Apart, NoFrame
<1>4. \A t \in Threads : access[t] = "none"
  BY <1>2, <1>3 DEF Threads
<1>5. \A o \in Objects : phase[o] \in {"none", "gone"}
  <2>1. todo = <<>> /\ Towards("gone")
    BY <1>1 DEF IInv, Stages
  <2>2. \A o \in Used : phase[o] = "gone"
    BY <2>1 DEF Towards
  <2>3. QED
    BY <2>2 DEF IInv, Planned
<1>6. publishers = <<>>
  <2>1. publishers \in Seq(Publishers) /\ ToSet(publishers) \subseteq Objects
    BY TypeFacts DEF IInv, ToSet, Objects
  <2>2. ToSet(publishers) = {}
    BY <1>5, <2>1 DEF IInv, Slots
  <2>3. Len(publishers) = 0
    BY <2>1, <2>2 DEF ToSet
  <2>4. QED
    BY <2>1, <2>3
<1>7. QED
  BY <1>2, <1>4, <1>5, <1>6

\* When main drops the loggers after its destructors, no stream delivers, no
\* thread is in the table, every object is gone and no slot is left.
THEOREM NothingIsLeftAfterClose == Spec => []NothingRunsAfterClose
BY InvNothingRuns, Inductive, PTL

=============================================================================
