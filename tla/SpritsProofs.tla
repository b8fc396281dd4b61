---------------------------- MODULE SpritsProofs ----------------------------
(***************************************************************************)
(* Proofs about the program from its command line on, for all tokens, all  *)
(* abbreviations and command lines of any length: docopt agrees with the   *)
(* usage text, and what Lifecycle promises holds whatever was typed.       *)
(***************************************************************************)
EXTENDS Sprits, LifecycleProofs, FiniteSetTheorems, WellFoundedInduction, TLAPS

(***************************************************************************)
(* Finding and removing elements of a sequence                             *)
(***************************************************************************)
\* A nonempty set of naturals has its minimum.
LEMMA MinExists ==
  ASSUME NEW I \in SUBSET Nat, I # {}
  PROVE  Min(I) \in I /\ \A i \in I : Min(I) <= i
<1>1. PICK n \in I : \A m \in I : ~ (<<m, n>> \in OpToRel(<, Nat))
  BY NatLessThanWellFounded, WFMin, Zenon
<1>2. \A m \in I : ~ (m < n)
  BY <1>1, Zenon DEF OpToRel
<1>3. \E x \in I : \A y \in I : x =< y
  BY <1>2
<1>4. QED
  BY <1>3 DEF Min

\* What RemoveAt leaves.
LEMMA Removed ==
  ASSUME NEW S, NEW s \in Seq(S), NEW i \in DOMAIN s
  PROVE  /\ RemoveAt(s, i) \in Seq(S) /\ DOMAIN RemoveAt(s, i) = 1 .. (Len(s) - 1)
         /\ Len(RemoveAt(s, i)) = Len(s) - 1
         /\ \A k \in 1 .. (Len(s) - 1) : RemoveAt(s, i)[k] = IF k < i THEN s[k] ELSE s[k + 1]
<1> DEFINE p == SubSeq(s, 1, i - 1)
           q == SubSeq(s, i + 1, Len(s))
<1>1. Len(s) \in Nat /\ DOMAIN s = 1 .. Len(s) /\ i \in 1 .. Len(s)
  OBVIOUS
<1>2. p \in Seq(S) /\ Len(p) = i - 1 /\ \A k \in 1 .. i - 1 : p[k] = s[k]
  BY <1>1
<1>3. q \in Seq(S) /\ Len(q) = Len(s) - i /\ \A k \in 1 .. Len(s) - i : q[k] = s[i + k]
  BY <1>1
<1> HIDE DEF p, q
<1>4. /\ p \o q \in Seq(S) /\ Len(p \o q) = Len(s) - 1
      /\ \A k \in 1 .. Len(s) - 1 : (p \o q)[k] = IF k <= i - 1 THEN p[k] ELSE q[k - (i - 1)]
  <2>1. Len(p) + Len(q) = Len(s) - 1
    BY <1>1, <1>2, <1>3
  <2>2. /\ p \o q \in Seq(S) /\ Len(p \o q) = Len(p) + Len(q)
        /\ \A k \in 1 .. Len(p) + Len(q) : (p \o q)[k] = IF k <= Len(p) THEN p[k] ELSE q[k - Len(p)]
    BY <1>2, <1>3, ConcatProperties
  <2>3. QED
    BY <1>2, <2>1, <2>2
<1>5. ASSUME NEW k \in 1 .. Len(s) - 1
      PROVE  (p \o q)[k] = IF k < i THEN s[k] ELSE s[k + 1]
  <2>1. CASE k < i
    <3>1. k \in 1 .. i - 1 /\ k <= i - 1
      BY <1>1, <2>1
    <3>2. QED
      BY <1>2, <1>4, <2>1, <3>1
  <2>2. CASE ~(k < i)
    <3>1. ~(k <= i - 1) /\ k - (i - 1) \in 1 .. Len(s) - i /\ i + (k - (i - 1)) = k + 1
      BY <1>1, <2>2
    <3>2. QED
      BY <1>3, <1>4, <2>2, <3>1
  <2>3. QED
    BY <2>1, <2>2
<1>6. RemoveAt(s, i) = p \o q
  BY DEF RemoveAt, p, q
<1>7. DOMAIN (p \o q) = 1 .. (Len(s) - 1)
  <2>1. DOMAIN (p \o q) = 1 .. Len(p \o q)
    BY <1>4
  <2>2. QED
    BY <1>4, <2>1
<1>8. QED
  BY <1>4, <1>5, <1>6, <1>7

-----------------------------------------------------------------------------
(***************************************************************************)
(* Matching: the types of items and outcomes                               *)
(***************************************************************************)
NameSet ==
  Documented \cup Cameras \cup {EmptyText} \cup UNION {ToSet(token.names) : token \in Tokens}

ValueSet == {Empty} \cup {Bool(b) : b \in BOOLEAN} \cup {String(t) : t \in Texts}

ItemSet == [is : {"Option", "Argument"}, name : NameSet, value : ValueSet]

PairSet == [name : NameSet, value : ValueSet]

OptionSet == [short : NameSet, long : NameSet, args : Nat, value : ValueSet]

\* An option on the command line is found, or there is none of its name.
LEMMA OptionMatched ==
  ASSUME NEW L \in Seq(ItemSet), NEW C \in Seq(PairSet), NEW name \in NameSet
  PROVE  \/ /\ MatchOption(name, Outcome(L, C)) = NoMatch(Outcome(L, C))
            /\ \A k \in DOMAIN L : L[k].name # name
         \/ \E i \in DOMAIN L :
              /\ L[i].name = name
              /\ MatchOption(name, Outcome(L, C)) =
                   Outcome(RemoveAt(L, i), Append(C, [name |-> name, value |-> L[i].value]))
<1> DEFINE I == {k \in 1 .. Len(L) : L[k].name = name}
           o == Outcome(L, C)
<1>1. o.left = L /\ o.collected = C
  BY DEF Outcome
<1>2. SelectInSeq(o.left, LAMBDA item : item.name = name) = IF I # {} THEN Min(I) ELSE 0
  BY <1>1 DEF SelectInSeq
<1>3. DOMAIN L = 1 .. Len(L)
  OBVIOUS
<1>4. CASE I = {}
  BY <1>2, <1>3, <1>4 DEF MatchOption
<1>5. CASE I # {}
  <2>1. I \in SUBSET Nat
    OBVIOUS
  <2>2. Min(I) \in I /\ Min(I) # 0
    <3> HIDE DEF I
    <3>1. Min(I) \in I
      BY <1>5, <2>1, MinExists
    <3>2. QED
      BY <3>1 DEF I
  <2>3. MatchOption(name, o) =
          Outcome(RemoveAt(L, Min(I)), Append(C, [name |-> name, value |-> L[Min(I)].value]))
    BY <1>1, <1>2, <1>5, <2>2 DEF MatchOption
  <2>4. QED
    BY <1>3, <2>2, <2>3
<1>6. QED
  BY <1>4, <1>5

-----------------------------------------------------------------------------
(***************************************************************************)
(* Matching any options: which items are taken, and what stays.  R are the *)
(* indices of the items taken so far, N the names of the options that have *)
(* been asked, src the index that an item that is left had at first.       *)
(***************************************************************************)
\* Of the items with a name that was asked exactly one is taken.
OnePerName(found, N, R) ==
  /\ \A r \in R : found[r].name \in N
  /\ \A r, s \in R : found[r].name = found[s].name => r = s
  /\ \A m \in DOMAIN found : found[m].name \in N => \E r \in R : found[r].name = found[m].name

\* All other items stay, each once.
OthersStay(found, left, R, src) ==
  /\ left \in Seq(ItemSet)
  /\ src \in [DOMAIN left -> DOMAIN found \ R]
  /\ \A k \in DOMAIN left : left[k] = found[src[k]]
  /\ \A k, l \in DOMAIN left : src[k] = src[l] => k = l
  /\ \A m \in DOMAIN found \ R : \E k \in DOMAIN left : src[k] = m

\* What is collected is what was taken.
CollectedAre(found, collected, R) ==
  /\ collected \in Seq(PairSet)
  /\ \A e \in DOMAIN collected : \E r \in R :
       collected[e].name = found[r].name /\ collected[e].value = found[r].value
  /\ \A r \in R : \E e \in DOMAIN collected : collected[e].name = found[r].name
  /\ \A e, f \in DOMAIN collected : collected[e].name = collected[f].name => e = f

Taken(found, N, o) ==
  /\ o = Outcome(o.left, o.collected)
  /\ \E R \in SUBSET DOMAIN found :
       /\ OnePerName(found, N, R)
       /\ \E src \in [DOMAIN o.left -> DOMAIN found \ R] : OthersStay(found, o.left, R, src)
       /\ CollectedAre(found, o.collected, R)

LEMMA OutcomeFacts ==
  ASSUME NEW L, NEW C
  PROVE  /\ Outcome(L, C).left = L /\ Outcome(L, C).collected = C /\ Outcome(L, C).matched
         /\ NoMatch(Outcome(L, C)).left = L /\ NoMatch(Outcome(L, C)).collected = C
         /\ ~NoMatch(Outcome(L, C)).matched
BY DEF Outcome, NoMatch

\* Taking one more item away.
LEMMA StayAfter ==
  ASSUME NEW found \in Seq(ItemSet), NEW left, NEW R \in SUBSET DOMAIN found,
         NEW src \in [DOMAIN left -> DOMAIN found \ R], OthersStay(found, left, R, src),
         NEW i \in DOMAIN left
  PROVE  LET next == RemoveAt(left, i) IN
         \E t \in [DOMAIN next -> DOMAIN found \ (R \cup {src[i]})] :
           OthersStay(found, next, R \cup {src[i]}, t)
<1> DEFINE next == RemoveAt(left, i)
           n == Len(left)
           t == [k \in 1 .. (n - 1) |-> IF k < i THEN src[k] ELSE src[k + 1]]
           D == DOMAIN found \ (R \cup {src[i]})
<1>1. left \in Seq(ItemSet) /\ n \in Nat /\ DOMAIN left = 1 .. n /\ i \in 1 .. n
  BY DEF OthersStay
<1>2. /\ next \in Seq(ItemSet) /\ DOMAIN next = 1 .. (n - 1)
      /\ \A k \in 1 .. (n - 1) : next[k] = IF k < i THEN left[k] ELSE left[k + 1]
  BY <1>1, Removed
<1> HIDE DEF next, n
<1>3. \A k \in 1 .. (n - 1) : /\ k \in 1 .. n /\ k + 1 \in 1 .. n
                              /\ (k < i => k # i) /\ (~(k < i) => k + 1 # i)
  BY <1>1
<1>4. \A k \in 1 .. n \ {i} : src[k] \in D
  BY <1>1 DEF OthersStay
<1>5. t \in [DOMAIN next -> D]
  <2> SUFFICES ASSUME NEW k \in 1 .. (n - 1) PROVE (IF k < i THEN src[k] ELSE src[k + 1]) \in D
    BY <1>2
  <2> HIDE DEF D
  <2>1. QED
    BY <1>3, <1>4
<1>6. \A k \in 1 .. (n - 1) : next[k] = found[t[k]]
  BY <1>1, <1>2, <1>3 DEF OthersStay
<1>7. ASSUME NEW k \in 1 .. (n - 1), NEW l \in 1 .. (n - 1), t[k] = t[l]
      PROVE  k = l
  <2> DEFINE a == IF k < i THEN k ELSE k + 1
             b == IF l < i THEN l ELSE l + 1
  <2>1. a \in 1 .. n /\ b \in 1 .. n /\ src[a] = src[b]
    BY <1>3, <1>7
  <2>2. a = b
    BY <1>1, <2>1 DEF OthersStay
  <2>3. QED
    BY <1>1, <2>2
<1>8. ASSUME NEW m \in D PROVE \E k \in 1 .. (n - 1) : t[k] = m
  <2>1. PICK k \in 1 .. n : src[k] = m
    BY <1>1 DEF OthersStay
  <2>2. k # i
    BY <2>1
  <2>3. CASE k < i
    <3>1. k \in 1 .. (n - 1) /\ t[k] = m
      BY <1>1, <2>1, <2>3
    <3>2. QED
      BY <3>1
  <2>4. CASE ~(k < i)
    <3>1. k - 1 \in 1 .. (n - 1) /\ ~(k - 1 < i) /\ (k - 1) + 1 = k
      BY <1>1, <2>1, <2>2, <2>4
    <3>2. t[k - 1] = m
      BY <2>1, <3>1
    <3>3. QED
      BY <3>1, <3>2
  <2>5. QED
    BY <2>3, <2>4
<1> HIDE DEF t
<1>9. OthersStay(found, next, R \cup {src[i]}, t)
  BY <1>2, <1>5, <1>6, <1>7, <1>8 DEF OthersStay, D
<1>10. QED
  BY <1>5, <1>9 DEF next, D
\* Asking for one more option.
LEMMA TakeOption ==
  ASSUME NEW found \in Seq(ItemSet), NEW N, NEW o, Taken(found, N, o),
         NEW name \in NameSet, name \notin N
  PROVE  LET next == MatchOption(name, o) IN
         Taken(found, N \cup {name}, IF next.matched THEN next ELSE o)
<1> DEFINE M == N \cup {name}
           L == o.left
           C == o.collected
           pair(i) == [name |-> name, value |-> L[i].value]
<1>1. PICK R \in SUBSET DOMAIN found :
        /\ OnePerName(found, N, R)
        /\ \E src \in [DOMAIN L -> DOMAIN found \ R] : OthersStay(found, L, R, src)
        /\ CollectedAre(found, C, R)
  BY DEF Taken
<1>2. PICK src \in [DOMAIN L -> DOMAIN found \ R] : OthersStay(found, L, R, src)
  BY <1>1
<1>3. o = Outcome(L, C) /\ L \in Seq(ItemSet) /\ C \in Seq(PairSet)
  BY <1>1, <1>2 DEF Taken, OthersStay, CollectedAre
<1>4. CASE MatchOption(name, o) = NoMatch(o) /\ \A k \in DOMAIN L : L[k].name # name
  <2>1. \A m \in DOMAIN found : found[m].name # name
    <3> SUFFICES ASSUME NEW m \in DOMAIN found, found[m].name = name PROVE FALSE
      OBVIOUS
    <3>1. m \notin R
      BY <1>1 DEF OnePerName
    <3>2. QED
      BY <1>2, <1>4, <3>1 DEF OthersStay
  <2>2. OnePerName(found, M, R)
    BY <1>1, <2>1 DEF OnePerName
  <2>3. Taken(found, M, o)
    <3> HIDE DEF M
    <3>1. QED
      BY <1>1, <1>2, <1>3, <2>2 DEF Taken
  <2>4. ~MatchOption(name, o).matched
    BY <1>3, <1>4, OutcomeFacts
  <2>5. QED
    BY <2>3, <2>4
<1>5. ASSUME NEW i \in DOMAIN L, L[i].name = name,
             MatchOption(name, o) = Outcome(RemoveAt(L, i), Append(C, pair(i)))
      PROVE  Taken(found, M, MatchOption(name, o))
  <2> DEFINE Q == R \cup {src[i]}
             next == RemoveAt(L, i)
             more == Append(C, pair(i))
  <2>1. /\ src[i] \in DOMAIN found \ R /\ Q \in SUBSET DOMAIN found
        /\ found[src[i]] = L[i] /\ found[src[i]].name = name
    BY <1>2, <1>5 DEF OthersStay
  <2>2. OnePerName(found, M, Q)
    <3>1. \A r \in Q : found[r].name \in M
      BY <1>1, <2>1 DEF OnePerName
    <3>2. \A r \in R : found[r].name # name
      BY <1>1 DEF OnePerName
    <3>3. \A r, s \in Q : found[r].name = found[s].name => r = s
      BY <1>1, <2>1, <3>2 DEF OnePerName
    <3>4. \A m \in DOMAIN found : found[m].name \in M => \E r \in Q : found[r].name = found[m].name
      BY <1>1, <2>1 DEF OnePerName
    <3>5. QED
      BY <3>1, <3>3, <3>4 DEF OnePerName
  <2>3. \E t \in [DOMAIN next -> DOMAIN found \ Q] : OthersStay(found, next, Q, t)
    BY <1>2, <1>5, StayAfter
  <2>4. CollectedAre(found, more, Q)
    <3>1. pair(i) \in PairSet
      <4>1. L[i] \in ItemSet
        BY <1>3, <1>5
      <4>2. QED
        BY <4>1 DEF ItemSet, PairSet
    <3>2. /\ more \in Seq(PairSet) /\ DOMAIN more = 1 .. Len(C) + 1 /\ DOMAIN C = 1 .. Len(C)
          /\ Len(C) \in Nat /\ more[Len(C) + 1] = pair(i)
          /\ \A e \in 1 .. Len(C) : more[e] = C[e]
      BY <1>3, <3>1
    <3> HIDE DEF more
    <3>3. \A e \in DOMAIN more : e \in DOMAIN C \/ e = Len(C) + 1
      <4> DEFINE n == Len(C)
      <4>1. DOMAIN more = 1 .. n + 1 /\ DOMAIN C = 1 .. n /\ n \in Nat
        BY <3>2
      <4> HIDE DEF n, C
      <4>2. \A e \in DOMAIN more : e \in DOMAIN C \/ e = n + 1
        BY <4>1
      <4>3. QED
        BY <4>2 DEF n
    <3>4. \A e \in DOMAIN C : C[e].name # name
      <4>1. ASSUME NEW e \in DOMAIN C PROVE C[e].name # name
        <5>1. PICK r \in R : C[e].name = found[r].name
          BY <1>1 DEF CollectedAre
        <5>2. found[r].name \in N
          BY <1>1 DEF OnePerName
        <5>3. QED
          BY <5>1, <5>2
      <4>2. QED
        BY <4>1
    <3>5. more[Len(C) + 1].name = name /\ more[Len(C) + 1].value = found[src[i]].value
      BY <2>1, <3>2
    <3>6. \A e \in DOMAIN C : e \in DOMAIN more /\ more[e] = C[e]
      BY <3>2
    <3>7. \A e \in DOMAIN more : \E r \in Q :
            more[e].name = found[r].name /\ more[e].value = found[r].value
      <4>1. \A e \in DOMAIN C : \E r \in Q :
              C[e].name = found[r].name /\ C[e].value = found[r].value
        BY <1>1 DEF CollectedAre
      <4>2. src[i] \in Q /\ found[src[i]].name = name
        BY <2>1
      <4> HIDE DEF Q, C
      <4>3. QED
        BY <3>3, <3>5, <3>6, <4>1, <4>2
    <3>8. \A r \in Q : \E e \in DOMAIN more : more[e].name = found[r].name
      <4>1. Len(C) + 1 \in DOMAIN more
        BY <3>2
      <4>2. QED
        BY <1>1, <2>1, <3>5, <3>6, <4>1 DEF CollectedAre
    <3>9. \A e, f \in DOMAIN more : more[e].name = more[f].name => e = f
      <4>1. \A e, f \in DOMAIN C : C[e].name = C[f].name => e = f
        BY <1>1 DEF CollectedAre
      <4> HIDE DEF C
      <4>2. QED
        BY <3>3, <3>4, <3>5, <3>6, <4>1
    <3>10. QED
      BY <3>2, <3>7, <3>8, <3>9 DEF CollectedAre
  <2>5. MatchOption(name, o) = Outcome(next, more)
    BY <1>5
  <2> HIDE DEF M, Q, next, more
  <2>6. MatchOption(name, o).left = next /\ MatchOption(name, o).collected = more
    BY <2>5, OutcomeFacts
  <2>7. QED
    BY <2>1, <2>2, <2>3, <2>4, <2>5, <2>6 DEF Taken
<1>6. \/ MatchOption(name, o) = NoMatch(o) /\ \A k \in DOMAIN L : L[k].name # name
      \/ \E i \in DOMAIN L :
           /\ L[i].name = name
           /\ MatchOption(name, o) = Outcome(RemoveAt(L, i), Append(C, pair(i)))
  <2> HIDE DEF L, C
  <2>1. QED
    BY <1>3, OptionMatched
<1>7. CASE \E i \in DOMAIN L :
             /\ L[i].name = name
             /\ MatchOption(name, o) = Outcome(RemoveAt(L, i), Append(C, pair(i)))
  <2>1. Taken(found, M, MatchOption(name, o))
    BY <1>5, <1>7
  <2>2. MatchOption(name, o).matched
    BY <1>7, OutcomeFacts
  <2>3. QED
    BY <2>1, <2>2
<1>8. QED
  BY <1>4, <1>6, <1>7

\* Before any option has been asked.
LEMMA NothingTaken ==
  ASSUME NEW found \in Seq(ItemSet)
  PROVE  Taken(found, {}, Outcome(found, <<>>))
<1> DEFINE src == [k \in DOMAIN found |-> k]
<1>1. src \in [DOMAIN found -> DOMAIN found \ {}] /\ OthersStay(found, found, {}, src)
  BY DEF OthersStay
<1>2. OnePerName(found, {}, {}) /\ CollectedAre(found, <<>>, {})
  BY DEF OnePerName, CollectedAre
<1> HIDE DEF src
<1>3. QED
  BY <1>1, <1>2, OutcomeFacts DEF Taken
\* What is left and collected after one option was asked.
Asked(name, o) ==
  LET next == MatchOption(name, o)
  IN  IF next.matched THEN next ELSE o

Runs(f, names, o, n) == f = [i \in 0 .. n |-> IF i = 0 THEN o ELSE Asked(names[i], f[i - 1])]

\* The recursive function of MatchOptions exists: the least length for which
\* it did not would be one more than one for which it does.
LEMMA RunExists ==
  ASSUME NEW names, NEW o, NEW n \in Nat
  PROVE  \E f : Runs(f, names, o, n)
<1> DEFINE W == {m \in Nat : ~ \E f : Runs(f, names, o, m)}
<1>1. ASSUME NEW m \in Nat, NEW f, Runs(f, names, o, m)
      PROVE  \E g : Runs(g, names, o, m + 1)
  <2> DEFINE g == [i \in 0 .. m + 1 |-> IF i <= m THEN f[i] ELSE Asked(names[i], f[m])]
  <2>1. \A i \in 0 .. m : f[i] = IF i = 0 THEN o ELSE Asked(names[i], f[i - 1])
    BY <1>1 DEF Runs
  <2>2. ASSUME NEW i \in 0 .. m + 1
        PROVE  g[i] = IF i = 0 THEN o ELSE Asked(names[i], g[i - 1])
    <3>1. CASE i = 0
      BY <2>1, <3>1
    <3>2. CASE i # 0 /\ i <= m
      <4>1. i \in 0 .. m /\ i - 1 \in 0 .. m + 1 /\ i - 1 <= m
        BY <3>2
      <4>2. g[i] = f[i] /\ g[i - 1] = f[i - 1]
        BY <3>2, <4>1
      <4> HIDE DEF g
      <4>3. QED
        BY <2>1, <3>2, <4>1, <4>2
    <3>3. CASE ~(i <= m)
      <4>1. i # 0 /\ i - 1 = m /\ m \in 0 .. m + 1 /\ m <= m
        BY <3>3
      <4>2. g[i] = Asked(names[i], f[m]) /\ g[i - 1] = f[m]
        BY <3>3, <4>1
      <4> HIDE DEF g
      <4>3. QED
        BY <4>1, <4>2
    <3>4. QED
      BY <3>1, <3>2, <3>3
  <2>3. DOMAIN g = 0 .. m + 1 /\ g = [i \in 0 .. m + 1 |-> g[i]]
    OBVIOUS
  <2> HIDE DEF g
  <2>4. g = [i \in 0 .. m + 1 |-> IF i = 0 THEN o ELSE Asked(names[i], g[i - 1])]
    BY <2>2, <2>3
  <2>5. QED
    BY <2>4 DEF Runs
<1>2. 0 \notin W
  <2> DEFINE f == [i \in 0 .. 0 |-> o]
  <2>1. f = [i \in 0 .. 0 |-> IF i = 0 THEN o ELSE Asked(names[i], f[i - 1])]
    OBVIOUS
  <2>2. QED
    BY <2>1 DEF Runs
<1>3. W = {}
  <2> SUFFICES ASSUME W # {} PROVE FALSE
    OBVIOUS
  <2>1. Min(W) \in W /\ \A m \in W : Min(W) <= m
    <3>1. W \in SUBSET Nat
      OBVIOUS
    <3> HIDE DEF W
    <3>2. QED
      BY <3>1, MinExists
  <2> DEFINE m == Min(W) - 1
  <2>2. m \in Nat /\ m \notin W /\ Min(W) = m + 1
    <3>1. Min(W) # 0 /\ Min(W) \in Nat
      BY <1>2, <2>1
    <3> HIDE DEF W
    <3>2. QED
      BY <2>1, <3>1
  <2>3. \E g : Runs(g, names, o, m + 1)
    <3>1. PICK f : Runs(f, names, o, m)
      BY <2>2
    <3> HIDE DEF m
    <3>2. QED
      BY <1>1, <2>2, <3>1
  <2>4. QED
    BY <2>1, <2>2, <2>3
<1>4. QED
  BY <1>3

\* What holds before the first option and is kept by each holds after the last.
LEMMA OptionsTaken ==
  ASSUME NEW found \in Seq(ItemSet), NEW names \in Seq(NameSet),
         \A i, j \in DOMAIN names : names[i] = names[j] => i = j
  PROVE  Taken(found, ToSet(names), MatchOptions(names, Outcome(found, <<>>)))
<1> DEFINE o == Outcome(found, <<>>)
           n == Len(names)
           after == CHOOSE f : Runs(f, names, o, n)
           N(i) == {names[k] : k \in 1 .. i}
           W == {i \in 0 .. n : ~ Taken(found, N(i), after[i])}
<1>1. n \in Nat /\ DOMAIN names = 1 .. n /\ N(n) = ToSet(names)
  BY DEF ToSet
<1>2. MatchOptions(names, o) = after[n]
  BY Zenon DEF MatchOptions, Runs, Asked
<1>3. Runs(after, names, o, n)
  BY <1>1, RunExists
<1> HIDE DEF o, after
<1>4. \A i \in 0 .. n : after[i] = IF i = 0 THEN o ELSE Asked(names[i], after[i - 1])
  BY <1>3 DEF Runs
<1>5. 0 \notin W
  <2>1. after[0] = o /\ N(0) = {}
    BY <1>1, <1>4
  <2>2. Taken(found, {}, o)
    BY NothingTaken DEF o
  <2> HIDE DEF N
  <2>3. Taken(found, N(0), after[0])
    BY <2>1, <2>2
  <2>4. QED
    BY <2>3
<1>6. ASSUME NEW i \in 1 .. n, i - 1 \notin W
      PROVE  i \notin W
  <2>1. i - 1 \in 0 .. n /\ Taken(found, N(i - 1), after[i - 1])
    <3>1. i - 1 \in 0 .. n
      BY <1>1
    <3> HIDE DEF N
    <3>2. QED
      BY <1>6, <3>1
  <2>2. names[i] \in NameSet /\ names[i] \notin N(i - 1) /\ N(i) = N(i - 1) \cup {names[i]}
    <3>1. \A k \in 1 .. i - 1 : k \in 1 .. n /\ k # i
      BY <1>1
    <3>2. \A k \in 1 .. i : k = i \/ k \in 1 .. i - 1
      BY <1>1
    <3>3. \A k \in 1 .. i - 1 : k \in 1 .. i
      BY <1>1
    <3>4. QED
      BY <1>1, <3>1, <3>2, <3>3
  <2>3. after[i] = Asked(names[i], after[i - 1])
    BY <1>1, <1>4
  <2> HIDE DEF N
  <2>4. Taken(found, N(i - 1) \cup {names[i]}, Asked(names[i], after[i - 1]))
    BY <2>1, <2>2, TakeOption DEF Asked
  <2>5. Taken(found, N(i), after[i])
    BY <2>2, <2>3, <2>4
  <2>6. QED
    BY <2>5
<1>7. W = {}
  <2> SUFFICES ASSUME W # {} PROVE FALSE
    OBVIOUS
  <2>1. W \in SUBSET Nat /\ W \subseteq 0 .. n
    BY <1>1
  <2> HIDE DEF W
  <2>2. Min(W) \in W /\ \A m \in W : Min(W) <= m
    BY <2>1, MinExists
  <2>3. Min(W) \in 1 .. n /\ Min(W) - 1 \notin W
    <3>1. Min(W) \in 0 .. n /\ Min(W) # 0
      BY <1>5, <2>1, <2>2
    <3>2. ~(Min(W) <= Min(W) - 1)
      BY <3>1
    <3>3. QED
      BY <1>1, <2>2, <3>1, <3>2
  <2>4. QED
    BY <1>6, <2>2, <2>3
<1>8. QED
  <2>1. n \in 0 .. n
    BY <1>1
  <2>2. QED
    BY <1>1, <1>2, <1>7, <2>1 DEF o
-----------------------------------------------------------------------------
(***************************************************************************)
(* Matching a camera, and the whole usage                                  *)
(***************************************************************************)
IsCommand(item, name) == item.is = "Argument" /\ item.value = String(name)

Given(name) == [name |-> name, value |-> Bool(TRUE)]

\* A command takes an argument of its name; it never fails to take the only item.
LEMMA CommandMatched ==
  ASSUME NEW L \in Seq(ItemSet), NEW C \in Seq(PairSet), NEW name \in NameSet
  PROVE  \/ /\ MatchCommand(name, Outcome(L, C)) = NoMatch(Outcome(L, C))
            /\ ~(Len(L) = 1 /\ IsCommand(L[1], name))
         \/ \E i \in DOMAIN L :
              /\ IsCommand(L[i], name)
              /\ MatchCommand(name, Outcome(L, C)) =
                   Outcome(RemoveAt(L, i), Append(C, Given(name)))
<1> DEFINE I == {k \in 1 .. Len(L) : L[k].is = "Argument"}
           o == Outcome(L, C)
           first == IF I # {} THEN Min(I) ELSE 0
<1>1. o.left = L /\ o.collected = C
  BY DEF Outcome
<1>2. SelectInSeq(o.left, LAMBDA item : item.is = "Argument") = first
  BY <1>1 DEF SelectInSeq
<1>3. DOMAIN L = 1 .. Len(L)
  OBVIOUS
<1>4. MatchCommand(name, o) =
        IF first = 0 \/ (first > 0 /\ o.left[first].value # String(name)) THEN NoMatch(o)
        ELSE Outcome(RemoveAt(o.left, first), Append(o.collected, Given(name)))
  BY <1>2 DEF MatchCommand, Given
<1> HIDE DEF o
<1>5. CASE I = {}
  <2>1. MatchCommand(name, o) = NoMatch(o)
    BY <1>4, <1>5
  <2>2. ~(Len(L) = 1 /\ IsCommand(L[1], name))
    BY <1>5 DEF IsCommand
  <2>3. QED
    BY <2>1, <2>2 DEF o
<1>6. CASE I # {}
  <2>1. I \in SUBSET Nat /\ I \subseteq 1 .. Len(L)
    OBVIOUS
  <2>2. Min(I) \in I /\ first = Min(I) /\ Min(I) \in 1 .. Len(L)
    <3> HIDE DEF I
    <3>1. QED
      BY <1>6, <2>1, MinExists
  <2>3. first \in DOMAIN L /\ L[first].is = "Argument" /\ first > 0
    BY <1>3, <2>2
  <2>4. Len(L) = 1 => first = 1
    BY <2>2
  <2> HIDE DEF I, first
  <2>5. CASE L[first].value = String(name)
    <3>1. MatchCommand(name, o) = Outcome(RemoveAt(L, first), Append(C, Given(name)))
      BY <1>1, <1>4, <2>3, <2>5
    <3>2. QED
      BY <2>3, <2>5, <3>1 DEF IsCommand, o
  <2>6. CASE L[first].value # String(name)
    <3>1. MatchCommand(name, o) = NoMatch(o)
      BY <1>1, <1>4, <2>3, <2>6
    <3>2. QED
      BY <2>4, <2>6, <3>1 DEF IsCommand, o
  <2>7. QED
    BY <2>5, <2>6
<1>7. QED
  BY <1>5, <1>6

\* Of two outcomes the one with fewer items left; of equals the first.
LEMMA EitherMatched ==
  ASSUME NEW a, NEW b, NEW o, Len(a.left) \in Nat, Len(b.left) \in Nat,
         a.matched \in BOOLEAN, b.matched \in BOOLEAN
  PROVE  MatchEither(<<a, b>>, o) =
           IF a.matched /\ (b.matched => Len(a.left) <= Len(b.left)) THEN a
           ELSE IF b.matched THEN b ELSE NoMatch(o)
<1> DEFINE p == <<a, b>>
           M == {i \in DOMAIN p : p[i].matched}
           Best(i) == /\ i \in M
                      /\ \A j \in M : Len(p[i].left) <= Len(p[j].left)
                      /\ \A j \in M : j < i => Len(p[j].left) > Len(p[i].left)
           best == CHOOSE i \in M : /\ \A j \in M : Len(p[i].left) <= Len(p[j].left)
                                    /\ \A j \in M : j < i => Len(p[j].left) > Len(p[i].left)
<1>1. p[1] = a /\ p[2] = b /\ DOMAIN p = {1, 2}
  OBVIOUS
<1>2. MatchEither(p, o) = IF M = {} THEN NoMatch(o) ELSE p[best]
  BY DEF MatchEither, LeastLeft
<1> HIDE DEF p
<1>3. M \subseteq {1, 2} /\ (1 \in M <=> a.matched) /\ (2 \in M <=> b.matched)
  BY <1>1
<1>4. ASSUME NEW i, Best(i), \A j : Best(j) => j = i
      PROVE  best = i
  BY <1>4
<1>5. CASE a.matched /\ (b.matched => Len(a.left) <= Len(b.left))
  <2>1. Best(1) /\ \A j : Best(j) => j = 1
    BY <1>1, <1>3, <1>5
  <2>2. best = 1 /\ M # {}
    <3> HIDE DEF Best, best, M
    <3>1. QED
      BY <1>3, <1>4, <1>5, <2>1
  <2>3. MatchEither(p, o) = a
    <3> HIDE DEF best, M
    <3>1. QED
      BY <1>1, <1>2, <2>2
  <2>4. QED
    BY <1>5, <2>3 DEF p
<1>6. CASE b.matched /\ ~(a.matched /\ Len(a.left) <= Len(b.left))
  <2>1. Best(2) /\ \A j : Best(j) => j = 2
    BY <1>1, <1>3, <1>6
  <2>2. best = 2 /\ M # {}
    <3> HIDE DEF Best, best, M
    <3>1. QED
      BY <1>3, <1>4, <1>6, <2>1
  <2>3. MatchEither(p, o) = b
    <3> HIDE DEF best, M
    <3>1. QED
      BY <1>1, <1>2, <2>2
  <2>4. QED
    BY <1>6, <2>3 DEF p
<1>7. CASE ~a.matched /\ ~b.matched
  <2>1. MatchEither(p, o) = NoMatch(o)
    BY <1>2, <1>3, <1>7
  <2>2. QED
    BY <1>7, <2>1 DEF p
<1>8. QED
  BY <1>5, <1>6, <1>7
-----------------------------------------------------------------------------
(***************************************************************************)
(* The options of the usage text                                           *)
(***************************************************************************)
OptionNames == [i \in DOMAIN Options |-> NameOf(Options[i])]

LEMMA FlagFacts ==
  ASSUME NEW name
  PROVE  Flag(name).long = name /\ Flag(name).short = EmptyText /\ Flag(name).args = 0
BY DEF Flag

\* The eight lines, one by one.
LEMMA PortLineFacts ==
  /\ PortLine.long = "--websocket" /\ PortLine.short = EmptyText /\ PortLine.args = 1
  /\ PortLine.key # "default"
BY Zenon DEF PortLine

\* The eight lines, one by one.
LEMMA Lines ==
  /\ DOMAIN OptionLines = 1 .. 8
  /\ OptionLines[1].long = "--help" /\ OptionLines[2].long = "--crop"
  /\ OptionLines[3].long = "--debug" /\ OptionLines[4].long = "--record"
  /\ OptionLines[5].long = "--tuio" /\ OptionLines[6].long = "--verbose"
  /\ OptionLines[7].long = "--websocket" /\ OptionLines[8].long = "--version"
  /\ OptionLines[7].args = 1 /\ OptionLines[7].key # "default"
  /\ \A i \in 1 .. 8 : OptionLines[i].short = EmptyText /\ (i # 7 => OptionLines[i].args = 0)
<1> DEFINE s == OptionLines
<1>1. /\ s[1] = Flag("--help") /\ s[2] = Flag("--crop") /\ s[3] = Flag("--debug")
      /\ s[4] = Flag("--record") /\ s[5] = Flag("--tuio") /\ s[6] = Flag("--verbose")
      /\ s[7] = PortLine /\ s[8] = Flag("--version") /\ DOMAIN s = 1 .. 8
  BY DEF OptionLines
<1> HIDE DEF s
<1>2. \A i \in 1 .. 8 : i = 1 \/ i = 2 \/ i = 3 \/ i = 4 \/ i = 5 \/ i = 6 \/ i = 7 \/ i = 8
  OBVIOUS
<1>3. /\ s[1].long = "--help" /\ s[2].long = "--crop" /\ s[3].long = "--debug"
      /\ s[4].long = "--record" /\ s[5].long = "--tuio" /\ s[6].long = "--verbose"
      /\ s[8].long = "--version"
  BY <1>1, FlagFacts
<1>4. \A i \in 1 .. 8 : (\E name : s[i] = Flag(name)) \/ (i = 7 /\ s[i] = PortLine)
  BY <1>1, <1>2
<1>5. QED
  BY <1>1, <1>3, <1>4, FlagFacts, PortLineFacts DEF s

LEMMA DocumentedFacts ==
  /\ EmptyText \notin Documented /\ "-h" \notin Documented /\ Documented \cap Cameras = {}
  /\ "--help" \in Documented /\ "--version" \in Documented /\ "--crop" \in Documented
  /\ "--tuio" \in Documented /\ "--websocket" \in Documented
<1>1. \A i \in 1 .. 8 : i = 1 \/ i = 2 \/ i = 3 \/ i = 4 \/ i = 5 \/ i = 6 \/ i = 7 \/ i = 8
  OBVIOUS
<1>2. \A n \in Documented : \/ n = "--help" \/ n = "--crop" \/ n = "--debug" \/ n = "--record"
                            \/ n = "--tuio" \/ n = "--verbose" \/ n = "--websocket"
                            \/ n = "--version"
  BY <1>1, Lines DEF Documented
<1>3. \A i \in 1 .. 8 : OptionLines[i].long \in Documented
  BY Lines DEF Documented
<1>4. EmptyText \notin Documented
  BY <1>2, Zenon DEF EmptyText
<1>5. "-h" \notin Documented /\ Documented \cap Cameras = {}
  BY <1>2 DEF Cameras
<1>6. QED
  BY <1>3, <1>4, <1>5, Lines

LEMMA LineFacts ==
  /\ DOMAIN OptionLines = 1 .. 8
  /\ \A i \in 1 .. 8 : /\ OptionLines[i].short = EmptyText /\ OptionLines[i].long \in Documented
                       /\ i # 7 => OptionLines[i].args = 0
  /\ \A i, j \in 1 .. 8 : OptionLines[i].long = OptionLines[j].long => i = j
  /\ OptionLines[7].args = 1 /\ OptionLines[7].long = "--websocket"
  /\ OptionLines[7].key # "default"
<1>1. \A i \in 1 .. 8 : i = 1 \/ i = 2 \/ i = 3 \/ i = 4 \/ i = 5 \/ i = 6 \/ i = 7 \/ i = 8
  OBVIOUS
<1>2. \A i, j \in 1 .. 8 : OptionLines[i].long = OptionLines[j].long => i = j
  BY <1>1, Lines
<1>3. \A i \in 1 .. 8 : OptionLines[i].long \in Documented
  BY Lines DEF Documented
<1>4. QED
  BY <1>2, <1>3, Lines

LEMMA OptionFacts ==
  /\ Options \in Seq(OptionSet) /\ DOMAIN Options = 1 .. 8
  /\ \A i \in 1 .. 8 :
       /\ Options[i].long = OptionLines[i].long /\ Options[i].short = EmptyText
       /\ NameOf(Options[i]) = Options[i].long
       /\ i # 7 => Options[i].args = 0 /\ Options[i].value = Bool(FALSE)
  /\ \A i, j \in 1 .. 8 : Options[i].long = Options[j].long => i = j
  /\ Options[7].args = 1 /\ Options[7].long = "--websocket" /\ Options[7].value = Empty
  /\ Documented = {Options[i].long : i \in 1 .. 8}
<1>1. \A i \in 1 .. 8 : Options[i] = OptionOf(OptionLines[i])
  BY LineFacts DEF Options
<1>2. DOMAIN Options = 1 .. 8 /\ Options = [i \in 1 .. 8 |-> Options[i]]
  BY LineFacts DEF Options
<1>3. ASSUME NEW i \in 1 .. 8
      PROVE  /\ Options[i].long = OptionLines[i].long /\ Options[i].short = EmptyText
             /\ NameOf(Options[i]) = Options[i].long /\ Options[i].args = OptionLines[i].args
             /\ Options[i].value = IF i = 7 THEN Empty ELSE Bool(FALSE)
             /\ Options[i] \in OptionSet
  <2> DEFINE v == IF i = 7 THEN Empty ELSE Bool(FALSE)
  <2>1. /\ OptionLines[i].args \in {0, 1} /\ (OptionLines[i].args = 0 <=> i # 7)
        /\ OptionLines[i].long \in Documented /\ OptionLines[i].long # EmptyText
        /\ OptionLines[i].short = EmptyText
    BY LineFacts, DocumentedFacts
  <2>2. v \in ValueSet
    BY DEF ValueSet
  <2>3. v = IF OptionLines[i].args = 0 THEN Bool(FALSE)
            ELSE IF OptionLines[i].key = "default" THEN String(OptionLines[i].val) ELSE Empty
    BY <2>1, LineFacts
  <2> HIDE DEF v
  <2>4. Options[i] = [short |-> EmptyText, long |-> OptionLines[i].long,
                      args |-> OptionLines[i].args, value |-> v]
    BY <1>1, <2>1, <2>3 DEF OptionOf
  <2>5. EmptyText \in NameSet /\ OptionLines[i].long \in NameSet
    BY <2>1 DEF NameSet
  <2>6. Options[i] \in OptionSet
    BY <2>1, <2>2, <2>4, <2>5 DEF OptionSet
  <2>7. QED
    BY <2>1, <2>4, <2>6 DEF NameOf, v
<1> HIDE DEF Options
<1>4. Options \in Seq(OptionSet)
  BY <1>2, <1>3
<1>5. Documented = {Options[i].long : i \in 1 .. 8}
  BY <1>3, LineFacts DEF Documented
<1>6. \A i, j \in 1 .. 8 : Options[i].long = Options[j].long => i = j
  BY <1>3, LineFacts
<1>7. Options[7].args = 1 /\ Options[7].long = "--websocket" /\ Options[7].value = Empty
  BY <1>3, LineFacts
<1>8. \A i \in 1 .. 8 : i # 7 => Options[i].args = 0 /\ Options[i].value = Bool(FALSE)
  BY <1>3, LineFacts
<1>9. QED
  BY <1>2, <1>3, <1>4, <1>5, <1>6, <1>7, <1>8

LEMMA NameFacts ==
  /\ OptionNames \in Seq(NameSet) /\ ToSet(OptionNames) = Documented
  /\ \A i, j \in DOMAIN OptionNames : OptionNames[i] = OptionNames[j] => i = j
<1>1. DOMAIN OptionNames = 1 .. 8 /\ \A i \in 1 .. 8 : OptionNames[i] = Options[i].long
  BY OptionFacts DEF OptionNames
<1>2. OptionNames = [i \in 1 .. 8 |-> OptionNames[i]]
  BY <1>1 DEF OptionNames
<1>3. \A i \in 1 .. 8 : OptionNames[i] \in NameSet
  BY <1>1, OptionFacts DEF NameSet
<1>4. OptionNames \in Seq(NameSet)
  BY <1>2, <1>3
<1>5. ToSet(OptionNames) = Documented
  BY <1>1, OptionFacts DEF ToSet
<1>6. QED
  BY <1>1, <1>4, <1>5, OptionFacts

\* The two commands: one takes an argument that is a camera, or neither does.
LEMMA CameraMatched ==
  ASSUME NEW L \in Seq(ItemSet), NEW C \in Seq(PairSet)
  PROVE  LET o   == Outcome(L, C)
             cam == MatchEither(<<MatchCommand("OpenNI", o), MatchCommand("VideoStream", o)>>, o)
         IN  \/ /\ cam = NoMatch(o)
                /\ \A c \in Cameras : ~(Len(L) = 1 /\ IsCommand(L[1], c))
             \/ \E c \in Cameras, i \in DOMAIN L :
                  IsCommand(L[i], c) /\ cam = Outcome(RemoveAt(L, i), Append(C, Given(c)))
<1> DEFINE o == Outcome(L, C)
           a == MatchCommand("OpenNI", o)
           b == MatchCommand("VideoStream", o)
           cam == MatchEither(<<a, b>>, o)
           Takes(m, c, i) == IsCommand(L[i], c) /\ m = Outcome(RemoveAt(L, i), Append(C, Given(c)))
           Fails(m, c) == m = NoMatch(o) /\ ~(Len(L) = 1 /\ IsCommand(L[1], c))
<1>1. "OpenNI" \in NameSet /\ "VideoStream" \in NameSet
  BY DEF NameSet, Cameras
<1>2. Fails(a, "OpenNI") \/ \E i \in DOMAIN L : Takes(a, "OpenNI", i)
  BY <1>1, CommandMatched
<1>3. Fails(b, "VideoStream") \/ \E i \in DOMAIN L : Takes(b, "VideoStream", i)
  BY <1>1, CommandMatched
<1>4. ASSUME NEW m, NEW c, Fails(m, c)
      PROVE  Len(m.left) \in Nat /\ m.matched = FALSE
  BY <1>4, OutcomeFacts
<1>5. ASSUME NEW m, NEW c, NEW i \in DOMAIN L, Takes(m, c, i)
      PROVE  Len(m.left) \in Nat /\ m.matched = TRUE
  <2>1. m.left = RemoveAt(L, i) /\ m.matched = TRUE
    BY <1>5 DEF Outcome
  <2>2. RemoveAt(L, i) \in Seq(ItemSet)
    BY Removed
  <2>3. QED
    BY <2>1, <2>2
<1> HIDE DEF a, b
<1>6. /\ Len(a.left) \in Nat /\ a.matched \in BOOLEAN
      /\ Len(b.left) \in Nat /\ b.matched \in BOOLEAN
      /\ a.matched => \E i \in DOMAIN L : Takes(a, "OpenNI", i)
      /\ ~a.matched => Fails(a, "OpenNI")
      /\ b.matched => \E i \in DOMAIN L : Takes(b, "VideoStream", i)
      /\ ~b.matched => Fails(b, "VideoStream")
  <2> HIDE DEF Takes, Fails
  <2>1. QED
    BY <1>2, <1>3, <1>4, <1>5
<1>7. \/ cam = a /\ a.matched
      \/ cam = b /\ b.matched
      \/ cam = NoMatch(o) /\ ~a.matched /\ ~b.matched
  <2> HIDE DEF o
  <2>1. QED
    BY <1>6, EitherMatched
<1>8. \/ cam = NoMatch(o) /\ \A c \in Cameras : ~(Len(L) = 1 /\ IsCommand(L[1], c))
      \/ \E c \in Cameras, i \in DOMAIN L : Takes(cam, c, i)
  <2> HIDE DEF Takes, cam, o
  <2>1. QED
    BY <1>6, <1>7 DEF Cameras
<1>9. QED
  BY <1>8 DEF a, b

\* The usage takes all items exactly when any options leave none, or a camera alone.
LEMMA UsageMatched ==
  ASSUME NEW found \in Seq(ItemSet)
  PROVE  LET plain == MatchOptions(OptionNames, Outcome(found, <<>>))
             all   == MatchUsage(Outcome(found, <<>>))
             L     == plain.left
         IN  /\ all.matched
             /\ L = <<>> => all.left = <<>> /\ all.collected = plain.collected
             /\ \A c \in Cameras : Len(L) = 1 /\ IsCommand(L[1], c) =>
                  all.left = <<>> /\ all.collected = Append(plain.collected, Given(c))
             /\ all.left = <<>> => \/ L = <<>>
                                   \/ Len(L) = 1 /\ \E c \in Cameras : IsCommand(L[1], c)
<1> DEFINE o == Outcome(found, <<>>)
           plain == MatchOptions(OptionNames, o)
           all == MatchUsage(o)
           L == plain.left
           C == plain.collected
           cam == MatchEither(<<MatchCommand("OpenNI", plain), MatchCommand("VideoStream", plain)>>,
                              plain)
           chosen == MatchRequired(cam, o)
<1>1. Taken(found, Documented, plain)
  BY NameFacts, OptionsTaken
<1>2. all = MatchRequired(MatchEither(<<plain, chosen>>, o), o)
  BY DEF MatchUsage, OptionNames
<1> HIDE DEF plain, all
<1>3. plain = Outcome(L, C) /\ L \in Seq(ItemSet) /\ C \in Seq(PairSet)
  BY <1>1 DEF Taken, OthersStay, CollectedAre
<1>4. \/ cam = NoMatch(plain) /\ \A c \in Cameras : ~(Len(L) = 1 /\ IsCommand(L[1], c))
      \/ \E c \in Cameras, i \in DOMAIN L :
           IsCommand(L[i], c) /\ cam = Outcome(RemoveAt(L, i), Append(C, Given(c)))
  <2> HIDE DEF L, C
  <2>1. QED
    BY <1>3, CameraMatched
<1>5. plain.matched = TRUE /\ Len(L) \in Nat /\ Len(found) \in Nat /\ o.left = found
  <2> HIDE DEF L, C
  <2>1. plain.matched = TRUE
    BY <1>3 DEF Outcome
  <2>2. QED
    BY <1>3, <2>1, OutcomeFacts
<1> HIDE DEF o
<1>6. CASE cam = NoMatch(plain) /\ \A c \in Cameras : ~(Len(L) = 1 /\ IsCommand(L[1], c))
  <2>1. cam.matched = FALSE
    <3> HIDE DEF L, C, cam
    <3>1. QED
      BY <1>3, <1>6, OutcomeFacts
  <2>2. chosen = NoMatch(o) /\ chosen.matched = FALSE /\ Len(chosen.left) \in Nat
    <3> HIDE DEF cam
    <3>1. chosen = NoMatch(o)
      BY <2>1 DEF MatchRequired
    <3>2. QED
      BY <1>5, <3>1, OutcomeFacts DEF o
  <2> HIDE DEF chosen
  <2>3. MatchEither(<<plain, chosen>>, o) = plain
    BY <1>5, <2>2, EitherMatched
  <2>4. all = plain
    BY <1>2, <1>5, <2>3 DEF MatchRequired
  <2>5. QED
    BY <1>5, <1>6, <2>4 DEF plain, all, o
<1>7. ASSUME NEW c \in Cameras, NEW i \in DOMAIN L, IsCommand(L[i], c),
             cam = Outcome(RemoveAt(L, i), Append(C, Given(c)))
      PROVE  /\ all = cam /\ all.matched /\ Len(all.left) = Len(L) - 1 /\ Len(L) >= 1
             /\ all.collected = Append(C, Given(c))
             /\ Len(L) = 1 => i = 1 /\ all.left = <<>>
  <2>1. RemoveAt(L, i) \in Seq(ItemSet) /\ Len(RemoveAt(L, i)) = Len(L) - 1 /\ i \in 1 .. Len(L)
    <3> HIDE DEF L
    <3>1. QED
      BY <1>3, Removed
  <2>2. /\ cam.matched = TRUE /\ cam.left = RemoveAt(L, i)
        /\ cam.collected = Append(C, Given(c))
    <3> HIDE DEF L, C, cam
    <3>1. QED
      BY <1>7 DEF Outcome
  <2>3. chosen = cam
    BY <2>2 DEF MatchRequired
  <2>4. Len(chosen.left) = Len(L) - 1 /\ Len(chosen.left) \in Nat /\ chosen.matched = TRUE
    BY <2>1, <2>2, <2>3
  <2> HIDE DEF chosen, cam
  <2>5. MatchEither(<<plain, chosen>>, o) = chosen
    <3>1. ~(Len(plain.left) <= Len(chosen.left)) /\ Len(plain.left) \in Nat
      BY <1>5, <2>4
    <3>2. QED
      BY <1>5, <2>4, <3>1, EitherMatched
  <2>6. all = chosen
    BY <1>2, <2>4, <2>5 DEF MatchRequired
  <2>7. Len(L) >= 1 /\ (Len(L) = 1 => i = 1)
    BY <1>5, <2>1
  <2>8. Len(L) = 1 => all.left = <<>>
    BY <2>1, <2>2, <2>3, <2>6
  <2>9. QED
    BY <2>2, <2>3, <2>4, <2>6, <2>7, <2>8
<1>8. ASSUME NEW c \in Cameras, NEW d \in Cameras, NEW item, IsCommand(item, c), IsCommand(item, d)
      PROVE  c = d
  BY <1>8 DEF IsCommand, String
<1>9. L = <<>> <=> Len(L) = 0
  BY <1>3
<1>10. ASSUME NEW c \in Cameras, NEW i \in DOMAIN L, IsCommand(L[i], c),
              cam = Outcome(RemoveAt(L, i), Append(C, Given(c)))
       PROVE  /\ all.matched
              /\ L # <<>>
              /\ \A d \in Cameras : Len(L) = 1 /\ IsCommand(L[1], d) =>
                   all.left = <<>> /\ all.collected = Append(C, Given(d))
              /\ all.left = <<>> => Len(L) = 1 /\ \E d \in Cameras : IsCommand(L[1], d)
  <2>1. /\ all.matched /\ Len(all.left) = Len(L) - 1 /\ Len(L) >= 1
        /\ all.collected = Append(C, Given(c)) /\ (Len(L) = 1 => i = 1 /\ all.left = <<>>)
    BY <1>7, <1>10
  <2>2. all.left = <<>> => Len(all.left) = 0
    OBVIOUS
  <2>3. L # <<>>
    BY <2>1, <1>9
  <2> HIDE DEF L, C, cam
  <2>4. all.left = <<>> => Len(L) = 1
    BY <1>5, <2>1, <2>2
  <2>5. ASSUME NEW d \in Cameras, Len(L) = 1, IsCommand(L[1], d)
        PROVE  all.left = <<>> /\ all.collected = Append(C, Given(d))
    <3>1. i = 1 /\ all.left = <<>> /\ c = d
      BY <1>8, <1>10, <2>1, <2>5
    <3>2. QED
      BY <2>1, <3>1
  <2>6. QED
    BY <1>10, <2>1, <2>3, <2>4, <2>5
<1>11. QED
  BY <1>4, <1>6, <1>10 DEF plain, all, o
-----------------------------------------------------------------------------
(***************************************************************************)
(* Reading: what a name stands for                                         *)
(***************************************************************************)
\* The options that docopt finds for a name are those that the name means.
LEMMA SimilarMeans ==
  ASSUME NEW name
  PROVE  LET S == Similar(Options, name) IN
         \/ Cardinality(S) = 0 /\ Means(name) = {} /\ name \notin Documented
         \/ Cardinality(S) \in Nat /\ Cardinality(S) > 1 /\ Cardinality(Means(name)) # 1
         \/ /\ Cardinality(S) = 1 /\ Cardinality(Means(name)) = 1
            /\ \E k \in 1 .. 8 : /\ (CHOOSE i \in S : TRUE) = k
                                 /\ Means(name) = {Options[k].long}
                                 /\ (CHOOSE n \in Means(name) : TRUE) = Options[k].long
<1> DEFINE S == Similar(Options, name)
           M == Means(name)
<1>1. S \subseteq 1 .. 8 /\ M = {Options[i].long : i \in S}
  <2>1. CASE name \in Documented
    <3>1. PICK k \in 1 .. 8 : Options[k].long = name
      BY <2>1, OptionFacts
    <3>2. {i \in DOMAIN Options : Options[i].long = name} = {k}
      BY <3>1, OptionFacts
    <3>3. S = {k}
      BY <3>2 DEF Similar
    <3>4. M = {name}
      BY <2>1 DEF Means
    <3>5. QED
      BY <3>1, <3>3, <3>4
  <2>2. CASE name \notin Documented
    <3>1. {i \in DOMAIN Options : Options[i].long = name} = {}
      BY <2>2, OptionFacts
    <3>2. S = {i \in DOMAIN Options : <<name, Options[i].long>> \in Abbreviates}
      BY <3>1 DEF Similar
    <3>3. M = {n \in Documented : <<name, n>> \in Abbreviates}
      BY <2>2 DEF Means
    <3>4. S \subseteq 1 .. 8
      BY <3>2, OptionFacts
    <3>5. \A n : n \in M <=> \E i \in S : n = Options[i].long
      BY <3>2, <3>3, OptionFacts
    <3> HIDE DEF S, M
    <3>6. QED
      BY <3>4, <3>5
  <2>3. QED
    BY <2>1, <2>2
<1>2. name \in Documented => M = {name}
  BY DEF Means
<1> HIDE DEF S, M
<1>3. IsFiniteSet(S) /\ IsFiniteSet(M) /\ Cardinality(S) \in Nat
  <2>1. IsFiniteSet(1 .. 8)
    <3>1. 1 \in Int /\ 8 \in Int
      OBVIOUS
    <3>2. QED
      BY <3>1, FS_Interval
  <2>2. IsFiniteSet(S)
    BY <1>1, <2>1, FS_Subset
  <2>3. IsFiniteSet(M)
    <3>1. M \subseteq {Options[i].long : i \in 1 .. 8}
      BY <1>1
    <3>2. IsFiniteSet({Options[i].long : i \in 1 .. 8})
      <4>1. \A i \in 1 .. 8 : i = 1 \/ i = 2 \/ i = 3 \/ i = 4 \/ i = 5 \/ i = 6 \/ i = 7 \/ i = 8
        OBVIOUS
      <4> DEFINE f == [i \in 1 .. 8 |-> Options[i].long]
      <4>2. f \in Surjection(1 .. 8, {Options[i].long : i \in 1 .. 8})
        BY DEF Surjection
      <4> HIDE DEF f
      <4>3. QED
        BY <2>1, <4>2, FS_Surjection
    <3>3. QED
      BY <3>1, <3>2, FS_Subset
  <2>4. QED
    BY <2>2, <2>3, FS_CardinalityType
<1>4. (Cardinality(S) = 0 <=> S = {}) /\ (Cardinality(S) = 1 <=> \E k : S = {k})
  BY <1>3, FS_EmptySet, FS_Singleton
<1>5. Cardinality(M) = 1 <=> \E n : M = {n}
  BY <1>3, FS_Singleton
<1>6. CASE S = {}
  BY <1>1, <1>2, <1>4, <1>6 DEF S, M
<1>7. ASSUME NEW k, S = {k}
      PROVE  k \in 1 .. 8 /\ M = {Options[k].long} /\ Cardinality(S) = 1 /\ Cardinality(M) = 1
  <2>1. k \in 1 .. 8 /\ M = {Options[k].long}
    BY <1>1, <1>7
  <2>2. QED
    BY <1>4, <1>5, <1>7, <2>1
<1>8. ASSUME S # {}, \A k : S # {k}
      PROVE  Cardinality(S) > 1 /\ Cardinality(M) # 1
  <2>1. Cardinality(S) # 0 /\ Cardinality(S) # 1
    BY <1>4, <1>8
  <2>2. PICK i \in S, j \in S : i # j
    BY <1>8
  <2>3. Options[i].long \in M /\ Options[j].long \in M /\ Options[i].long # Options[j].long
    BY <1>1, <2>2, OptionFacts
  <2>4. QED
    BY <1>3, <1>5, <2>1, <2>3
<1>9. CASE \E k : S = {k}
  <2>1. PICK k : S = {k}
    BY <1>9
  <2>2. /\ k \in 1 .. 8 /\ M = {Options[k].long} /\ Cardinality(S) = 1 /\ Cardinality(M) = 1
    BY <1>7, <2>1
  <2>3. (CHOOSE i \in S : TRUE) = k /\ (CHOOSE n \in M : TRUE) = Options[k].long
    BY <2>1, <2>2
  <2>4. QED
    BY <2>2, <2>3 DEF S, M
<1>10. QED
  BY <1>3, <1>6, <1>8, <1>9 DEF S, M
-----------------------------------------------------------------------------
(***************************************************************************)
(* Reading: what one turn does to the reading, whatever it is              *)
(***************************************************************************)
TextArgument == {<<>>} \cup {<<t>> : t \in Texts}

ReadingSet == [rest : Seq(Tokens), letters : Seq(NameSet), options : Seq(OptionSet),
               found : Seq(ItemSet), failed : BOOLEAN]

LEMMA TokenFacts ==
  ASSUME NEW t \in Tokens
  PROVE  /\ t.text \in Texts /\ t.kind \in {"long", "short", "dashes", "word"}
         /\ t.names \in Seq(NameSet) /\ t.val \in TextArgument
         /\ t.kind = "long" => Len(t.names) = 1 /\ t.names[1] \in NameSet
         /\ t.kind = "short" =>
              /\ t.names # <<>>
              /\ \A i \in DOMAIN t.names : t.names[i] \notin Documented \cup {EmptyText}
         /\ t.text \in Cameras => t.kind = "word"
<1>1. /\ t \in [text : Texts, kind : {"long", "short", "dashes", "word"},
                names : Seq(STRING), val : TextArgument]
      /\ t.kind = "long" => Len(t.names) = 1
      /\ t.kind = "short" =>
           /\ t.names # <<>>
           /\ \A i \in DOMAIN t.names : t.names[i] \notin Documented \cup {EmptyText}
      /\ t.text \in Cameras => t.kind = "word"
  BY TokenAssumption DEF TextArgument
<1>2. /\ t.text \in Texts /\ t.kind \in {"long", "short", "dashes", "word"}
      /\ t.names \in Seq(STRING) /\ t.val \in TextArgument
  BY <1>1
<1>3. DOMAIN t.names = 1 .. Len(t.names) /\ Len(t.names) \in Nat
  BY <1>2
<1>4. \A i \in DOMAIN t.names : t.names[i] \in NameSet
  BY DEF NameSet, ToSet
<1>5. t.names = [i \in DOMAIN t.names |-> t.names[i]]
  BY <1>2
<1>6. t.names \in Seq(NameSet)
  <2> DEFINE s == t.names
  <2>1. /\ s = [i \in 1 .. Len(s) |-> s[i]] /\ Len(s) \in Nat
        /\ \A i \in 1 .. Len(s) : s[i] \in NameSet
    BY <1>3, <1>4, <1>5
  <2> HIDE DEF s
  <2>2. s \in Seq(NameSet)
    BY <2>1
  <2>3. QED
    BY <2>2 DEF s
<1>7. t.kind = "long" => t.names[1] \in NameSet
  BY <1>1, <1>3, <1>4
<1>8. QED
  BY <1>1, <1>2, <1>6, <1>7

LEMMA ReadingFacts ==
  ASSUME NEW r \in ReadingSet
  PROVE  /\ r.rest \in Seq(Tokens) /\ r.letters \in Seq(NameSet) /\ r.options \in Seq(OptionSet)
         /\ r.found \in Seq(ItemSet) /\ r.failed \in BOOLEAN
BY DEF ReadingSet

LEMMA FailFacts ==
  ASSUME NEW r \in ReadingSet
  PROVE  Fail(r) \in ReadingSet /\ Fail(r).failed /\ Fail(r).found = r.found
BY DEF ReadingSet, Fail

LEMMA FoundFacts ==
  ASSUME NEW r \in ReadingSet, NEW rest \in Seq(Tokens), NEW items \in Seq(ItemSet)
  PROVE  /\ Found(r, rest, items) \in ReadingSet
         /\ Found(r, rest, items).rest = rest /\ Found(r, rest, items).letters = r.letters
         /\ Found(r, rest, items).options = r.options
         /\ Found(r, rest, items).failed = r.failed
         /\ Found(r, rest, items).found = r.found \o items
<1>1. r.found \o items \in Seq(ItemSet)
  BY ReadingFacts, ConcatProperties
<1>2. Found(r, rest, items) = [r EXCEPT !.rest = rest, !.found = r.found \o items]
  BY DEF Found, ReadingSet
<1> DEFINE more == r.found \o items
<1> HIDE DEF more
<1>3. Found(r, rest, items) = [r EXCEPT !.rest = rest, !.found = more]
  BY <1>2 DEF more
<1>4. more \in Seq(ItemSet)
  BY <1>1 DEF more
<1>5. /\ Found(r, rest, items) \in ReadingSet
      /\ Found(r, rest, items).rest = rest /\ Found(r, rest, items).letters = r.letters
      /\ Found(r, rest, items).options = r.options
      /\ Found(r, rest, items).failed = r.failed
      /\ Found(r, rest, items).found = more
  BY <1>3, <1>4 DEF ReadingSet
<1>6. QED
  BY <1>5 DEF more

LEMMA ValueFacts ==
  /\ Empty \in ValueSet /\ Bool(TRUE) \in ValueSet /\ Bool(FALSE) \in ValueSet
  /\ \A t \in Texts : String(t) \in ValueSet
BY DEF ValueSet

LEMMA ItemFacts ==
  ASSUME NEW option \in OptionSet, NEW value \in ValueSet
  PROVE  /\ Option(option, value) \in ItemSet /\ Option(option, value).is = "Option"
         /\ Option(option, value).name = NameOf(option) /\ Option(option, value).value = value
<1>1. NameOf(option) \in NameSet
  BY DEF NameOf, OptionSet
<1>2. QED
  BY <1>1 DEF Option, ItemSet

LEMMA ArgumentFacts ==
  ASSUME NEW text \in Texts
  PROVE  /\ Argument(text) \in ItemSet /\ Argument(text).is = "Argument"
         /\ Argument(text).name = EmptyText /\ Argument(text).value = String(text)
<1>1. EmptyText \in NameSet /\ String(text) \in ValueSet
  BY ValueFacts DEF NameSet
<1>2. QED
  BY <1>1 DEF Argument, ItemSet

\* The turn finds one option, of that name.
Finds(r, next, name) ==
  /\ next \in ReadingSet
  /\ \E item \in ItemSet :
       item.is = "Option" /\ item.name = name /\ next.found = r.found \o <<item>>

\* An option that is made up is found under the name it was given.
LEMMA MadeUpFacts ==
  ASSUME NEW r \in ReadingSet, NEW rest \in Seq(Tokens), NEW short \in NameSet,
         NEW long \in NameSet, NEW val \in TextArgument
  PROVE  Finds(r, MadeUp(r, rest, short, long, val), IF long = EmptyText THEN short ELSE long)
<1> DEFINE line   == [short |-> short, long |-> long, args |-> Len(val),
                      key |-> EmptyText, val |-> EmptyText]
           option == OptionOf(line)
           value  == IF val = <<>> THEN Bool(TRUE) ELSE String(val[1])
           item   == Option(option, value)
           found  == Found(r, rest, <<item>>)
           known  == Append(found.options, option)
<1>1. Len(val) \in Nat
  BY DEF TextArgument
<1>2. EmptyText # "default"
  BY Zenon DEF EmptyText
<1>3. option \in OptionSet /\ option.short = short /\ option.long = long
  <2> DEFINE v == IF Len(val) = 0 THEN Bool(FALSE) ELSE Empty
  <2>1. v \in ValueSet
    BY ValueFacts
  <2> HIDE DEF v
  <2>2. option = [short |-> short, long |-> long, args |-> Len(val), value |-> v]
    BY <1>2 DEF OptionOf, v
  <2>3. QED
    BY <1>1, <2>1, <2>2 DEF OptionSet
<1>4. value \in ValueSet
  <2>1. val # <<>> => val[1] \in Texts
    BY DEF TextArgument
  <2>2. QED
    BY <2>1, ValueFacts
<1>5. MadeUp(r, rest, short, long, val) = [found EXCEPT !.options = Append(@, option)]
  BY DEF MadeUp
<1> HIDE DEF option, value
<1>6. item \in ItemSet /\ item.is = "Option" /\ item.name = NameOf(option)
  BY <1>3, <1>4, ItemFacts
<1>7. item.name = IF long = EmptyText THEN short ELSE long
  BY <1>3, <1>6 DEF NameOf
<1> HIDE DEF item
<1>8. found \in ReadingSet /\ found.found = r.found \o <<item>>
  <2>1. <<item>> \in Seq(ItemSet)
    BY <1>6
  <2>2. QED
    BY <2>1, FoundFacts
<1> HIDE DEF found
<1>9. known \in Seq(OptionSet)
  <2>1. found.options \in Seq(OptionSet)
    BY <1>8, ReadingFacts
  <2>2. QED
    BY <1>3, <2>1, AppendProperties
<1>10. MadeUp(r, rest, short, long, val) = [found EXCEPT !.options = known]
  BY <1>5, <1>8 DEF ReadingSet
<1> HIDE DEF known
<1>11. /\ MadeUp(r, rest, short, long, val) \in ReadingSet
       /\ MadeUp(r, rest, short, long, val).found = found.found
  BY <1>8, <1>9, <1>10 DEF ReadingSet
<1>12. QED
  BY <1>6, <1>7, <1>8, <1>11 DEF Finds

\* A turn only adds to what has been found.
Grows(r, next) ==
  next \in ReadingSet /\ \E items \in Seq(ItemSet) : next.found = r.found \o items

LEMMA NothingFound ==
  ASSUME NEW r \in ReadingSet, NEW next \in ReadingSet, next.found = r.found
  PROVE  Grows(r, next)
<1>1. r.found \o <<>> = r.found /\ <<>> \in Seq(ItemSet)
  BY ReadingFacts
<1>2. QED
  BY <1>1 DEF Grows

LEMMA OneFound ==
  ASSUME NEW r \in ReadingSet, NEW next \in ReadingSet, NEW item \in ItemSet,
         next.found = r.found \o <<item>>
  PROVE  Grows(r, next)
<1>1. <<item>> \in Seq(ItemSet)
  OBVIOUS
<1>2. QED
  BY <1>1 DEF Grows

LEMMA LetterGrows ==
  ASSUME NEW r \in ReadingSet, r.letters # <<>>
  PROVE  /\ Grows(r, ParseLetter(r))
         /\ r.options = Options /\ r.letters[1] \notin Documented \cup {EmptyText} =>
              \E item \in ItemSet :
                /\ item.is = "Option" /\ item.name = r.letters[1]
                /\ ParseLetter(r).found = r.found \o <<item>>
<1> DEFINE letter == Head(r.letters)
           later  == Tail(r.letters)
           after  == [r EXCEPT !.letters = later]
           I == {i \in 1 .. Len(r.options) : r.options[i].short = letter}
           first == IF I # {} THEN Min(I) ELSE 0
           next == ParseLetter(r)
<1>1. letter \in NameSet /\ letter = r.letters[1] /\ later \in Seq(NameSet)
  BY ReadingFacts
<1> HIDE DEF later
<1>2. after \in ReadingSet /\ after.found = r.found /\ after.options = r.options
  BY <1>1 DEF ReadingSet
<1>3. after = [r EXCEPT !.letters = Tail(@)]
  BY DEF later, ReadingSet
<1>4. SelectInSeq(r.options, LAMBDA o : o.short = letter) = first
  BY DEF SelectInSeq
<1>5. next = IF first = 0 THEN MadeUp(after, r.rest, letter, EmptyText, <<>>)
             ELSE Found(after, r.rest, <<Option(r.options[first], Bool(TRUE))>>)
  BY <1>3, <1>4 DEF ParseLetter
<1> HIDE DEF after, next, letter
<1>6. r.rest \in Seq(Tokens) /\ r.options \in Seq(OptionSet)
  BY ReadingFacts
<1>7. CASE I = {}
  <2>1. next = MadeUp(after, r.rest, letter, EmptyText, <<>>)
    BY <1>5, <1>7
  <2>2. EmptyText \in NameSet /\ <<>> \in TextArgument
    BY DEF NameSet, TextArgument
  <2>3. /\ next \in ReadingSet
        /\ \E item \in ItemSet : /\ item.is = "Option" /\ item.name = letter
                                 /\ next.found = after.found \o <<item>>
    <3> DEFINE made == MadeUp(after, r.rest, letter, EmptyText, <<>>)
    <3>1. Finds(after, made, IF EmptyText = EmptyText THEN letter ELSE EmptyText)
      BY <1>1, <1>2, <1>6, <2>2, MadeUpFacts
    <3>2. QED
      BY <2>1, <3>1, Zenon DEF Finds
  <2>4. PICK item \in ItemSet : /\ item.is = "Option" /\ item.name = letter
                                /\ next.found = r.found \o <<item>>
    BY <1>2, <2>3
  <2>5. Grows(r, next)
    BY <2>3, <2>4, OneFound
  <2>6. QED
    BY <1>1, <2>4, <2>5 DEF next
<1>8. CASE I # {}
  <2>1. first \in I /\ first # 0
    <3>1. I \in SUBSET Nat /\ 0 \notin I
      OBVIOUS
    <3> HIDE DEF I
    <3>2. QED
      BY <1>8, <3>1, MinExists
  <2>2. first \in DOMAIN r.options /\ r.options[first].short = letter
    <3>1. \A i \in I : i \in DOMAIN r.options /\ r.options[i].short = letter
      BY <1>6
    <3> HIDE DEF I, first
    <3>2. QED
      BY <2>1, <3>1
  <2>3. next = Found(after, r.rest, <<Option(r.options[first], Bool(TRUE))>>)
    BY <1>5, <2>1
  <2>4. r.options[first] \in OptionSet
    <3>1. \A s \in Seq(OptionSet) : \A i \in DOMAIN s : s[i] \in OptionSet
      OBVIOUS
    <3>2. QED
      BY <1>6, <2>2, <3>1, Zenon
  <2> DEFINE item == Option(r.options[first], Bool(TRUE))
  <2>5. item \in ItemSet
    BY <2>4, ItemFacts, ValueFacts
  <2> HIDE DEF item, first
  <2>6. <<item>> \in Seq(ItemSet)
    BY <2>5
  <2>7. next \in ReadingSet /\ next.found = r.found \o <<item>>
    <3>1. next = Found(after, r.rest, <<item>>)
      BY <2>3 DEF item
    <3> DEFINE more == Found(after, r.rest, <<item>>)
    <3>2. more \in ReadingSet /\ more.found = after.found \o <<item>>
      BY <1>2, <1>6, <2>6, FoundFacts, Zenon
    <3>3. QED
      BY <1>2, <3>1, <3>2, Zenon
  <2>8. Grows(r, next)
    BY <2>5, <2>7, OneFound
  <2>9. r.options = Options => letter = EmptyText
    BY <2>2, OptionFacts
  <2>10. QED
    BY <1>1, <2>8, <2>9 DEF next
<1>9. QED
  BY <1>7, <1>8

LEMMA LongGrows ==
  ASSUME NEW r \in ReadingSet, r.rest # <<>>, Head(r.rest).kind = "long"
  PROVE  Grows(r, ParseLong(r))
<1> DEFINE token   == Head(r.rest)
           rest    == Tail(r.rest)
           S       == Similar(r.options, token.names[1])
           count   == Cardinality(S)
           option  == r.options[CHOOSE i \in S : TRUE]
           next    == ParseLong(r)
<1>1. token \in Tokens /\ rest \in Seq(Tokens)
  BY ReadingFacts
<1>2. /\ token.names[1] \in NameSet /\ token.val \in TextArgument /\ EmptyText \in NameSet
      /\ token.kind = "long"
  BY <1>1, TokenFacts DEF NameSet
<1>3. S \subseteq DOMAIN r.options /\ count \in Nat /\ (count = 1 => S # {})
  <2>1. S \subseteq DOMAIN r.options
    BY DEF Similar
  <2>2. DOMAIN r.options = 1 .. Len(r.options) /\ 1 \in Int /\ Len(r.options) \in Int
    BY ReadingFacts
  <2> HIDE DEF S
  <2>3. IsFiniteSet(S)
    BY <2>1, <2>2, FS_Interval, FS_Subset
  <2>4. QED
    BY <2>1, <2>3, FS_CardinalityType, FS_EmptySet
<1>4. count = 1 => option \in OptionSet /\ option.args \in Nat
  <2>1. r.options \in Seq(OptionSet)
    BY ReadingFacts
  <2>2. count = 1 => (CHOOSE i \in S : TRUE) \in DOMAIN r.options
    BY <1>3
  <2> HIDE DEF S
  <2>3. count = 1 => option \in OptionSet
    BY <2>1, <2>2
  <2>4. QED
    BY <2>3 DEF OptionSet
<1>5. next =
        CASE count > 1 -> Fail(r)
          [] count = 0 -> MadeUp(r, rest, EmptyText, token.names[1], token.val)
          [] count = 1 /\ option.args = 0 /\ token.val # <<>> -> Fail(r)
          [] count = 1 /\ option.args = 0 /\ token.val = <<>> ->
               Found(r, rest, <<Option(option, Bool(TRUE))>>)
          [] count = 1 /\ option.args > 0 /\ token.val # <<>> ->
               Found(r, rest, <<Option(option, String(token.val[1]))>>)
          [] count = 1 /\ option.args > 0 /\ token.val = <<>> ->
               IF MayBeArgument(rest)
               THEN Found(r, Tail(rest), <<Option(option, String(Head(rest).text))>>)
               ELSE Fail(r)
  BY DEF ParseLong
<1> HIDE DEF token, rest, S, count, option, next
<1>6. Grows(r, Fail(r))
  BY FailFacts, NothingFound
<1>7. Grows(r, MadeUp(r, rest, EmptyText, token.names[1], token.val))
  <2> DEFINE made == MadeUp(r, rest, EmptyText, token.names[1], token.val)
  <2>1. Finds(r, made, IF token.names[1] = EmptyText THEN EmptyText ELSE token.names[1])
    BY <1>1, <1>2, MadeUpFacts
  <2> HIDE DEF made
  <2>2. Grows(r, made)
    BY <2>1, OneFound DEF Finds
  <2>3. QED
    BY <2>2 DEF made
<1>8. ASSUME NEW left \in Seq(Tokens), NEW value \in ValueSet, count = 1
      PROVE  Grows(r, Found(r, left, <<Option(option, value)>>))
  <2>1. Option(option, value) \in ItemSet
    BY <1>4, <1>8, ItemFacts
  <2>2. <<Option(option, value)>> \in Seq(ItemSet)
    BY <2>1
  <2>3. QED
    BY <2>1, <2>2, FoundFacts, OneFound
<1>9. token.val # <<>> => String(token.val[1]) \in ValueSet
  <2>1. token.val # <<>> => token.val[1] \in Texts
    BY <1>2 DEF TextArgument
  <2>2. QED
    BY <2>1, ValueFacts
<1>10. MayBeArgument(rest) => Tail(rest) \in Seq(Tokens) /\ String(Head(rest).text) \in ValueSet
  <2>1. MayBeArgument(rest) => Tail(rest) \in Seq(Tokens) /\ Head(rest) \in Tokens
    BY <1>1 DEF MayBeArgument
  <2>2. QED
    BY <2>1, TokenFacts, ValueFacts
<1>11. CASE count > 1
  <2>1. next = Fail(r)
    BY <1>3, <1>5, <1>11
  <2>2. QED
    BY <1>6, <2>1 DEF next
<1>12. CASE count = 0
  <2>1. next = MadeUp(r, rest, EmptyText, token.names[1], token.val)
    BY <1>5, <1>12
  <2>2. QED
    BY <1>7, <2>1 DEF next
<1>13. CASE count = 1
  <2>1. \/ next = Fail(r)
        \/ next = Found(r, rest, <<Option(option, Bool(TRUE))>>)
        \/ token.val # <<>> /\ next = Found(r, rest, <<Option(option, String(token.val[1]))>>)
        \/ /\ MayBeArgument(rest)
           /\ next = Found(r, Tail(rest), <<Option(option, String(Head(rest).text))>>)
    BY <1>4, <1>5, <1>13
  <2>2. QED
    BY <1>1, <1>6, <1>8, <1>9, <1>10, <1>13, <2>1, ValueFacts DEF next
<1>14. QED
  BY <1>3, <1>11, <1>12, <1>13
LEMMA TokenGrows ==
  ASSUME NEW r \in ReadingSet, r.rest # <<>>
  PROVE  Grows(r, ParseToken(r))
<1> DEFINE token == Head(r.rest)
           next  == ParseToken(r)
           items == [i \in DOMAIN r.rest |-> Argument(r.rest[i].text)]
<1>1. r.rest \in Seq(Tokens) /\ token \in Tokens /\ Tail(r.rest) \in Seq(Tokens)
  BY ReadingFacts
<1>2. token.kind \in {"long", "short", "dashes", "word"} /\ token.names \in Seq(NameSet)
      /\ token.text \in Texts
  BY <1>1, TokenFacts
<1>3. CASE token.kind = "dashes"
  <2>1. next = Found(r, <<>>, items)
    BY <1>3 DEF ParseToken
  <2>2. items \in Seq(ItemSet)
    <3>1. DOMAIN r.rest = 1 .. Len(r.rest) /\ Len(r.rest) \in Nat
      BY <1>1
    <3>2. \A i \in DOMAIN r.rest : r.rest[i] \in Tokens
      BY <1>1
    <3>3. \A i \in DOMAIN r.rest : Argument(r.rest[i].text) \in ItemSet
      BY <3>2, TokenFacts, ArgumentFacts
    <3>4. QED
      BY <3>1, <3>3
  <2>3. <<>> \in Seq(Tokens)
    OBVIOUS
  <2> HIDE DEF items, next
  <2>4. next \in ReadingSet /\ next.found = r.found \o items
    BY <2>1, <2>2, <2>3, FoundFacts
  <2>5. QED
    BY <2>2, <2>4 DEF Grows, next
<1>4. CASE token.kind = "long"
  BY <1>4, LongGrows DEF ParseToken
<1>5. CASE token.kind = "short"
  <2> DEFINE rest == Tail(r.rest)
             letters == token.names
  <2>1. next = [r EXCEPT !.rest = rest, !.letters = letters]
    BY <1>5 DEF ParseToken, ReadingSet
  <2>2. rest \in Seq(Tokens) /\ letters \in Seq(NameSet)
    BY <1>1, <1>2
  <2> HIDE DEF rest, letters, next
  <2>3. next \in ReadingSet /\ next.found = r.found
    BY <2>1, <2>2 DEF ReadingSet
  <2>4. QED
    BY <2>3, NothingFound DEF next
<1>6. CASE token.kind = "word"
  <2> DEFINE item == Argument(token.text)
  <2>1. next = Found(r, Tail(r.rest), <<item>>)
    BY <1>6 DEF ParseToken
  <2>2. item \in ItemSet
    BY <1>2, ArgumentFacts
  <2> HIDE DEF item, next
  <2>3. <<item>> \in Seq(ItemSet)
    BY <2>2
  <2>4. next \in ReadingSet /\ next.found = r.found \o <<item>>
    BY <1>1, <2>1, <2>3, FoundFacts
  <2>5. QED
    BY <2>2, <2>4, OneFound DEF next
<1>7. QED
  BY <1>2, <1>3, <1>4, <1>5, <1>6

-----------------------------------------------------------------------------
(***************************************************************************)
(* A reading that cannot be accepted any more                              *)
(***************************************************************************)
\* Neither an option of the usage text nor a camera.
Unfit(item) == item.name \notin Documented /\ \A c \in Cameras : ~IsCommand(item, c)

\* A letter is still to come: no option of the usage text has a letter.
Pending(r) ==
  /\ r.letters # <<>> /\ r.options = Options
  /\ r.letters[1] \notin Documented \cup {EmptyText}

Bad(r) ==
  /\ r \in ReadingSet
  /\ r.failed \/ Pending(r) \/ \E k \in DOMAIN r.found : Unfit(r.found[k])

\* Items that have been found stay where they are.
LEMMA GrowsKeeps ==
  ASSUME NEW r \in ReadingSet, NEW next, Grows(r, next)
  PROVE  /\ next \in ReadingSet
         /\ \A k \in DOMAIN r.found : k \in DOMAIN next.found /\ next.found[k] = r.found[k]
<1>1. PICK items \in Seq(ItemSet) : next.found = r.found \o items
  BY DEF Grows
<1>2. r.found \in Seq(ItemSet)
  BY ReadingFacts
<1> DEFINE s == r.found
<1> HIDE DEF s
<1>3. \A k \in DOMAIN s : k \in DOMAIN (s \o items) /\ (s \o items)[k] = s[k]
  <2>1. s \in Seq(ItemSet) /\ Len(s) \in Nat /\ Len(items) \in Nat /\ DOMAIN s = 1 .. Len(s)
    BY <1>2 DEF s
  <2>2. /\ Len(s \o items) = Len(s) + Len(items) /\ s \o items \in Seq(ItemSet)
        /\ \A i \in 1 .. Len(s) + Len(items) :
             (s \o items)[i] = IF i <= Len(s) THEN s[i] ELSE items[i - Len(s)]
    BY <2>1, ConcatProperties
  <2>3. DOMAIN (s \o items) = 1 .. Len(s) + Len(items)
    BY <2>2
  <2>4. \A k \in 1 .. Len(s) : k \in 1 .. Len(s) + Len(items) /\ k <= Len(s)
    BY <2>1
  <2>5. QED
    BY <2>1, <2>2, <2>3, <2>4
<1>4. QED
  BY <1>1, <1>3 DEF Grows, s

\* The last item of those found.
LEMMA LastFound ==
  ASSUME NEW s \in Seq(ItemSet), NEW item \in ItemSet
  PROVE  /\ s \o <<item>> \in Seq(ItemSet) /\ DOMAIN (s \o <<item>>) = 1 .. (Len(s) + 1)
         /\ (s \o <<item>>)[Len(s) + 1] = item
         /\ \A k \in 1 .. Len(s) : (s \o <<item>>)[k] = s[k]
  OBVIOUS

\* No turn undoes it.
LEMMA BadStays ==
  ASSUME NEW r, Bad(r), ~r.failed, ~(r.rest = <<>> /\ r.letters = <<>>)
  PROVE  Bad(ParseNext(r))
<1> DEFINE next == ParseNext(r)
<1>1. r \in ReadingSet
  BY DEF Bad
<1>2. Grows(r, next)
  BY <1>1, LetterGrows, TokenGrows DEF ParseNext
<1>3. /\ next \in ReadingSet
      /\ \A k \in DOMAIN r.found : k \in DOMAIN next.found /\ next.found[k] = r.found[k]
  BY <1>1, <1>2, GrowsKeeps
<1>4. CASE \E k \in DOMAIN r.found : Unfit(r.found[k])
  BY <1>3, <1>4 DEF Bad
<1>5. CASE Pending(r)
  <2>1. next = ParseLetter(r)
    BY <1>5 DEF Pending, ParseNext
  <2>2. PICK item \in ItemSet : /\ item.is = "Option" /\ item.name = r.letters[1]
                                /\ next.found = r.found \o <<item>>
    BY <1>1, <1>5, <2>1, LetterGrows DEF Pending
  <2>3. Unfit(item)
    BY <1>5, <2>2 DEF Unfit, Pending, IsCommand
  <2>4. Len(r.found) \in Nat /\ r.found \in Seq(ItemSet)
    BY <1>1, ReadingFacts
  <2>5. Len(r.found) + 1 \in DOMAIN next.found /\ next.found[Len(r.found) + 1] = item
    BY <2>2, <2>4, LastFound
  <2>6. QED
    BY <1>3, <2>3, <2>5 DEF Bad
<1>6. QED
  BY <1>4, <1>5 DEF Bad

\* What was found and is not fit is left over.
LEMMA BadRejected ==
  ASSUME Bad(reading), reading.failed \/ AllRead
  PROVE  ~(~reading.failed /\ Accepted)
<1> SUFFICES ASSUME ~reading.failed, Accepted PROVE FALSE
  OBVIOUS
<1> DEFINE found == reading.found
           plain == MatchOptions(OptionNames, Outcome(found, <<>>))
           L == plain.left
<1>1. found \in Seq(ItemSet) /\ AllRead
  BY ReadingFacts DEF Bad
<1>2. PICK k \in DOMAIN found : Unfit(found[k])
  BY <1>1 DEF Bad, Pending, AllRead
<1>3. MatchUsage(Outcome(found, <<>>)).left = <<>>
  BY DEF Accepted, Matched
<1> HIDE DEF found
<1>4. Taken(found, Documented, plain)
  BY <1>1, NameFacts, OptionsTaken
<1> HIDE DEF plain
<1>5. PICK R \in SUBSET DOMAIN found :
        /\ OnePerName(found, Documented, R)
        /\ \E src \in [DOMAIN L -> DOMAIN found \ R] : OthersStay(found, L, R, src)
  BY <1>4 DEF Taken
<1>6. k \notin R
  BY <1>2, <1>5 DEF OnePerName, Unfit
<1>7. L \in Seq(ItemSet) /\ \E j \in DOMAIN L : L[j] = found[k]
  BY <1>2, <1>5, <1>6 DEF OthersStay
<1>8. PICK j \in DOMAIN L : L[j] = found[k]
  BY <1>7
<1>9. L # <<>> /\ (Len(L) = 1 => j = 1)
  BY <1>7
<1>10. \A c \in Cameras : ~IsCommand(L[j], c)
  BY <1>2, <1>8 DEF Unfit
<1>11. L = <<>> \/ (Len(L) = 1 /\ \E c \in Cameras : IsCommand(L[1], c))
  BY <1>1, <1>3, UsageMatched DEF plain
<1>12. QED
  BY <1>9, <1>10, <1>11
-----------------------------------------------------------------------------
(***************************************************************************)
(* How far the command line is well formed: of the first d tokens those at *)
(* A are arguments of the option before them, and there is no other way to *)
(* read them.                                                              *)
(***************************************************************************)
Splits(V) == V = {i \in DOMAIN argv : i - 1 \in DOMAIN argv \ V /\ Open(i - 1)}

Fits(i) ==
  \/ NamesOption(i) /\ (OptionAt(i) # "--websocket" => argv[i].val = <<>>)
  \/ argv[i].text \in Cameras

IsArgument(i) == argv[i].text # EmptyText /\ argv[i].kind # "dashes"

Own(A, d) == (1 .. d) \ A

Splitting(A, d) ==
  /\ A \subseteq 1 .. d
  /\ \A i \in 1 .. d : i \in A <=> i - 1 \in Own(A, d) /\ Open(i - 1)
  /\ \A i \in Own(A, d) : Fits(i) /\ (Open(i) => i + 1 \in A)
  /\ \A i \in A : IsArgument(i)
  /\ \A V \in SUBSET DOMAIN argv : Splits(V) => V \cap (1 .. d) = A

\* The next token is not an argument, in any reading of the command line.
LEMMA NextOwn ==
  ASSUME argv \in Seq(Tokens), NEW d \in Nat, d + 1 <= Len(argv), NEW A, Splitting(A, d),
         NEW V \in SUBSET DOMAIN argv, Splits(V)
  PROVE  d + 1 \in DOMAIN argv \ V
<1>1. DOMAIN argv = 1 .. Len(argv) /\ Len(argv) \in Nat /\ d + 1 \in DOMAIN argv
  OBVIOUS
<1>2. A \subseteq 1 .. d /\ V \cap (1 .. d) = A
  BY DEF Splitting
<1>3. d + 1 \in V => d \in DOMAIN argv \ V /\ Open(d)
  <2>1. d + 1 \in V => (d + 1) - 1 \in DOMAIN argv \ V /\ Open((d + 1) - 1)
    BY DEF Splits
  <2>2. (d + 1) - 1 = d
    OBVIOUS
  <2>3. QED
    BY <2>1, <2>2
<1>4. d \in DOMAIN argv \ V => d \in Own(A, d)
  BY <1>1, <1>2 DEF Own
<1>5. d \in Own(A, d) /\ Open(d) => d + 1 \in A
  BY DEF Splitting
<1>6. d + 1 \notin A
  BY <1>2
<1>7. QED
  BY <1>1, <1>3, <1>4, <1>5, <1>6

LEMMA OneOn ==
  ASSUME argv \in Seq(Tokens), NEW d \in Nat, d + 1 <= Len(argv), NEW A, Splitting(A, d),
         Fits(d + 1), ~Open(d + 1)
  PROVE  Splitting(A, d + 1) /\ Own(A, d + 1) = Own(A, d) \cup {d + 1} /\ d + 1 \notin Own(A, d)
<1>1. \A i \in 1 .. d + 1 : i = d + 1 \/ i \in 1 .. d
  OBVIOUS
<1>2. /\ A \subseteq 1 .. d /\ d + 1 \notin 1 .. d
      /\ \A i \in 1 .. d : i \in 1 .. d + 1 /\ i # d + 1
      /\ d + 1 \in 1 .. d + 1
  BY DEF Splitting
<1>3. Own(A, d + 1) = Own(A, d) \cup {d + 1} /\ d + 1 \notin Own(A, d)
  BY <1>1, <1>2 DEF Own
<1>4. ASSUME NEW i \in 1 .. d + 1
      PROVE  i \in A <=> i - 1 \in Own(A, d + 1) /\ Open(i - 1)
  <2>1. CASE i = d + 1
    <3>1. i - 1 = d /\ i \notin A /\ d # d + 1
      BY <1>2, <2>1
    <3>2. d \in Own(A, d) => ~Open(d)
      BY <1>2 DEF Splitting
    <3>3. QED
      BY <1>3, <3>1, <3>2
  <2>2. CASE i \in 1 .. d
    <3>1. i - 1 # d + 1
      BY <2>2
    <3>2. QED
      BY <1>3, <2>2, <3>1 DEF Splitting
  <2>3. QED
    BY <1>1, <2>1, <2>2
<1>5. \A i \in Own(A, d + 1) : Fits(i) /\ (Open(i) => i + 1 \in A)
  BY <1>3 DEF Splitting
<1>6. ASSUME NEW V \in SUBSET DOMAIN argv, Splits(V)
      PROVE  V \cap (1 .. d + 1) = A
  <2>1. d + 1 \notin V /\ V \cap (1 .. d) = A
    BY <1>6, NextOwn DEF Splitting
  <2>2. QED
    BY <1>1, <1>2, <2>1
<1>7. QED
  BY <1>2, <1>3, <1>4, <1>5, <1>6 DEF Splitting

LEMMA TwoOn ==
  ASSUME argv \in Seq(Tokens), NEW d \in Nat, d + 2 <= Len(argv), NEW A, Splitting(A, d),
         Fits(d + 1), Open(d + 1), IsArgument(d + 2)
  PROVE  LET B == A \cup {d + 2} IN
         Splitting(B, d + 2) /\ Own(B, d + 2) = Own(A, d) \cup {d + 1} /\ d + 1 \notin Own(A, d)
<1> DEFINE B == A \cup {d + 2}
<1>1. \A i \in 1 .. d + 2 : i = d + 2 \/ i = d + 1 \/ i \in 1 .. d
  OBVIOUS
<1>2. /\ A \subseteq 1 .. d /\ d + 1 \notin 1 .. d /\ d + 2 \notin 1 .. d
      /\ \A i \in 1 .. d : i \in 1 .. d + 2
      /\ d + 1 \in 1 .. d + 2 /\ d + 2 \in 1 .. d + 2 /\ d + 1 # d + 2 /\ d # d + 1 /\ d # d + 2
  BY DEF Splitting
<1>3. Own(B, d + 2) = Own(A, d) \cup {d + 1} /\ d + 1 \notin Own(A, d) /\ d + 2 \notin Own(A, d)
  BY <1>1, <1>2 DEF Own
<1>4. ASSUME NEW i \in 1 .. d + 2
      PROVE  i \in B <=> i - 1 \in Own(B, d + 2) /\ Open(i - 1)
  <2>1. CASE i = d + 2
    <3>1. i - 1 = d + 1
      BY <2>1
    <3>2. QED
      BY <1>3, <2>1, <3>1
  <2>2. CASE i = d + 1
    <3>1. i - 1 = d /\ i \notin B
      BY <1>2, <2>2
    <3>2. d \in Own(A, d) => ~Open(d)
      BY <1>2 DEF Splitting
    <3>3. QED
      BY <1>2, <1>3, <3>1, <3>2
  <2>3. CASE i \in 1 .. d
    <3>1. i - 1 # d + 1 /\ i # d + 2
      BY <2>3
    <3>2. QED
      BY <1>3, <2>3, <3>1 DEF Splitting
  <2>4. QED
    BY <1>1, <2>1, <2>2, <2>3
<1>5. \A i \in Own(B, d + 2) : Fits(i) /\ (Open(i) => i + 1 \in B)
  <2>1. (d + 1) + 1 = d + 2
    OBVIOUS
  <2>2. QED
    BY <1>3, <2>1 DEF Splitting
<1>6. ASSUME NEW V \in SUBSET DOMAIN argv, Splits(V)
      PROVE  V \cap (1 .. d + 2) = B
  <2>1. d + 1 \in DOMAIN argv \ V /\ V \cap (1 .. d) = A
    <3>1. d + 1 <= Len(argv)
      OBVIOUS
    <3>2. QED
      BY <1>6, <3>1, NextOwn DEF Splitting
  <2>2. d + 2 \in V
    <3>1. d + 2 \in DOMAIN argv /\ (d + 2) - 1 = d + 1
      OBVIOUS
    <3>2. (d + 2) - 1 \in DOMAIN argv \ V /\ Open((d + 2) - 1)
      BY <2>1, <3>1
    <3>3. QED
      BY <1>6, <3>1, <3>2, Zenon DEF Splits
  <2>3. QED
    BY <1>1, <1>2, <2>1, <2>2
<1>7. \A i \in B : IsArgument(i)
  BY DEF Splitting
<1>8. B \subseteq 1 .. d + 2
  BY <1>2
<1> HIDE DEF B
<1>9. Splitting(B, d + 2)
  BY <1>4, <1>5, <1>6, <1>7, <1>8 DEF Splitting
<1>10. QED
  BY <1>3, <1>9 DEF B

\* A token that does not fit, or an option without its argument: not well formed.
LEMMA Misfit ==
  ASSUME argv \in Seq(Tokens), NEW d \in Nat, d + 1 <= Len(argv), NEW A, Splitting(A, d),
         ~Fits(d + 1) \/ (Open(d + 1) /\ ~(d + 2 <= Len(argv) /\ IsArgument(d + 2)))
  PROVE  \A V \in SUBSET DOMAIN argv : ~WellFormed(V)
<1> SUFFICES ASSUME NEW V \in SUBSET DOMAIN argv, WellFormed(V) PROVE FALSE
  OBVIOUS
<1>1. Splits(V)
  BY DEF WellFormed, Splits
<1>2. d + 1 \in DOMAIN argv \ V
  BY <1>1, NextOwn
<1>3. \A i \in DOMAIN argv \ V : Fits(i)
  BY DEF WellFormed, Fits
<1>4. \A i \in V : i \in DOMAIN argv /\ IsArgument(i)
  BY DEF WellFormed, IsArgument
<1>5. Open(d + 1) => (d + 1) + 1 \in V
  <2>1. argv[d + 1] \in Tokens
    BY <1>2
  <2>2. Open(d + 1) => argv[d + 1].text \notin Cameras
    BY <2>1, TokenFacts DEF Open, NamesOption
  <2>3. QED
    BY <1>2, <2>2 DEF WellFormed
<1>6. (d + 1) + 1 = d + 2
  OBVIOUS
<1>7. d + 2 \in DOMAIN argv => d + 2 <= Len(argv)
  OBVIOUS
<1>8. QED
  BY <1>2, <1>3, <1>4, <1>5, <1>6, <1>7
-----------------------------------------------------------------------------
(***************************************************************************)
(* A reading that agrees with the command line so far: what was found is   *)
(* what the tokens say that are not arguments of others.                   *)
(***************************************************************************)
ValueAt(i) == IF argv[i].val = <<>> THEN argv[i + 1].text ELSE argv[i].val[1]

OptionValue(i) == IF OptionAt(i) = "--websocket" THEN String(ValueAt(i)) ELSE Bool(TRUE)

ItemAt(i) ==
  IF NamesOption(i) THEN [is |-> "Option", name |-> OptionAt(i), value |-> OptionValue(i)]
  ELSE Argument(argv[i].text)

\* The items found, and the positions O they come from.
Places(found, pos, O) ==
  /\ pos \in [DOMAIN found -> O]
  /\ \A k \in DOMAIN found : found[k] = ItemAt(pos[k])
  /\ \A k, l \in DOMAIN found : pos[k] = pos[l] => k = l
  /\ \A i \in O : \E k \in DOMAIN found : pos[k] = i

\* The tokens from d on are still to come.
Rest(rest, d) == Len(rest) = Len(argv) - d /\ \A k \in 1 .. Len(rest) : rest[k] = argv[d + k]

Agrees(r, d, A) ==
  /\ d \in Nat /\ Rest(r.rest, d) /\ Splitting(A, d)
  /\ \E pos : Places(r.found, pos, Own(A, d))

Good(r) ==
  /\ r \in ReadingSet /\ ~r.failed /\ r.letters = <<>> /\ r.options = Options
  /\ \E d, A : Agrees(r, d, A)

LEMMA MorePlaces ==
  ASSUME NEW found \in Seq(ItemSet), NEW O, NEW pos, Places(found, pos, O), NEW i, i \notin O,
         ItemAt(i) \in ItemSet
  PROVE  \E q : Places(found \o <<ItemAt(i)>>, q, O \cup {i})
<1> DEFINE n == Len(found)
           more == found \o <<ItemAt(i)>>
           q == [k \in 1 .. (n + 1) |-> IF k = n + 1 THEN i ELSE pos[k]]
<1>1. n \in Nat /\ DOMAIN found = 1 .. n
  OBVIOUS
<1>2. /\ DOMAIN more = 1 .. (n + 1) /\ more[n + 1] = ItemAt(i)
      /\ \A k \in 1 .. n : more[k] = found[k]
  BY LastFound
<1>3. /\ \A k \in 1 .. (n + 1) : k = n + 1 \/ k \in 1 .. n
      /\ \A k \in 1 .. n : k \in 1 .. (n + 1) /\ k # n + 1
      /\ n + 1 \in 1 .. (n + 1)
  BY <1>1
<1>4. q[n + 1] = i /\ \A k \in 1 .. n : q[k] = pos[k] /\ q[k] \in O
  BY <1>1, <1>3 DEF Places
<1>5. DOMAIN q = 1 .. (n + 1) /\ q = [k \in 1 .. (n + 1) |-> q[k]]
  OBVIOUS
<1> HIDE DEF q, more, n
<1>6. q \in [DOMAIN more -> O \cup {i}]
  BY <1>2, <1>3, <1>4, <1>5
<1>7. \A k \in DOMAIN more : more[k] = ItemAt(q[k])
  BY <1>1, <1>2, <1>3, <1>4 DEF Places
<1>8. \A k, l \in DOMAIN more : q[k] = q[l] => k = l
  BY <1>1, <1>2, <1>3, <1>4 DEF Places
<1>9. \A j \in O \cup {i} : \E k \in DOMAIN more : q[k] = j
  BY <1>1, <1>2, <1>3, <1>4 DEF Places
<1>10. Places(more, q, O \cup {i})
  BY <1>6, <1>7, <1>8, <1>9 DEF Places
<1>11. QED
  BY <1>10 DEF more

LEMMA TailFacts ==
  ASSUME NEW S, NEW s \in Seq(S), s # <<>>
  PROVE  /\ Tail(s) \in Seq(S) /\ Len(Tail(s)) = Len(s) - 1 /\ Head(s) = s[1] /\ Head(s) \in S
         /\ \A k \in 1 .. Len(s) - 1 : k + 1 \in 1 .. Len(s) /\ Tail(s)[k] = s[k + 1]
         /\ Len(s) \in Nat /\ Len(s) # 0 /\ (Tail(s) = <<>> <=> Len(s) = 1)
<1>1. Len(s) \in Nat /\ Len(s) # 0 /\ Head(s) = s[1] /\ s[1] \in S
  OBVIOUS
<1>2. Tail(s) \in Seq(S) /\ Len(Tail(s)) = Len(s) - 1
  OBVIOUS
<1>3. \A k \in 1 .. Len(s) - 1 : k + 1 \in 1 .. Len(s) /\ Tail(s)[k] = s[k + 1]
  OBVIOUS
<1> DEFINE t == Tail(s)
<1> HIDE DEF t
<1>4. t \in Seq(S) /\ Len(t) = Len(s) - 1
  BY <1>2 DEF t
<1>5. t = <<>> <=> Len(s) = 1
  BY <1>1, <1>4
<1>6. QED
  BY <1>1, <1>2, <1>3, <1>5 DEF t

LEMMA NextRest ==
  ASSUME argv \in Seq(Tokens), NEW s \in Seq(Tokens), s # <<>>, NEW e \in Nat, Rest(s, e)
  PROVE  /\ e + 1 <= Len(argv) /\ e + 1 \in DOMAIN argv
         /\ Head(s) = argv[e + 1] /\ argv[e + 1] \in Tokens
         /\ Tail(s) \in Seq(Tokens) /\ Rest(Tail(s), e + 1)
         /\ Tail(s) # <<>> <=> e + 2 <= Len(argv)
<1> DEFINE n == Len(s)
           t == Tail(s)
<1>1. n \in Nat /\ n # 0
  BY TailFacts
<1>2. /\ t \in Seq(Tokens) /\ Len(t) = n - 1 /\ Head(s) = s[1]
      /\ \A k \in 1 .. n - 1 : k + 1 \in 1 .. n /\ t[k] = s[k + 1]
      /\ t = <<>> <=> n = 1
  BY TailFacts
<1>3. n = Len(argv) - e /\ \A k \in 1 .. n : s[k] = argv[e + k]
  BY DEF Rest
<1> HIDE DEF n, t
<1>4. Len(argv) \in Nat /\ DOMAIN argv = 1 .. Len(argv)
  OBVIOUS
<1>5. 1 \in 1 .. n /\ e + 1 \in DOMAIN argv /\ e + 1 <= Len(argv)
  BY <1>1, <1>3, <1>4
<1>6. argv[e + 1] \in Tokens
  BY <1>5
<1>7. ASSUME NEW k \in 1 .. n - 1 PROVE t[k] = argv[(e + 1) + k]
  <2>1. e + (k + 1) = (e + 1) + k
    BY <1>1
  <2>2. QED
    BY <1>2, <1>3, <2>1
<1>8. n - 1 = Len(argv) - (e + 1)
  BY <1>3, <1>4
<1>9. Rest(t, e + 1)
  BY <1>2, <1>7, <1>8 DEF Rest
<1>10. t # <<>> <=> e + 2 <= Len(argv)
  BY <1>1, <1>2, <1>3, <1>4
<1>11. Head(s) = argv[e + 1]
  BY <1>2, <1>3, <1>5
<1>12. QED
  BY <1>2, <1>5, <1>6, <1>9, <1>10, <1>11 DEF t

\* What is known of the next two tokens of a good reading.
LEMMA NextToken ==
  ASSUME argv \in Seq(Tokens), NEW s \in Seq(Tokens), s # <<>>, NEW d \in Nat, Rest(s, d)
  PROVE  /\ d + 1 <= Len(argv) /\ d + 1 \in DOMAIN argv
         /\ Head(s) = argv[d + 1] /\ argv[d + 1] \in Tokens
         /\ Tail(s) \in Seq(Tokens) /\ Rest(Tail(s), d + 1)
         /\ Tail(s) # <<>> <=> d + 2 <= Len(argv)
         /\ Tail(s) # <<>> =>
              /\ d + 2 \in DOMAIN argv
              /\ Head(Tail(s)) = argv[d + 2] /\ argv[d + 2] \in Tokens
              /\ Tail(Tail(s)) \in Seq(Tokens) /\ Rest(Tail(Tail(s)), d + 2)
<1> DEFINE t == Tail(s)
<1>1. /\ d + 1 <= Len(argv) /\ d + 1 \in DOMAIN argv
      /\ Head(s) = argv[d + 1] /\ argv[d + 1] \in Tokens
      /\ t \in Seq(Tokens) /\ Rest(t, d + 1)
      /\ t # <<>> <=> d + 2 <= Len(argv)
  BY NextRest
<1>2. (d + 1) + 1 = d + 2 /\ d + 1 \in Nat
  OBVIOUS
<1> HIDE DEF t
<1>3. t # <<>> => /\ (d + 1) + 1 \in DOMAIN argv
                  /\ Head(t) = argv[(d + 1) + 1] /\ argv[(d + 1) + 1] \in Tokens
                  /\ Tail(t) \in Seq(Tokens) /\ Rest(Tail(t), (d + 1) + 1)
  BY <1>1, <1>2, NextRest
<1>4. t # <<>> => /\ d + 2 \in DOMAIN argv
                  /\ Head(t) = argv[d + 2] /\ argv[d + 2] \in Tokens
                  /\ Tail(t) \in Seq(Tokens) /\ Rest(Tail(t), d + 2)
  BY <1>2, <1>3
<1>5. QED
  BY <1>1, <1>4 DEF t
-----------------------------------------------------------------------------
(***************************************************************************)
(* One turn of a good reading                                              *)
(***************************************************************************)
Ready(r, d, A) ==
  /\ r \in ReadingSet /\ r.failed = FALSE /\ r.letters = <<>> /\ r.options = Options
  /\ Agrees(r, d, A)

Rejected(r) == Bad(r) /\ \A V \in SUBSET DOMAIN argv : ~WellFormed(V)

LEMMA UnfitFound ==
  ASSUME NEW r \in ReadingSet, NEW next \in ReadingSet, NEW item \in ItemSet, Unfit(item),
         next.found = r.found \o <<item>>
  PROVE  Bad(next)
<1>1. r.found \in Seq(ItemSet) /\ Len(r.found) \in Nat
  BY ReadingFacts
<1>2. Len(r.found) + 1 \in DOMAIN next.found /\ next.found[Len(r.found) + 1] = item
  BY <1>1, LastFound
<1>3. QED
  BY <1>2 DEF Bad

LEMMA UnknownFound ==
  ASSUME NEW r \in ReadingSet, NEW next, NEW name, Finds(r, next, name), name \notin Documented
  PROVE  Bad(next)
<1>1. PICK item \in ItemSet :
        item.is = "Option" /\ item.name = name /\ next.found = r.found \o <<item>>
  BY DEF Finds
<1>2. Unfit(item)
  BY <1>1 DEF Unfit, IsCommand
<1>3. QED
  BY <1>1, <1>2, UnfitFound DEF Finds

\* Which option a long token names, as docopt finds it.
LEMMA NamedOption ==
  ASSUME NEW i, NamesOption(i)
  PROVE  LET S == Similar(Options, argv[i].names[1]) IN
         /\ Cardinality(S) = 1 /\ OptionAt(i) \in Documented
         /\ \E k \in 1 .. 8 : (CHOOSE j \in S : TRUE) = k /\ OptionAt(i) = Options[k].long
<1>1. Cardinality(Means(argv[i].names[1])) = 1
  BY DEF NamesOption
<1>2. Cardinality({}) = 0
  BY FS_EmptySet
<1> DEFINE name == argv[i].names[1]
           S == Similar(Options, name)
<1> HIDE DEF name, S
<1>3. Cardinality(Means(name)) = 1
  BY <1>1 DEF name
<1>4. Cardinality(S) = 1 /\ \E k \in 1 .. 8 : /\ (CHOOSE j \in S : TRUE) = k
                                           /\ (CHOOSE n \in Means(name) : TRUE) = Options[k].long
  BY <1>2, <1>3, SimilarMeans DEF S
<1>5. \A k \in 1 .. 8 : Options[k].long \in Documented
  BY OptionFacts
<1>6. QED
  BY <1>4, <1>5 DEF OptionAt, name, S

LEMMA TokenItem ==
  ASSUME argv \in Seq(Tokens), NEW i \in DOMAIN argv, Open(i) => i + 1 \in DOMAIN argv
  PROVE  ItemAt(i) \in ItemSet
<1>1. argv[i] \in Tokens /\ (Open(i) => argv[i + 1] \in Tokens)
  OBVIOUS
<1>2. CASE NamesOption(i)
  <2>1. OptionAt(i) \in NameSet
    BY <1>2, NamedOption DEF NameSet
  <2>2. OptionAt(i) = "--websocket" => ValueAt(i) \in Texts
    <3>1. argv[i].val \in TextArgument /\ (Open(i) => argv[i + 1].text \in Texts)
      BY <1>1, TokenFacts
    <3>2. argv[i].val # <<>> => argv[i].val[1] \in Texts
      BY <3>1 DEF TextArgument
    <3>3. QED
      BY <1>2, <3>1, <3>2 DEF ValueAt, Open
  <2>3. OptionValue(i) \in ValueSet
    BY <2>2, ValueFacts DEF OptionValue
  <2>4. ItemAt(i) = [is |-> "Option", name |-> OptionAt(i), value |-> OptionValue(i)]
    BY <1>2 DEF ItemAt
  <2>5. QED
    BY <2>1, <2>3, <2>4 DEF ItemSet
<1>3. CASE ~NamesOption(i)
  BY <1>1, <1>3, TokenFacts, ArgumentFacts DEF ItemAt
<1>4. QED
  BY <1>2, <1>3

LEMMA TakeOne ==
  ASSUME argv \in Seq(Tokens), NEW r, NEW d, NEW A, Ready(r, d, A), r.rest # <<>>,
         Fits(d + 1), ~Open(d + 1)
  PROVE  Good(Found(r, Tail(r.rest), <<ItemAt(d + 1)>>))
<1> DEFINE s == r.rest
           next == Found(r, Tail(s), <<ItemAt(d + 1)>>)
<1>1. /\ r \in ReadingSet /\ d \in Nat /\ Rest(s, d) /\ Splitting(A, d) /\ s \in Seq(Tokens)
      /\ r.found \in Seq(ItemSet) /\ s # <<>>
  BY ReadingFacts DEF Ready, Agrees
<1> HIDE DEF s
<1>2. /\ d + 1 <= Len(argv) /\ d + 1 \in DOMAIN argv
      /\ Tail(s) \in Seq(Tokens) /\ Rest(Tail(s), d + 1)
  BY <1>1, NextToken
<1>3. ItemAt(d + 1) \in ItemSet /\ <<ItemAt(d + 1)>> \in Seq(ItemSet)
  <2>1. ItemAt(d + 1) \in ItemSet
    BY <1>2, TokenItem
  <2>2. QED
    BY <2>1
<1>4. /\ Splitting(A, d + 1) /\ Own(A, d + 1) = Own(A, d) \cup {d + 1} /\ d + 1 \notin Own(A, d)
  BY <1>1, <1>2, OneOn
<1>5. /\ next \in ReadingSet /\ next.rest = Tail(s) /\ next.letters = r.letters
      /\ next.options = r.options /\ next.failed = r.failed
      /\ next.found = r.found \o <<ItemAt(d + 1)>>
  BY <1>1, <1>2, <1>3, FoundFacts, Zenon
<1> HIDE DEF next
<1>6. \E pos : Places(r.found, pos, Own(A, d))
  BY DEF Ready, Agrees
<1>7. \E pos : Places(next.found, pos, Own(A, d + 1))
  <2>1. PICK pos : Places(r.found, pos, Own(A, d))
    BY <1>6
  <2>2. \E q : Places(r.found \o <<ItemAt(d + 1)>>, q, Own(A, d) \cup {d + 1})
    BY <1>1, <1>3, <1>4, <2>1, MorePlaces
  <2>3. QED
    BY <1>4, <1>5, <2>2
<1>8. Agrees(next, d + 1, A)
  BY <1>1, <1>2, <1>4, <1>5, <1>7 DEF Agrees
<1>9. QED
  BY <1>5, <1>8 DEF Good, Ready, next, s

LEMMA TakeTwo ==
  ASSUME argv \in Seq(Tokens), NEW r, NEW d, NEW A, Ready(r, d, A), r.rest # <<>>,
         Tail(r.rest) # <<>>, Fits(d + 1), Open(d + 1), IsArgument(d + 2)
  PROVE  Good(Found(r, Tail(Tail(r.rest)), <<ItemAt(d + 1)>>))
<1> DEFINE s == r.rest
           next == Found(r, Tail(Tail(s)), <<ItemAt(d + 1)>>)
           B == A \cup {d + 2}
<1>1. /\ r \in ReadingSet /\ d \in Nat /\ Rest(s, d) /\ Splitting(A, d) /\ s \in Seq(Tokens)
      /\ r.found \in Seq(ItemSet) /\ s # <<>> /\ Tail(s) # <<>>
  BY ReadingFacts DEF Ready, Agrees
<1> HIDE DEF s
<1>2. /\ d + 2 <= Len(argv) /\ d + 1 \in DOMAIN argv /\ d + 2 \in DOMAIN argv
      /\ Tail(Tail(s)) \in Seq(Tokens) /\ Rest(Tail(Tail(s)), d + 2)
  BY <1>1, NextToken
<1>3. ItemAt(d + 1) \in ItemSet /\ <<ItemAt(d + 1)>> \in Seq(ItemSet)
  <2>1. (d + 1) + 1 = d + 2
    BY <1>1
  <2>2. ItemAt(d + 1) \in ItemSet
    BY <1>2, <2>1, TokenItem
  <2>3. QED
    BY <2>2
<1>4. /\ Splitting(B, d + 2) /\ Own(B, d + 2) = Own(A, d) \cup {d + 1} /\ d + 1 \notin Own(A, d)
  BY <1>1, <1>2, TwoOn
<1>5. /\ next \in ReadingSet /\ next.rest = Tail(Tail(s)) /\ next.letters = r.letters
      /\ next.options = r.options /\ next.failed = r.failed
      /\ next.found = r.found \o <<ItemAt(d + 1)>>
  BY <1>1, <1>2, <1>3, FoundFacts, Zenon
<1> HIDE DEF next, B
<1>6. \E pos : Places(r.found, pos, Own(A, d))
  BY DEF Ready, Agrees
<1>7. \E pos : Places(next.found, pos, Own(B, d + 2))
  <2>1. PICK pos : Places(r.found, pos, Own(A, d))
    BY <1>6
  <2>2. \E q : Places(r.found \o <<ItemAt(d + 1)>>, q, Own(A, d) \cup {d + 1})
    BY <1>1, <1>3, <1>4, <2>1, MorePlaces
  <2>3. QED
    BY <1>4, <1>5, <2>2
<1>8. Agrees(next, d + 2, B)
  BY <1>1, <1>2, <1>4, <1>5, <1>7 DEF Agrees
<1>9. QED
  BY <1>5, <1>8 DEF Good, Ready, next, s
LEMMA LongStep ==
  ASSUME argv \in Seq(Tokens), NEW r, NEW d, NEW A, Ready(r, d, A), r.rest # <<>>,
         Head(r.rest).kind = "long"
  PROVE  Good(ParseLong(r)) \/ Rejected(ParseLong(r))
<1> DEFINE s       == r.rest
           token   == Head(s)
           rest    == Tail(s)
           S       == Similar(r.options, token.names[1])
           count   == Cardinality(S)
           option  == r.options[CHOOSE i \in S : TRUE]
           next    == ParseLong(r)
           i       == d + 1
<1>1. /\ r \in ReadingSet /\ d \in Nat /\ Rest(s, d) /\ Splitting(A, d) /\ s \in Seq(Tokens)
      /\ s # <<>> /\ r.options = Options /\ token.kind = "long"
  BY ReadingFacts DEF Ready, Agrees
<1>2. next =
        CASE count > 1 -> Fail(r)
          [] count = 0 -> MadeUp(r, rest, EmptyText, token.names[1], token.val)
          [] count = 1 /\ option.args = 0 /\ token.val # <<>> -> Fail(r)
          [] count = 1 /\ option.args = 0 /\ token.val = <<>> ->
               Found(r, rest, <<Option(option, Bool(TRUE))>>)
          [] count = 1 /\ option.args > 0 /\ token.val # <<>> ->
               Found(r, rest, <<Option(option, String(token.val[1]))>>)
          [] count = 1 /\ option.args > 0 /\ token.val = <<>> ->
               IF MayBeArgument(rest)
               THEN Found(r, Tail(rest), <<Option(option, String(Head(rest).text))>>)
               ELSE Fail(r)
  BY DEF ParseLong
<1>3. S = Similar(Options, token.names[1]) /\ option = Options[CHOOSE k \in S : TRUE]
  BY <1>1
<1> HIDE DEF S, count, option, next, s
<1>4. /\ i <= Len(argv) /\ i \in DOMAIN argv /\ token = argv[i] /\ token \in Tokens
      /\ rest \in Seq(Tokens)
      /\ rest # <<>> <=> d + 2 <= Len(argv)
      /\ rest # <<>> => Head(rest) = argv[d + 2]
  BY <1>1, NextToken
<1> HIDE DEF token, rest, i
<1>5. /\ token.names[1] \in NameSet /\ token.val \in TextArgument /\ EmptyText \in NameSet
      /\ argv[i].text \notin Cameras /\ argv[i].kind = "long"
  <2>1. /\ token.names[1] \in NameSet /\ token.val \in TextArgument
        /\ (token.text \in Cameras => token.kind = "word") /\ token.kind = "long"
    BY <1>1, <1>4, TokenFacts
  <2>2. QED
    BY <1>4, <2>1 DEF NameSet
<1>6. Bad(Fail(r))
  BY <1>1, FailFacts DEF Bad
<1>7. ~Fits(i) => \A V \in SUBSET DOMAIN argv : ~WellFormed(V)
  BY <1>1, <1>4, Misfit DEF i
<1>8. CASE count = 0
  <2>1. Means(token.names[1]) = {} /\ token.names[1] \notin Documented
    BY <1>3, <1>8, SimilarMeans DEF count
  <2>2. ~NamesOption(i)
    <3>1. Cardinality({}) = 0
      BY FS_EmptySet
    <3>2. QED
      BY <1>4, <2>1, <3>1 DEF NamesOption
  <2>3. ~Fits(i)
    BY <1>5, <2>2 DEF Fits
  <2>4. Finds(r, MadeUp(r, rest, EmptyText, token.names[1], token.val),
              IF token.names[1] = EmptyText THEN EmptyText ELSE token.names[1])
    BY <1>1, <1>4, <1>5, MadeUpFacts
  <2>5. next = MadeUp(r, rest, EmptyText, token.names[1], token.val)
    BY <1>2, <1>8
  <2>6. EmptyText \notin Documented
    BY DocumentedFacts
  <2>7. Bad(next)
    BY <1>1, <2>1, <2>4, <2>5, <2>6, UnknownFound
  <2>8. QED
    BY <1>7, <2>3, <2>7 DEF Rejected, next
<1>9. CASE count \in Nat /\ count > 1 /\ Cardinality(Means(token.names[1])) # 1
  <2>1. next = Fail(r)
    BY <1>2, <1>9
  <2>2. ~Fits(i)
    BY <1>4, <1>5, <1>9 DEF Fits, NamesOption
  <2>3. QED
    BY <1>6, <1>7, <2>1, <2>2 DEF Rejected, next
<1>10. ASSUME count = 1, Cardinality(Means(token.names[1])) = 1
       PROVE  Good(next) \/ Rejected(next)
  <2>1. NamesOption(i)
    BY <1>4, <1>5, <1>10 DEF NamesOption
  <2>2. PICK k \in 1 .. 8 : (CHOOSE j \in S : TRUE) = k /\ OptionAt(i) = Options[k].long
    BY <1>3, <1>4, <2>1, NamedOption
  <2>3. /\ option = Options[k] /\ NameOf(option) = OptionAt(i)
        /\ option.args = IF OptionAt(i) = "--websocket" THEN 1 ELSE 0
    <3>1. option = Options[k] /\ NameOf(option) = Options[k].long
      BY <1>3, <2>2, OptionFacts
    <3>2. k = 7 <=> Options[k].long = "--websocket"
      BY OptionFacts
    <3>3. Options[k].args = IF k = 7 THEN 1 ELSE 0
      BY OptionFacts
    <3>4. QED
      BY <2>2, <3>1, <3>2, <3>3
  <2>4. token.val = argv[i].val
    BY <1>4
  <2>5. ItemAt(i) = Option(option, OptionValue(i))
    BY <2>1, <2>3 DEF ItemAt, Option
  <2>6. CASE OptionAt(i) # "--websocket"
    <3>1. option.args = 0 /\ ~Open(i) /\ OptionValue(i) = Bool(TRUE)
      BY <2>3, <2>6 DEF Open, OptionValue
    <3>2. CASE token.val # <<>>
      <4>1. next = Fail(r)
        BY <1>2, <1>10, <3>1, <3>2
      <4>2. ~Fits(i)
        BY <1>5, <2>4, <2>6, <3>2 DEF Fits
      <4>3. QED
        BY <1>6, <1>7, <4>1, <4>2 DEF Rejected
    <3>3. CASE token.val = <<>>
      <4>1. next = Found(r, rest, <<ItemAt(i)>>)
        BY <1>2, <1>10, <2>5, <3>1, <3>3
      <4>2. Fits(i)
        BY <2>1, <2>4, <3>3 DEF Fits
      <4>3. Good(Found(r, Tail(r.rest), <<ItemAt(d + 1)>>))
        BY <3>1, <4>2, TakeOne DEF i
      <4>4. QED
        BY <4>1, <4>3 DEF i, rest, s
    <3>4. QED
      BY <3>2, <3>3
  <2>7. CASE OptionAt(i) = "--websocket"
    <3>1. /\ option.args > 0 /\ ~(option.args = 0) /\ OptionValue(i) = String(ValueAt(i)) /\ Fits(i)
          /\ (Open(i) <=> token.val = <<>>)
      BY <2>1, <2>3, <2>4, <2>7 DEF Open, OptionValue, Fits
    <3>2. CASE token.val # <<>>
      <4>1. next = Found(r, rest, <<Option(option, String(token.val[1]))>>)
        BY <1>2, <1>10, <3>1, <3>2
      <4>2. OptionValue(i) = String(token.val[1])
        BY <2>4, <3>1, <3>2 DEF ValueAt
      <4>3. next = Found(r, rest, <<ItemAt(i)>>)
        BY <2>5, <4>1, <4>2
      <4>4. Good(Found(r, Tail(r.rest), <<ItemAt(d + 1)>>))
        BY <3>1, <3>2, TakeOne DEF i
      <4>5. QED
        BY <4>3, <4>4 DEF i, rest, s
    <3>3. CASE token.val = <<>> /\ MayBeArgument(rest)
      <4>1. next = Found(r, Tail(rest), <<Option(option, String(Head(rest).text))>>)
        BY <1>2, <1>10, <3>1, <3>3
      <4>2. rest # <<>> /\ Head(rest) = argv[d + 2] /\ IsArgument(d + 2)
        BY <1>4, <3>3 DEF MayBeArgument, IsArgument
      <4>3. i + 1 = d + 2
        BY <1>1 DEF i
      <4>4. OptionValue(i) = String(Head(rest).text)
        BY <2>4, <3>1, <3>3, <4>2, <4>3 DEF ValueAt
      <4>5. next = Found(r, Tail(rest), <<ItemAt(i)>>)
        BY <2>5, <4>1, <4>4
      <4>6. Good(Found(r, Tail(Tail(r.rest)), <<ItemAt(d + 1)>>))
        BY <3>1, <3>3, <4>2, TakeTwo DEF i, rest, s
      <4>7. QED
        BY <4>5, <4>6 DEF i, rest, s
    <3>4. CASE token.val = <<>> /\ ~MayBeArgument(rest)
      <4>1. next = Fail(r)
        BY <1>2, <1>10, <3>1, <3>4
      <4>2. ~(d + 2 <= Len(argv) /\ IsArgument(d + 2))
        BY <1>4, <3>4 DEF MayBeArgument, IsArgument
      <4>3. \A V \in SUBSET DOMAIN argv : ~WellFormed(V)
        BY <1>1, <1>4, <3>1, <3>4, <4>2, Misfit DEF i
      <4>4. QED
        BY <1>6, <4>1, <4>3 DEF Rejected
    <3>5. QED
      BY <3>2, <3>3, <3>4
  <2>8. QED
    BY <2>6, <2>7
<1>11. \/ count = 0
       \/ count \in Nat /\ count > 1 /\ Cardinality(Means(token.names[1])) # 1
       \/ count = 1 /\ Cardinality(Means(token.names[1])) = 1
  BY <1>3, SimilarMeans DEF count
<1>12. QED
  BY <1>8, <1>9, <1>10, <1>11 DEF next

LEMMA GoodStep ==
  ASSUME argv \in Seq(Tokens), NEW r, Good(r), r.rest # <<>>
  PROVE  Good(ParseNext(r)) \/ Rejected(ParseNext(r))
<1> DEFINE s     == r.rest
           token == Head(s)
           next  == ParseNext(r)
<1>1. PICK d, A : Agrees(r, d, A)
  BY DEF Good
<1>2. Ready(r, d, A) /\ r.letters = <<>>
  BY <1>1 DEF Good, Ready, ReadingSet
<1>3. next = ParseToken(r)
  BY <1>2 DEF ParseNext
<1>4. /\ r \in ReadingSet /\ d \in Nat /\ Rest(s, d) /\ Splitting(A, d)
      /\ s \in Seq(Tokens) /\ s # <<>>
      /\ r.options = Options /\ r.found \in Seq(ItemSet)
  BY <1>2, ReadingFacts DEF Ready, Agrees
<1> HIDE DEF s
<1>5. /\ d + 1 <= Len(argv) /\ d + 1 \in DOMAIN argv /\ token = argv[d + 1] /\ token \in Tokens
      /\ Tail(s) \in Seq(Tokens)
  BY <1>4, NextToken
<1> HIDE DEF token, next
<1>6. /\ token.kind \in {"long", "short", "dashes", "word"} /\ token.names \in Seq(NameSet)
      /\ token.text \in Texts /\ (token.text \in Cameras => token.kind = "word")
  BY <1>5, TokenFacts
<1>7. CASE token.kind = "long"
  <2>1. next = ParseLong(r)
    BY <1>3, <1>7 DEF ParseToken, token, s
  <2>2. Good(ParseLong(r)) \/ Rejected(ParseLong(r))
    BY <1>2, <1>7, LongStep DEF token, s
  <2>3. QED
    BY <2>1, <2>2 DEF next
<1>8. token.kind # "long" => ~NamesOption(d + 1) /\ ~Open(d + 1)
  BY <1>5 DEF NamesOption, Open
<1>9. token.kind # "long" /\ token.text \notin Cameras =>
        \A V \in SUBSET DOMAIN argv : ~WellFormed(V)
  <2>1. token.kind # "long" /\ token.text \notin Cameras => ~Fits(d + 1)
    BY <1>5, <1>8 DEF Fits
  <2>2. QED
    BY <1>4, <1>5, <2>1, Misfit
<1>10. CASE token.kind = "word"
  <2>1. next = Found(r, Tail(s), <<Argument(token.text)>>)
    BY <1>3, <1>10 DEF ParseToken, token, s
  <2>2. ItemAt(d + 1) = Argument(token.text)
    BY <1>5, <1>8, <1>10 DEF ItemAt
  <2>3. CASE token.text \in Cameras
    <3>1. Fits(d + 1)
      BY <1>5, <2>3 DEF Fits
    <3>2. Good(Found(r, Tail(r.rest), <<ItemAt(d + 1)>>))
      BY <1>2, <1>4, <1>8, <1>10, <3>1, TakeOne DEF s
    <3>3. QED
      BY <2>1, <2>2, <3>2 DEF next, s
  <2>4. CASE token.text \notin Cameras
    <3> DEFINE item == Argument(token.text)
    <3>1. item \in ItemSet /\ item.name = EmptyText /\ item.value = String(token.text)
      BY <1>6, ArgumentFacts
    <3>2. Unfit(item)
      BY <2>4, <3>1, DocumentedFacts DEF Unfit, IsCommand, String
    <3>3. <<item>> \in Seq(ItemSet)
      BY <3>1
    <3> HIDE DEF item
    <3>4. next = Found(r, Tail(s), <<item>>)
      BY <2>1 DEF item
    <3> DEFINE more == Found(r, Tail(s), <<item>>)
    <3>5. more \in ReadingSet /\ more.found = r.found \o <<item>>
      BY <1>4, <1>5, <3>3, FoundFacts, Zenon
    <3> HIDE DEF more
    <3>6. Bad(more)
      BY <1>4, <3>1, <3>2, <3>5, UnfitFound
    <3>7. QED
      BY <1>9, <1>10, <2>4, <3>4, <3>6 DEF Rejected, next, more
  <2>5. QED
    BY <2>3, <2>4
<1>11. CASE token.kind = "short"
  <2> DEFINE rest == Tail(s)
             letters == token.names
  <2>1. next = [r EXCEPT !.rest = rest, !.letters = letters]
    BY <1>3, <1>4, <1>11 DEF ParseToken, ReadingSet, token, s
  <2>2. /\ rest \in Seq(Tokens) /\ letters \in Seq(NameSet) /\ letters # <<>>
        /\ \A i \in DOMAIN letters : letters[i] \notin Documented \cup {EmptyText}
    BY <1>5, <1>6, <1>11, TokenFacts
  <2> HIDE DEF rest, letters
  <2>3. next \in ReadingSet /\ next.letters = letters /\ next.options = Options
    BY <1>4, <2>1, <2>2 DEF ReadingSet
  <2>4. 1 \in DOMAIN letters
    BY <2>2
  <2>5. Bad(next)
    BY <2>2, <2>3, <2>4 DEF Bad, Pending
  <2>6. QED
    BY <1>6, <1>9, <1>11, <2>5 DEF Rejected, next
<1>12. CASE token.kind = "dashes"
  <2> DEFINE items == [i \in DOMAIN s |-> Argument(s[i].text)]
  <2>1. next = Found(r, <<>>, items)
    BY <1>3, <1>12 DEF ParseToken, token, s
  <2>2. Grows(r, next) /\ next \in ReadingSet
    BY <1>3, <1>4, TokenGrows DEF Grows, s
  <2>3. DOMAIN s = 1 .. Len(s) /\ Len(s) \in Nat /\ 1 \in 1 .. Len(s) /\ s[1] = token
    BY <1>4 DEF token
  <2>4. items[1] = Argument(token.text) /\ items \in Seq(ItemSet) /\ Len(items) = Len(s)
    <3>1. \A i \in DOMAIN s : Argument(s[i].text) \in ItemSet
      <4>1. \A i \in DOMAIN s : s[i] \in Tokens
        BY <1>4
      <4>2. QED
        BY <4>1, TokenFacts, ArgumentFacts
    <3>2. QED
      BY <2>3, <3>1
  <2> HIDE DEF items
  <2>5. <<>> \in Seq(Tokens)
    OBVIOUS
  <2>6. next.found = r.found \o items
    BY <1>4, <2>1, <2>4, <2>5, FoundFacts
  <2>7. Unfit(items[1])
    <3> DEFINE item == Argument(token.text)
    <3>1. item.name = EmptyText /\ item.value = String(token.text) /\ token.text \notin Cameras
      BY <1>6, <1>12, ArgumentFacts
    <3> HIDE DEF item
    <3>2. Unfit(item)
      BY <3>1, DocumentedFacts DEF Unfit, IsCommand, String
    <3>3. QED
      BY <2>4, <3>2 DEF item
  <2>8. Len(r.found) + 1 \in DOMAIN next.found /\ next.found[Len(r.found) + 1] = items[1]
    <3> DEFINE f == r.found
    <3> HIDE DEF f
    <3>1. f \in Seq(ItemSet) /\ Len(items) >= 1
      BY <1>4, <2>3, <2>4 DEF f
    <3>2. Len(f) + 1 \in DOMAIN (f \o items) /\ (f \o items)[Len(f) + 1] = items[1]
      BY <2>4, <3>1
    <3>3. QED
      BY <2>6, <3>2 DEF f
  <2>9. Bad(next)
    BY <2>2, <2>7, <2>8 DEF Bad
  <2>10. QED
    BY <1>6, <1>9, <1>12, <2>9 DEF Rejected, next
<1>13. QED
  BY <1>6, <1>7, <1>10, <1>11, <1>12 DEF next
-----------------------------------------------------------------------------
(***************************************************************************)
(* What main takes from the pairs collected                                *)
(***************************************************************************)
\* The value of a name that was collected, once, and of one that was not.
LEMMA ValuesFacts ==
  ASSUME NEW E \in Seq(PairSet), \A e, f \in DOMAIN E : E[e].name = E[f].name => e = f,
         NEW n \in Documented \cup Cameras
  PROVE  /\ \A e \in DOMAIN E : E[e].name = n => Values(E)[n] = E[e].value
         /\ (\A e \in DOMAIN E : E[e].name # n) =>
              Values(E)[n] = IF n = "--websocket" THEN Empty ELSE Bool(FALSE)
<1> DEFINE I == {k \in 1 .. Len(E) : E[k].name = n}
           J == {k \in 1 .. Len(Options) : NameOf(Options[k]) = n}
           i == IF I # {} THEN Max(I) ELSE 0
           j == IF J # {} THEN Min(J) ELSE 0
<1>1. Values(E)[n] =
        IF i > 0 THEN E[i].value ELSE IF j > 0 THEN Options[j].value ELSE Bool(FALSE)
  <2>1. SelectLastInSeq(E, LAMBDA item : item.name = n) = i
    BY DEF SelectLastInSeq
  <2>2. SelectInSeq(Options, LAMBDA o : NameOf(o) = n) = j
    BY DEF SelectInSeq
  <2>3. n \in {NameOf(Options[k]) : k \in DOMAIN Options} \cup Cameras
    <3>1. n \in Documented => \E k \in DOMAIN Options : n = NameOf(Options[k])
      BY OptionFacts
    <3>2. QED
      BY <3>1
  <2> HIDE DEF i, j
  <2>4. QED
    BY <2>1, <2>2, <2>3 DEF Values
<1>2. DOMAIN E = 1 .. Len(E) /\ Len(E) \in Nat
  OBVIOUS
<1>3. ASSUME NEW e \in DOMAIN E, E[e].name = n
      PROVE  Values(E)[n] = E[e].value
  <2>1. I = {e} /\ e \in 1 .. Len(E)
    BY <1>2, <1>3
  <2>2. Max({e}) = e
    BY <1>2 DEF Max
  <2>3. i = e /\ e > 0
    <3> HIDE DEF I
    <3>1. QED
      BY <1>2, <2>1, <2>2
  <2> HIDE DEF i, j
  <2>4. QED
    BY <1>1, <2>3
<1>4. ASSUME \A e \in DOMAIN E : E[e].name # n
      PROVE  Values(E)[n] = IF n = "--websocket" THEN Empty ELSE Bool(FALSE)
  <2>1. I = {} /\ i = 0
    BY <1>2, <1>4
  <2>2. Len(Options) = 8
    BY OptionFacts
  <2>3. CASE n \in Cameras
    <3>1. n \notin Documented /\ n # "--websocket"
      BY <2>3, DocumentedFacts
    <3>2. J = {} /\ j = 0
      BY <2>2, <3>1, OptionFacts
    <3> HIDE DEF i, j
    <3>3. QED
      BY <1>1, <2>1, <3>1, <3>2
  <2>4. CASE n \in Documented
    <3>1. PICK k \in 1 .. 8 : n = Options[k].long
      BY <2>4, OptionFacts
    <3>2. J = {k}
      BY <2>2, <3>1, OptionFacts
    <3>3. Min({k}) = k
      BY DEF Min
    <3>4. j = k /\ j > 0
      <4> HIDE DEF J
      <4>1. QED
        BY <3>2, <3>3
    <3>5. Options[k].value = IF n = "--websocket" THEN Empty ELSE Bool(FALSE)
      <4>1. k = 7 <=> n = "--websocket"
        BY <3>1, OptionFacts
      <4>2. Options[k].value = IF k = 7 THEN Empty ELSE Bool(FALSE)
        BY OptionFacts
      <4>3. QED
        BY <4>1, <4>2
    <3> HIDE DEF i, j
    <3>6. QED
      BY <1>1, <2>1, <3>4, <3>5
  <2>5. QED
    BY <2>3, <2>4
<1>5. QED
  BY <1>3, <1>4

\* The pairs collected are what the tokens say that are no arguments.
Says(E, A) ==
  /\ E \in Seq(PairSet)
  /\ \A e, f \in DOMAIN E : E[e].name = E[f].name => e = f
  /\ \A e \in DOMAIN E : \E i \in DOMAIN argv \ A :
       \/ NamesOption(i) /\ E[e].name = OptionAt(i) /\ E[e].value = OptionValue(i)
       \/ argv[i].text \in Cameras /\ E[e].name = argv[i].text /\ E[e].value = Bool(TRUE)
  /\ \A i \in DOMAIN argv \ A :
       /\ NamesOption(i) => \E e \in DOMAIN E : E[e].name = OptionAt(i)
       /\ argv[i].text \in Cameras => \E e \in DOMAIN E : E[e].name = argv[i].text

\* A token that names an option means that option alone.
LEMMA NamedMeans ==
  ASSUME NEW i, NamesOption(i)
  PROVE  Means(argv[i].names[1]) = {OptionAt(i)} /\ OptionAt(i) \in Documented
<1> DEFINE name == argv[i].names[1]
           M == Means(name)
<1>1. Cardinality(M) = 1 /\ Cardinality({}) = 0
  BY FS_EmptySet DEF NamesOption
<1> HIDE DEF M, name
<1>2. \E k \in 1 .. 8 : M = {Options[k].long} /\ (CHOOSE n \in M : TRUE) = Options[k].long
  <2>1. M # {}
    <3>1. 0 # 1
      OBVIOUS
    <3>2. QED
      BY <1>1, <3>1, Zenon
  <2>2. QED
    BY <1>1, <2>1, SimilarMeans, Zenon DEF M
<1>3. QED
  BY <1>2, OptionFacts DEF M, OptionAt, name

LEMMA SaysMeaning ==
  ASSUME argv \in Seq(Tokens), NEW A \in SUBSET DOMAIN argv, WellFormed(A), NEW E, Says(E, A)
  PROVE  ReadArgs(Values(E)) = Meaning(A)
<1> DEFINE own == DOMAIN argv \ A
           given(n) == {i \in own : argv[i].kind = "long" /\ n \in Means(argv[i].names[1])}
           named(n) == {i \in own : NamesOption(i) /\ OptionAt(i) = n}
           value(i) == IF argv[i].val = <<>> THEN argv[i + 1].text ELSE argv[i].val[1]
           v == Values(E)
<1>1. \A i \in own : /\ NamesOption(i) \/ argv[i].text \in Cameras
                     /\ argv[i].text \in Cameras => argv[i].kind # "long" /\ ~NamesOption(i)
  <2>1. \A i \in own : argv[i] \in Tokens
    OBVIOUS
  <2>2. \A i \in own : argv[i].text \in Cameras => argv[i].kind = "word"
    BY <2>1, TokenFacts
  <2>3. QED
    BY <2>2 DEF WellFormed, NamesOption
<1>2. \A i : NamesOption(i) =>
              Means(argv[i].names[1]) = {OptionAt(i)} /\ OptionAt(i) \in Documented
  BY NamedMeans
<1>3. ASSUME NEW n PROVE given(n) = named(n)
  <2>1. ASSUME NEW i \in own
        PROVE  argv[i].kind = "long" /\ n \in Means(argv[i].names[1]) <=>
                 NamesOption(i) /\ OptionAt(i) = n
    <3>1. NamesOption(i) => argv[i].kind = "long" /\ Means(argv[i].names[1]) = {OptionAt(i)}
      BY <1>2 DEF NamesOption
    <3>2. argv[i].kind = "long" => NamesOption(i)
      BY <1>1
    <3>3. QED
      BY <3>1, <3>2
  <2>2. QED
    BY <2>1
<1>4. ASSUME NEW n, NEW i \in named(n), NEW j \in named(n) PROVE i = j
  <2>1. i \in own /\ j \in own /\ NamesOption(i) /\ NamesOption(j) /\ OptionAt(i) = OptionAt(j)
    OBVIOUS
  <2>2. \A l \in own \ {i} : NamesOption(l) => OptionAt(l) # OptionAt(i)
    BY <1>1, <2>1 DEF WellFormed
  <2>3. QED
    BY <2>1, <2>2
<1>5. /\ E \in Seq(PairSet)
      /\ \A e, f \in DOMAIN E : E[e].name = E[f].name => e = f
      /\ \A e \in DOMAIN E : \E i \in own :
           \/ NamesOption(i) /\ E[e].name = OptionAt(i) /\ E[e].value = OptionValue(i)
           \/ argv[i].text \in Cameras /\ E[e].name = argv[i].text /\ E[e].value = Bool(TRUE)
      /\ \A i \in own :
           /\ NamesOption(i) => \E e \in DOMAIN E : E[e].name = OptionAt(i)
           /\ argv[i].text \in Cameras => \E e \in DOMAIN E : E[e].name = argv[i].text
  BY DEF Says
<1>6. Documented \cap Cameras = {}
  BY DocumentedFacts
<1>7. ASSUME NEW n \in Documented \cup Cameras
      PROVE  /\ \A e \in DOMAIN E : E[e].name = n => v[n] = E[e].value
             /\ (\A e \in DOMAIN E : E[e].name # n) =>
                  v[n] = IF n = "--websocket" THEN Empty ELSE Bool(FALSE)
  <2>1. E \in Seq(PairSet) /\ \A e, f \in DOMAIN E : E[e].name = E[f].name => e = f
    BY <1>5
  <2>2. QED
    BY <2>1, ValuesFacts
<1> HIDE DEF own, v
<1>8. ASSUME NEW e \in DOMAIN E
      PROVE  \/ \E i \in named(E[e].name) :
                  E[e].name \in Documented /\ E[e].value = OptionValue(i)
             \/ \E i \in own : /\ argv[i].text = E[e].name /\ E[e].name \in Cameras
                              /\ E[e].value = Bool(TRUE)
  <2>1. PICK i \in own :
          \/ NamesOption(i) /\ E[e].name = OptionAt(i) /\ E[e].value = OptionValue(i)
          \/ argv[i].text \in Cameras /\ E[e].name = argv[i].text /\ E[e].value = Bool(TRUE)
    BY <1>5
  <2>2. CASE NamesOption(i) /\ E[e].name = OptionAt(i) /\ E[e].value = OptionValue(i)
    <3>1. OptionAt(i) \in Documented
      BY <1>2, <2>2
    <3>2. QED
      BY <2>2, <3>1
  <2>3. CASE argv[i].text \in Cameras /\ E[e].name = argv[i].text /\ E[e].value = Bool(TRUE)
    BY <2>3
  <2>4. QED
    BY <2>1, <2>2, <2>3
<1>9. ASSUME NEW n \in Documented
      PROVE  /\ \A i \in named(n) : v[n] = OptionValue(i)
             /\ named(n) = {} => v[n] = IF n = "--websocket" THEN Empty ELSE Bool(FALSE)
  <2>1. ASSUME NEW i \in named(n) PROVE v[n] = OptionValue(i)
    <3>1. PICK e \in DOMAIN E : E[e].name = n
      BY <1>5
    <3>2. E[e].value = OptionValue(i)
      <4>1. PICK l \in named(n) : E[e].value = OptionValue(l)
        BY <1>6, <1>8, <3>1
      <4>2. l = i
        BY <1>4
      <4>3. QED
        BY <4>1, <4>2
    <3>3. v[n] = E[e].value
      BY <1>7, <3>1
    <3>4. QED
      BY <3>2, <3>3
  <2>2. ASSUME named(n) = {} PROVE v[n] = IF n = "--websocket" THEN Empty ELSE Bool(FALSE)
    <3> HIDE DEF named
    <3>1. \A e \in DOMAIN E : E[e].name # n
      BY <1>6, <1>8, <2>2
    <3>2. QED
      BY <1>7, <3>1
  <2>3. QED
    BY <2>1, <2>2
<1>10. v["OpenNI"] = Bool(\E i \in own : argv[i].text = "OpenNI")
  <2>1. "OpenNI" \in Cameras /\ "OpenNI" \notin Documented /\ "OpenNI" # "--websocket"
    BY <1>6 DEF Cameras
  <2>2. CASE \E i \in own : argv[i].text = "OpenNI"
    <3>1. PICK e \in DOMAIN E : E[e].name = "OpenNI"
      BY <1>5, <2>1, <2>2
    <3>2. E[e].value = Bool(TRUE)
      BY <1>8, <2>1, <3>1
    <3>3. v["OpenNI"] = Bool(TRUE)
      BY <1>7, <2>1, <3>1, <3>2
    <3>4. QED
      BY <2>2, <3>3
  <2>3. CASE ~\E i \in own : argv[i].text = "OpenNI"
    <3>1. \A e \in DOMAIN E : E[e].name # "OpenNI"
      BY <1>8, <2>1, <2>3
    <3>2. v["OpenNI"] = Bool(FALSE)
      BY <1>7, <2>1, <3>1
    <3>3. QED
      BY <2>3, <3>2
  <2>4. QED
    BY <2>2, <2>3
<1>11. ASSUME NEW n \in {"--crop", "--tuio"} PROVE v[n].bool = (given(n) # {})
  <2>1. n \in Documented /\ n # "--websocket"
    BY DocumentedFacts
  <2>2. given(n) = named(n)
    BY <1>3
  <2>3. Bool(TRUE).bool = TRUE /\ Bool(FALSE).bool = FALSE
    BY DEF Bool
  <2> HIDE DEF given, named
  <2>4. CASE named(n) = {}
    <3>1. v[n] = Bool(FALSE)
      BY <1>9, <2>1, <2>4
    <3>2. QED
      BY <2>4, <2>2, <2>3, <3>1
  <2>5. CASE named(n) # {}
    <3>1. PICK i \in named(n) : TRUE
      BY <2>5
    <3>2. OptionValue(i) = Bool(TRUE)
      BY <2>1, <3>1 DEF OptionValue, named
    <3>3. v[n] = Bool(TRUE)
      BY <1>9, <2>1, <3>1, <3>2
    <3>4. QED
      BY <2>5, <2>2, <2>3, <3>3
  <2>6. QED
    BY <2>4, <2>5
<1>12. (IF v["--websocket"] = Empty THEN <<>> ELSE <<v["--websocket"].text>>) =
         IF given("--websocket") = {} THEN <<>>
         ELSE <<value(CHOOSE i \in given("--websocket") : TRUE)>>
  <2> DEFINE n == "--websocket"
             G == given(n)
  <2>1. n \in Documented /\ G = named(n)
    BY <1>3, DocumentedFacts
  <2>2. CASE G = {}
    BY <1>9, <2>1, <2>2
  <2>3. CASE G # {}
    <3>1. (CHOOSE i \in G : TRUE) \in named(n)
      BY <2>1, <2>3
    <3> DEFINE i == CHOOSE k \in G : TRUE
    <3>2. v[n] = OptionValue(i)
      BY <1>9, <2>1, <3>1
    <3>3. OptionValue(i) = String(ValueAt(i))
      BY <3>1 DEF OptionValue
    <3>4. ValueAt(i) = value(i)
      BY DEF ValueAt
    <3> HIDE DEF i
    <3>5. v[n] # Empty /\ v[n].text = value(i)
      BY <3>2, <3>3, <3>4 DEF String, Empty
    <3> HIDE DEF G, value
    <3>6. QED
      BY <2>3, <3>5 DEF i, G
  <2>4. QED
    BY <2>2, <2>3
<1>13. Meaning(A) =
         [camera    |-> IF \E i \in own : argv[i].text = "OpenNI" THEN "OpenNI" ELSE "VideoStream",
          crop      |-> given("--crop") # {},
          tuio      |-> given("--tuio") # {},
          websocket |-> IF given("--websocket") = {} THEN <<>>
                        ELSE <<value(CHOOSE i \in given("--websocket") : TRUE)>>]
  BY DEF Meaning, own
<1>14. v["OpenNI"].bool = (\E i \in own : argv[i].text = "OpenNI")
  BY <1>10 DEF Bool
<1>15. ReadArgs(v) =
         [camera    |-> IF v["OpenNI"].bool THEN "OpenNI" ELSE "VideoStream",
          crop      |-> v["--crop"].bool,
          tuio      |-> v["--tuio"].bool,
          websocket |-> IF v["--websocket"] = Empty THEN <<>> ELSE <<v["--websocket"].text>>]
  BY DEF ReadArgs
<1> HIDE DEF given, value
<1>16. ReadArgs(v) = Meaning(A)
  BY <1>11, <1>12, <1>13, <1>14, <1>15
<1>17. QED
  BY <1>16 DEF v
-----------------------------------------------------------------------------
(***************************************************************************)
(* The whole command line has been read                                    *)
(***************************************************************************)
\* The tokens at A are arguments, in the only way to read the command line.
Understood(A) ==
  /\ A \in SUBSET DOMAIN argv /\ Splits(A)
  /\ \A i \in DOMAIN argv \ A : Fits(i) /\ (Open(i) => i + 1 \in A)
  /\ \A i \in A : IsArgument(i)
  /\ \A V \in SUBSET DOMAIN argv : Splits(V) => V = A

LEMMA GoodEnd ==
  ASSUME argv \in Seq(Tokens), NEW r, Good(r), r.rest = <<>>
  PROVE  \E A : Understood(A) /\ \E pos : Places(r.found, pos, DOMAIN argv \ A)
<1>1. PICK d, A : Agrees(r, d, A)
  BY DEF Good
<1>2. Splitting(A, d) /\ \E pos : Places(r.found, pos, Own(A, d))
  BY <1>1 DEF Agrees
<1>3. d = Len(argv) /\ Len(argv) \in Nat /\ DOMAIN argv = 1 .. d
  <2>1. d \in Nat /\ Len(r.rest) = Len(argv) - d /\ Len(r.rest) = 0
    BY <1>1 DEF Agrees, Rest
  <2>2. QED
    BY <2>1
<1>4. Own(A, d) = DOMAIN argv \ A /\ A \in SUBSET DOMAIN argv
  BY <1>2, <1>3 DEF Own, Splitting
<1>5. Splits(A)
  <2>1. \A i \in DOMAIN argv : i \in A <=> i - 1 \in DOMAIN argv \ A /\ Open(i - 1)
    BY <1>2, <1>3, <1>4 DEF Splitting
  <2>2. QED
    BY <1>4, <2>1 DEF Splits
<1>6. \A V \in SUBSET DOMAIN argv : Splits(V) => V = A
  BY <1>2, <1>3 DEF Splitting
<1>7. Understood(A)
  BY <1>2, <1>4, <1>5, <1>6 DEF Understood, Splitting
<1>8. QED
  BY <1>2, <1>4, <1>7

\* Each such token is an option or a camera, and so is its item.
LEMMA OwnItems ==
  ASSUME argv \in Seq(Tokens), NEW A, Understood(A), NEW i \in DOMAIN argv \ A
  PROVE  \/ /\ NamesOption(i) /\ argv[i].text \notin Cameras
            /\ OptionAt(i) # "--websocket" => argv[i].val = <<>>
            /\ ItemAt(i).is = "Option" /\ ItemAt(i).name = OptionAt(i)
            /\ OptionAt(i) \in Documented /\ ItemAt(i).value = OptionValue(i)
         \/ /\ ~NamesOption(i) /\ argv[i].text \in Cameras
            /\ ItemAt(i).name = EmptyText /\ IsCommand(ItemAt(i), argv[i].text)
            /\ ~Open(i)
<1>1. argv[i] \in Tokens /\ Fits(i)
  BY DEF Understood
<1>2. CASE NamesOption(i)
  <2>1. argv[i].text \notin Cameras
    BY <1>1, <1>2, TokenFacts DEF NamesOption
  <2>2. ItemAt(i) = [is |-> "Option", name |-> OptionAt(i), value |-> OptionValue(i)]
    BY <1>2 DEF ItemAt
  <2>3. OptionAt(i) \in Documented
    BY <1>2, NamedOption
  <2>4. OptionAt(i) # "--websocket" => argv[i].val = <<>>
    BY <1>1, <2>1 DEF Fits
  <2>5. QED
    BY <1>2, <2>1, <2>2, <2>3, <2>4
<1>3. CASE ~NamesOption(i)
  <2>1. argv[i].text \in Cameras
    BY <1>1, <1>3 DEF Fits
  <2>2. ItemAt(i) = Argument(argv[i].text)
    BY <1>3 DEF ItemAt
  <2>3. QED
    BY <1>3, <2>1, <2>2 DEF Argument, IsCommand, Open
<1>4. QED
  BY <1>2, <1>3

\* What is accepted is well formed.
LEMMA AcceptedWell ==
  ASSUME argv \in Seq(Tokens), NEW A, Understood(A), reading \in ReadingSet,
         NEW pos, Places(reading.found, pos, DOMAIN argv \ A), Accepted
  PROVE  WellFormed(A)
<1> DEFINE found == reading.found
           own == DOMAIN argv \ A
           plain == MatchOptions(OptionNames, Outcome(found, <<>>))
           L == plain.left
<1>1. found \in Seq(ItemSet)
  BY ReadingFacts
<1>2. /\ MatchUsage(Outcome(found, <<>>)).left = <<>>
      /\ ~IsOptionSet(found, {"-h", "--help", "--version"})
  BY DEF Accepted, Matched, Special
<1>3. Places(found, pos, own)
  OBVIOUS
<1>4. \A i \in own :
         \/ /\ NamesOption(i) /\ argv[i].text \notin Cameras
            /\ OptionAt(i) # "--websocket" => argv[i].val = <<>>
            /\ ItemAt(i).is = "Option" /\ ItemAt(i).name = OptionAt(i)
            /\ OptionAt(i) \in Documented /\ ItemAt(i).value = OptionValue(i)
         \/ /\ ~NamesOption(i) /\ argv[i].text \in Cameras
            /\ ItemAt(i).name = EmptyText /\ IsCommand(ItemAt(i), argv[i].text)
            /\ ~Open(i)
  BY OwnItems
<1> HIDE DEF found, plain, own
<1>5. L = <<>> \/ (Len(L) = 1 /\ \E c \in Cameras : IsCommand(L[1], c))
  <2>1. MatchUsage(Outcome(found, <<>>)).left = <<>>
    BY <1>2
  <2>2. QED
    BY <1>1, <2>1, UsageMatched DEF plain
<1>6. PICK R \in SUBSET DOMAIN found :
        /\ OnePerName(found, Documented, R)
        /\ \E src \in [DOMAIN L -> DOMAIN found \ R] : OthersStay(found, L, R, src)
  BY <1>1, NameFacts, OptionsTaken DEF Taken, plain
<1>7. PICK src \in [DOMAIN L -> DOMAIN found \ R] : OthersStay(found, L, R, src)
  BY <1>6
<1>8. \A a \in DOMAIN L : a = 1 /\ L[a].is = "Argument"
  <2>1. L \in Seq(ItemSet) /\ DOMAIN L = 1 .. Len(L)
    BY <1>7 DEF OthersStay
  <2>2. L = <<>> => DOMAIN L = {}
    OBVIOUS
  <2> HIDE DEF L
  <2>3. Len(L) = 1 => DOMAIN L = {1}
    BY <2>1
  <2>4. QED
    BY <1>5, <2>2, <2>3 DEF IsCommand
<1>9. \A k \in DOMAIN found \ R : found[k].is = "Argument" /\ \A l \in DOMAIN found \ R : k = l
  <2>1. \A m \in DOMAIN found \ R : src[1] = m /\ found[m].is = "Argument"
    BY <1>7, <1>8 DEF OthersStay
  <2>2. QED
    BY <2>1
<1>10. \A i \in own : \E k \in DOMAIN found : pos[k] = i /\ found[k] = ItemAt(i)
  BY <1>3 DEF Places
<1>11. ASSUME NEW i \in own, NEW j \in own \ {i}, NamesOption(i), NamesOption(j)
       PROVE  OptionAt(j) # OptionAt(i)
  <2>1. PICK k \in DOMAIN found : pos[k] = i /\ found[k] = ItemAt(i)
    BY <1>10
  <2>2. PICK l \in DOMAIN found : pos[l] = j /\ found[l] = ItemAt(j)
    BY <1>10, <1>11
  <2>3. /\ found[k].is = "Option" /\ found[l].is = "Option" /\ k # l
        /\ found[k].name = OptionAt(i) /\ found[l].name = OptionAt(j)
    BY <1>4, <1>11, <2>1, <2>2
  <2>4. k \in R /\ l \in R
    BY <1>9, <2>3
  <2>5. QED
    BY <1>6, <2>3, <2>4 DEF OnePerName
<1>12. ASSUME NEW i \in own, NEW j \in own \ {i}, argv[i].text \in Cameras
       PROVE  argv[j].text \notin Cameras
  <2> SUFFICES ASSUME argv[j].text \in Cameras PROVE FALSE
    OBVIOUS
  <2>1. PICK k \in DOMAIN found : pos[k] = i /\ found[k] = ItemAt(i)
    BY <1>10
  <2>2. PICK l \in DOMAIN found : pos[l] = j /\ found[l] = ItemAt(j)
    BY <1>10, <1>12
  <2>3. found[k].name = EmptyText /\ found[l].name = EmptyText /\ k # l
    BY <1>4, <1>12, <2>1, <2>2
  <2>4. k \notin R /\ l \notin R
    BY <1>6, <2>3, DocumentedFacts DEF OnePerName
  <2>5. QED
    BY <1>9, <2>3, <2>4
<1>13. ASSUME NEW i \in own, NamesOption(i) PROVE OptionAt(i) \notin {"--help", "--version"}
  <2> SUFFICES ASSUME OptionAt(i) \in {"--help", "--version"} PROVE FALSE
    OBVIOUS
  <2>1. PICK k \in DOMAIN found : pos[k] = i /\ found[k] = ItemAt(i)
    BY <1>10
  <2>2. OptionValue(i) = Bool(TRUE)
    BY DEF OptionValue
  <2>3. found[k].name \in {"-h", "--help", "--version"} /\ found[k].value = Bool(TRUE)
    BY <1>4, <1>13, <2>1, <2>2
  <2>4. Bool(TRUE).is # "Empty"
    BY DEF Bool
  <2>5. QED
    BY <1>2, <2>3, <2>4 DEF IsOptionSet
<1>14. A = {i \in DOMAIN argv : i - 1 \in own /\ Open(i - 1)}
  BY DEF Understood, Splits, own
<1>15. \A i \in A : argv[i].text # EmptyText /\ argv[i].kind # "dashes"
  BY DEF Understood, IsArgument
<1>16. \A i \in own : Open(i) => i + 1 \in A
  BY DEF Understood, own
<1>17. \A i \in own :
           \/ /\ NamesOption(i) /\ OptionAt(i) \notin {"--help", "--version"}
              /\ OptionAt(i) # "--websocket" => argv[i].val = <<>>
              /\ Open(i) => i + 1 \in A
              /\ \A j \in own \ {i} : NamesOption(j) => OptionAt(j) # OptionAt(i)
           \/ /\ argv[i].text \in Cameras
              /\ \A j \in own \ {i} : argv[j].text \notin Cameras
  BY <1>4, <1>11, <1>12, <1>13, <1>16
<1>18. QED
  BY <1>14, <1>15, <1>17 DEF WellFormed, own

\* What is well formed is accepted, and what is collected is what it says.
LEMMA WellAccepted ==
  ASSUME argv \in Seq(Tokens), NEW A, Understood(A), reading \in ReadingSet,
         NEW pos, Places(reading.found, pos, DOMAIN argv \ A), WellFormed(A)
  PROVE  Accepted /\ Says(Matched.collected, A)
<1> DEFINE found == reading.found
           own == DOMAIN argv \ A
           o == Outcome(found, <<>>)
           plain == MatchOptions(OptionNames, o)
           all == MatchUsage(o)
           L == plain.left
           C == plain.collected
<1>1. found \in Seq(ItemSet)
  BY ReadingFacts
<1>2. Places(found, pos, own)
  OBVIOUS
<1>3. \A i \in own :
         \/ /\ NamesOption(i) /\ argv[i].text \notin Cameras
            /\ OptionAt(i) # "--websocket" => argv[i].val = <<>>
            /\ ItemAt(i).is = "Option" /\ ItemAt(i).name = OptionAt(i)
            /\ OptionAt(i) \in Documented /\ ItemAt(i).value = OptionValue(i)
         \/ /\ ~NamesOption(i) /\ argv[i].text \in Cameras
            /\ ItemAt(i).name = EmptyText /\ IsCommand(ItemAt(i), argv[i].text)
            /\ ~Open(i)
  BY OwnItems
<1>4. \A i \in own : NamesOption(i) =>
         /\ OptionAt(i) \notin {"--help", "--version"}
         /\ \A j \in own \ {i} : NamesOption(j) => OptionAt(j) # OptionAt(i)
  BY <1>3 DEF WellFormed, own
<1>5. \A i \in own : argv[i].text \in Cameras =>
         \A j \in own \ {i} : argv[j].text \notin Cameras
  BY <1>3 DEF WellFormed, own
<1> HIDE DEF found, plain, own, all, o
<1>6. \A k \in DOMAIN found : pos[k] \in own /\ found[k] = ItemAt(pos[k])
  BY <1>2 DEF Places
<1>7. Taken(found, Documented, plain)
  BY <1>1, NameFacts, OptionsTaken DEF plain, o
<1>8. PICK R \in SUBSET DOMAIN found :
        /\ OnePerName(found, Documented, R)
        /\ \E src \in [DOMAIN L -> DOMAIN found \ R] : OthersStay(found, L, R, src)
        /\ CollectedAre(found, C, R)
  BY <1>7 DEF Taken
<1>9. PICK src \in [DOMAIN L -> DOMAIN found \ R] : OthersStay(found, L, R, src)
  BY <1>8
<1>10. EmptyText \notin Documented /\ "-h" \notin Documented
  BY DocumentedFacts
<1>11. ASSUME NEW k \in DOMAIN found
       PROVE  k \in R <=> NamesOption(pos[k])
  <2>1. ASSUME NamesOption(pos[k]) PROVE k \in R
    <3>1. found[k].name = OptionAt(pos[k]) /\ OptionAt(pos[k]) \in Documented
      BY <1>3, <1>6, <2>1
    <3>2. PICK l \in R : found[l].name = found[k].name
      BY <1>8, <3>1 DEF OnePerName
    <3>3. l \in DOMAIN found /\ NamesOption(pos[l]) /\ OptionAt(pos[l]) = OptionAt(pos[k])
      BY <1>3, <1>6, <1>10, <3>1, <3>2
    <3>4. pos[l] = pos[k]
      BY <1>4, <1>6, <2>1, <3>3
    <3>5. l = k
      BY <1>2, <3>3, <3>4 DEF Places
    <3>6. QED
      BY <3>2, <3>5
  <2>2. ASSUME k \in R PROVE NamesOption(pos[k])
    BY <1>3, <1>6, <1>8, <1>10, <2>2 DEF OnePerName
  <2>3. QED
    BY <2>1, <2>2
<1>12. ASSUME NEW a \in DOMAIN L
       PROVE  /\ src[a] \in DOMAIN found /\ L[a] = ItemAt(pos[src[a]])
              /\ pos[src[a]] \in own /\ argv[pos[src[a]]].text \in Cameras
              /\ IsCommand(L[a], argv[pos[src[a]]].text)
  <2>1. src[a] \in DOMAIN found /\ src[a] \notin R /\ L[a] = found[src[a]]
    BY <1>9 DEF OthersStay
  <2>2. ~NamesOption(pos[src[a]]) /\ pos[src[a]] \in own /\ L[a] = ItemAt(pos[src[a]])
    BY <1>6, <1>11, <2>1
  <2>3. QED
    BY <1>3, <2>1, <2>2
<1>13. \A a, b \in DOMAIN L : a = b
  <2> SUFFICES ASSUME NEW a \in DOMAIN L, NEW b \in DOMAIN L PROVE a = b
    OBVIOUS
  <2>1. pos[src[a]] = pos[src[b]]
    BY <1>5, <1>12
  <2>2. src[a] = src[b]
    BY <1>2, <1>12, <2>1 DEF Places
  <2>3. QED
    BY <1>9, <2>2 DEF OthersStay
<1>14. L = <<>> \/ Len(L) = 1
  <2>1. L \in Seq(ItemSet) /\ Len(L) \in Nat /\ DOMAIN L = 1 .. Len(L)
    BY <1>9 DEF OthersStay
  <2> HIDE DEF L
  <2>2. ~(Len(L) > 1)
    <3>1. Len(L) > 1 => 1 \in DOMAIN L /\ 2 \in DOMAIN L
      BY <2>1
    <3>2. QED
      BY <1>13, <3>1
  <2>3. QED
    BY <2>1, <2>2
<1>15. /\ all.matched
       /\ L = <<>> => all.left = <<>> /\ all.collected = C
       /\ \A c \in Cameras : Len(L) = 1 /\ IsCommand(L[1], c) =>
            all.left = <<>> /\ all.collected = Append(C, Given(c))
  BY <1>1, UsageMatched DEF all, plain, o
<1>16. ~IsOptionSet(found, {"-h", "--help", "--version"})
  <2> SUFFICES ASSUME NEW k \in DOMAIN found, found[k].name \in {"-h", "--help", "--version"}
               PROVE  FALSE
    BY DEF IsOptionSet
  <2>1. found[k].name # EmptyText
    <3>1. "-h" # EmptyText /\ "--help" # EmptyText /\ "--version" # EmptyText
      BY Zenon DEF EmptyText
    <3>2. QED
      BY <3>1
  <2>2. NamesOption(pos[k]) /\ found[k].name = OptionAt(pos[k]) /\ OptionAt(pos[k]) \in Documented
    BY <1>3, <1>6, <2>1
  <2>3. QED
    BY <1>4, <1>6, <1>10, <2>2
<1>17. \A e \in DOMAIN C : \E i \in own :
          NamesOption(i) /\ C[e].name = OptionAt(i) /\ C[e].value = OptionValue(i)
  <2> SUFFICES ASSUME NEW e \in DOMAIN C
               PROVE  \E i \in own :
                        NamesOption(i) /\ C[e].name = OptionAt(i) /\ C[e].value = OptionValue(i)
    OBVIOUS
  <2>1. PICK r \in R : C[e].name = found[r].name /\ C[e].value = found[r].value
    BY <1>8 DEF CollectedAre
  <2>2. QED
    BY <1>3, <1>6, <1>11, <2>1
<1>18. ASSUME NEW i \in own, NamesOption(i) PROVE \E e \in DOMAIN C : C[e].name = OptionAt(i)
  <2>1. PICK k \in DOMAIN found : pos[k] = i
    BY <1>2 DEF Places
  <2>2. k \in R /\ found[k].name = OptionAt(i)
    BY <1>3, <1>6, <1>11, <1>18, <2>1
  <2>3. QED
    BY <1>8, <2>2 DEF CollectedAre
<1>19. C \in Seq(PairSet) /\ \A e, f \in DOMAIN C : C[e].name = C[f].name => e = f
  BY <1>8 DEF CollectedAre
<1>20. ASSUME NEW i \in own, argv[i].text \in Cameras
       PROVE  \E a \in DOMAIN L : L[a] = ItemAt(i) /\ pos[src[a]] = i
  <2>1. PICK k \in DOMAIN found : pos[k] = i
    BY <1>2 DEF Places
  <2>2. k \notin R
    BY <1>3, <1>11, <1>20, <2>1
  <2>3. PICK a \in DOMAIN L : src[a] = k
    BY <1>9, <2>2 DEF OthersStay
  <2>4. QED
    BY <1>12, <2>1, <2>3
<1>21. CASE L = <<>>
  <2>1. all.left = <<>> /\ all.collected = C /\ all.matched
    BY <1>15, <1>21
  <2>2. \A i \in own : argv[i].text \notin Cameras
    <3>1. DOMAIN L = {}
      BY <1>21
    <3>2. QED
      BY <1>20, <3>1
  <2>3. Says(C, A)
    BY <1>17, <1>18, <1>19, <2>2 DEF Says, own
  <2>4. QED
    BY <1>16, <2>1, <2>3 DEF Accepted, Matched, Special, all, o, found
<1>22. CASE Len(L) = 1
  <2>1. 1 \in DOMAIN L /\ DOMAIN L = {1}
    <3>1. L \in Seq(ItemSet)
      BY <1>9 DEF OthersStay
    <3> HIDE DEF L
    <3>2. QED
      BY <1>22, <3>1
  <2> DEFINE i == pos[src[1]]
             c == argv[i].text
             E == Append(C, Given(c))
             n == Len(C)
  <2>2. i \in own /\ c \in Cameras /\ IsCommand(L[1], c) /\ ~NamesOption(i)
    BY <1>3, <1>12, <2>1
  <2>3. all.left = <<>> /\ all.collected = E /\ all.matched
    BY <1>15, <1>22, <2>2
  <2>4. Given(c) \in PairSet /\ Given(c).name = c /\ Given(c).value = Bool(TRUE)
    BY <2>2, ValueFacts DEF Given, PairSet, NameSet
  <2>5. /\ E \in Seq(PairSet) /\ DOMAIN E = 1 .. n + 1 /\ DOMAIN C = 1 .. n /\ n \in Nat
        /\ E[n + 1] = Given(c) /\ \A e \in 1 .. n : E[e] = C[e]
    BY <1>19, <2>4
  <2> HIDE DEF E, n, i, C
  <2>6. /\ \A e \in DOMAIN E : e \in DOMAIN C \/ e = n + 1
        /\ \A e \in DOMAIN C : e \in DOMAIN E /\ E[e] = C[e]
        /\ n + 1 \in DOMAIN E
    BY <2>5
  <2>7. \A e \in DOMAIN C : C[e].name # c
    <3>1. c \notin Documented
      BY <2>2, DocumentedFacts
    <3> HIDE DEF c
    <3>2. QED
      BY <1>3, <1>17, <3>1
  <2>8. \A e, f \in DOMAIN E : E[e].name = E[f].name => e = f
    BY <1>19, <2>4, <2>5, <2>6, <2>7
  <2>9. ASSUME NEW e \in DOMAIN E
        PROVE  \E j \in own :
                 \/ NamesOption(j) /\ E[e].name = OptionAt(j) /\ E[e].value = OptionValue(j)
                 \/ argv[j].text \in Cameras /\ E[e].name = argv[j].text /\ E[e].value = Bool(TRUE)
    <3>1. CASE e \in DOMAIN C
      BY <1>17, <2>6, <3>1
    <3>2. CASE e = n + 1
      BY <2>2, <2>4, <2>5, <3>2
    <3>3. QED
      BY <2>6, <3>1, <3>2
  <2>10. \A j \in own : NamesOption(j) => \E e \in DOMAIN E : E[e].name = OptionAt(j)
    BY <1>18, <2>6
  <2>11. \A j \in own : argv[j].text \in Cameras => \E e \in DOMAIN E : E[e].name = argv[j].text
    <3>1. \A j \in own : argv[j].text \in Cameras => j = i
      BY <1>5, <2>2
    <3>2. QED
      BY <2>4, <2>5, <2>6, <3>1
  <2>12. Says(E, A)
    BY <2>5, <2>8, <2>9, <2>10, <2>11 DEF Says, own
  <2>13. QED
    BY <1>16, <2>3, <2>12 DEF Accepted, Matched, Special, all, o, found
<1>23. QED
  BY <1>14, <1>21, <1>22
-----------------------------------------------------------------------------
(***************************************************************************)
(* docopt, as long as it reads: the reading agrees with the command line   *)
(* so far, or both are rejected.                                           *)
(***************************************************************************)
PInv == pc = "parse" => argv \in Seq(Tokens) /\ (Good(reading) \/ Rejected(reading))

LEMMA InitPInv == SpritsInit => PInv
<1> SUFFICES ASSUME SpritsInit PROVE argv \in Seq(Tokens) /\ Good(reading)
  BY DEF PInv
<1>1. argv \in Seq(Tokens)
  <2>1. PICK n \in 0 .. MaxTokens : argv \in [1 .. n -> Tokens]
    BY DEF SpritsInit, BoundedSeq, SeqOf
  <2>2. n \in Nat
    BY MaxTokensAssumption
  <2>3. QED
    BY <2>1, <2>2
<1>2. reading = [rest |-> argv, letters |-> <<>>, options |-> Options, found |-> <<>>,
                 failed |-> FALSE]
  BY DEF SpritsInit, Reading
<1>3. reading \in ReadingSet
  BY <1>1, <1>2, OptionFacts DEF ReadingSet
<1>4. Rest(reading.rest, 0)
  BY <1>1, <1>2 DEF Rest
<1>5. 1 .. 0 = {} /\ Own({}, 0) = {}
  BY DEF Own
<1>6. Splitting({}, 0)
  BY <1>5 DEF Splitting
<1>7. Places(reading.found, <<>>, {})
  BY <1>2 DEF Places
<1>8. Agrees(reading, 0, {})
  BY <1>4, <1>5, <1>6, <1>7 DEF Agrees
<1>9. QED
  BY <1>1, <1>2, <1>3, <1>8 DEF Good

\* What has been said of a command line stays true while it is the same.
LEMMA SameLine ==
  ASSUME argv' = argv, NEW r
  PROVE  Good(r)' = Good(r) /\ Rejected(r)' = Rejected(r)
<1>1. /\ \A i : NamesOption(i)' = NamesOption(i) /\ OptionAt(i)' = OptionAt(i)
      /\ \A i : IsArgument(i)' = IsArgument(i) /\ ValueAt(i)' = ValueAt(i)
  BY DEF NamesOption, OptionAt, IsArgument, ValueAt
<1>2. \A i : Open(i)' = Open(i) /\ Fits(i)' = Fits(i) /\ OptionValue(i)' = OptionValue(i)
  BY <1>1 DEF Open, Fits, OptionValue
<1>3. \A i : ItemAt(i)' = ItemAt(i)
  BY <1>1, <1>2 DEF ItemAt
<1>4. \A V : Splits(V)' = Splits(V) /\ WellFormed(V)' = WellFormed(V)
  BY <1>1, <1>2 DEF Splits, WellFormed
<1>5. \A A, d : Splitting(A, d)' = Splitting(A, d)
  BY <1>1, <1>2, <1>4 DEF Splitting
<1>6. \A found, pos, O : Places(found, pos, O)' = Places(found, pos, O)
  BY <1>3 DEF Places
<1>7. \A rest, d : Rest(rest, d)' = Rest(rest, d)
  BY DEF Rest
<1>8. \A d, A : Agrees(r, d, A)' = Agrees(r, d, A)
  BY <1>5, <1>6, <1>7 DEF Agrees
<1>9. Good(r)' = Good(r)
  BY <1>8 DEF Good
<1>10. Rejected(r)' = Rejected(r)
  BY <1>4 DEF Rejected
<1>11. QED
  BY <1>9, <1>10
\* main never goes back to docopt.
LEMMA NeverBack == Next => pc' = pc \/ pc' \notin {"parse", "usage"}
<1> SUFFICES ASSUME Next PROVE pc' = pc \/ pc' \notin {"parse", "usage"}
  OBVIOUS
<1>1. CASE Build
  BY <1>1 DEF Build, CameraFails, OpenVideoStream, StartColor, StartDepth, BeginSubscribe,
     Subscribe, SubscribePublisher, RunBody, Complete, PortIsNoNumber, ListenFails, EnterLoop,
     mainVars
<1>2. CASE Loop \/ TakeDown
  BY <1>2 DEF Loop, LeaveLoop, Update, UpdateThrows, ShowWindow, TakeDown, Destroy, Unwound,
     RemoveColorListener, RemoveDepthListener, CloseCamera, DropLoggers, Exit
<1>3. CASE Interrupt \/ NewFrame \/ NotifySpace \/ EndDepthFrame
  BY <1>3 DEF Interrupt, NewFrame, ColorFrame, BeginDepthFrame, NotifySpace, EndDepthFrame, Calls,
     mainVars
<1>4. CASE Delivery
  BY <1>4 DEF Delivery, BeginCalls, CallObserver, CallPublisher, PublisherReturns, ObserverReturns,
     EndFrame, PublisherThrows, Calls, mainVars
<1>5. QED
  BY <1>1, <1>2, <1>3, <1>4 DEF Next, Main

LEMMA NextPInv == PInv /\ [SpritsNext]_<<vars, parser>> => PInv'
<1> SUFFICES ASSUME PInv, [SpritsNext]_<<vars, parser>>, pc' = "parse"
             PROVE  argv' \in Seq(Tokens) /\ (Good(reading)' \/ Rejected(reading)')
  BY DEF PInv
<1>1. CASE ReadToken
  <2>1. /\ Parsing /\ ~reading.failed /\ ~(reading.rest = <<>> /\ reading.letters = <<>>)
        /\ reading' = ParseNext(reading) /\ argv' = argv
    BY <1>1 DEF ReadToken, AllRead
  <2>2. argv \in Seq(Tokens) /\ (Good(reading) \/ Rejected(reading))
    BY <2>1 DEF PInv, Parsing
  <2> DEFINE next == ParseNext(reading)
  <2>3. Good(next) \/ Rejected(next)
    <3>1. CASE Good(reading)
      <4>1. reading.rest # <<>>
        BY <2>1, <3>1 DEF Good
      <4>2. QED
        BY <2>2, <3>1, <4>1, GoodStep
    <3>2. CASE Rejected(reading)
      BY <2>1, <3>2, BadStays DEF Rejected
    <3>3. QED
      BY <2>2, <3>1, <3>2
  <2> HIDE DEF next
  <2>4. Good(reading)' \/ Rejected(reading)'
    BY <2>1, <2>3, SameLine DEF next
  <2>5. QED
    BY <2>1, <2>2, <2>4
<1>2. CASE PrintUsage \/ TakeArguments
  BY <1>2 DEF PrintUsage, TakeArguments
<1>3. CASE Next /\ UNCHANGED parser
  <2>1. pc = "parse" /\ argv' = argv /\ reading' = reading
    BY <1>3, NeverBack DEF parser
  <2>2. QED
    BY <2>1, SameLine DEF PInv
<1>4. CASE UNCHANGED <<vars, parser>>
  <2>1. pc = "parse" /\ argv' = argv /\ reading' = reading
    BY <1>4 DEF parser, vars, mainVars
  <2>2. QED
    BY <2>1, SameLine DEF PInv
<1>5. QED
  BY <1>1, <1>2, <1>3, <1>4 DEF SpritsNext

\* At the end of a reading.
LEMMA EndAgrees ==
  ASSUME PInv, Read
  PROVE  /\ (~reading.failed /\ Accepted) <=> (\E V \in SUBSET DOMAIN argv : WellFormed(V))
         /\ \A V \in SUBSET DOMAIN argv :
              WellFormed(V) => ReadArgs(Values(Matched.collected)) = Meaning(V)
<1>1. argv \in Seq(Tokens) /\ (Good(reading) \/ Rejected(reading))
  BY DEF PInv, Read, Parsing
<1>2. reading.failed \/ AllRead
  BY DEF Read
<1>3. CASE Rejected(reading)
  BY <1>2, <1>3, BadRejected DEF Rejected
<1>4. CASE Good(reading)
  <2>1. reading \in ReadingSet /\ ~reading.failed /\ reading.rest = <<>>
    BY <1>2, <1>4 DEF Good, AllRead
  <2>2. PICK A : Understood(A) /\ \E pos : Places(reading.found, pos, DOMAIN argv \ A)
    BY <1>1, <1>4, <2>1, GoodEnd
  <2>3. PICK pos : Places(reading.found, pos, DOMAIN argv \ A)
    BY <2>2
  <2>4. Accepted => WellFormed(A)
    BY <1>1, <2>1, <2>2, <2>3, AcceptedWell
  <2>5. WellFormed(A) => Accepted /\ Says(Matched.collected, A)
    BY <1>1, <2>1, <2>2, <2>3, WellAccepted
  <2>6. A \in SUBSET DOMAIN argv /\ \A V \in SUBSET DOMAIN argv : Splits(V) => V = A
    BY <2>2 DEF Understood
  <2>7. \A V \in SUBSET DOMAIN argv : WellFormed(V) => V = A
    BY <2>6 DEF WellFormed, Splits
  <2>8. WellFormed(A) => ReadArgs(Values(Matched.collected)) = Meaning(A)
    BY <1>1, <2>5, <2>6, SaysMeaning
  <2>9. QED
    BY <2>1, <2>4, <2>5, <2>6, <2>7, <2>8
<1>5. QED
  BY <1>1, <1>3, <1>4

LEMMA PInvAgrees == PInv => ParserAgrees
BY EndAgrees DEF ParserAgrees

\* docopt takes a command line if and only if the usage text describes it, and
\* what main gets is what the line says: whatever the tokens, their number and
\* the abbreviations among them.
THEOREM DocoptAgreesWithUsage == SpritsSpec => []ParserAgrees
<1>1. SpritsSpec => []PInv
  BY InitPInv, NextPInv, PTL DEF SpritsSpec
<1>2. QED
  BY <1>1, PInvAgrees, PTL
-----------------------------------------------------------------------------
(***************************************************************************)
(* The program: nothing is built while docopt reads, and then main starts  *)
(* as Lifecycle has it, with options that the command line gives.          *)
(***************************************************************************)
WInv ==
  /\ PInv /\ IInv
  /\ pc \in {"parse", "usage"} => NothingBuilt

\* What a well-formed line says is something that main can be told.
LEMMA MeaningIsArguments ==
  ASSUME argv \in Seq(Tokens), NEW V \in SUBSET DOMAIN argv, WellFormed(V)
  PROVE  Meaning(V) \in Arguments
<1> DEFINE own == DOMAIN argv \ V
           given(n) == {i \in own : argv[i].kind = "long" /\ n \in Means(argv[i].names[1])}
           value(i) == IF argv[i].val = <<>> THEN argv[i + 1].text ELSE argv[i].val[1]
           last == CHOOSE i \in given("--websocket") : TRUE
           camera == IF \E i \in own : argv[i].text = "OpenNI" THEN "OpenNI" ELSE "VideoStream"
           websocket == IF given("--websocket") = {} THEN <<>> ELSE <<value(last)>>
<1>1. ASSUME NEW i \in given("--websocket")
      PROVE  value(i) \in Texts
  <2>1. argv[i] \in Tokens /\ i \in own /\ argv[i].kind = "long"
    BY <1>1
  <2>2. NamesOption(i)
    BY <2>1, TokenFacts DEF WellFormed
  <2>3. OptionAt(i) = "--websocket"
    <3>1. Means(argv[i].names[1]) = {OptionAt(i)}
      BY <2>2, NamedMeans
    <3>2. QED
      BY <1>1, <3>1
  <2>4. CASE argv[i].val = <<>>
    <3>1. i + 1 \in DOMAIN argv
      <4>1. Open(i)
        BY <2>2, <2>3, <2>4 DEF Open
      <4>2. argv[i].text \notin Cameras
        BY <2>1, TokenFacts
      <4>3. QED
        BY <2>1, <4>1, <4>2 DEF WellFormed
    <3>2. argv[i + 1] \in Tokens
      BY <3>1
    <3>3. QED
      BY <2>4, <3>2, TokenFacts
  <2>5. CASE argv[i].val # <<>>
    <3>1. argv[i].val \in TextArgument
      BY <2>1, TokenFacts
    <3>2. QED
      BY <2>5, <3>1 DEF TextArgument
  <2>6. QED
    BY <2>4, <2>5
<1>2. given("--websocket") # {} => value(last) \in Texts
  BY <1>1
<1>3. Meaning(V) = [camera |-> camera, crop |-> given("--crop") # {}, tuio |-> given("--tuio") # {},
                    websocket |-> websocket]
  BY DEF Meaning
<1>4. camera \in Cameras
  BY DEF Cameras
<1> HIDE DEF given, value, last, camera
<1>5. websocket \in {<<>>} \cup {<<t>> : t \in Texts}
  BY <1>2
<1> HIDE DEF websocket
<1>6. QED
  BY <1>3, <1>4, <1>5 DEF Arguments

LEMMA NothingBuiltThen ==
  (pc \in {"parse", "usage", "camera"} /\ args \in Arguments /\ NothingBuilt)' => IInv'
BY NothingBuiltIInv, PTL

LEMMA InitWInv == SpritsInit => WInv
<1> SUFFICES ASSUME SpritsInit PROVE WInv
  OBVIOUS
<1>1. pc = "parse" /\ args = NoArgs /\ NothingBuilt
  BY DEF SpritsInit
<1>2. NoArgs \in Arguments
  BY DEF NoArgs, Arguments, Cameras
<1>3. QED
  BY <1>1, <1>2, InitPInv, NothingBuiltIInv DEF WInv

\* Nothing moves but docopt.
LEMMA Quiet == NothingBuilt /\ pc \in {"parse", "usage"} => ~Next
<1> SUFFICES ASSUME NothingBuilt, pc \in {"parse", "usage"} PROVE ~Next
  OBVIOUS
<1>1. /\ frame.at = "idle" /\ frame.in = {} /\ streams = {} /\ access["depth"] = "none"
  BY DEF NothingBuilt, NoFrame, Threads
<1>2. ~Build
  BY DEF Build, CameraFails, OpenVideoStream, StartColor, StartDepth, BeginSubscribe, Subscribe,
     SubscribePublisher, RunBody, Complete, PortIsNoNumber, ListenFails, EnterLoop, At
<1>3. ~Loop /\ ~TakeDown
  BY DEF Loop, LeaveLoop, Update, UpdateThrows, ShowWindow, TakeDown, Destroy, Unwound,
     RemoveColorListener, RemoveDepthListener, CloseCamera, DropLoggers, Exit, At
<1>4. ~Interrupt /\ ~NewFrame /\ ~NotifySpace /\ ~EndDepthFrame
  BY <1>1 DEF Interrupt, NewFrame, ColorFrame, BeginDepthFrame, NotifySpace, EndDepthFrame
<1>5. ~Delivery
  BY <1>1 DEF Delivery, BeginCalls, CallObserver, CallPublisher, PublisherReturns, ObserverReturns,
     EndFrame, PublisherThrows
<1>6. QED
  BY <1>2, <1>3, <1>4, <1>5 DEF Next, Main

\* Where docopt ends, main begins.
LEMMA TakesInit == WInv /\ TakeArguments => Init'
<1> SUFFICES ASSUME WInv, TakeArguments PROVE Init'
  OBVIOUS
<1>1. /\ Read /\ ~reading.failed /\ Accepted /\ PInv /\ pc = "parse" /\ NothingBuilt
      /\ pc' = "camera" /\ args' = ReadArgs(Values(Matched.collected))
  BY DEF TakeArguments, WInv, Read, Parsing
<1>2. PICK V \in SUBSET DOMAIN argv : WellFormed(V) /\ args' = Meaning(V)
  BY <1>1, EndAgrees
<1>3. args' \in Arguments
  BY <1>1, <1>2, MeaningIsArguments DEF PInv
<1>4. NothingBuilt'
  BY <1>1 DEF NothingBuilt, TakeArguments, objectVars, tableVars
<1>5. QED
  BY <1>1, <1>3, <1>4 DEF Init, Arguments

LEMMA NextWInv == WInv /\ [SpritsNext]_<<vars, parser>> => WInv'
<1> SUFFICES ASSUME WInv, [SpritsNext]_<<vars, parser>> PROVE WInv'
  OBVIOUS
<1>1. PInv'
  BY NextPInv DEF WInv
<1>2. IInv /\ (pc \in {"parse", "usage"} => NothingBuilt)
  BY DEF WInv
<1>3. CASE UNCHANGED vars
  <2>1. IInv'
    BY <1>2, <1>3, NextIInv
  <2>2. pc' \in {"parse", "usage"} => NothingBuilt'
    BY <1>2, <1>3 DEF NothingBuilt, vars, mainVars, objectVars, tableVars
  <2>3. QED
    BY <1>1, <2>1, <2>2 DEF WInv
<1>4. CASE PrintUsage
  <2>1. pc' = "usage" /\ args' = args /\ NothingBuilt
    BY <1>2, <1>4 DEF PrintUsage, Read, Parsing
  <2>2. NothingBuilt'
    BY <1>4, <2>1 DEF NothingBuilt, PrintUsage, objectVars, tableVars
  <2>3. IInv'
    <3>1. args' \in Arguments
      BY <1>2, <2>1 DEF IInv, TypeOK, Arguments
    <3>2. QED
      BY <2>1, <2>2, <3>1, NothingBuiltThen
  <2>4. QED
    BY <1>1, <2>1, <2>2, <2>3 DEF WInv
<1>5. CASE TakeArguments
  <2>1. Init'
    BY <1>5, TakesInit
  <2>2. IInv' /\ pc' = "camera"
    BY <2>1, NothingBuiltThen DEF Init
  <2>3. QED
    BY <1>1, <2>2 DEF WInv
<1>6. CASE Next /\ UNCHANGED parser
  <2>1. IInv'
    BY <1>2, <1>6, NextIInv
  <2>2. pc' \notin {"parse", "usage"}
    BY <1>2, <1>6, Quiet, NeverBack
  <2>3. QED
    BY <1>1, <2>1, <2>2 DEF WInv
<1>7. QED
  BY <1>3, <1>4, <1>5, <1>6 DEF SpritsNext, ReadToken

LEMMA ProgramInv == SpritsSpec => []WInv
BY InitWInv, NextWInv, PTL DEF SpritsSpec

\* The variables of the program keep their types, with a port of 16 bits.
THEOREM ProgramTypeCorrect == SpritsSpec => []TypeOK
<1>1. WInv => TypeOK
  BY DEF WInv, IInv
<1>2. QED
  BY <1>1, ProgramInv, PTL

\* From the command line on, no frame meets an object that is not whole where
\* main delivers it, crops or loops.
THEOREM ProgramCallsWholeObjects == SpritsSpec => []CallsMeetWholeObjects
<1>1. WInv => CallsMeetWholeObjects
  BY InvCallsWhole DEF WInv
<1>2. QED
  BY <1>1, ProgramInv, PTL

\* From the command line on, no insertion into the table of signals meets another
\* thread there where frames come on main or are held back.
THEOREM ProgramTableIsSafe == SpritsSpec => []TableIsSafe
<1>1. WInv => TableIsSafe
  BY InvTableSafe DEF WInv
<1>2. QED
  BY <1>1, ProgramInv, PTL

\* Whatever the command line, nothing is left to use the loggers that main drops.
THEOREM ProgramLeavesNothing == SpritsSpec => []NothingRunsAfterClose
<1>1. WInv => NothingRunsAfterClose
  BY InvNothingRuns DEF WInv
<1>2. QED
  BY <1>1, ProgramInv, PTL

\* What main does: nothing while docopt reads, then it prints or begins as
\* Lifecycle begins, and from there on it takes Lifecycle's steps.
StepOfMain ==
  \/ UNCHANGED vars
  \/ /\ pc = "parse" /\ pc' = "usage"
     /\ UNCHANGED <<args, error, todo, port, objectVars, tableVars, cropping, streams, frame, stop,
                    logger>>
  \/ pc = "parse" /\ Init'
  \/ pc \notin {"parse", "usage"} /\ Next

\* Every step of docopt leaves Lifecycle's variables alone but the one that takes
\* the options, which leads to one of Lifecycle's initial states.
THEOREM ProgramRunsLifecycle == SpritsSpec => [][StepOfMain]_<<vars, parser>>
<1>1. WInv /\ [SpritsNext]_<<vars, parser>> => [StepOfMain]_<<vars, parser>>
  <2> SUFFICES ASSUME WInv, SpritsNext PROVE StepOfMain
    OBVIOUS
  <2>1. CASE ReadToken
    BY <2>1 DEF ReadToken, StepOfMain
  <2>2. CASE PrintUsage
    BY <2>2 DEF PrintUsage, Read, Parsing, StepOfMain
  <2>3. CASE TakeArguments
    BY <2>3, TakesInit DEF TakeArguments, Read, Parsing, StepOfMain
  <2>4. CASE Next /\ UNCHANGED parser
    BY <2>4, Quiet DEF WInv, StepOfMain
  <2>5. QED
    BY <2>1, <2>2, <2>3, <2>4 DEF SpritsNext
<1>2. QED
  BY <1>1, ProgramInv, PTL DEF SpritsSpec
=============================================================================
