--------------------------- MODULE TuioWireProofs ---------------------------
(***************************************************************************)
(* Proofs about TuioWire, for every set of tags and poses, every number of *)
(* frames and of starts of the server, and every window and delay of which *)
(* the second is no larger than the first.                                 *)
(***************************************************************************)
EXTENDS MCTuioWire, TLAPS

(***************************************************************************)
(* The bundles of the present server.  Their frame numbers grow, except    *)
(* for the -1 of the first one and of a last one; a session id that two of *)
(* them list is listed by all between; and the last message about a listed *)
(* object tells its present pose.                                          *)
(***************************************************************************)
InRun == FirstOfRun .. Len(sent)

BeginsAt(f) ==
  /\ f \in 1 .. Len(sent)
  /\ sent[f] = EmptyBundle(run)
  /\ \A n \in 1 .. Len(sent) : /\ n < f => sent[n].run < run
                               /\ n >= f => sent[n].run = run

Numbered ==
  \A n \in InRun :
    /\ sent[n].fseq <= currentFrame
    /\ sent[n].fseq = -1 => n = FirstOfRun \/ (n = Len(sent) /\ ~up)
    /\ \A m \in InRun : m < n /\ sent[n].fseq # -1 => sent[m].fseq < sent[n].fseq

Sessions ==
  \A n \in InRun :
    /\ \A s \in sent[n].alive : s <= sessionID
    /\ Sids(sent[n].set) \subseteq sent[n].alive
    /\ \A a, b \in sent[n].set : a = b

Lasting ==
  \A k, m, n \in InRun :
    k <= m /\ m <= n => sent[k].alive \cap sent[n].alive \subseteq sent[m].alive

OneSymbol ==
  \A m, n \in InRun : \A a \in sent[m].set, b \in sent[n].set :
    a.sid = b.sid => a.symbol = b.symbol

LastWord(o, l) ==
  sent[l].set = {o} /\ \A n \in InRun : n > l => o.sid \notin Sids(sent[n].set)

Distinct(list) == \A o, p \in list : o.sid = p.sid \/ o.symbol = p.symbol => o = p

Listed ==
  up =>
    /\ sent[Len(sent)].alive = Sids(objectList)
    /\ Distinct(objectList)
    /\ \A o \in objectList : heard[o.symbol] \in {"ADD", "UPDATE"}
    /\ \A o \in objectList, n \in InRun : \A a \in sent[n].set :
         a.sid = o.sid => a.symbol = o.symbol
    /\ \A o \in objectList : \E l \in InRun : LastWord(o, l)

ServerInv ==
  /\ TypeOK /\ BeginsAt(FirstOfRun)
  /\ Numbered /\ Sessions /\ Lasting /\ OneSymbol /\ Listed

(***************************************************************************)
(* The receiver takes the bundles of a run in the order of their numbers,  *)
(* though the transport repeats some: its frame number is that of one it   *)
(* took, and no bundle that comes late is further back than the window.    *)
(***************************************************************************)
HistoryTypeOK == begun \in BOOLEAN /\ dropped \in SUBSET Nat

Taken ==
  /\ accepted \subseteq InRun
  /\ \A n \in accepted : n <= last
  /\ \A n \in accepted : sent[n].fseq > 0 =>
       \E k \in accepted : sent[k].fseq = frame /\ sent[n].fseq <= frame

Repaired == up /\ Len(sent) \in accepted => Sids(view) \subseteq sent[Len(sent)].alive

\* The newest bundle taken lists what is shown, and none after it what was dropped.
Follows ==
  begun => \E k \in accepted :
    /\ \A a \in accepted : a <= k
    /\ Sids(view) \subseteq sent[k].alive
    /\ \A s \in dropped : s <= sessionID /\ \A n \in InRun : n >= k => s \notin sent[n].alive

OwnSymbols ==
  begun => \A v \in view : \E n \in InRun : \E a \in sent[n].set :
             a.sid = v.sid /\ a.symbol = v.symbol

Told == up /\ begun => \A o \in objectList, l \in accepted : LastWord(o, l) => o \in view

ReceiverInv == HistoryTypeOK /\ Taken /\ Repaired /\ Follows /\ OwnSymbols /\ Told

IInv == ServerInv /\ ReceiverInv

-----------------------------------------------------------------------------
(***************************************************************************)
(* Lemmas                                                                  *)
(***************************************************************************)

\* The bundle that the definition of FirstOfRun chooses.
LEMMA FirstIs ==
  ASSUME NEW f, BeginsAt(f), TypeOK
  PROVE  FirstOfRun = f
<1> DEFINE S == {n \in 1 .. Len(sent) : sent[n].run = run}
<1>1. f \in S /\ S \subseteq Nat /\ f \in Nat
  BY DEF BeginsAt, EmptyBundle, TypeOK
<1>2. \A n \in S : f <= n
  BY <1>1 DEF BeginsAt, TypeOK, Bundle
<1>3. FirstOfRun = Min(S)
  BY DEF FirstOfRun
<1> HIDE DEF S
<1>4. Min(S) \in S /\ \A n \in S : Min(S) <= n
  BY <1>1, <1>2 DEF Min
<1>5. Min(S) \in Nat /\ f <= Min(S) /\ Min(S) <= f
  BY <1>1, <1>2, <1>4
<1>6. QED
  BY <1>1, <1>3, <1>5

LEMMA FirstIsNext ==
  ASSUME NEW f, BeginsAt(f)', TypeOK'
  PROVE  FirstOfRun' = f
<1> DEFINE S == {n \in 1 .. Len(sent') : sent'[n].run = run'}
<1>1. f \in S /\ S \subseteq Nat /\ f \in Nat
  BY DEF BeginsAt, EmptyBundle, TypeOK
<1>2. \A n \in S : f <= n
  BY <1>1 DEF BeginsAt, TypeOK, Bundle
<1>3. FirstOfRun' = Min(S)
  BY DEF FirstOfRun
<1> HIDE DEF S
<1>4. Min(S) \in S /\ \A n \in S : Min(S) <= n
  BY <1>1, <1>2 DEF Min
<1>5. Min(S) \in Nat /\ f <= Min(S) /\ Min(S) <= f
  BY <1>1, <1>2, <1>4
<1>6. QED
  BY <1>1, <1>3, <1>5

LEMMA Appended ==
  ASSUME NEW s \in Seq(Bundle), NEW e \in Bundle
  PROVE  /\ Append(s, e) \in Seq(Bundle)
         /\ Len(Append(s, e)) = Len(s) + 1 /\ Len(s) \in Nat
         /\ Append(s, e)[Len(s) + 1] = e
         /\ \A n \in 1 .. Len(s) : Append(s, e)[n] = s[n]
  OBVIOUS

LEMMA SentIs ==
  ASSUME TypeOK
  PROVE  /\ sent \in Seq(Bundle) /\ Len(sent) \in Nat
         /\ \A n \in 1 .. Len(sent) :
              /\ sent[n] \in Bundle /\ sent[n].run \in Nat
              /\ sent[n].fseq \in Nat \cup {-1}
              /\ sent[n].alive \subseteq Nat /\ sent[n].set \subseteq TuioObject
<1>1. sent \in Seq(Bundle)
  BY DEF TypeOK
<1>2. Len(sent) \in Nat /\ \A n \in 1 .. Len(sent) : sent[n] \in Bundle
  BY <1>1
<1>3. QED
  BY <1>1, <1>2 DEF Bundle

\* A bundle that the present server appends is one of its run, after all others.
LEMMA RunGrows ==
  ASSUME ServerInv, NEW e \in Bundle, e.run = run, UNCHANGED run, TypeOK',
         sent' = Append(sent, e)
  PROVE  /\ BeginsAt(FirstOfRun)' /\ FirstOfRun' = FirstOfRun
         /\ Len(sent) \in Nat /\ Len(sent') = Len(sent) + 1
         /\ sent'[Len(sent) + 1] = e /\ Len(sent) + 1 \notin InRun
         /\ InRun' = InRun \cup {Len(sent) + 1}
         /\ Len(sent) \in InRun /\ InRun \subseteq 1 .. Len(sent)
         /\ \A n \in InRun : sent'[n] = sent[n]
<1> PICK f : f = FirstOfRun
  OBVIOUS
<1>1. sent \in Seq(Bundle) /\ BeginsAt(f)
  BY DEF ServerInv, TypeOK
<1>2. /\ Len(sent) \in Nat /\ Len(sent') = Len(sent) + 1
      /\ sent'[Len(sent) + 1] = e
      /\ \A n \in 1 .. Len(sent) : sent'[n] = sent[n]
  BY <1>1, Appended
<1>3. f \in 1 .. Len(sent) /\ sent[f] = EmptyBundle(run)
      /\ \A n \in 1 .. Len(sent) : /\ n < f => sent[n].run < run
                                   /\ n >= f => sent[n].run = run
  BY <1>1 DEF BeginsAt
<1>4. /\ f \in 1 .. Len(sent') /\ sent'[f] = EmptyBundle(run')
      /\ \A n \in 1 .. Len(sent') : /\ n < f => sent'[n].run < run'
                                    /\ n >= f => sent'[n].run = run'
  <2>1. f \in 1 .. Len(sent') /\ sent'[f] = EmptyBundle(run')
    BY <1>2, <1>3 DEF EmptyBundle
  <2>2. ASSUME NEW n \in 1 .. Len(sent')
        PROVE  (n < f => sent'[n].run < run') /\ (n >= f => sent'[n].run = run')
    <3>1. CASE n \in 1 .. Len(sent)
      BY <1>2, <1>3, <3>1
    <3>2. CASE n = Len(sent) + 1
      BY <1>2, <1>3, <3>2
    <3>3. QED
      BY <1>2, <3>1, <3>2
  <2>3. QED
    BY <2>1, <2>2
<1>5. BeginsAt(f)' /\ FirstOfRun' = f
  <2>1. BeginsAt(f)'
    BY <1>4 DEF BeginsAt
  <2>2. QED
    BY <2>1, FirstIsNext
<1>6. QED
  BY <1>2, <1>3, <1>5 DEF InRun, BeginsAt

-----------------------------------------------------------------------------
(***************************************************************************)
(* The server's steps                                                      *)
(***************************************************************************)

\* What the constructor of a run and all that is sent after it have in common.
Sends(e) ==
  /\ ServerInv /\ up /\ e \in Bundle /\ e.run = run
  /\ UNCHANGED run /\ TypeOK' /\ sent' = Append(sent, e)
  /\ currentFrame <= currentFrame' /\ sessionID <= sessionID'

LEMMA SendsNumbered ==
  ASSUME NEW e, Sends(e),
         \/ up' /\ e.fseq = currentFrame + 1 /\ currentFrame' = currentFrame + 1
         \/ ~up' /\ e.fseq = -1
  PROVE  Numbered'
<1> USE DEF Sends
<1>1. /\ InRun' = InRun \cup {Len(sent) + 1} /\ FirstOfRun' = FirstOfRun
      /\ Len(sent) \in Nat /\ Len(sent') = Len(sent) + 1 /\ InRun \subseteq 1 .. Len(sent)
      /\ sent'[Len(sent) + 1] = e /\ \A n \in InRun : sent'[n] = sent[n]
  BY RunGrows
<1>2. /\ currentFrame \in Nat \cup {-1} /\ currentFrame' \in Nat \cup {-1}
      /\ \A n \in InRun : sent[n].fseq \in Nat \cup {-1}
  BY <1>1, SentIs DEF ServerInv, TypeOK
<1>3. ASSUME NEW n \in InRun'
      PROVE  /\ sent'[n].fseq <= currentFrame'
             /\ sent'[n].fseq = -1 => n = FirstOfRun' \/ (n = Len(sent') /\ ~up')
             /\ \A m \in InRun' : m < n /\ sent'[n].fseq # -1 => sent'[m].fseq < sent'[n].fseq
  <2>1. CASE n \in InRun
    BY <1>1, <1>2, <2>1 DEF ServerInv, Numbered
  <2>2. CASE n = Len(sent) + 1
    BY <1>1, <1>2, <2>2 DEF ServerInv, Numbered
  <2>3. QED
    BY <1>1, <2>1, <2>2
<1>4. QED
  BY <1>3 DEF Numbered

LEMMA SendsSessions ==
  ASSUME NEW e, Sends(e), \A s \in e.alive : s <= sessionID',
         Sids(e.set) \subseteq e.alive, \A a, b \in e.set : a = b
  PROVE  Sessions'
<1> USE DEF Sends
<1>1. /\ InRun' = InRun \cup {Len(sent) + 1} /\ InRun \subseteq 1 .. Len(sent)
      /\ sent'[Len(sent) + 1] = e /\ \A n \in InRun : sent'[n] = sent[n]
  BY RunGrows
<1>2. /\ sessionID \in Int /\ sessionID' \in Int
      /\ \A n \in InRun : sent[n].alive \subseteq Nat
  BY <1>1, SentIs DEF ServerInv, TypeOK
<1>3. ASSUME NEW n \in InRun'
      PROVE  /\ \A s \in sent'[n].alive : s <= sessionID'
             /\ Sids(sent'[n].set) \subseteq sent'[n].alive
             /\ \A a, b \in sent'[n].set : a = b
  <2>1. CASE n \in InRun
    BY <1>1, <1>2, <2>1 DEF ServerInv, Sessions
  <2>2. CASE n = Len(sent) + 1
    BY <1>1, <1>2, <2>2
  <2>3. QED
    BY <1>1, <2>1, <2>2
<1>4. QED
  BY <1>3 DEF Sessions, Sids

LEMMA SendsLasting ==
  ASSUME NEW e, Sends(e), \A s \in e.alive : s <= sessionID => s \in Sids(objectList)
  PROVE  Lasting'
<1> USE DEF Sends
<1>1. /\ InRun' = InRun \cup {Len(sent) + 1} /\ InRun \subseteq 1 .. Len(sent)
      /\ Len(sent) \in InRun /\ Len(sent) \in Nat
      /\ sent'[Len(sent) + 1] = e /\ \A n \in InRun : sent'[n] = sent[n]
  BY RunGrows
<1>2. \A n \in InRun : \A s \in sent[n].alive \cap e.alive : s \in sent[Len(sent)].alive
  BY DEF ServerInv, Sessions, Listed
<1>3. ASSUME NEW k \in InRun', NEW m \in InRun', NEW n \in InRun', k <= m, m <= n
      PROVE  sent'[k].alive \cap sent'[n].alive \subseteq sent'[m].alive
  <2>1. CASE n \in InRun
    <3>1. k \in InRun /\ m \in InRun
      BY <1>1, <1>3, <2>1
    <3>2. QED
      BY <1>1, <1>3, <2>1, <3>1 DEF ServerInv, Lasting
  <2>2. CASE n = Len(sent) + 1 /\ m \in InRun
    <3>1. k \in InRun /\ m <= Len(sent)
      BY <1>1, <1>3, <2>2
    <3>2. sent[k].alive \cap sent[Len(sent)].alive \subseteq sent[m].alive
      BY <1>1, <1>3, <2>2, <3>1 DEF ServerInv, Lasting
    <3>3. QED
      BY <1>1, <1>2, <2>2, <3>1, <3>2
  <2>3. CASE n = m
    BY <2>3
  <2>4. QED
    BY <1>1, <1>3, <2>1, <2>2, <2>3
<1>4. QED
  BY <1>3 DEF Lasting

LEMMA SendsOneSymbol ==
  ASSUME NEW e, Sends(e), \A a, b \in e.set : a = b,
         \A n \in InRun : \A a \in e.set, b \in sent[n].set : a.sid = b.sid => a.symbol = b.symbol
  PROVE  OneSymbol'
<1> USE DEF Sends
<1>1. /\ InRun' = InRun \cup {Len(sent) + 1}
      /\ sent'[Len(sent) + 1] = e /\ \A n \in InRun : sent'[n] = sent[n]
  BY RunGrows
<1>2. ASSUME NEW m \in InRun', NEW n \in InRun', NEW a \in sent'[m].set, NEW b \in sent'[n].set,
             a.sid = b.sid
      PROVE  a.symbol = b.symbol
  <2>1. CASE m \in InRun /\ n \in InRun
    <3>1. a \in sent[m].set /\ b \in sent[n].set
      BY <1>1, <2>1
    <3>2. QED
      BY <1>2, <2>1, <3>1 DEF ServerInv, OneSymbol
  <2>2. CASE m \in InRun /\ n = Len(sent) + 1
    <3>1. a \in sent[m].set /\ b \in e.set
      BY <1>1, <2>2
    <3>2. QED
      BY <1>2, <2>2, <3>1
  <2>3. CASE m = Len(sent) + 1 /\ n \in InRun
    <3>1. a \in e.set /\ b \in sent[n].set
      BY <1>1, <2>3
    <3>2. QED
      BY <1>2, <2>3, <3>1
  <2>4. CASE m = Len(sent) + 1 /\ n = Len(sent) + 1
    <3>1. a \in e.set /\ b \in e.set
      BY <1>1, <2>4
    <3>2. QED
      BY <3>1
  <2>5. QED
    BY <1>1, <2>1, <2>2, <2>3, <2>4
<1>3. QED
  BY <1>2 DEF OneSymbol

\* One frame of the server: what an add, an update and a removal have in common.
Change(touched) ==
  /\ ServerInv /\ up /\ UNCHANGED <<run, up>> /\ TypeOK'
  /\ currentFrame' = currentFrame + 1 /\ sessionID' \in {sessionID, sessionID + 1}
  /\ touched \subseteq objectList' /\ \A a, b \in touched : a = b
  /\ \A o \in objectList' \ touched : o \in objectList /\ o.sid \notin Sids(touched)
  /\ \A o \in objectList' :
       /\ o.sid <= sessionID'
       /\ o.sid <= sessionID => \E p \in objectList : p.sid = o.sid /\ p.symbol = o.symbol
       /\ heard'[o.symbol] \in {"ADD", "UPDATE"}
  /\ Distinct(objectList') /\ Commit(touched)

ChangeBundle(touched) ==
  [run |-> run, fseq |-> currentFrame + 1, alive |-> Sids(objectList'), set |-> touched]

LEMMA ChangeSends ==
  ASSUME NEW touched, Change(touched)
  PROVE  Sends(ChangeBundle(touched))
<1> DEFINE e == ChangeBundle(touched)
<1>1. currentFrame \in Nat \cup {-1} /\ sessionID \in Nat \cup {-1} /\ run \in Nat
  BY DEF Change, ServerInv, TypeOK
<1>2. objectList' \subseteq TuioObject /\ touched \subseteq TuioObject
  BY DEF Change, TypeOK
<1>3. Sids(objectList') \subseteq Nat
  BY <1>2 DEF Sids, TuioObject
<1>4. e \in Bundle
  BY <1>1, <1>2, <1>3 DEF Bundle, ChangeBundle
<1>5. currentFrame <= currentFrame' /\ sessionID <= sessionID'
  BY <1>1 DEF Change
<1>6. e.run = run /\ sent' = Append(sent, e)
  BY DEF Change, Commit, ChangeBundle
<1>7. QED
  BY <1>4, <1>5, <1>6 DEF Sends, Change

\* An id of an earlier bundle whose object changed belongs to an object there was.
LEMMA ChangeKnown ==
  ASSUME NEW touched, Change(touched), NEW o \in objectList', NEW n \in InRun,
         NEW a \in sent[n].set, a.sid = o.sid
  PROVE  a.symbol = o.symbol
<1>1. a.sid \in sent[n].alive
  BY DEF Change, ServerInv, Sessions, Sids
<1>2. o.sid <= sessionID
  BY <1>1 DEF Change, ServerInv, Sessions
<1>3. PICK p \in objectList : p.sid = o.sid /\ p.symbol = o.symbol
  BY <1>2 DEF Change
<1>4. a.sid = p.sid
  BY <1>3
<1>5. a.symbol = p.symbol
  BY <1>4 DEF Change, ServerInv, Listed
<1>6. QED
  BY <1>3, <1>5

LEMMA ChangeListed ==
  ASSUME NEW touched, Change(touched)
  PROVE  Listed'
<1> DEFINE e == ChangeBundle(touched)
<1>1. /\ InRun' = InRun \cup {Len(sent) + 1} /\ InRun \subseteq 1 .. Len(sent)
      /\ Len(sent) \in Nat /\ Len(sent') = Len(sent) + 1
      /\ sent'[Len(sent) + 1] = e /\ \A n \in InRun : sent'[n] = sent[n]
  BY ChangeSends, RunGrows DEF Sends
<1>2. e.alive = Sids(objectList') /\ e.set = touched
  BY DEF ChangeBundle
<1> HIDE DEF e
<1>3. ASSUME NEW o \in objectList', NEW n \in InRun', NEW a \in sent'[n].set, a.sid = o.sid
      PROVE  a.symbol = o.symbol
  <2>1. CASE n \in InRun
    <3>1. a \in sent[n].set
      BY <1>1, <2>1
    <3>2. QED
      BY <1>3, <2>1, <3>1, ChangeKnown
  <2>2. CASE n = Len(sent) + 1
    <3>1. a \in objectList'
      BY <1>1, <1>2, <2>2 DEF Change
    <3>2. QED
      BY <1>3, <3>1 DEF Change, Distinct
  <2>3. QED
    BY <1>1, <2>1, <2>2
<1>4. ASSUME NEW o \in objectList'
      PROVE  \E l \in InRun' : LastWord(o, l)'
  <2>1. CASE o \in touched
    <3>1. touched = {o}
      BY <2>1 DEF Change
    <3>2. PICK l : l = Len(sent) + 1
      OBVIOUS
    <3>3. l \in InRun' /\ sent'[l] = e /\ \A n \in InRun' : ~ n > l
      BY <1>1, <3>2
    <3>4. LastWord(o, l)'
      BY <1>2, <3>1, <3>3 DEF LastWord
    <3>5. QED
      BY <3>3, <3>4
  <2>2. CASE o \notin touched
    <3>1. o \in objectList /\ o.sid \notin Sids(touched)
      BY <2>2 DEF Change
    <3>2. PICK l \in InRun : LastWord(o, l)
      BY <3>1 DEF Change, ServerInv, Listed
    <3>3. ASSUME NEW n \in InRun', n > l
          PROVE  o.sid \notin Sids(sent'[n].set)
      BY <1>1, <1>2, <3>1, <3>2, <3>3 DEF LastWord
    <3>4. LastWord(o, l)'
      BY <1>1, <3>2, <3>3 DEF LastWord
    <3>5. QED
      BY <1>1, <3>4
  <2>3. QED
    BY <2>1, <2>2
<1>5. sent'[Len(sent')].alive = Sids(objectList')
  BY <1>1, <1>2
<1>6. QED
  BY <1>3, <1>4, <1>5 DEF Listed, Change, Sids

LEMMA ChangeKeeps ==
  ASSUME NEW touched, Change(touched)
  PROVE  ServerInv'
<1>1. PICK e : e = ChangeBundle(touched)
  OBVIOUS
<1>2. Sends(e) /\ e.fseq = currentFrame + 1 /\ e.alive = Sids(objectList') /\ e.set = touched
  BY <1>1, ChangeSends DEF ChangeBundle
<1>3. TypeOK' /\ BeginsAt(FirstOfRun)'
  BY <1>2, RunGrows DEF Sends
<1>4. Numbered'
  BY <1>2, SendsNumbered DEF Change
<1>5. Sessions'
  <2>1. \A s \in e.alive : s <= sessionID'
    BY <1>2 DEF Change, Sids
  <2>2. Sids(e.set) \subseteq e.alive /\ \A a, b \in e.set : a = b
    BY <1>2 DEF Change, Sids
  <2>3. QED
    BY <1>2, <2>1, <2>2, SendsSessions
<1>6. Lasting'
  <2>1. \A s \in e.alive : s <= sessionID => s \in Sids(objectList)
    BY <1>2 DEF Change, Sids
  <2>2. QED
    BY <1>2, <2>1, SendsLasting
<1>7. OneSymbol'
  <2>1. \A a, b \in e.set : a = b
    BY <1>2 DEF Change
  <2>2. \A n \in InRun : \A a \in e.set, b \in sent[n].set : a.sid = b.sid => a.symbol = b.symbol
    BY <1>2, ChangeKnown DEF Change
  <2>3. QED
    BY <1>2, <2>1, <2>2, SendsOneSymbol
<1>8. QED
  BY <1>3, <1>4, <1>5, <1>6, <1>7, ChangeListed DEF ServerInv

\* A notification about a tag that has no object says nothing to the receiver.
Silent(t) ==
  /\ ServerInv /\ up /\ TypeOK' /\ currentFrame' = currentFrame + 1
  /\ UNCHANGED <<run, up, objectList, sessionID, sent>>
  /\ \A o \in objectList : o.symbol # t
  /\ \A u \in Tags : u # t => heard'[u] = heard[u]

LEMMA SilentKeeps ==
  ASSUME NEW t, Silent(t)
  PROVE  ServerInv' /\ InRun' = InRun
<1>1. PICK f : f = FirstOfRun
  OBVIOUS
<1>2. BeginsAt(f)'
  BY <1>1 DEF Silent, ServerInv, BeginsAt
<1>3. FirstOfRun' = f /\ InRun' = InRun
  BY <1>1, <1>2, FirstIsNext DEF InRun, Silent
<1>4. TypeOK' /\ BeginsAt(FirstOfRun)'
  BY <1>2, <1>3 DEF Silent
<1>5. Numbered'
  <2>1. currentFrame \in Int /\ \A n \in InRun : sent[n].fseq \in Int
    BY SentIs DEF ServerInv, BeginsAt, InRun, Silent, TypeOK
  <2>2. QED
    BY <1>1, <1>3, <2>1 DEF Silent, ServerInv, Numbered
<1>6. Sessions' /\ Lasting' /\ OneSymbol'
  BY <1>3 DEF Silent, ServerInv, Sessions, Lasting, OneSymbol
<1>7. Listed'
  <2>1. \A o \in objectList : heard'[o.symbol] = heard[o.symbol]
    BY DEF Silent, ServerInv, TypeOK, TuioObject
  <2>2. \A o, l : LastWord(o, l)' <=> LastWord(o, l)
    BY <1>3 DEF LastWord, Silent
  <2>3. QED
    BY <1>3, <2>1, <2>2 DEF Silent, ServerInv, Listed
<1>8. QED
  BY <1>3, <1>4, <1>5, <1>6, <1>7 DEF ServerInv

LEMMA KnownIds ==
  ASSUME ServerInv, up
  PROVE  \A o \in objectList : /\ o \in TuioObject /\ o.sid \in Nat /\ o.symbol \in Tags
                               /\ o.sid <= sessionID
<1>1. Len(sent) \in InRun /\ sent[Len(sent)].alive = Sids(objectList)
  BY SentIs DEF ServerInv, BeginsAt, InRun, Listed
<1>2. \A s \in Sids(objectList) : s <= sessionID
  BY <1>1 DEF ServerInv, Sessions
<1>3. QED
  BY <1>2 DEF Sids, ServerInv, TypeOK, TuioObject

\* What a frame leaves of the types, given those of its own variables.
LEMMA FrameTypes ==
  ASSUME ServerInv, UNCHANGED <<run, up, last, clientVars>>,
         currentFrame' = currentFrame + 1, sessionID' \in {sessionID, sessionID + 1},
         heard' \in [Tags -> {"NONE", "ADD", "UPDATE", "REMOVE"}],
         objectList' \subseteq TuioObject,
         NEW touched, touched \subseteq TuioObject, Commit(touched) \/ UNCHANGED sent
  PROVE  TypeOK'
<1>1. /\ currentFrame + 1 \in Nat /\ sessionID' \in Nat \cup {-1} /\ run \in Nat
      /\ sent \in Seq(Bundle) /\ last \in 0 .. Len(sent)
  BY DEF ServerInv, TypeOK
<1>2. sent' \in Seq(Bundle) /\ last \in 0 .. Len(sent')
  <2>1. CASE Commit(touched)
    <3> DEFINE e == ChangeBundle(touched)
    <3>1. Sids(objectList') \subseteq Nat
      BY DEF Sids, TuioObject
    <3>2. e \in Bundle
      BY <1>1, <3>1 DEF ChangeBundle, Bundle
    <3>3. sent' = Append(sent, e)
      BY <2>1 DEF Commit, ChangeBundle
    <3> HIDE DEF e
    <3>4. QED
      BY <1>1, <3>2, <3>3, Appended
  <2>2. CASE UNCHANGED sent
    BY <1>1, <2>2
  <2>3. QED
    BY <2>1, <2>2
<1>3. QED
  BY <1>1, <1>2 DEF ServerInv, TypeOK, clientVars

LEMMA AddIsChange ==
  ASSUME ServerInv, up, NEW t \in Tags, NEW p \in Poses, heard[t] = "REMOVE",
         heard' = [heard EXCEPT ![t] = "ADD"], currentFrame' = currentFrame + 1,
         UNCHANGED <<run, up, last, clientVars>>, Add(t, p)
  PROVE  \E touched : Change(touched)
<1> DEFINE new == [sid |-> sessionID + 1, symbol |-> t, pose |-> p]
<1>1. /\ sessionID' = sessionID + 1 /\ objectList' = objectList \cup {new} /\ Commit({new})
      /\ sessionID \in Nat \cup {-1}
  BY DEF Add, ServerInv, TypeOK
<1>2. \A o \in objectList : /\ o \in TuioObject /\ o.sid \in Nat /\ o.symbol \in Tags
                            /\ o.sid <= sessionID
  BY KnownIds
<1>3. new \in TuioObject /\ new.sid = sessionID + 1 /\ new.symbol = t
  BY <1>1 DEF TuioObject
<1> HIDE DEF new
<1>4. heard' \in [Tags -> {"NONE", "ADD", "UPDATE", "REMOVE"}]
  BY DEF ServerInv, TypeOK
<1>5. TypeOK'
  BY <1>1, <1>2, <1>3, <1>4, FrameTypes
<1>6. \A o \in objectList : o.symbol # t /\ heard[o.symbol] \in {"ADD", "UPDATE"}
  BY DEF ServerInv, Listed
<1>7. \A o \in objectList' \ {new} : o \in objectList /\ o.sid \notin Sids({new})
  BY <1>1, <1>2, <1>3 DEF Sids
<1>8. ASSUME NEW o \in objectList'
      PROVE  /\ o.sid <= sessionID'
             /\ o.sid <= sessionID => \E q \in objectList : q.sid = o.sid /\ q.symbol = o.symbol
             /\ heard'[o.symbol] \in {"ADD", "UPDATE"}
  <2>1. CASE o = new
    BY <1>1, <1>3, <2>1 DEF ServerInv, TypeOK
  <2>2. CASE o \in objectList
    BY <1>1, <1>2, <1>6, <2>2 DEF ServerInv, TypeOK
  <2>3. QED
    BY <1>1, <2>1, <2>2
<1>9. Distinct(objectList')
  <2>1. \A o \in objectList : o.sid # new.sid /\ o.symbol # new.symbol
    BY <1>1, <1>2, <1>3, <1>6
  <2>2. QED
    BY <1>1, <2>1 DEF Distinct, ServerInv, Listed
<1>10. Change({new})
  BY <1>1, <1>5, <1>7, <1>8, <1>9 DEF Change
<1>11. QED
  BY <1>10

LEMMA UpdateIsChange ==
  ASSUME ServerInv, up, NEW t \in Tags, NEW p \in Poses,
         heard' = [heard EXCEPT ![t] = "UPDATE"], currentFrame' = currentFrame + 1,
         UNCHANGED <<run, up, last, clientVars>>, Update(t, p), ObjectOf(t) # {}
  PROVE  \E touched : Change(touched)
<1>1. PICK x \in objectList : x.symbol = t
  BY DEF ObjectOf
<1>2. \A o \in objectList : /\ o \in TuioObject /\ o.sid \in Nat /\ o.symbol \in Tags
                            /\ o.sid <= sessionID
  BY KnownIds
<1>3. Distinct(objectList) /\ \A o \in objectList : heard[o.symbol] \in {"ADD", "UPDATE"}
  BY DEF ServerInv, Listed
<1>4. ObjectOf(t) = {x}
  BY <1>1, <1>3 DEF ObjectOf, Distinct
<1>5. PICK y : y = [x EXCEPT !.pose = p]
  OBVIOUS
<1>6. y \in TuioObject /\ y.sid = x.sid /\ y.symbol = t
  BY <1>1, <1>2, <1>5 DEF TuioObject
<1>7. {[o EXCEPT !.pose = p] : o \in ObjectOf(t)} = {y}
  BY <1>4, <1>5
<1>8. /\ sessionID' = sessionID /\ objectList' = (objectList \ {x}) \cup {y} /\ Commit({y})
      /\ sessionID \in Nat \cup {-1}
  BY <1>4, <1>7 DEF Update, ServerInv, TypeOK
<1>9. heard' \in [Tags -> {"NONE", "ADD", "UPDATE", "REMOVE"}]
  BY DEF ServerInv, TypeOK
<1>10. TypeOK'
  BY <1>2, <1>6, <1>8, <1>9, FrameTypes
<1>11. \A o \in objectList' \ {y} : o \in objectList /\ o # x /\ o.sid \notin Sids({y})
  BY <1>1, <1>3, <1>6, <1>8 DEF Sids, Distinct
<1>12. ASSUME NEW o \in objectList'
       PROVE  /\ o.sid <= sessionID'
              /\ o.sid <= sessionID => \E q \in objectList : q.sid = o.sid /\ q.symbol = o.symbol
              /\ heard'[o.symbol] \in {"ADD", "UPDATE"}
  <2>1. CASE o = y
    BY <1>1, <1>2, <1>6, <1>8, <2>1 DEF ServerInv, TypeOK
  <2>2. CASE o \in objectList
    BY <1>2, <1>3, <1>8, <2>2 DEF ServerInv, TypeOK
  <2>3. QED
    BY <1>8, <2>1, <2>2
<1>13. Distinct(objectList')
  BY <1>1, <1>3, <1>6, <1>8 DEF Distinct
<1>14. Change({y})
  BY <1>8, <1>10, <1>11, <1>12, <1>13 DEF Change
<1>15. QED
  BY <1>14

LEMMA RemoveIsChange ==
  ASSUME ServerInv, up, NEW t \in Tags,
         heard' = [heard EXCEPT ![t] = "REMOVE"], currentFrame' = currentFrame + 1,
         UNCHANGED <<run, up, last, clientVars>>, Remove(t), ObjectOf(t) # {}
  PROVE  Change({})
<1>1. \A o \in objectList : /\ o \in TuioObject /\ o.sid \in Nat /\ o.symbol \in Tags
                            /\ o.sid <= sessionID
  BY KnownIds
<1>2. Distinct(objectList) /\ \A o \in objectList : heard[o.symbol] \in {"ADD", "UPDATE"}
  BY DEF ServerInv, Listed
<1>3. /\ sessionID' = sessionID /\ Commit({}) /\ objectList' \subseteq objectList
      /\ \A o \in objectList' : o.symbol # t
      /\ sessionID \in Nat \cup {-1}
  BY DEF Remove, ObjectOf, ServerInv, TypeOK
<1>4. heard' \in [Tags -> {"NONE", "ADD", "UPDATE", "REMOVE"}]
  BY DEF ServerInv, TypeOK
<1>5. TypeOK'
  BY <1>1, <1>3, <1>4, FrameTypes
<1>6. ASSUME NEW o \in objectList'
      PROVE  /\ o.sid <= sessionID'
             /\ o.sid <= sessionID => \E q \in objectList : q.sid = o.sid /\ q.symbol = o.symbol
             /\ heard'[o.symbol] \in {"ADD", "UPDATE"}
  BY <1>1, <1>2, <1>3 DEF ServerInv, TypeOK
<1>7. Distinct(objectList')
  BY <1>2, <1>3 DEF Distinct
<1>8. \A o \in objectList' : o \in objectList /\ o.sid \notin Sids({})
  BY <1>3 DEF Sids
<1>9. QED
  BY <1>3, <1>5, <1>6, <1>7, <1>8 DEF Change

LEMMA FireIs ==
  ASSUME ServerInv, NEW t \in Tags, Fire(t)
  PROVE  Silent(t) \/ \E touched : Change(touched)
<1>1. /\ up /\ currentFrame' = currentFrame + 1 /\ UNCHANGED <<run, up, last, clientVars>>
  BY DEF Fire
<1>2. PICK op \in Life!Follows(heard[t]) :
        /\ heard' = [heard EXCEPT ![t] = op]
        /\ \/ op = "ADD" /\ \E p \in Poses : Add(t, p)
           \/ op = "UPDATE" /\ \E p \in Poses : Update(t, p)
           \/ op = "REMOVE" /\ Remove(t)
  BY DEF Fire
<1>3. CASE op = "ADD"
  <2>1. heard[t] = "REMOVE"
    BY <1>2, <1>3 DEF Life!Follows
  <2>2. PICK p \in Poses : Add(t, p)
    BY <1>2, <1>3
  <2>3. QED
    BY <1>1, <1>2, <1>3, <2>1, <2>2, AddIsChange
<1>4. ASSUME ObjectOf(t) = {}, UNCHANGED <<objectList, sessionID, sent>>
      PROVE  Silent(t)
  <2>1. heard' \in [Tags -> {"NONE", "ADD", "UPDATE", "REMOVE"}]
    BY <1>2 DEF ServerInv, TypeOK
  <2>2. objectList' \subseteq TuioObject
    BY <1>4 DEF ServerInv, TypeOK
  <2>3. TypeOK'
    BY <1>1, <1>4, <2>1, <2>2, FrameTypes
  <2>4. \A u \in Tags : u # t => heard'[u] = heard[u]
    BY <1>2 DEF ServerInv, TypeOK
  <2>5. QED
    BY <1>1, <1>4, <2>3, <2>4 DEF Silent, ObjectOf
<1>5. CASE op = "UPDATE"
  <2>1. PICK p \in Poses : Update(t, p)
    BY <1>2, <1>5
  <2>2. CASE ObjectOf(t) = {}
    BY <1>4, <2>1, <2>2 DEF Update
  <2>3. CASE ObjectOf(t) # {}
    BY <1>1, <1>2, <1>5, <2>1, <2>3, UpdateIsChange
  <2>4. QED
    BY <2>2, <2>3
<1>6. CASE op = "REMOVE"
  <2>1. Remove(t)
    BY <1>2, <1>6
  <2>2. CASE ObjectOf(t) = {}
    BY <1>4, <2>1, <2>2 DEF Remove
  <2>3. CASE ObjectOf(t) # {}
    BY <1>1, <1>2, <1>6, <2>1, <2>3, RemoveIsChange
  <2>4. QED
    BY <2>2, <2>3
<1>7. QED
  BY <1>2, <1>3, <1>5, <1>6

LEMMA ExitSends ==
  ASSUME ServerInv, Exit
  PROVE  Sends(EmptyBundle(run)) /\ ServerInv'
<1>1. PICK e : e = EmptyBundle(run)
  OBVIOUS
<1>2. /\ run \in Nat /\ sent \in Seq(Bundle) /\ last \in 0 .. Len(sent)
      /\ currentFrame \in Int /\ sessionID \in Int
  BY DEF ServerInv, TypeOK
<1>3. e \in Bundle /\ e.run = run /\ e.fseq = -1 /\ e.alive = {} /\ e.set = {}
  BY <1>1, <1>2 DEF EmptyBundle, Bundle
<1>4. up /\ sent' = Append(sent, e) /\ UNCHANGED <<run, currentFrame, sessionID>> /\ up' = FALSE
  BY <1>1 DEF Exit
<1>5. TypeOK'
  <2>1. sent' \in Seq(Bundle) /\ last' \in 0 .. Len(sent')
    BY <1>2, <1>3, <1>4, Appended DEF Exit
  <2>2. QED
    BY <2>1 DEF Exit, ServerInv, TypeOK, clientVars
<1>6. Sends(e)
  BY <1>2, <1>3, <1>4, <1>5 DEF Sends
<1>7. BeginsAt(FirstOfRun)'
  BY <1>6, RunGrows DEF Sends
<1>8. Numbered'
  BY <1>3, <1>4, <1>6, SendsNumbered
<1>9. Sessions'
  BY <1>3, <1>6, SendsSessions DEF Sids
<1>10. Lasting'
  BY <1>3, <1>6, SendsLasting
<1>11. OneSymbol'
  BY <1>3, <1>6, SendsOneSymbol
<1>12. QED
  BY <1>1, <1>4, <1>5, <1>6, <1>7, <1>8, <1>9, <1>10, <1>11 DEF ServerInv, Listed

\* A step that sends nothing and leaves the server's lists alone.
LEMMA QuietKeeps ==
  ASSUME ServerInv, TypeOK', up' => up,
         UNCHANGED <<run, heard, objectList, sessionID, currentFrame, sent>>
  PROVE  ServerInv' /\ InRun' = InRun /\ FirstOfRun' = FirstOfRun
<1>1. PICK f : f = FirstOfRun
  OBVIOUS
<1>2. BeginsAt(f)'
  BY <1>1 DEF ServerInv, BeginsAt
<1>3. FirstOfRun' = f /\ InRun' = InRun
  BY <1>1, <1>2, FirstIsNext DEF InRun
<1>4. BeginsAt(FirstOfRun)'
  BY <1>2, <1>3
<1>5. Numbered' /\ Sessions' /\ Lasting' /\ OneSymbol'
  BY <1>1, <1>3 DEF ServerInv, Numbered, Sessions, Lasting, OneSymbol
<1>6. \A o, l : LastWord(o, l)' <=> LastWord(o, l)
  BY <1>3 DEF LastWord
<1>7. Listed'
  BY <1>3, <1>6 DEF ServerInv, Listed
<1>8. QED
  BY <1>1, <1>3, <1>4, <1>5, <1>7 DEF ServerInv

LEMMA CrashKeeps ==
  ASSUME ServerInv, Crash
  PROVE  ServerInv' /\ InRun' = InRun
<1>1. TypeOK'
  BY DEF Crash, ServerInv, TypeOK, clientVars
<1>2. QED
  BY <1>1, QuietKeeps DEF Crash

LEMMA RestartKeeps ==
  ASSUME ServerInv, Restart
  PROVE  ServerInv'
<1>1. PICK e : e = EmptyBundle(run + 1)
  OBVIOUS
<1>2. PICK f : f = Len(sent) + 1
  OBVIOUS
<1>3. /\ run \in Nat /\ sent \in Seq(Bundle) /\ last \in 0 .. Len(sent)
      /\ \A n \in 1 .. Len(sent) : sent[n].run \in Nat
  BY SentIs DEF ServerInv, TypeOK
<1>4. e \in Bundle /\ e.run = run + 1 /\ e.fseq = -1 /\ e.alive = {} /\ e.set = {}
  BY <1>1, <1>3 DEF EmptyBundle, Bundle
<1>5. /\ sent' = Append(sent, e) /\ run' = run + 1 /\ up' = TRUE /\ objectList' = {}
      /\ sessionID' = -1 /\ currentFrame' = -1 /\ UNCHANGED <<last, view, frame>>
      /\ heard' = [t \in Tags |-> "NONE"]
  BY <1>1 DEF Restart, clientVars
<1>6. /\ sent' \in Seq(Bundle) /\ Len(sent') = f /\ sent'[f] = e /\ f \in Nat /\ f > Len(sent)
      /\ \A n \in 1 .. Len(sent) : sent'[n] = sent[n]
  BY <1>2, <1>3, <1>4, <1>5, Appended
<1>7. TypeOK'
  BY <1>2, <1>3, <1>5, <1>6 DEF ServerInv, TypeOK
<1>8. \A n \in 1 .. Len(sent) : sent[n].run <= run
  BY <1>3 DEF ServerInv, BeginsAt
<1>9. BeginsAt(f)'
  <2>1. f \in 1 .. Len(sent') /\ sent'[f] = EmptyBundle(run')
    BY <1>1, <1>2, <1>5, <1>6
  <2>2. ASSUME NEW n \in 1 .. Len(sent')
        PROVE  (n < f => sent'[n].run < run') /\ (n >= f => sent'[n].run = run')
    <3>1. CASE n = f
      BY <1>4, <1>5, <1>6, <3>1
    <3>2. CASE n \in 1 .. Len(sent)
      BY <1>2, <1>3, <1>5, <1>6, <1>8, <3>2
    <3>3. QED
      BY <1>2, <1>3, <1>6, <3>1, <3>2
  <2>3. QED
    BY <2>1, <2>2 DEF BeginsAt
<1>10. FirstOfRun' = f /\ InRun' = {f}
  BY <1>6, <1>7, <1>9, FirstIsNext DEF InRun
<1>11. Numbered' /\ Sessions' /\ Lasting' /\ OneSymbol'
  BY <1>4, <1>5, <1>6, <1>10 DEF Numbered, Sessions, Lasting, OneSymbol, Sids
<1>12. Listed'
  BY <1>4, <1>5, <1>6, <1>10 DEF Listed, Distinct, Sids
<1>13. QED
  BY <1>7, <1>9, <1>10, <1>11, <1>12 DEF ServerInv

-----------------------------------------------------------------------------
(***************************************************************************)
(* What the receiver makes of a bundle                                     *)
(***************************************************************************)
LEMMA ApplyFacts ==
  ASSUME NEW list \in SUBSET TuioObject, NEW b \in Bundle,
         \A m, q \in b.set : m = q, Sids(b.set) \subseteq b.alive
  PROVE  /\ Apply(list, b) \subseteq TuioObject
         /\ Sids(Apply(list, b)) \subseteq b.alive
         /\ Sids(list) \cap b.alive \subseteq Sids(Apply(list, b))
         /\ \A v \in Apply(list, b) : \E m \in list \cup b.set :
              m.sid = v.sid /\ m.symbol = v.symbol
         /\ \A o \in list : o.sid \in b.alive /\ o.sid \notin Sids(b.set) => o \in Apply(list, b)
         /\ \A o : b.set = {o} /\ (\A v \in list : v.sid = o.sid => v.symbol = o.symbol)
              => o \in Apply(list, b)
<1>1. CASE b.set = {}
  BY <1>1 DEF Apply, AfterSet, Sids
<1>2. CASE b.set # {}
  <2>1. PICK m : b.set = {m}
    BY <1>2
  <2>2. AfterSet(list, b) = Set(list, m)
    BY <2>1 DEF AfterSet
  <2>3. m \in TuioObject /\ m.sid \in b.alive
    BY <2>1 DEF Bundle, Sids
  <2>4. CASE m.sid \in Sids(list)
    <3>1. Set(list, m) =
            {IF o.sid = m.sid THEN [o EXCEPT !.pose = m.pose] ELSE o : o \in list}
      BY <2>4 DEF Set
    <3>2. \A o \in list : o.sid = m.sid =>
            /\ [o EXCEPT !.pose = m.pose] \in TuioObject
            /\ [o EXCEPT !.pose = m.pose].sid = o.sid
            /\ [o EXCEPT !.pose = m.pose].symbol = o.symbol
            /\ o.symbol = m.symbol => [o EXCEPT !.pose = m.pose] = m
      BY <2>3 DEF TuioObject
    <3>3. \A o \in list : o.sid = m.sid =>
            [o EXCEPT !.pose = m.pose] \in Set(list, m)
      BY <3>1
    <3>4. \A o \in list : o.sid # m.sid => o \in Set(list, m)
      BY <3>1
    <3>5. \A v \in Set(list, m) : \E o \in list :
            v \in TuioObject /\ v.sid = o.sid /\ v.symbol = o.symbol
      BY <3>1, <3>2
    <3>6. PICK x \in list : x.sid = m.sid
      BY <2>4 DEF Sids
    <3>7. Apply(list, b) = {o \in Set(list, m) : o.sid \in b.alive \/ o.sid \notin Sids(list)}
      BY <2>2 DEF Apply
    <3>8. Apply(list, b) \subseteq TuioObject
      BY <3>5, <3>7
    <3>9. Sids(Apply(list, b)) \subseteq b.alive
      BY <3>5, <3>7 DEF Sids
    <3>10. Sids(list) \cap b.alive \subseteq Sids(Apply(list, b))
      <4>1. ASSUME NEW o \in list, o.sid \in b.alive
            PROVE  \E v \in Apply(list, b) : v.sid = o.sid
        <5>1. CASE o.sid = m.sid
          BY <3>2, <3>3, <3>7, <4>1, <5>1
        <5>2. CASE o.sid # m.sid
          BY <3>4, <3>7, <4>1, <5>2
        <5>3. QED
          BY <5>1, <5>2
      <4>2. QED
        BY <4>1 DEF Sids
    <3>11. \A v \in Apply(list, b) : \E q \in list \cup b.set :
             q.sid = v.sid /\ q.symbol = v.symbol
      BY <3>5, <3>7
    <3>12. \A o \in list : o.sid \in b.alive /\ o.sid \notin Sids(b.set) => o \in Apply(list, b)
      BY <2>1, <3>4, <3>7 DEF Sids
    <3>13. (\A v \in list : v.sid = m.sid => v.symbol = m.symbol) => m \in Apply(list, b)
      BY <2>3, <3>2, <3>3, <3>6, <3>7
    <3>14. QED
      BY <2>1, <3>8, <3>9, <3>10, <3>11, <3>12, <3>13
  <2>5. CASE m.sid \notin Sids(list)
    <3>1. Set(list, m) = list \cup {m}
      BY <2>5 DEF Set
    <3>2. Apply(list, b) = {o \in list \cup {m} : o.sid \in b.alive \/ o.sid \notin Sids(list)}
      BY <2>2, <3>1 DEF Apply
    <3>3. QED
      BY <2>1, <2>3, <3>2 DEF Sids
  <2>6. QED
    BY <2>4, <2>5
<1>3. QED
  BY <1>1, <1>2

LEMMA BundleIs ==
  ASSUME ServerInv, NEW n \in 1 .. Len(sent)
  PROVE  /\ sent[n] \in Bundle /\ sent[n].fseq \in Nat \cup {-1} /\ n \in Nat
         /\ sent[n].run = run => n \in InRun
         /\ sent[n].run # run => n < FirstOfRun
         /\ FirstOfRun \in InRun /\ InRun \subseteq 1 .. Len(sent) /\ Len(sent) \in InRun
<1>1. /\ sent[n] \in Bundle /\ sent[n].fseq \in Nat \cup {-1}
      /\ sent[n].run \in Nat /\ run \in Nat /\ Len(sent) \in Nat
  BY SentIs DEF ServerInv, TypeOK
<1>2. FirstOfRun \in 1 .. Len(sent) /\ \A k \in 1 .. Len(sent) :
        (k < FirstOfRun => sent[k].run < run) /\ (k >= FirstOfRun => sent[k].run = run)
  BY DEF ServerInv, BeginsAt
<1>3. (n < FirstOfRun => sent[n].run < run) /\ (n >= FirstOfRun => sent[n].run = run)
  BY <1>2
<1>4. QED
  BY <1>1, <1>2, <1>3 DEF InRun

LEMMA DeliverKeeps ==
  ASSUME ServerInv, NEW n \in 1 .. Len(sent), Deliver(n)
  PROVE  ServerInv' /\ InRun' = InRun /\ FirstOfRun' = FirstOfRun
<1>1. sent[n] \in Bundle /\ n \in Nat /\ Len(sent) \in Nat
  BY BundleIs, SentIs DEF ServerInv
<1>2. UNCHANGED <<run, up, heard, objectList, sessionID, currentFrame, sent>>
  BY DEF Deliver, serverVars
<1>3. last' \in 0 .. Len(sent')
  BY <1>1, <1>2 DEF Deliver, ServerInv, TypeOK
<1>4. view' \subseteq TuioObject /\ frame' \in Nat \cup {-1}
  <2>1. CASE Late(sent[n])
    BY <2>1 DEF Deliver, clientVars, ServerInv, TypeOK
  <2>2. CASE ~Late(sent[n])
    <3>1. view' = Apply(view, sent[n])
      BY <2>2 DEF Deliver, Accept
    <3>2. frame' \in Nat \cup {-1}
      BY <1>1, <2>2 DEF Deliver, Accept, Bundle, ServerInv, TypeOK
    <3>3. view \subseteq TuioObject /\ sent[n].set \subseteq TuioObject
      BY <1>1 DEF Bundle, ServerInv, TypeOK
    <3>4. AfterSet(view, sent[n]) \subseteq TuioObject
      <4>1. ASSUME NEW m \in sent[n].set
            PROVE  Set(view, m) \subseteq TuioObject
        <5>1. \A o \in view : [o EXCEPT !.pose = m.pose] \in TuioObject
          BY <3>3 DEF TuioObject
        <5>2. QED
          BY <3>3, <5>1 DEF Set
      <4>2. QED
        BY <3>3, <4>1 DEF AfterSet
    <3>5. QED
      BY <3>1, <3>2, <3>4 DEF Apply
  <2>3. QED
    BY <2>1, <2>2
<1>5. TypeOK'
  BY <1>2, <1>3, <1>4 DEF ServerInv, TypeOK
<1>6. QED
  BY <1>2, <1>5, QuietKeeps

\* A bundle of this run is only taken when none after it has been.
LEMMA InOrder ==
  ASSUME ServerInv, Taken, NEW n \in 1 .. Len(sent), Deliverable(n), ~Late(sent[n]),
         sent[n].run = run, NEW a \in accepted
  PROVE  a <= n
<1>1. /\ n \in InRun /\ n \in Nat /\ a \in InRun /\ a \in Nat /\ a <= last
      /\ FirstOfRun \in Nat /\ last \in Nat
      /\ n >= FirstOfRun /\ Len(sent) \in Nat /\ a <= Len(sent)
      /\ sent[n].fseq \in Int /\ sent[a].fseq \in Int
  BY BundleIs, SentIs DEF Taken, InRun, ServerInv, TypeOK
<1>2. CASE n > last
  BY <1>1, <1>2
<1>3. CASE up /\ sent[n].fseq > 0 /\ currentFrame - sent[n].fseq <= MaxDelay
  <2> SUFFICES ASSUME a > n
               PROVE  FALSE
    BY <1>1
  <2>1. sent[a].fseq # -1
    BY <1>1, <1>3 DEF ServerInv, Numbered
  <2>2. sent[n].fseq < sent[a].fseq
    BY <1>1, <2>1 DEF ServerInv, Numbered
  <2>3. PICK k \in accepted : sent[k].fseq = frame /\ sent[a].fseq <= frame
    BY <1>1, <1>3, <2>2 DEF Taken
  <2>4. frame <= currentFrame /\ frame \in Int /\ currentFrame \in Int
    BY <2>3 DEF ServerInv, Numbered, Taken, TypeOK
  <2>5. MaxDelay \in Nat /\ Window \in Nat /\ MaxDelay <= Window
    BY WireAssumption
  <2>6. sent[n].fseq > 0 /\ sent[n].fseq < frame /\ frame - sent[n].fseq <= Window
    BY <1>1, <1>3, <2>2, <2>3, <2>4, <2>5
  <2>7. QED
    BY <2>6 DEF Late
<1>4. QED
  BY <1>2, <1>3 DEF Deliverable

\* A bundle of an earlier run only comes before any of this one.
LEMMA OlderFirst ==
  ASSUME ServerInv, Taken, NEW n \in 1 .. Len(sent), Deliverable(n), sent[n].run # run
  PROVE  accepted = {}
<1>1. n > last /\ n < FirstOfRun /\ n \in Nat /\ last \in Nat /\ FirstOfRun \in Nat
  BY BundleIs, SentIs DEF Deliverable, ServerInv, TypeOK, InRun
<1>2. \A a \in accepted : a >= FirstOfRun /\ a <= last /\ a \in Int
  BY SentIs DEF Taken, InRun, ServerInv
<1>3. QED
  BY <1>1, <1>2
-----------------------------------------------------------------------------
(***************************************************************************)
(* The receiver's invariant                                                *)
(***************************************************************************)
LEMMA SendsReceiver ==
  ASSUME NEW e, Sends(e), ReceiverInv, UNCHANGED <<last, clientVars, history>>,
         \A s \in e.alive : s <= sessionID => s \in Sids(objectList)
  PROVE  HistoryTypeOK' /\ Taken' /\ Repaired' /\ Follows' /\ OwnSymbols'
<1>1. /\ InRun' = InRun \cup {Len(sent) + 1} /\ InRun \subseteq 1 .. Len(sent)
      /\ Len(sent) \in Nat /\ Len(sent') = Len(sent) + 1 /\ Len(sent) \in InRun
      /\ sent'[Len(sent) + 1] = e /\ \A n \in InRun : sent'[n] = sent[n]
  BY RunGrows DEF Sends
<1>2. UNCHANGED <<last, view, frame, begun, accepted, dropped>>
  BY DEF clientVars, history
<1>3. last \in Nat /\ last <= Len(sent) /\ sessionID \in Int /\ sessionID' \in Int
      /\ sessionID <= sessionID'
  BY <1>1 DEF Sends, ServerInv, TypeOK
<1>4. accepted \subseteq InRun /\ (\A n \in accepted : n <= last) /\ Len(sent) + 1 \notin accepted
  BY <1>1, <1>3 DEF ReceiverInv, Taken
<1>5. HistoryTypeOK'
  BY <1>2 DEF ReceiverInv, HistoryTypeOK
<1>6. Taken'
  BY <1>1, <1>2, <1>4 DEF ReceiverInv, Taken
<1>7. Repaired'
  BY <1>1, <1>2, <1>4 DEF Repaired
<1>8. Follows'
  <2> SUFFICES ASSUME begun
               PROVE  \E k \in accepted :
                        /\ \A a \in accepted : a <= k
                        /\ Sids(view) \subseteq sent'[k].alive
                        /\ \A s \in dropped : s <= sessionID' /\ \A n \in InRun' :
                             n >= k => s \notin sent'[n].alive
    BY <1>2 DEF Follows, Sids
  <2>1. PICK k \in accepted :
          /\ \A a \in accepted : a <= k
          /\ Sids(view) \subseteq sent[k].alive
          /\ \A s \in dropped : s <= sessionID /\ \A n \in InRun : n >= k => s \notin sent[n].alive
    BY DEF ReceiverInv, Follows
  <2>2. k \in InRun /\ sent'[k] = sent[k] /\ k <= Len(sent)
    BY <1>1, <1>4
  <2>3. ASSUME NEW s \in dropped
        PROVE  s <= sessionID' /\ s \notin e.alive
    <3>1. s \in Nat /\ s <= sessionID
      BY <2>1 DEF ReceiverInv, HistoryTypeOK
    <3>2. s \notin sent[Len(sent)].alive
      BY <1>1, <2>1, <2>2
    <3>3. QED
      BY <1>3, <3>1, <3>2 DEF Sends, ServerInv, Listed
  <2>4. QED
    BY <1>1, <2>1, <2>2, <2>3
<1>9. OwnSymbols'
  BY <1>1, <1>2 DEF ReceiverInv, OwnSymbols
<1>10. QED
  BY <1>5, <1>6, <1>7, <1>8, <1>9

LEMMA ChangeReceiver ==
  ASSUME NEW touched, Change(touched), ReceiverInv, UNCHANGED <<last, clientVars, history>>
  PROVE  ReceiverInv'
<1>1. PICK e : e = ChangeBundle(touched)
  OBVIOUS
<1>2. Sends(e) /\ e.alive = Sids(objectList') /\ e.set = touched
  BY <1>1, ChangeSends DEF ChangeBundle
<1>3. \A s \in e.alive : s <= sessionID => s \in Sids(objectList)
  BY <1>2 DEF Change, Sids
<1>4. HistoryTypeOK' /\ Taken' /\ Repaired' /\ Follows' /\ OwnSymbols'
  BY <1>2, <1>3, SendsReceiver
<1>5. Told'
  <2>1. UNCHANGED <<up, view, begun, accepted>>
    BY DEF clientVars, history, Change
  <2>2. /\ InRun' = InRun \cup {Len(sent) + 1} /\ InRun \subseteq 1 .. Len(sent)
        /\ Len(sent) \in Nat
        /\ sent'[Len(sent) + 1] = e /\ \A n \in InRun : sent'[n] = sent[n]
    BY <1>2, RunGrows DEF Sends
  <2>3. ASSUME begun, NEW o \in objectList', NEW l \in accepted, LastWord(o, l)'
        PROVE  o \in view
    <3>1. l \in InRun /\ l < Len(sent) + 1
      BY <2>2 DEF ReceiverInv, Taken
    <3>2. o.sid \notin Sids(touched)
      BY <1>2, <2>2, <2>3, <3>1 DEF LastWord
    <3>3. o \in objectList
      BY <3>2 DEF Change, Sids
    <3>4. LastWord(o, l)
      BY <2>2, <2>3, <3>1 DEF LastWord
    <3>5. QED
      BY <2>3, <3>3, <3>4 DEF ReceiverInv, Told, Change
  <2>4. QED
    BY <2>1, <2>3 DEF Told
<1>6. QED
  BY <1>4, <1>5 DEF ReceiverInv

LEMMA SilentReceiver ==
  ASSUME NEW t, Silent(t), ReceiverInv, UNCHANGED <<last, clientVars, history>>
  PROVE  ReceiverInv'
<1>1. InRun' = InRun
  BY SilentKeeps
<1>2. UNCHANGED <<up, objectList, sessionID, sent, last, view, frame, begun, accepted, dropped>>
  BY DEF Silent, clientVars, history
<1>3. \A o, l : LastWord(o, l)' <=> LastWord(o, l)
  BY <1>1, <1>2 DEF LastWord
<1>4. HistoryTypeOK' /\ Taken' /\ Repaired'
  BY <1>1, <1>2 DEF ReceiverInv, HistoryTypeOK, Taken, Repaired, Sids
<1>5. Follows' /\ OwnSymbols' /\ Told'
  BY <1>1, <1>2, <1>3 DEF ReceiverInv, Follows, OwnSymbols, Told, Sids
<1>6. QED
  BY <1>4, <1>5 DEF ReceiverInv

LEMMA EndReceiver ==
  ASSUME ServerInv, Exit \/ Crash, ReceiverInv, UNCHANGED history
  PROVE  ReceiverInv'
<1>1. UNCHANGED <<last, clientVars, history>> /\ up' = FALSE
  BY DEF Exit, Crash
<1>2. CASE Exit
  <2>1. HistoryTypeOK' /\ Taken' /\ Repaired' /\ Follows' /\ OwnSymbols'
    <3>1. PICK e : e = EmptyBundle(run)
      OBVIOUS
    <3>2. Sends(e) /\ e.alive = {}
      BY <1>2, <3>1, ExitSends DEF EmptyBundle
    <3>3. QED
      BY <1>1, <3>2, SendsReceiver
  <2>2. QED
    BY <1>1, <2>1 DEF ReceiverInv, Told
<1>3. CASE Crash
  <2>1. InRun' = InRun
    BY <1>3, CrashKeeps
  <2>2. UNCHANGED <<sessionID, sent, last, view, frame, begun, accepted, dropped>>
    BY <1>1, <1>3 DEF Crash, clientVars, history
  <2>3. HistoryTypeOK' /\ Taken' /\ Repaired' /\ Told'
    BY <1>1, <2>1, <2>2 DEF ReceiverInv, HistoryTypeOK, Taken, Repaired, Told
  <2>4. Follows' /\ OwnSymbols'
    BY <2>1, <2>2 DEF ReceiverInv, Follows, OwnSymbols, Sids
  <2>5. QED
    BY <2>3, <2>4 DEF ReceiverInv
<1>4. QED
  BY <1>2, <1>3

LEMMA RestartReceiver ==
  ASSUME begun' = FALSE, accepted' = {}, dropped' = {}
  PROVE  ReceiverInv'
BY DEF ReceiverInv, HistoryTypeOK, Taken, Repaired, Follows, OwnSymbols, Told

\* The bundle with which the run begins empties the list.
LEMMA FirstReceiver ==
  ASSUME ServerInv, ReceiverInv, NEW n \in 1 .. Len(sent), Deliver(n), Observe(n), n = FirstOfRun
  PROVE  ReceiverInv'
<1>1. InRun' = InRun /\ n \in InRun
  BY DeliverKeeps, BundleIs
<1>2. sent[n].fseq = -1 /\ sent[n].alive = {} /\ sent[n].set = {} /\ ~Late(sent[n])
  BY DEF ServerInv, BeginsAt, EmptyBundle, Late
<1>3. begun' = TRUE /\ accepted' = {n} /\ dropped' = {}
  BY DEF Observe
<1>4. /\ view' = Apply(view, sent[n])
      /\ UNCHANGED <<run, up, objectList, sessionID, sent>>
  BY <1>2 DEF Deliver, Accept, serverVars
<1>5. Sids(view') = {}
  <2>1. view \subseteq TuioObject /\ sent[n] \in Bundle
    BY BundleIs DEF ServerInv, TypeOK
  <2>2. Sids(sent[n].set) \subseteq sent[n].alive /\ \A a, b \in sent[n].set : a = b
    BY <1>2 DEF Sids
  <2>3. Sids(Apply(view, sent[n])) \subseteq sent[n].alive
    BY <2>1, <2>2, ApplyFacts
  <2>4. QED
    BY <1>2, <1>4, <2>3
<1>6. n <= last'
  BY BundleIs, SentIs DEF Deliver, ServerInv, TypeOK
<1>7. HistoryTypeOK' /\ Taken'
  BY <1>1, <1>2, <1>3, <1>4, <1>6 DEF HistoryTypeOK, Taken
<1>8. Repaired'
  BY <1>3, <1>5 DEF Repaired, Sids
<1>9. Follows'
  <2>1. n <= n
    BY BundleIs
  <2>2. QED
    BY <1>3, <1>5, <2>1 DEF Follows, Sids
<1>10. OwnSymbols'
  BY <1>5 DEF OwnSymbols, Sids
<1>11. Told'
  BY <1>2, <1>3, <1>4 DEF Told, LastWord
<1>12. QED
  BY <1>7, <1>8, <1>9, <1>10, <1>11 DEF ReceiverInv

\* A late bundle and one of a server that is gone teach the receiver nothing new.
LEMMA OtherReceiver ==
  ASSUME ServerInv, ReceiverInv, NEW n \in 1 .. Len(sent), Deliver(n), Observe(n),
         n # FirstOfRun, Late(sent[n]) \/ sent[n].run # run
  PROVE  ReceiverInv'
<1>1. InRun' = InRun
  BY DeliverKeeps
<1>2. UNCHANGED <<run, up, objectList, sessionID, sent, begun, accepted>>
      /\ dropped' = dropped \cup (Sids(view) \ Sids(view'))
  BY DEF Observe, Deliver, serverVars
<1>3. last' >= last /\ last \in Nat /\ \A a \in accepted : a \in Nat /\ a <= last
  BY BundleIs, SentIs DEF Deliver, ServerInv, TypeOK, ReceiverInv, Taken, InRun
<1>4. \A o, l : LastWord(o, l)' <=> LastWord(o, l)
  BY <1>1, <1>2 DEF LastWord
<1>5. last' \in Int
  BY <1>3, BundleIs DEF Deliver
<1>6. \A a \in accepted : a <= last'
  BY <1>3, <1>5
<1>7. CASE Late(sent[n])
  <2>1. UNCHANGED <<view, frame>>
    BY <1>7 DEF Deliver, clientVars
  <2>2. dropped' = dropped
    BY <1>2, <2>1
  <2>3. HistoryTypeOK' /\ Taken' /\ Repaired' /\ Told'
    BY <1>1, <1>2, <1>4, <1>6, <2>1, <2>2
       DEF ReceiverInv, HistoryTypeOK, Taken, Repaired, Told, Sids
  <2>4. Follows' /\ OwnSymbols'
    BY <1>1, <1>2, <2>1, <2>2 DEF ReceiverInv, Follows, OwnSymbols, Sids
  <2>5. QED
    BY <2>3, <2>4 DEF ReceiverInv
<1>8. CASE sent[n].run # run
  <2>1. accepted = {}
    BY <1>8, OlderFirst DEF ReceiverInv, Deliver
  <2>2. ~begun
    BY <2>1 DEF ReceiverInv, Follows
  <2>3. Sids(view) \subseteq Nat
    BY DEF ServerInv, TypeOK, Sids, TuioObject
  <2>4. HistoryTypeOK' /\ Taken'
    BY <1>2, <2>1, <2>3 DEF ReceiverInv, HistoryTypeOK, Taken
  <2>5. QED
    BY <1>2, <2>1, <2>2, <2>4 DEF ReceiverInv, Repaired, Follows, OwnSymbols, Told
<1>9. QED
  BY <1>7, <1>8

LEMMA AcceptReceiver ==
  ASSUME ServerInv, ReceiverInv, NEW n \in 1 .. Len(sent), Deliver(n), Observe(n),
         n # FirstOfRun, ~Late(sent[n]), sent[n].run = run
  PROVE  ReceiverInv'
<1>1. InRun' = InRun /\ n \in InRun /\ n \in Nat /\ Len(sent) \in InRun /\ n <= Len(sent)
      /\ Len(sent) \in Nat /\ InRun \subseteq Nat /\ sent[n].fseq \in Int
  BY DeliverKeeps, BundleIs, SentIs DEF ServerInv
<1>2. /\ accepted' = accepted \cup {n} /\ begun' = begun
      /\ dropped' = dropped \cup (Sids(view) \ Sids(view'))
  BY DEF Observe
<1>3. /\ view' = Apply(view, sent[n])
      /\ frame' = IF sent[n].fseq > 0 THEN sent[n].fseq ELSE frame
      /\ UNCHANGED <<run, up, objectList, sessionID, sent>>
      /\ last' = IF n > last THEN n ELSE last
  BY DEF Deliver, Accept, serverVars
<1>4. Sids(sent[n].set) \subseteq sent[n].alive /\ \A a, b \in sent[n].set : a = b
  BY <1>1 DEF ServerInv, Sessions
<1>5. /\ Sids(view') \subseteq sent[n].alive
      /\ Sids(view) \cap sent[n].alive \subseteq Sids(view')
      /\ \A v \in view' : \E m \in view \cup sent[n].set : m.sid = v.sid /\ m.symbol = v.symbol
      /\ \A o \in view : o.sid \in sent[n].alive /\ o.sid \notin Sids(sent[n].set) => o \in view'
      /\ \A o : sent[n].set = {o} /\ (\A v \in view : v.sid = o.sid => v.symbol = o.symbol)
           => o \in view'
  <2>1. view \in SUBSET TuioObject /\ sent[n] \in Bundle
    BY BundleIs DEF ServerInv, TypeOK
  <2>2. QED
    BY <1>3, <1>4, <2>1, ApplyFacts
<1>6. \A a \in accepted : a <= n /\ a \in InRun /\ a \in Nat
  BY <1>1, InOrder DEF ReceiverInv, Taken, Deliver
<1>7. HistoryTypeOK'
  <2>1. Sids(view) \subseteq Nat
    BY DEF ServerInv, TypeOK, Sids, TuioObject
  <2>2. QED
    BY <1>2, <2>1 DEF ReceiverInv, HistoryTypeOK
<1>8. Taken'
  <2>1. \A a \in accepted' : a <= last' /\ a \in InRun
    BY <1>1, <1>2, <1>3, <1>6 DEF ReceiverInv, Taken, ServerInv, TypeOK
  <2>2. ASSUME NEW a \in accepted', sent[a].fseq > 0
        PROVE  \E k \in accepted' : sent[k].fseq = frame' /\ sent[a].fseq <= frame'
    <3>1. CASE sent[n].fseq > 0
      <4>1. a = n \/ (a \in accepted /\ a < n)
        BY <1>1, <1>2, <1>6
      <4>2. sent[a].fseq <= sent[n].fseq
        <5>1. CASE a = n
          BY <1>1, <5>1
        <5>2. CASE a \in InRun /\ a < n
          <6>1. sent[n].fseq # -1
            BY <3>1
          <6>2. sent[a].fseq < sent[n].fseq
            BY <1>1, <5>2, <6>1 DEF ServerInv, Numbered
          <6>3. sent[a].fseq \in Int
            BY <5>2, SentIs DEF InRun, ServerInv, BeginsAt
          <6>4. QED
            BY <1>1, <6>2, <6>3
        <5>3. QED
          BY <1>6, <4>1, <5>1, <5>2
      <4>3. QED
        BY <1>2, <1>3, <3>1, <4>2
    <3>2. CASE ~(sent[n].fseq > 0)
      BY <1>2, <1>3, <2>2, <3>2 DEF ReceiverInv, Taken
    <3>3. QED
      BY <3>1, <3>2
  <2>3. QED
    BY <1>1, <1>3, <2>1, <2>2 DEF Taken
<1>9. Repaired'
  <2>1. Len(sent) \in accepted' => n = Len(sent)
    BY <1>1, <1>2, <1>6
  <2>2. QED
    BY <1>3, <1>5, <2>1 DEF Repaired, Sids
<1>10. Follows'
  <2> SUFFICES ASSUME begun
               PROVE  /\ \A a \in accepted' : a <= n
                      /\ Sids(view') \subseteq sent[n].alive
                      /\ \A s \in dropped' : s <= sessionID /\ \A m \in InRun :
                           m >= n => s \notin sent[m].alive
    BY <1>1, <1>2, <1>3 DEF Follows, Sids
  <2>1. PICK k \in accepted :
          /\ \A a \in accepted : a <= k
          /\ Sids(view) \subseteq sent[k].alive
          /\ \A s \in dropped : s <= sessionID /\ \A m \in InRun : m >= k => s \notin sent[m].alive
    BY DEF ReceiverInv, Follows
  <2>2. k <= n /\ k \in InRun /\ k \in Nat
    BY <1>6
  <2>3. ASSUME NEW s \in dropped
        PROVE  s <= sessionID /\ \A m \in InRun : m >= n => s \notin sent[m].alive
    <3>1. s <= sessionID /\ \A m \in InRun : m >= k => s \notin sent[m].alive
      BY <2>1
    <3>2. \A m \in InRun : m >= n => m >= k
      BY <1>1, <2>2
    <3>3. QED
      BY <3>1, <3>2
  <2>4. ASSUME NEW s \in Sids(view) \ Sids(view')
        PROVE  s <= sessionID /\ \A m \in InRun : m >= n => s \notin sent[m].alive
    <3>1. s \in sent[k].alive /\ s \notin sent[n].alive
      BY <1>5, <2>1
    <3>2. \A m \in InRun : m >= n => sent[k].alive \cap sent[m].alive \subseteq sent[n].alive
      BY <1>1, <2>2 DEF ServerInv, Lasting
    <3>3. QED
      BY <2>2, <3>1, <3>2 DEF ServerInv, Sessions
  <2>5. QED
    BY <1>1, <1>2, <1>5, <1>6, <2>3, <2>4
<1>11. OwnSymbols'
  <2>1. ASSUME begun, NEW v \in view'
        PROVE  \E m \in InRun : \E a \in sent[m].set : a.sid = v.sid /\ a.symbol = v.symbol
    <3>1. PICK q \in view \cup sent[n].set : q.sid = v.sid /\ q.symbol = v.symbol
      BY <1>5
    <3>2. CASE q \in view
      BY <2>1, <3>1, <3>2 DEF ReceiverInv, OwnSymbols
    <3>3. CASE q \in sent[n].set
      BY <1>1, <3>1, <3>3
    <3>4. QED
      BY <3>1, <3>2, <3>3
  <2>2. QED
    BY <1>1, <1>2, <1>3, <2>1 DEF OwnSymbols
<1>12. Told'
  <2>1. \A o, l : LastWord(o, l)' <=> LastWord(o, l)
    BY <1>1, <1>3 DEF LastWord
  <2>2. ASSUME up, begun, NEW o \in objectList, NEW l \in accepted', LastWord(o, l)
        PROVE  o \in view'
    <3>1. sent[l].set = {o}
      BY <2>2 DEF LastWord
    <3>2. CASE l = n
      <4>1. ASSUME NEW v \in view, v.sid = o.sid
            PROVE  v.symbol = o.symbol
        <5>1. PICK m \in InRun : \E a \in sent[m].set : a.sid = v.sid /\ a.symbol = v.symbol
          BY <2>2 DEF ReceiverInv, OwnSymbols
        <5>2. QED
          BY <1>1, <3>1, <3>2, <4>1, <5>1 DEF ServerInv, OneSymbol
      <4>2. QED
        BY <1>5, <3>1, <3>2, <4>1
    <3>3. CASE l # n
      <4>1. l \in accepted /\ l < n /\ l \in InRun
        BY <1>1, <1>2, <1>6, <3>3
      <4>2. o \in view
        BY <2>2, <4>1 DEF ReceiverInv, Told
      <4>3. o.sid \notin Sids(sent[n].set)
        BY <1>1, <2>2, <4>1 DEF LastWord
      <4>4. o.sid \in sent[l].alive
        BY <3>1, <4>1 DEF ServerInv, Sessions, Sids
      <4>5. o.sid \in sent[Len(sent)].alive
        BY <2>2 DEF ServerInv, Listed, Sids
      <4>6. o.sid \in sent[n].alive
        BY <1>1, <1>6, <4>1, <4>4, <4>5 DEF ServerInv, Lasting
      <4>7. QED
        BY <1>5, <4>2, <4>3, <4>6
    <3>4. QED
      BY <3>2, <3>3
  <2>3. QED
    BY <1>2, <1>3, <2>1, <2>2 DEF Told
<1>13. QED
  BY <1>7, <1>8, <1>9, <1>10, <1>11, <1>12 DEF ReceiverInv

-----------------------------------------------------------------------------
(***************************************************************************)
(* The theorems                                                            *)
(***************************************************************************)
LEMMA InvInit ==
  ASSUME MCInit
  PROVE  IInv
<1>1. PICK f : f = 1
  OBVIOUS
<1>2. /\ EmptyBundle(1) \in Bundle /\ sent = <<EmptyBundle(1)>> /\ run = 1
      /\ view = {} /\ objectList = {} /\ accepted = {} /\ dropped = {} /\ begun = FALSE
      /\ up = TRUE /\ currentFrame = -1 /\ sessionID = -1
  BY DEF MCInit, Init, EmptyBundle, Bundle
<1>3. sent \in Seq(Bundle) /\ Len(sent) = 1 /\ sent[1] = EmptyBundle(1)
  BY <1>2
<1>4. TypeOK
  BY <1>2, <1>3 DEF MCInit, Init, TypeOK
<1>5. BeginsAt(f)
  BY <1>1, <1>2, <1>3 DEF BeginsAt, EmptyBundle
<1>6. FirstOfRun = 1 /\ InRun = {1}
  BY <1>1, <1>3, <1>4, <1>5, FirstIs DEF InRun
<1>7. BeginsAt(FirstOfRun)
  BY <1>1, <1>5, <1>6
<1>8. Numbered /\ Sessions /\ Lasting /\ OneSymbol /\ Listed
  BY <1>2, <1>3, <1>6
     DEF Numbered, Sessions, Lasting, OneSymbol, Listed, Distinct, EmptyBundle, Sids
<1>9. ReceiverInv
  BY <1>2 DEF ReceiverInv, HistoryTypeOK, Taken, Repaired, Follows, OwnSymbols, Told
<1>10. QED
  BY <1>4, <1>7, <1>8, <1>9 DEF IInv, ServerInv

LEMMA InvNext ==
  ASSUME IInv, [MCNext]_<<vars, history>>
  PROVE  IInv'
<1> USE DEF IInv
<1>1. CASE \E t \in Tags : Fire(t) /\ UNCHANGED history
  <2>1. PICK t \in Tags : Fire(t) /\ UNCHANGED history
    BY <1>1
  <2>2. UNCHANGED <<last, clientVars, history>>
    BY <2>1 DEF Fire
  <2>3. CASE Silent(t)
    BY <2>2, <2>3, SilentKeeps, SilentReceiver
  <2>4. ASSUME NEW touched, Change(touched)
        PROVE  IInv'
    BY <2>2, <2>4, ChangeKeeps, ChangeReceiver
  <2>5. QED
    BY <2>1, <2>3, <2>4, FireIs
<1>2. CASE (Exit \/ Crash) /\ UNCHANGED history
  <2>1. ServerInv'
    BY <1>2, ExitSends, CrashKeeps
  <2>2. ReceiverInv'
    BY <1>2, EndReceiver
  <2>3. QED
    BY <2>1, <2>2
<1>3. CASE Restart /\ begun' = FALSE /\ accepted' = {} /\ dropped' = {}
  BY <1>3, RestartKeeps, RestartReceiver
<1>4. CASE \E n \in 1 .. Len(sent) : Deliver(n) /\ Observe(n)
  <2>1. PICK n \in 1 .. Len(sent) : Deliver(n) /\ Observe(n)
    BY <1>4
  <2>2. ServerInv'
    BY <2>1, DeliverKeeps
  <2>3. ReceiverInv'
    BY <2>1, FirstReceiver, OtherReceiver, AcceptReceiver
  <2>4. QED
    BY <2>2, <2>3
<1>5. CASE UNCHANGED <<vars, history>>
  <2>1. UNCHANGED <<run, up, heard, objectList, sessionID, currentFrame, sent, last, view, frame>>
    BY <1>5 DEF vars, serverVars, clientVars
  <2>2. UNCHANGED <<begun, accepted, dropped>>
    BY <1>5 DEF history
  <2>3. TypeOK'
    BY <2>1 DEF ServerInv, TypeOK
  <2>4. ServerInv' /\ InRun' = InRun
    BY <2>1, <2>3, QuietKeeps
  <2>5. \A o, l : LastWord(o, l)' <=> LastWord(o, l)
    BY <2>1, <2>4 DEF LastWord
  <2>6. HistoryTypeOK' /\ Taken' /\ Repaired' /\ Told'
    BY <2>1, <2>2, <2>4, <2>5 DEF ReceiverInv, HistoryTypeOK, Taken, Repaired, Told, Sids
  <2>7. Follows' /\ OwnSymbols'
    BY <2>1, <2>2, <2>4 DEF ReceiverInv, Follows, OwnSymbols, Sids
  <2>8. QED
    BY <2>4, <2>6, <2>7 DEF ReceiverInv
<1>6. QED
  BY <1>1, <1>2, <1>3, <1>4, <1>5 DEF MCNext

LEMMA InvAlways == MCSpec => []IInv
<1>1. MCInit => IInv
  BY InvInit
<1>2. IInv /\ [MCNext]_<<vars, history>> => IInv'
  BY InvNext
<1>3. QED
  BY <1>1, <1>2, PTL DEF MCSpec

\* Server, bundles and receiver keep the shapes the code gives them.
THEOREM TypeCorrect == MCSpec => []TypeOK
<1>1. IInv => TypeOK
  BY DEF IInv, ServerInv
<1>2. QED
  BY <1>1, InvAlways, PTL

\* An object that the receiver removed stays removed, though bundles that still
\* list it are repeated or come late (TuioClient's frame number check).
THEOREM NoGhostEver == MCSpec => []NoGhost
<1>1. IInv => NoGhost
  <2> SUFFICES ASSUME IInv, begun
               PROVE  dropped \cap Sids(view) = {}
    BY DEF NoGhost
  <2>1. PICK k \in accepted :
          /\ Sids(view) \subseteq sent[k].alive
          /\ \A s \in dropped : \A n \in InRun : n >= k => s \notin sent[n].alive
    BY DEF IInv, ReceiverInv, Follows
  <2>2. k \in InRun /\ k >= k
    BY SentIs DEF IInv, ReceiverInv, Taken, InRun, ServerInv, BeginsAt
  <2>3. QED
    BY <2>1, <2>2
<1>2. QED
  BY <1>1, InvAlways, PTL

\* The alive list of the newest bundle repairs every loss before it: nothing
\* stays listed that the server no longer has (TuioClient's alive message).
THEOREM LossIsRepaired == MCSpec => []AliveListRepairs
<1>1. IInv => AliveListRepairs
  BY DEF IInv, AliveListRepairs, ReceiverInv, Repaired, ServerInv, Listed
<1>2. QED
  BY <1>1, InvAlways, PTL

\* Once the receiver took one numbered bundle of a server it takes all that
\* follow, wherever the frame numbers of an earlier server had come to.
THEOREM NoLastingDeafness == MCSpec => []HearsAgain
<1>1. IInv => HearsAgain
  <2> SUFFICES ASSUME IInv, NEW m \in accepted, NEW n \in last + 1 .. Len(sent),
                      sent[m].fseq > 0
               PROVE  ~Late(sent[n])
    BY DEF HearsAgain
  <2>1. PICK k \in accepted : sent[k].fseq = frame
    BY DEF IInv, ReceiverInv, Taken
  <2>2. /\ last \in Nat /\ Len(sent) \in Nat /\ FirstOfRun \in 1 .. Len(sent)
        /\ k \in InRun /\ k <= last
    BY SentIs DEF IInv, ServerInv, TypeOK, BeginsAt, ReceiverInv, Taken
  <2>3. n \in InRun /\ k < n
    BY <2>2 DEF InRun
  <2>4. sent[n].fseq \in Int /\ sent[k].fseq \in Int
    BY <2>2, <2>3, SentIs DEF InRun, IInv, ServerInv
  <2>5. CASE sent[n].fseq = -1
    BY <2>5 DEF Late
  <2>6. CASE sent[n].fseq # -1
    <3>1. frame < sent[n].fseq
      BY <2>1, <2>2, <2>3, <2>6 DEF IInv, ServerInv, Numbered
    <3>2. QED
      BY <2>1, <2>4, <3>1 DEF Late
  <2>7. QED
    BY <2>5, <2>6
<1>2. QED
  BY <1>1, InvAlways, PTL

\* When the newest message about an object was taken the receiver shows the
\* object as the server has it; what was lost or late before does not matter.
THEOREM OnlyTheLastMessageCounts == MCSpec => []LastMessageCounts
<1>1. IInv => LastMessageCounts
  <2> SUFFICES ASSUME IInv, up, begun, NEW o \in objectList, Max(Sets(o.sid)) \in accepted
               PROVE  o \in view
    BY DEF LastMessageCounts
  <2>1. PICK l \in InRun : LastWord(o, l)
    BY DEF IInv, ServerInv, Listed
  <2>2. Sets(o.sid) \subseteq InRun /\ InRun \subseteq Int
    BY SentIs DEF Sets, InRun, IInv, ServerInv, BeginsAt
  <2>3. l \in Sets(o.sid) /\ \A n \in Sets(o.sid) : n <= l
    BY <2>1, <2>2 DEF Sets, LastWord, Sids, InRun
  <2>4. PICK S : S = Sets(o.sid)
    OBVIOUS
  <2>5. Max(S) \in S /\ \A n \in S : Max(S) >= n
    BY <2>2, <2>3, <2>4 DEF Max
  <2>6. Max(S) = l
    <3>1. Max(S) \in Int /\ l \in Int
      BY <2>2, <2>3, <2>4, <2>5
    <3>2. Max(S) <= l /\ l <= Max(S)
      BY <2>3, <2>4, <2>5
    <3>3. QED
      BY <3>1, <3>2
  <2>7. QED
    BY <2>1, <2>4, <2>6 DEF IInv, ReceiverInv, Told
<1>2. QED
  BY <1>1, InvAlways, PTL
=============================================================================
