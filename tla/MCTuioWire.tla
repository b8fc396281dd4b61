----------------------------- MODULE MCTuioWire -----------------------------
(***************************************************************************)
(* TuioWire with what the receiver has seen of the present server.         *)
(***************************************************************************)
EXTENDS TuioWire, FiniteSetsExt

VARIABLES
  begun,    \* the receiver took the empty bundle of the server's constructor
  accepted, \* bundles of this run that the receiver took, by number
  dropped   \* session ids that the receiver listed and then removed

history == <<begun, accepted, dropped>>

MCInit == Init /\ begun = FALSE /\ accepted = {} /\ dropped = {}

\* The bundle that the constructor of the present server sent.
FirstOfRun == Min({n \in 1 .. Len(sent) : sent[n].run = run})

Observe(n) ==
  IF n = FirstOfRun
  THEN begun' = TRUE /\ accepted' = {n} /\ dropped' = {}
  ELSE /\ UNCHANGED begun
       /\ accepted' = IF Late(sent[n]) \/ sent[n].run # run THEN accepted ELSE accepted \cup {n}
       /\ dropped' = dropped \cup (Sids(view) \ Sids(view'))

MCNext ==
  \/ /\ \E t \in Tags : Fire(t)
     /\ UNCHANGED history
  \/ (Exit \/ Crash) /\ UNCHANGED history
  \/ Restart /\ begun' = FALSE /\ accepted' = {} /\ dropped' = {}
  \/ \E n \in 1 .. Len(sent) : Deliver(n) /\ Observe(n)

MCSpec == MCInit /\ [][MCNext]_<<vars, history>>

-----------------------------------------------------------------------------
\* The bundles of this run with an object message about session s.
Sets(s) == {n \in FirstOfRun .. Len(sent) : s \in Sids(sent[n].set)}

\* A receiver that started with the server shows every object as the server
\* has it, unless the very last message about the object was lost or late: no
\* earlier loss, no delay and no duplicate has a lasting effect.
LastMessageCounts ==
  up /\ begun =>
    \A o \in objectList : Max(Sets(o.sid)) \in accepted => o \in view

\* An object that the receiver removed does not come back, although bundles
\* that still list it may arrive afterwards.
NoGhost == begun => dropped \cap Sids(view) = {}

\* Once the newest bundle has been taken nothing is shown that the server no
\* longer has, whatever was lost before: the alive list repairs every loss.
AliveListRepairs ==
  up /\ Len(sent) \in accepted => Sids(view) \subseteq Sids(objectList)

\* A server that was started again counts its frames anew, and the receiver
\* takes them for late ones; but once it took one it takes all that follow.
HearsAgain ==
  \A m \in accepted, n \in last + 1 .. Len(sent) :
    sent[m].fseq > 0 => ~Late(sent[n])

=============================================================================
