--------------------------- MODULE MCTuioContacts ---------------------------
(***************************************************************************)
(* TuioContacts with what was lost on the way.                             *)
(***************************************************************************)
EXTENDS TuioContacts, TLC

VARIABLES
  missed,  \* per kind, the session ids whose latest message was lost
  deaf     \* per kind, whether the latest bundle was lost

history == <<missed, deaf>>

\* Places are compared with each other only.
PlacesAreAlike == Permutations(Places)

MCInit ==
  /\ Init
  /\ missed = [k \in Kinds |-> {}]
  /\ deaf = [k \in Kinds |-> FALSE]

Note(lost) ==
  LET b == Head(wire)
  IN /\ missed' = [missed EXCEPT ![b.kind] =
                     IF lost THEN @ \cup Sids(b.set) ELSE @ \ Sids(b.set)]
     /\ deaf' = [deaf EXCEPT ![b.kind] = lost]

MCNext ==
  \/ Server /\ UNCHANGED history
  \/ Lose /\ Note(TRUE)
  \/ Receive /\ Note(FALSE)
  \/ (ProcessSet \/ ProcessGone) /\ UNCHANGED history

MCSpec == MCInit /\ [][MCNext]_<<vars, history>>

-----------------------------------------------------------------------------
\* Between frames, when everything sent has arrived or was lost, the receiver
\* lists no contact that has gone, unless the last bundle was lost; and every
\* contact whose last message it got, where it is.  The manager's early returns,
\* its update flags, the splitting of a frame and what the receiver takes for
\* no news leave nothing unsaid; after the destructor nothing is listed.  How
\* fast a contact is, the receiver may have wrong, if it got no message before.
ReceiverMirrors ==
  wire = <<>> /\ work.set = {} /\ work.gone = {} =>
    \A k \in Kinds : ~deaf[k] =>
      /\ phase = "idle" =>
           /\ Sids(seen[k]) \subseteq Sids(list[k])
           /\ \A c \in list[k] : c.sid \notin missed[k] =>
                \E v \in seen[k] : v.sid = c.sid /\ v.pos = c.pos
      /\ phase = "gone" => seen[k] = {}

=============================================================================
