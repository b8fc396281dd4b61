----------------------------- MODULE MCTracking -----------------------------
(***************************************************************************)
(* Tracking with the history needed to say when a published pose is right: *)
(* the pose of each tag in the last two frames that the tracker finished.  *)
(***************************************************************************)
EXTENDS Tracking

VARIABLES
  frameNow,    \* the frame being handled, as find() returned it
  frameBefore  \* the frame before

MCInit == Init /\ frameNow = Empty /\ frameBefore = Empty

MCNext ==
  /\ Next
  /\ IF stage = "idle" /\ stage' = "marking"
     THEN frameNow' = pending' /\ frameBefore' = frameNow
     ELSE UNCHANGED <<frameNow, frameBefore>>

MCSpec == MCInit /\ [][MCNext]_<<vars, frameNow, frameBefore>>

\* A tag that two consecutive frames found in the same place is published in
\* that place, although every notification shows the pose stored before it;
\* and a tag found for the first time is published at the default pose.
RestingTagIsRight ==
  phase = "running" /\ stage = "idle" =>
    \A t \in Found(frameNow) :
      lastPose[t] = IF t \in Found(frameBefore) THEN frameBefore[t] ELSE Zero

\* What a TUIO receiver is told of a tag agrees with what a WebSocket client
\* is told, whenever there is a TUIO object for the tag.
PublishersAgree ==
  phase = "running" => \A o \in objectList : o.pose = lastPose[o.symbol]
=============================================================================
