----------------------------- MODULE MCCropping -----------------------------
(***************************************************************************)
(* Cropping with the history of what the user could see: whether the       *)
(* selection being made, and the one in force, were drawn on an image that *)
(* showed the crop then in force.  The blank image does not.               *)
(***************************************************************************)
EXTENDS Cropping

VARIABLES
  current,    \* the window shows the crop in force
  sharp,      \* every point of the selection being made was seen like that
  faithful    \* so was every point of the crop in force and those before it

history == <<current, sharp, faithful>>

MCInit == Init /\ current = FALSE /\ sharp = TRUE /\ faithful = ~cropped

MCNext ==
  /\ Next
  /\ current' = IF ButtonUp \/ RightButtonUp THEN FALSE
                ELSE IF ShowFrame THEN TRUE ELSE current
  /\ sharp' = IF \E p \in Point : ButtonDown(p) THEN current
              ELSE sharp /\ (current \/ end' = end)
  /\ faithful' = IF RightButtonUp THEN TRUE
                 ELSE IF ButtonUp THEN faithful /\ sharp ELSE faithful

MCSpec == MCInit /\ [][MCNext]_<<vars, history>>

\* What was selected while the window showed the crop in force is inside the
\* camera's image, not empty and larger than the threshold, however many
\* selections came before: OpenCV accepts it.  It need not accept what was
\* selected on the blank image or before the window showed the last choice.
SelectionIsUsable ==
  cropped /\ faithful =>
    /\ RegionInImage
    /\ Area(origin, target) > MinArea

\* A selection made while the window shows the crop in force lies within that
\* crop: selecting again narrows the crop, whatever the order of the corners in
\* which it is drawn.
SelectingNarrows ==
  [][cropped /\ cropped' /\ faithful' /\ <<origin, target>> # <<origin', target'>> =>
       Within(origin, origin') /\ Within(target', target)]_<<vars, history>>
=============================================================================
