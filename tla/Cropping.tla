------------------------------ MODULE Cropping ------------------------------
(***************************************************************************)
(* Choosing the part of the image to track, with --crop: the mouse handler *)
(* Camera::croppingEvent (src/Camera.hpp) together with the camera that    *)
(* applies the choice, VideoStream (src/cameras/VideoStream.cc).           *)
(*                                                                         *)
(* The mouse reports points of what is in the window: the crop that was in *)
(* force when a frame was last shown, or a blank image of a size of its    *)
(* own as long as the camera has not given any.  The handler adds offset,  *)
(* the sum of the crops chosen so far, to get points of the camera's image.*)
(* cv::waitKey delivers the mouse events, any number of them between two   *)
(* frames; a button that is released outside the window is not reported,   *)
(* so that any event may follow any other.                                 *)
(***************************************************************************)
EXTENDS Integers

CONSTANTS
  Width, Height,            \* of the camera's image
  BlankWidth, BlankHeight,  \* of the blank image (800 x 800 in the code)
  MinArea                   \* a selection must be larger than this (10 in the code)

ASSUME SizeAssumption ==
  /\ Width \in Nat \ {0} /\ Height \in Nat \ {0}
  /\ BlankWidth \in Nat \ {0} /\ BlankHeight \in Nat \ {0}

ASSUME AreaAssumption == MinArea \in Nat

VARIABLES
  phase,      \* "running" or "thrown" (OpenCV refused the region)
  selecting,  \* crop_: the selection window is open
  dragging,   \* croppingData_<0>
  start,      \* croppingData_<1>
  end,        \* croppingData_<2>
  offset,     \* croppingData_<3>
  cropped,    \* VideoStream::cropped, which no constructor sets
  origin,     \* cropOrigin
  target,     \* cropTarget
  shown       \* the size of the image in the window, as <<columns, rows>>

cameraVars == <<dragging, start, end, offset>>

streamVars == <<cropped, origin, target>>

vars == <<phase, selecting, cameraVars, streamVars, shown>>

Corner == <<0, 0>>

Plus(p, q) == <<p[1] + q[1], p[2] + q[2]>>

Minus(p, q) == <<p[1] - q[1], p[2] - q[2]>>

Least(p, q) == <<IF p[1] <= q[1] THEN p[1] ELSE q[1],
                 IF p[2] <= q[2] THEN p[2] ELSE q[2]>>

Most(p, q) == <<IF p[1] >= q[1] THEN p[1] ELSE q[1],
                IF p[2] >= q[2] THEN p[2] ELSE q[2]>>

Image == <<Width, Height>>

Blank == <<BlankWidth, BlankHeight>>

\* What is in the window may be either, or a part of the image.
Point == (0..Most(Image, Blank)[1]) \X (0..Most(Image, Blank)[2])

Area(p, q) == (Most(p, q)[1] - Least(p, q)[1]) * (Most(p, q)[2] - Least(p, q)[2])

\* p is, in both directions, not beyond q.
Within(p, q) == p[1] <= q[1] /\ p[2] <= q[2]

Init ==
  /\ phase = "running"
  /\ selecting = TRUE
  /\ dragging = FALSE
  /\ start = Corner /\ end = Corner /\ offset = Corner
  /\ cropped \in BOOLEAN
  /\ origin = Corner /\ target = Corner
  /\ shown = Blank

-----------------------------------------------------------------------------
(***************************************************************************)
(* Camera::croppingEvent, one action per event that it handles             *)
(***************************************************************************)
CanEvent == phase = "running" /\ selecting

InWindow(p) == p[1] < shown[1] /\ p[2] < shown[2]

MouseMove(p) ==
  /\ CanEvent /\ InWindow(p) /\ dragging
  /\ end' = p
  /\ UNCHANGED <<phase, selecting, dragging, start, offset, streamVars, shown>>

ButtonDown(p) ==
  /\ CanEvent /\ InWindow(p) /\ ~dragging
  /\ dragging' = TRUE
  /\ start' = p
  /\ UNCHANGED <<phase, selecting, end, offset, streamVars, shown>>

\* VideoStream::setCropping
SetCropping(from, to) ==
  /\ origin' = from
  /\ target' = to
  /\ cropped' = TRUE

RegionInImage ==
  cropped => /\ Within(Corner, origin) /\ Within(origin, target)
             /\ Within(target, Image)

\* Bound: while the region in force is outside the image, so that the next
\* frame throws, no further selection is made on top of it.
OffsetBound == RegionInImage

\* Mutation: the condition on the area is left out.
ButtonUpAnyArea ==
  /\ CanEvent /\ dragging /\ OffsetBound
  /\ start # Corner /\ end # Corner
  /\ dragging' = FALSE
  /\ SetCropping(Plus(Least(start, end), offset), Plus(Most(start, end), offset))
  /\ offset' = Plus(offset, Least(start, end))
  /\ start' = Corner /\ end' = Corner
  /\ UNCHANGED <<phase, selecting, shown>>

\* Mutation: the offset is not added to the points.
ButtonUpNoOffset ==
  /\ CanEvent /\ dragging /\ OffsetBound
  /\ start # Corner /\ end # Corner /\ Area(start, end) > MinArea
  /\ dragging' = FALSE
  /\ SetCropping(Least(start, end), Most(start, end))
  /\ offset' = Plus(offset, Least(start, end))
  /\ start' = Corner /\ end' = Corner
  /\ UNCHANGED <<phase, selecting, shown>>

\* Mutation: the offset is taken away where it should be added.
ButtonUpMinus ==
  /\ CanEvent /\ dragging /\ OffsetBound
  /\ start # Corner /\ end # Corner /\ Area(start, end) > MinArea
  /\ dragging' = FALSE
  /\ SetCropping(Plus(Least(start, end), offset), Plus(Most(start, end), offset))
  /\ offset' = Minus(offset, Least(start, end))
  /\ start' = Corner /\ end' = Corner
  /\ UNCHANGED <<phase, selecting, shown>>

\* Where the button goes up does not matter, only where the mouse last moved.
\* A point that equals the default (0, 0) counts as no point.
ButtonUp ==
  /\ CanEvent /\ dragging /\ OffsetBound
  /\ start # Corner /\ end # Corner /\ Area(start, end) > MinArea
  /\ dragging' = FALSE
  /\ SetCropping(Plus(Least(start, end), offset), Plus(Most(start, end), offset))
  /\ offset' = Plus(offset, Least(start, end))
  /\ start' = Corner /\ end' = Corner
  /\ UNCHANGED <<phase, selecting, shown>>

\* Mutation: the reset forgets the offset.
RightButtonUpKeepsOffset ==
  /\ CanEvent /\ ~dragging
  /\ start' = Corner /\ end' = Corner
  /\ cropped' = FALSE
  /\ UNCHANGED <<phase, selecting, dragging, offset, origin, target, shown>>

RightButtonUp ==
  /\ CanEvent /\ ~dragging
  /\ start' = Corner /\ end' = Corner /\ offset' = Corner
  /\ cropped' = FALSE
  /\ UNCHANGED <<phase, selecting, dragging, origin, target, shown>>

Submit ==
  /\ CanEvent
  /\ selecting' = FALSE
  /\ UNCHANGED <<phase, cameraVars, streamVars, shown>>

-----------------------------------------------------------------------------
(***************************************************************************)
(* VideoStream::update, up to the frame in the window.  A region that is   *)
(* not inside the image makes OpenCV throw, and so does showing an empty   *)
(* one.  When the camera gives no frame, the window shows what it did      *)
(* before: no variable changes.                                            *)
(***************************************************************************)
Size == IF cropped THEN Minus(target, origin) ELSE Image

Showable == RegionInImage /\ (selecting => Size[1] > 0 /\ Size[2] > 0)

ShowFrame ==
  /\ phase = "running" /\ Showable
  /\ shown' = IF selecting THEN Size ELSE shown
  /\ UNCHANGED <<phase, selecting, cameraVars, streamVars>>

UpdateThrows ==
  /\ phase = "running" /\ ~Showable
  /\ phase' = "thrown"
  /\ UNCHANGED <<selecting, cameraVars, streamVars, shown>>

Next ==
  \/ \E p \in Point : MouseMove(p) \/ ButtonDown(p)
  \/ ButtonUp
  \/ RightButtonUp
  \/ Submit
  \/ ShowFrame
  \/ UpdateThrows

Spec == Init /\ [][Next]_vars

-----------------------------------------------------------------------------
(***************************************************************************)
(* Properties                                                              *)
(***************************************************************************)
TypeOK ==
  /\ phase \in {"running", "thrown"}
  /\ selecting \in BOOLEAN
  /\ dragging \in BOOLEAN
  /\ start \in Point /\ end \in Point
  /\ offset \in Nat \X Nat
  /\ cropped \in BOOLEAN
  /\ origin \in Nat \X Nat /\ target \in Nat \X Nat
  /\ shown \in Point

\* The offset that the mouse handler accumulates, one selection after another,
\* is where the camera's crop really begins: the two never drift apart.
OffsetIsOrigin == offset = IF cropped THEN origin ELSE Corner

=============================================================================
