--------------------------- MODULE CroppingProofs ---------------------------
(***************************************************************************)
(* Proofs about Cropping, for an image and a blank image of any sizes and  *)
(* any threshold.                                                          *)
(***************************************************************************)
EXTENDS MCCropping, TLAPS

HistoryTypeOK == current \in BOOLEAN /\ sharp \in BOOLEAN /\ faithful \in BOOLEAN

(***************************************************************************)
(* What the user points at can be trusted while the window shows the crop  *)
(* in force; the points of a selection seen like that lie within it, since *)
(* the crop cannot change while the mouse drags.                           *)
(***************************************************************************)
WindowIsTrue == selecting /\ current => RegionInImage /\ shown = Size

NothingIsDrawn == ~dragging => end = Corner

DrawnInside ==
  dragging /\ sharp => /\ RegionInImage
                       /\ Within(start, Size) /\ Within(end, Size)

IInv ==
  /\ TypeOK /\ HistoryTypeOK
  /\ OffsetIsOrigin
  /\ WindowIsTrue /\ NothingIsDrawn /\ DrawnInside
  /\ SelectionIsUsable

\* The corners of a rectangle, moved by an offset, span the same area.
LEMMA MovedArea ==
  ASSUME NEW p \in Nat \X Nat, NEW q \in Nat \X Nat, NEW o \in Nat \X Nat
  PROVE  /\ Plus(Least(p, q), o) \in Nat \X Nat /\ Plus(Most(p, q), o) \in Nat \X Nat
         /\ Within(Plus(Least(p, q), o), Plus(Most(p, q), o))
         /\ Area(Plus(Least(p, q), o), Plus(Most(p, q), o)) = Area(p, q)
<1> DEFINE a == Plus(Least(p, q), o)
           b == Plus(Most(p, q), o)
<1>1. a \in Nat \X Nat /\ b \in Nat \X Nat
  BY DEF Plus, Least, Most
<1>2. Within(a, b)
  BY DEF Within, Plus, Least, Most
<1>3. \A i \in {1, 2} : Most(a, b)[i] - Least(a, b)[i] = Most(p, q)[i] - Least(p, q)[i]
  BY DEF Plus, Least, Most
<1>4. Area(a, b) = Area(p, q)
  BY <1>3 DEF Area
<1>5. QED
  BY <1>1, <1>2, <1>4

LEMMA PointsOfWindow ==
  /\ Corner \in Point /\ Image \in Point /\ Blank \in Point
  /\ Corner \in Nat \X Nat
  /\ \A p \in Nat \X Nat : Within(p, Image) => p \in Point
<1>1. Image \in Nat \X Nat /\ Blank \in Nat \X Nat
  BY SizeAssumption DEF Image, Blank
<1> DEFINE most == Most(Image, Blank)
<1>2. most \in Nat \X Nat /\ Within(Image, most) /\ Within(Blank, most)
  BY <1>1 DEF Most, Within
<1>3. Point = (0 .. most[1]) \X (0 .. most[2])
  BY DEF Point
<1> HIDE DEF most
<1>4. \A p \in Nat \X Nat : Within(p, most) => p \in Point
  BY <1>2, <1>3 DEF Within
<1>5. \A p \in Nat \X Nat : Within(p, Image) => Within(p, most)
  BY <1>1, <1>2 DEF Within
<1>6. Corner \in Nat \X Nat /\ Within(Corner, most)
  BY <1>2 DEF Corner, Within
<1>7. QED
  BY <1>1, <1>2, <1>4, <1>5, <1>6

LEMMA InitIInv == MCInit => IInv
<1> SUFFICES ASSUME MCInit PROVE IInv
  OBVIOUS
<1> USE DEF MCInit, Init
<1>1. TypeOK
  BY PointsOfWindow DEF TypeOK
<1> USE SizeAssumption, AreaAssumption DEF Corner
<1>2. HistoryTypeOK /\ OffsetIsOrigin /\ SelectionIsUsable
  BY DEF HistoryTypeOK, OffsetIsOrigin, SelectionIsUsable
<1>3. WindowIsTrue /\ NothingIsDrawn /\ DrawnInside
  BY DEF WindowIsTrue, NothingIsDrawn, DrawnInside, RegionInImage, Size
<1>4. QED
  BY <1>1, <1>2, <1>3 DEF IInv

-----------------------------------------------------------------------------
(***************************************************************************)
(* The two actions that change the crop in force.                          *)
(***************************************************************************)

\* The region that a button's release selects, and what it keeps.
LEMMA ButtonUpSelects ==
  ASSUME IInv, ButtonUp
  PROVE  /\ origin' \in Nat \X Nat /\ target' \in Nat \X Nat
         /\ offset' = origin' /\ cropped'
         /\ ~dragging' /\ start' = Corner /\ end' = Corner
         /\ UNCHANGED <<phase, selecting, shown>>
         /\ Area(origin', target') > MinArea
         /\ Within(origin', target')
         /\ sharp => /\ RegionInImage'
                     /\ cropped => Within(origin, origin') /\ Within(target', target)
<1> USE SizeAssumption, AreaAssumption
<1>1. start \in Nat \X Nat /\ end \in Nat \X Nat /\ offset \in Nat \X Nat
  BY DEF IInv, TypeOK, Point
<1>2. /\ origin' = Plus(Least(start, end), offset)
      /\ target' = Plus(Most(start, end), offset)
      /\ cropped' = TRUE /\ dragging' = FALSE
      /\ offset' = Plus(offset, Least(start, end))
      /\ start' = Corner /\ end' = Corner
      /\ UNCHANGED <<phase, selecting, shown>>
      /\ Area(start, end) > MinArea /\ dragging
  BY DEF ButtonUp, SetCropping
<1>3. offset' = origin'
  BY <1>1, <1>2 DEF Plus, Least
<1>4. origin' \in Nat \X Nat /\ target' \in Nat \X Nat /\ Within(origin', target')
  BY <1>1, <1>2, MovedArea
<1>5. Area(origin', target') > MinArea
  <2>1. Area(origin', target') = Area(start, end)
    BY <1>1, <1>2, MovedArea
  <2>2. QED
    BY <1>2, <2>1
<1>6. ASSUME sharp
      PROVE  /\ RegionInImage'
             /\ cropped => Within(origin, origin') /\ Within(target', target)
  <2>1. RegionInImage /\ Within(start, Size) /\ Within(end, Size)
    BY <1>2, <1>6 DEF IInv, DrawnInside
  <2>2. offset = (IF cropped THEN origin ELSE Corner) /\ cropped \in BOOLEAN
        /\ origin \in Nat \X Nat /\ target \in Nat \X Nat
    BY DEF IInv, OffsetIsOrigin, TypeOK
  <2>3. Within(Most(start, end), Size)
    BY <2>1 DEF Within, Most
  <2>4. CASE cropped
    <3>1. Within(origin, origin')
      BY <1>1, <1>2, <2>2, <2>4 DEF Within, Plus, Least
    <3>2. Within(target', target)
      BY <1>1, <1>2, <2>2, <2>3, <2>4 DEF Within, Plus, Minus, Size, Most
    <3>3. Within(target', Image)
      BY <1>4, <2>1, <2>2, <2>4, <3>2, SizeAssumption DEF RegionInImage, Within, Image
    <3>4. Within(Corner, origin')
      BY <1>4 DEF Within, Corner
    <3>5. QED
      BY <1>4, <3>1, <3>2, <3>3, <3>4 DEF RegionInImage
  <2>5. CASE ~cropped
    <3>1. Within(target', Image)
      BY <1>1, <1>2, <2>2, <2>3, <2>5 DEF Within, Plus, Size, Most, Corner
    <3>2. Within(Corner, origin')
      BY <1>4 DEF Within, Corner
    <3>3. QED
      BY <1>4, <2>5, <3>1, <3>2 DEF RegionInImage
  <2>6. QED
    BY <2>2, <2>4, <2>5
<1>7. QED
  BY <1>2, <1>3, <1>4, <1>5, <1>6

LEMMA ButtonUpIInv ==
  ASSUME IInv, ButtonUp, MCNext
  PROVE  IInv'
<1> USE SizeAssumption
<1>1. /\ origin' \in Nat \X Nat /\ target' \in Nat \X Nat
      /\ offset' = origin' /\ cropped'
      /\ ~dragging' /\ start' = Corner /\ end' = Corner
      /\ UNCHANGED <<phase, selecting, shown>>
      /\ Area(origin', target') > MinArea
      /\ sharp => RegionInImage'
  BY ButtonUpSelects
<1>2. dragging' = FALSE /\ cropped' = TRUE
  BY DEF ButtonUp, SetCropping
<1>3. ~RightButtonUp
  BY DEF ButtonUp, RightButtonUp
<1>4. current' = FALSE /\ faithful' = (faithful /\ sharp) /\ sharp' \in BOOLEAN
  BY <1>3 DEF MCNext, IInv, HistoryTypeOK
<1>5. TypeOK'
  BY <1>1, <1>2, PointsOfWindow DEF IInv, TypeOK
<1>6. HistoryTypeOK'
  BY <1>4 DEF HistoryTypeOK, IInv
<1>7. OffsetIsOrigin' /\ WindowIsTrue' /\ NothingIsDrawn' /\ DrawnInside'
  BY <1>1, <1>2, <1>4 DEF OffsetIsOrigin, WindowIsTrue, NothingIsDrawn, DrawnInside
<1>8. SelectionIsUsable'
  BY <1>1, <1>4 DEF SelectionIsUsable
<1>9. QED
  BY <1>5, <1>6, <1>7, <1>8 DEF IInv

LEMMA RightButtonUpIInv ==
  ASSUME IInv, RightButtonUp, MCNext
  PROVE  IInv'
<1> USE SizeAssumption DEF RightButtonUp
<1>1. current' = FALSE /\ faithful' = TRUE /\ sharp' \in BOOLEAN
  BY DEF MCNext, IInv, HistoryTypeOK
<1>2. TypeOK' /\ HistoryTypeOK'
  BY <1>1, PointsOfWindow DEF IInv, TypeOK, HistoryTypeOK
<1>3. OffsetIsOrigin' /\ WindowIsTrue' /\ NothingIsDrawn' /\ DrawnInside' /\ SelectionIsUsable'
  BY <1>1 DEF OffsetIsOrigin, WindowIsTrue, NothingIsDrawn, DrawnInside, SelectionIsUsable
<1>4. QED
  BY <1>2, <1>3 DEF IInv

-----------------------------------------------------------------------------
(***************************************************************************)
(* All other actions leave the crop in force, and the offset, alone.       *)
(***************************************************************************)
LEMMA OtherIInv ==
  ASSUME IInv, MCNext, ~ButtonUp, ~RightButtonUp
  PROVE  IInv'
<1> USE SizeAssumption
<1>1. /\ current' = IF ShowFrame THEN TRUE ELSE current
      /\ sharp' = IF \E p \in Point : ButtonDown(p) THEN current
                  ELSE sharp /\ (current \/ end' = end)
      /\ faithful' = faithful
  BY DEF MCNext
<1>2. HistoryTypeOK'
  BY <1>1 DEF IInv, HistoryTypeOK
<1>3. ASSUME NEW p \in Point, MouseMove(p)
      PROVE  IInv'
  <2> USE <1>3 DEF MouseMove, CanEvent, streamVars
  <2>1. ~ShowFrame \/ current' = TRUE
    BY <1>1
  <2>2. TypeOK' /\ OffsetIsOrigin' /\ NothingIsDrawn'
    BY DEF IInv, TypeOK, OffsetIsOrigin, NothingIsDrawn
  <2>3. ~ShowFrame \/ (RegionInImage /\ shown = Size)
    BY DEF ShowFrame, Showable
  <2>4. UNCHANGED <<RegionInImage, Size, SelectionIsUsable>>
    BY <1>1 DEF RegionInImage, Size, SelectionIsUsable
  <2>5. WindowIsTrue'
    BY <1>1, <2>3, <2>4 DEF IInv, WindowIsTrue
  <2>6. sharp' = (sharp /\ (current \/ end' = end))
    BY <1>1 DEF ButtonDown
  <2>7. current => Within(p, Size)
    <3>1. current => shown = Size
      BY DEF IInv, WindowIsTrue
    <3>2. Within(p, shown)
      BY DEF InWindow, Within, IInv, TypeOK, Point
    <3>3. QED
      BY <3>1, <3>2
  <2>8. DrawnInside'
    BY <2>4, <2>6, <2>7 DEF IInv, DrawnInside
  <2>9. QED
    BY <1>2, <2>2, <2>4, <2>5, <2>8 DEF IInv
<1>4. ASSUME NEW p \in Point, ButtonDown(p)
      PROVE  IInv'
  <2> USE <1>4 DEF ButtonDown, CanEvent, streamVars
  <2>1. sharp' = current
    BY <1>1
  <2>2. TypeOK' /\ OffsetIsOrigin' /\ NothingIsDrawn'
    BY DEF IInv, TypeOK, OffsetIsOrigin, NothingIsDrawn
  <2>3. UNCHANGED <<RegionInImage, Size, SelectionIsUsable>>
    BY <1>1 DEF RegionInImage, Size, SelectionIsUsable
  <2>4. ~ShowFrame
    BY DEF ShowFrame, cameraVars, IInv, TypeOK
  <2>5. WindowIsTrue'
    BY <1>1, <2>3, <2>4 DEF IInv, WindowIsTrue
  <2>6. current => RegionInImage /\ Within(p, Size) /\ Within(Corner, Size)
    <3>1. current => RegionInImage /\ shown = Size
      BY DEF IInv, WindowIsTrue
    <3>2. Within(p, shown) /\ Within(Corner, shown)
      BY DEF InWindow, Within, Corner, IInv, TypeOK, Point
    <3>3. QED
      BY <3>1, <3>2
  <2>7. DrawnInside'
    BY <2>1, <2>3, <2>6 DEF IInv, DrawnInside, NothingIsDrawn
  <2>8. QED
    BY <1>2, <2>2, <2>3, <2>5, <2>7 DEF IInv
<1>5. CASE ShowFrame
  <2> USE <1>5 DEF ShowFrame, cameraVars, streamVars
  <2>1. RegionInImage
    BY DEF Showable
  <2>2. Size \in Point
    <3>1. /\ origin \in Nat \X Nat /\ target \in Nat \X Nat
          /\ cropped => Within(origin, target) /\ Within(target, Image)
      BY <2>1 DEF RegionInImage, IInv, TypeOK
    <3>2. cropped => Size \in Nat \X Nat /\ Within(Size, Image)
      BY <3>1 DEF Size, Within, Minus, Image
    <3>3. ~cropped => Size = Image
      BY DEF Size
    <3>4. QED
      BY <3>2, <3>3, PointsOfWindow
  <2>3. TypeOK'
    BY <2>2 DEF IInv, TypeOK
  <2>4. UNCHANGED <<RegionInImage, Size, SelectionIsUsable, OffsetIsOrigin, NothingIsDrawn>>
    BY <1>1 DEF RegionInImage, Size, SelectionIsUsable, OffsetIsOrigin, NothingIsDrawn
  <2>5. ~(\E p \in Point : ButtonDown(p))
    BY DEF ButtonDown, IInv, TypeOK
  <2>6. WindowIsTrue'
    BY <2>1, <2>4 DEF WindowIsTrue
  <2>7. DrawnInside'
    BY <1>1, <2>4, <2>5 DEF IInv, DrawnInside
  <2>8. QED
    BY <1>2, <2>3, <2>4, <2>6, <2>7 DEF IInv
<1>6. CASE Submit \/ UpdateThrows
  <2> USE <1>6 DEF Submit, UpdateThrows, cameraVars, streamVars
  <2>1. TypeOK'
    BY DEF IInv, TypeOK
  <2>2. UNCHANGED <<RegionInImage, Size, SelectionIsUsable, OffsetIsOrigin, NothingIsDrawn>>
    BY <1>1 DEF RegionInImage, Size, SelectionIsUsable, OffsetIsOrigin, NothingIsDrawn
  <2>3. ~(\E p \in Point : ButtonDown(p))
    BY DEF ButtonDown, IInv, TypeOK
  <2>4. ~ShowFrame \/ (RegionInImage /\ ~selecting')
    BY DEF ShowFrame, Showable, CanEvent
  <2>5. WindowIsTrue'
    BY <1>1, <2>2, <2>4 DEF IInv, WindowIsTrue
  <2>6. DrawnInside'
    BY <1>1, <2>2, <2>3 DEF IInv, DrawnInside
  <2>7. QED
    BY <1>2, <2>1, <2>2, <2>5, <2>6 DEF IInv
<1>7. QED
  BY <1>3, <1>4, <1>5, <1>6 DEF MCNext, Next

LEMMA StepIInv == IInv /\ [MCNext]_<<vars, history>> => IInv'
<1> SUFFICES ASSUME IInv, [MCNext]_<<vars, history>> PROVE IInv'
  OBVIOUS
<1>1. CASE MCNext
  BY <1>1, ButtonUpIInv, RightButtonUpIInv, OtherIInv
<1>2. CASE UNCHANGED <<vars, history>>
  BY <1>2 DEF IInv, TypeOK, HistoryTypeOK, OffsetIsOrigin, WindowIsTrue, NothingIsDrawn,
    DrawnInside, SelectionIsUsable, RegionInImage, Size, vars, history, cameraVars, streamVars
<1>3. QED
  BY <1>1, <1>2

-----------------------------------------------------------------------------
LEMMA InvariantHolds == MCSpec => []IInv
BY InitIInv, StepIInv, PTL DEF MCSpec

\* Every variable of the crop selection keeps its type: the points of the mouse
\* are within the larger of the image and the blank image that Camera.hpp shows
\* until a frame comes, in either direction, and the crop has no negative corner.
THEOREM TypeCorrect == MCSpec => []TypeOK
<1>1. IInv => TypeOK
  BY DEF IInv
<1>2. QED
  BY InvariantHolds, <1>1, PTL

\* The offset that croppingEvent accumulates never drifts from the crop in
\* force, for any size of the image and any sequence of events.
THEOREM OffsetNeverDrifts == MCSpec => []OffsetIsOrigin
<1>1. IInv => OffsetIsOrigin
  BY DEF IInv
<1>2. QED
  BY InvariantHolds, <1>1, PTL

\* What was drawn on an image of the camera, with the crop in force in the
\* window, is a region that OpenCV accepts, however many selections came before;
\* what was drawn on the blank image, or before the window showed the last
\* choice, need not be.
THEOREM SelectionsAreUsable == MCSpec => []SelectionIsUsable
<1>1. IInv => SelectionIsUsable
  BY DEF IInv
<1>2. QED
  BY InvariantHolds, <1>1, PTL

\* Selecting again, on an image that shows the crop in force, only narrows the crop.
THEOREM SelectionsNarrow == MCSpec => SelectingNarrows
<1> DEFINE Narrows ==
      cropped /\ cropped' /\ faithful' /\ <<origin, target>> # <<origin', target'>> =>
        Within(origin, origin') /\ Within(target', target)
<1>1. IInv /\ [MCNext]_<<vars, history>> => [Narrows]_<<vars, history>>
  <2> SUFFICES ASSUME IInv, MCNext PROVE Narrows
    OBVIOUS
  <2>1. CASE ButtonUp
    <3>1. faithful' => sharp
      BY <2>1 DEF MCNext, ButtonUp, RightButtonUp
    <3>2. QED
      BY <2>1, <3>1, ButtonUpSelects
  <2>2. CASE ~ButtonUp
    BY <2>2 DEF MCNext, Next, MouseMove, ButtonDown, RightButtonUp, Submit, ShowFrame, UpdateThrows,
      streamVars
  <2>3. QED
    BY <2>1, <2>2
<1>2. QED
  BY InvariantHolds, <1>1, PTL DEF MCSpec, SelectingNarrows

=============================================================================
