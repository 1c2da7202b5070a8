------------------------------ MODULE Desktop ------------------------------
(***************************************************************************)
(* Desktop, CompositeWidget and Window (source/gui), driven by packets of  *)
(* the mouse driver: how the cursor moves, to which of several overlapping *)
(* windows an event goes, and how a window is dragged.  The windows have no*)
(* children of their own.                                                  *)
(***************************************************************************)
EXTENDS Integers, Sequences

CONSTANTS
  DesktopWidth, DesktopHeight,
  Windows,       (* the windows kernelMain adds: [x, y, width, height]     *)
  MaxChildren,   (* max_nof_childrens, 100                                 *)
  Deltas,        (* the motions a packet may report, per axis              *)
  Presses        (* the sets of buttons a packet may report                *)

Buttons == 1 .. 3

Screen == [x : 0 .. DesktopWidth - 1, y : 0 .. DesktopHeight - 1]

Contains(w, p) ==
  /\ w.x <= p.x /\ p.x < w.x + w.width
  /\ w.y <= p.y /\ p.y < w.y + w.height

Area == [x : Int, y : Int, width : Nat \ {0}, height : Nat \ {0}]

(* A window can be seen at first, and the array has places for all.        *)
ASSUME DesktopAssumption ==
  /\ DesktopWidth \in Nat \ {0} /\ DesktopHeight \in Nat \ {0}
  /\ Windows \in Seq(Area) /\ Len(Windows) > 0
  /\ MaxChildren \in Nat /\ Len(Windows) <= MaxChildren
  /\ \A i \in 1 .. Len(Windows) : \E p \in Screen : Contains(Windows[i], p)
  /\ Deltas \subseteq Int
  /\ Presses \subseteq SUBSET Buttons

VARIABLES
  cursor,        (* mouse_x, mouse_y                                       *)
  buttons,       (* MouseDriver::buttons, as a set                         *)
  childrens      (* the windows, the one in front first                    *)

desktopVars == <<cursor, buttons, childrens>>

Window == [x : Int, y : Int, width : Nat \ {0}, height : Nat \ {0}, dragged : BOOLEAN]

NewWindow(w) ==
  [x |-> w.x, y |-> w.y, width |-> w.width, height |-> w.height, dragged |-> FALSE]

DesktopInit ==
  /\ cursor = [x |-> DesktopWidth \div 2, y |-> DesktopHeight \div 2]
  /\ buttons = {} /\ childrens = <<>>

(* addChild                                                                *)
AddChild(w) ==
  childrens' = IF Len(childrens) < MaxChildren
               THEN Append(childrens, NewWindow(w)) ELSE childrens

(* The first child that contains p, 0 if none does.                        *)
IsFirst(ch, p, i) ==
  Contains(ch[i], p) /\ \A j \in 1 .. i - 1 : ~Contains(ch[j], p)

ChildAt(ch, p) ==
  IF \E i \in 1 .. Len(ch) : IsFirst(ch, p, i)
  THEN CHOOSE i \in 1 .. Len(ch) : IsFirst(ch, p, i) ELSE 0

(* Window::onMouseMove                                                     *)
Dragged(w, old, new) ==
  IF w.dragged THEN [w EXCEPT !.x = @ + new.x - old.x, !.y = @ + new.y - old.y]
  ELSE w

(* child i of ch, if i is one, gets a motion from old to new.              *)
Moved(ch, i, old, new) ==
  IF i = 0 THEN ch ELSE [ch EXCEPT ![i] = Dragged(@, old, new)]

(* Mutant: the child is told twice, once for where the cursor was and once *)
(* for where it is.                                                        *)
OnMouseMoveTwice(ch, old, new) ==
  LET left == Moved(ch, ChildAt(ch, old), old, new)
  IN  Moved(left, ChildAt(left, new), old, new)

(* CompositeWidget::onMouseMove: the child under the old position, then, if*)
(* it is another one, the child that is by now under the new position.     *)
OnMouseMove(ch, old, new) ==
  LET first_child == ChildAt(ch, old)
      left        == Moved(ch, first_child, old, new)
      i           == ChildAt(left, new)
  IN  IF i = first_child THEN left ELSE Moved(left, i, old, new)

(* Mutant: any button picks a window up.                                   *)
PickedUpAny(w, button) == [w EXCEPT !.dragged = TRUE]

(* Window::onMouseDown and onMouseUp.                                      *)
PickedUp(w, button) == [w EXCEPT !.dragged = (button = 1)]
PutDown(w) == [w EXCEPT !.dragged = FALSE]

(* CompositeWidget::onMouseDown and onMouseUp: the child under the cursor. *)
OnMouseDown(ch, p, button) ==
  IF ChildAt(ch, p) = 0 THEN ch
  ELSE [ch EXCEPT ![ChildAt(ch, p)] = PickedUp(@, button)]

OnMouseUp(ch, p, button) ==
  IF ChildAt(ch, p) = 0 THEN ch
  ELSE [ch EXCEPT ![ChildAt(ch, p)] = PutDown(@)]

(* MouseDriver::handleInterrupt: button b, if the packet changes it.       *)
OnButton(ch, p, b, before, after) ==
  CASE b \in before /\ b \notin after -> OnMouseUp(ch, p, b)
    [] b \notin before /\ b \in after -> OnMouseDown(ch, p, b)
    [] (b \in before) <=> (b \in after) -> ch

(* The loop over the three buttons.                                        *)
OnButtons(ch, p, before, after) ==
  OnButton(OnButton(OnButton(ch, p, 1, before, after), p, 2, before, after),
           p, 3, before, after)

(* delta / 4, which C rounds towards zero.                                 *)
Quarter(delta) == IF delta >= 0 THEN delta \div 4 ELSE -((-delta) \div 4)

(* Mutant: the size itself passes for a position.                          *)
ClipLate(v, size) == IF v < 0 THEN 0 ELSE IF v > size THEN size - 1 ELSE v

Clip(v, size) == IF v < 0 THEN 0 ELSE IF v >= size THEN size - 1 ELSE v

(* Desktop::onMouseMove, where the cursor goes.                            *)
NewCursor(dx, dy) ==
  [x |-> Clip(cursor.x + Quarter(dx), DesktopWidth),
   y |-> Clip(cursor.y + Quarter(dy), DesktopHeight)]

(* A whole packet; one without motion is thrown away, buttons and all.     *)
Packet(dx, dy, pressed) ==
  /\ dx # 0 \/ dy # 0
  /\ cursor' = NewCursor(dx, dy)
  /\ childrens' = OnButtons(OnMouseMove(childrens, cursor, cursor'), cursor',
                            buttons, pressed)
  /\ buttons' = pressed
-----------------------------------------------------------------------------
(* The window in front; before it is added, as it is going to be.          *)
Front == IF childrens = <<>> THEN NewWindow(Windows[1]) ELSE childrens[1]

(* However the mouse is moved, clicked or lost over other windows, a point *)
(* of the window in front stays on the desktop, so that it can be caught,  *)
(* and it moves only under the cursor while button 1 is down: a drag is    *)
(* never left behind when the button comes up somewhere else.              *)
FrontStaysInReach ==
  /\ \E p \in Screen : Contains(Front, p)
  /\ Front.dragged => Contains(Front, cursor) /\ 1 \in buttons

(* The window in front is dragged and dropped as DragAndDrop says.         *)
FrontWindow ==
  INSTANCE DragAndDrop WITH
    Home <- Windows[1],
    pressed <- buttons,
    place <- [x |-> Front.x, y |-> Front.y, width |-> Front.width, height |-> Front.height],
    held <- Front.dragged
DragAndDropHolds == FrontWindow!Spec
=============================================================================
