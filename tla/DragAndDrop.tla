---------------------------- MODULE DragAndDrop ----------------------------
(***************************************************************************)
(* What somebody with a mouse expects of a window that nothing covers: it  *)
(* is picked up by pressing button 1 over it, goes where the cursor goes   *)
(* until a button says otherwise, and stays where it is put down.          *)
(***************************************************************************)
EXTENDS Integers

CONSTANTS
  Screen,    (* the points a cursor can be at                              *)
  Buttons,   (* the buttons of the mouse                                   *)
  Home       (* where the window is at first: [x, y, width, height]        *)

VARIABLES cursor, pressed, place, held

vars == <<cursor, pressed, place, held>>

Covers(w, p) ==
  /\ w.x <= p.x /\ p.x < w.x + w.width
  /\ w.y <= p.y /\ p.y < w.y + w.height

Carried(w, p, q) ==
  [x |-> w.x + q.x - p.x, y |-> w.y + q.y - p.y, width |-> w.width, height |-> w.height]

Init ==
  /\ cursor \in Screen /\ pressed = {}
  /\ place = Home /\ held = FALSE

Next ==
  /\ cursor' \in Screen /\ pressed' \in SUBSET Buttons /\ held' \in BOOLEAN
  /\ place' = IF held THEN Carried(place, cursor, cursor') ELSE place
  /\ held' => 1 \in pressed' /\ Covers(place', cursor')
  /\ held' /\ ~held => 1 \notin pressed
  /\ held /\ pressed' = pressed => held'

Spec == Init /\ [][Next]_vars
=============================================================================
