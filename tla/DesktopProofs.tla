--------------------------- MODULE DesktopProofs ---------------------------
(***************************************************************************)
(* What a packet of the mouse does to the cursor and to the window in      *)
(* front, for any desktop, any number of windows of any size, anywhere, and*)
(* any motion.                                                             *)
(***************************************************************************)
EXTENDS Desktop, TLAPS

(* Positions and sizes of window v are those of w.                         *)
SamePlace(v, w) == v.x = w.x /\ v.y = w.y /\ v.width = w.width /\ v.height = w.height

(* What the event of button b at p makes of ch[1].                         *)
ButtonEffect(new, ch, p, b, before, after) ==
  /\ SamePlace(new, ch[1])
  /\ Contains(new, p) <=> Contains(ch[1], p)
  /\ ~Contains(ch[1], p) => new = ch[1]
  /\ ((b \in before) <=> (b \in after)) => new = ch[1]
  /\ ~((b \in before) <=> (b \in after)) /\ Contains(ch[1], p) =>
       (new.dragged <=> b = 1 /\ b \in after)
-----------------------------------------------------------------------------
(* An event goes to one of the children or to none.                        *)
LEMMA ChildAtRange ==
  ASSUME NEW ch \in Seq(Window), NEW p
  PROVE  ChildAt(ch, p) \in 0 .. Len(ch)
  <1>1. CASE \E i \in 1 .. Len(ch) : IsFirst(ch, p, i)
    <2>1. ChildAt(ch, p) \in 1 .. Len(ch)
      BY <1>1 DEF ChildAt
    <2> QED BY <2>1
  <1>2. CASE ~ \E i \in 1 .. Len(ch) : IsFirst(ch, p, i)
    BY <1>2 DEF ChildAt
  <1> QED BY <1>1, <1>2

(* The window in front gets every event over it, and no other.             *)
LEMMA FrontFirst ==
  ASSUME NEW ch \in Seq(Window), Len(ch) > 0, NEW p
  PROVE  (ChildAt(ch, p) = 1) <=> Contains(ch[1], p)
  <1>1. ASSUME Contains(ch[1], p) PROVE ChildAt(ch, p) = 1
    <2>1. 1 \in 1 .. Len(ch) /\ IsFirst(ch, p, 1)
      BY <1>1 DEF IsFirst
    <2>2. \A i \in 1 .. Len(ch) : IsFirst(ch, p, i) => i = 1
      BY <1>1 DEF IsFirst
    <2> QED BY <2>1, <2>2 DEF ChildAt
  <1>2. ASSUME ChildAt(ch, p) = 1 PROVE Contains(ch[1], p)
    <2>1. \E i \in 1 .. Len(ch) : IsFirst(ch, p, i)
      BY <1>2 DEF ChildAt
    <2>2. IsFirst(ch, p, ChildAt(ch, p))
      BY <2>1 DEF ChildAt
    <2> QED BY <1>2, <2>2 DEF IsFirst
  <1> QED BY <1>1, <1>2

(* A motion keeps a window a window, of the same size.                     *)
LEMMA DraggedType ==
  ASSUME NEW w \in Window, NEW old \in Screen, NEW new \in Screen
  PROVE  /\ Dragged(w, old, new) \in Window
         /\ Dragged(w, old, new).dragged = w.dragged
         /\ ~w.dragged => Dragged(w, old, new) = w
         /\ w.dragged => /\ Dragged(w, old, new).x = w.x + new.x - old.x
                         /\ Dragged(w, old, new).y = w.y + new.y - old.y
                         /\ Dragged(w, old, new).width = w.width
                         /\ Dragged(w, old, new).height = w.height
  <1>1. /\ old.x \in Int /\ old.y \in Int /\ new.x \in Int /\ new.y \in Int
    BY DesktopAssumption DEF Screen
  <1>2. CASE w.dragged
    <2>1. Dragged(w, old, new) =
            [w EXCEPT !.x = w.x + new.x - old.x, !.y = w.y + new.y - old.y]
      BY <1>2 DEF Dragged
    <2>2. /\ w.x + new.x - old.x \in Int /\ w.y + new.y - old.y \in Int
          /\ w.x \in Int /\ w.y \in Int
      BY <1>1 DEF Window
    <2> DEFINE u == w.x + new.x - old.x
               v == w.y + new.y - old.y
    <2>3. [w EXCEPT !.x = u, !.y = v] \in Window
      <3> HIDE DEF u, v
      <3> QED BY <2>2 DEF Window, u, v
    <2>4. /\ [w EXCEPT !.x = u, !.y = v].x = u
          /\ [w EXCEPT !.x = u, !.y = v].y = v
          /\ [w EXCEPT !.x = u, !.y = v].width = w.width
          /\ [w EXCEPT !.x = u, !.y = v].height = w.height
          /\ [w EXCEPT !.x = u, !.y = v].dragged = w.dragged
      <3> HIDE DEF u, v
      <3> QED BY DEF Window
    <2> QED BY <1>2, <2>1, <2>3, <2>4
  <1>3. CASE ~w.dragged
    BY <1>3 DEF Dragged
  <1> QED BY <1>2, <1>3

LEMMA MovedType ==
  ASSUME NEW ch \in Seq(Window), NEW i \in 0 .. Len(ch),
         NEW old \in Screen, NEW new \in Screen
  PROVE  /\ Moved(ch, i, old, new) \in Seq(Window)
         /\ Len(Moved(ch, i, old, new)) = Len(ch)
         /\ i = 1 => Moved(ch, i, old, new)[1] = Dragged(ch[1], old, new)
         /\ i # 1 => Moved(ch, i, old, new)[1] = ch[1]
  <1>1. CASE i = 0
    BY <1>1 DEF Moved
  <1>2. CASE i # 0
    <2>1. i \in 1 .. Len(ch) /\ ch[i] \in Window
      BY <1>2
    <2>2. Dragged(ch[i], old, new) \in Window
      BY <2>1, DraggedType
    <2>3. Moved(ch, i, old, new) = [ch EXCEPT ![i] = Dragged(ch[i], old, new)]
      BY <1>2 DEF Moved
    <2> QED BY <2>1, <2>2, <2>3
  <1> QED BY <1>1, <1>2

(* The window in front, as long as it is dragged only when the cursor is   *)
(* over it, goes wherever the cursor goes.                                 *)
LEMMA FrontMoved ==
  ASSUME NEW ch \in Seq(Window), NEW old \in Screen, NEW new \in Screen
  PROVE  /\ OnMouseMove(ch, old, new) \in Seq(Window)
         /\ Len(OnMouseMove(ch, old, new)) = Len(ch)
         /\ Len(ch) > 0 /\ (ch[1].dragged => Contains(ch[1], old)) =>
              OnMouseMove(ch, old, new)[1] = Dragged(ch[1], old, new)
  <1> DEFINE f == ChildAt(ch, old)
             left == Moved(ch, f, old, new)
             i == ChildAt(left, new)
  <1>1. f \in 0 .. Len(ch)
    BY ChildAtRange
  <1>2. left \in Seq(Window) /\ Len(left) = Len(ch)
    BY <1>1, MovedType
  <1>3. i \in 0 .. Len(left)
    BY <1>2, ChildAtRange
  <1>4. OnMouseMove(ch, old, new) = IF i = f THEN left ELSE Moved(left, i, old, new)
    BY DEF OnMouseMove
  <1>5. /\ Moved(left, i, old, new) \in Seq(Window)
        /\ Len(Moved(left, i, old, new)) = Len(left)
        /\ i = 1 => Moved(left, i, old, new)[1] = Dragged(left[1], old, new)
        /\ i # 1 => Moved(left, i, old, new)[1] = left[1]
    BY <1>2, <1>3, MovedType
  <1>6. ASSUME Len(ch) > 0, ch[1].dragged => Contains(ch[1], old)
        PROVE  OnMouseMove(ch, old, new)[1] = Dragged(ch[1], old, new)
    <2>1. ch[1] \in Window
      BY <1>6
    <2>2. CASE f = 1
      <3>1. left[1] = Dragged(ch[1], old, new)
        BY <1>1, <2>2, MovedType
      <3>2. i = 1 => i = f
        BY <2>2
      <3> HIDE DEF f, left, i
      <3> QED BY <1>4, <1>5, <3>1, <3>2
    <2>3. CASE f # 1
      <3>1. ~ch[1].dragged
        BY <1>6, <2>3, FrontFirst
      <3>2. Dragged(ch[1], old, new) = ch[1]
        BY <2>1, <3>1, DraggedType
      <3>3. left[1] = ch[1]
        BY <1>1, <2>3, MovedType
      <3> HIDE DEF f, left, i
      <3> QED BY <1>4, <1>5, <3>2, <3>3
    <2> QED BY <2>2, <2>3
  <1> HIDE DEF f, left, i
  <1> QED BY <1>2, <1>4, <1>5, <1>6

(* A button event moves nothing, and tells only the child under the cursor.*)
LEMMA FrontButton ==
  ASSUME NEW ch \in Seq(Window), NEW p \in Screen, NEW b \in Buttons,
         NEW before, NEW after
  PROVE  /\ OnButton(ch, p, b, before, after) \in Seq(Window)
         /\ Len(OnButton(ch, p, b, before, after)) = Len(ch)
         /\ Len(ch) > 0 =>
              ButtonEffect(OnButton(ch, p, b, before, after)[1], ch, p, b, before, after)
  <1> DEFINE new == OnButton(ch, p, b, before, after)
             i == ChildAt(ch, p)
  <1> SUFFICES /\ new \in Seq(Window) /\ Len(new) = Len(ch)
               /\ Len(ch) > 0 => ButtonEffect(new[1], ch, p, b, before, after)
    OBVIOUS
  <1>1. i \in 0 .. Len(ch)
    BY ChildAtRange
  <1>2. Len(ch) > 0 => ((i = 1) <=> Contains(ch[1], p))
    BY FrontFirst
  <1>3. CASE (b \in before) <=> (b \in after)
    <2>1. new = ch
      BY <1>3 DEF OnButton
    <2> HIDE DEF new
    <2> QED BY <1>3, <2>1 DEF SamePlace, ButtonEffect
  <1>4. CASE ~((b \in before) <=> (b \in after))
    <2> DEFINE d == (b = 1 /\ b \in after)
    <2>1. new = IF i = 0 THEN ch ELSE [ch EXCEPT ![i] = [ch[i] EXCEPT !.dragged = d]]
      BY <1>4 DEF OnButton, OnMouseDown, OnMouseUp, PickedUp, PutDown
    <2>2. CASE i = 0
      <3> HIDE DEF new, i
      <3> QED BY <1>2, <1>4, <2>1, <2>2 DEF SamePlace, ButtonEffect
    <2>3. CASE i # 0
      <3>1. i \in 1 .. Len(ch) /\ ch[i] \in Window /\ d \in BOOLEAN
        BY <1>1, <2>3
      <3>2. [ch[i] EXCEPT !.dragged = d] \in Window
        BY <3>1 DEF Window
      <3>3. new = [ch EXCEPT ![i] = [ch[i] EXCEPT !.dragged = d]]
        BY <2>1, <2>3
      <3>4. new \in Seq(Window) /\ Len(new) = Len(ch)
        <4> HIDE DEF new, i, d
        <4> QED BY <3>1, <3>2, <3>3
      <3>5. Len(ch) > 0 => new[1] = IF i = 1 THEN [ch[1] EXCEPT !.dragged = d] ELSE ch[1]
        <4> HIDE DEF new, i, d
        <4> QED BY <3>1, <3>3
      <3>6. Len(ch) > 0 => ch[1] \in Window
        OBVIOUS
      <3>7. Len(ch) > 0 =>
              /\ SamePlace(new[1], ch[1])
              /\ i = 1 => (new[1].dragged <=> d)
              /\ i # 1 => new[1] = ch[1]
        <4> HIDE DEF new, i, d
        <4> QED BY <3>5, <3>6 DEF SamePlace, Window
      <3> HIDE DEF new, i
      <3> QED BY <1>2, <1>4, <3>4, <3>7 DEF SamePlace, Contains, ButtonEffect
    <2> QED BY <2>2, <2>3
  <1> QED BY <1>3, <1>4

(* Rounding and clipping keep the cursor on the desktop.                   *)
LEMMA CursorOnDesktop ==
  ASSUME cursor \in Screen, NEW dx \in Int, NEW dy \in Int
  PROVE  NewCursor(dx, dy) \in Screen
  <1>1. \A d \in Int : Quarter(d) \in Int
    BY DEF Quarter
  <1>2. \A v \in Int, size \in Nat \ {0} : Clip(v, size) \in 0 .. size - 1
    BY DEF Clip
  <1>3. /\ cursor.x \in Int /\ cursor.y \in Int
        /\ DesktopWidth \in Nat \ {0} /\ DesktopHeight \in Nat \ {0}
    BY DesktopAssumption DEF Screen
  <1>4. cursor.x + Quarter(dx) \in Int /\ cursor.y + Quarter(dy) \in Int
    BY <1>1, <1>3
  <1> QED BY <1>2, <1>3, <1>4 DEF NewCursor, Screen

(* What the three buttons of a packet make of the window in front.         *)
LEMMA FrontButtons ==
  ASSUME NEW ch \in Seq(Window), NEW p \in Screen, NEW before, NEW after,
         Len(ch) > 0, ch[1].dragged => Contains(ch[1], p) /\ 1 \in before
  PROVE  LET v == OnButtons(ch, p, before, after)[1]
         IN  /\ SamePlace(v, ch[1])
             /\ v.dragged => Contains(v, p) /\ 1 \in after
             /\ v.dragged /\ ~ch[1].dragged => 1 \notin before
             /\ before = after => v = ch[1]
  <1> DEFINE c1 == OnButton(ch, p, 1, before, after)
             c2 == OnButton(c1, p, 2, before, after)
             c3 == OnButton(c2, p, 3, before, after)
  <1>0. 1 \in Buttons /\ 2 \in Buttons /\ 3 \in Buttons
    BY DEF Buttons
  <1>1. c1 \in Seq(Window) /\ Len(c1) = Len(ch) /\ ButtonEffect(c1[1], ch, p, 1, before, after)
    BY <1>0, FrontButton
  <1>2. c2 \in Seq(Window) /\ Len(c2) = Len(ch) /\ ButtonEffect(c2[1], c1, p, 2, before, after)
    <2> HIDE DEF c1
    <2> QED BY <1>0, <1>1, FrontButton
  <1>3. c3 \in Seq(Window) /\ Len(c3) = Len(ch) /\ ButtonEffect(c3[1], c2, p, 3, before, after)
    <2> HIDE DEF c1, c2
    <2> QED BY <1>0, <1>2, FrontButton
  <1>4. OnButtons(ch, p, before, after) = c3
    BY DEF OnButtons
  <1> SUFFICES /\ SamePlace(c3[1], ch[1])
               /\ c3[1].dragged => Contains(c3[1], p) /\ 1 \in after
               /\ c3[1].dragged /\ ~ch[1].dragged => 1 \notin before
               /\ before = after => c3[1] = ch[1]
    BY <1>4
  <1> HIDE DEF c1, c2, c3
  <1>5. SamePlace(c3[1], ch[1])
    BY <1>1, <1>2, <1>3 DEF ButtonEffect, SamePlace
  <1>6. before = after => c3[1] = ch[1]
    BY <1>1, <1>2, <1>3 DEF ButtonEffect
  <1>7. c1[1].dragged => Contains(c1[1], p) /\ 1 \in after
    BY <1>1 DEF ButtonEffect
  <1>8. c1[1].dragged /\ ~ch[1].dragged => 1 \notin before
    BY <1>1 DEF ButtonEffect
  <1>9. c2[1].dragged => c1[1].dragged /\ Contains(c2[1], p)
    BY <1>2, <1>7 DEF ButtonEffect
  <1>10. c3[1].dragged => c2[1].dragged /\ Contains(c3[1], p)
    BY <1>3, <1>9 DEF ButtonEffect
  <1> QED BY <1>5, <1>6, <1>7, <1>8, <1>9, <1>10

LEMMA ButtonsType ==
  ASSUME NEW ch \in Seq(Window), NEW p \in Screen, NEW before, NEW after
  PROVE  /\ OnButtons(ch, p, before, after) \in Seq(Window)
         /\ Len(OnButtons(ch, p, before, after)) = Len(ch)
  <1> DEFINE c1 == OnButton(ch, p, 1, before, after)
             c2 == OnButton(c1, p, 2, before, after)
  <1>0. 1 \in Buttons /\ 2 \in Buttons /\ 3 \in Buttons
    BY DEF Buttons
  <1>1. c1 \in Seq(Window) /\ Len(c1) = Len(ch)
    BY <1>0, FrontButton
  <1>2. c2 \in Seq(Window) /\ Len(c2) = Len(ch)
    <2> HIDE DEF c1
    <2> QED BY <1>0, <1>1, FrontButton
  <1>3. OnButtons(ch, p, before, after) = OnButton(c2, p, 3, before, after)
    BY DEF OnButtons
  <1> HIDE DEF c1, c2
  <1> QED BY <1>0, <1>2, <1>3, FrontButton

(* What is known of the window in front between two packets.               *)
FrontHeld == Front.dragged => Contains(Front, cursor) /\ 1 \in buttons

(* Types, across a packet.                                                 *)
LEMMA PacketType ==
  ASSUME cursor \in Screen, childrens \in Seq(Window),
         NEW dx \in Int, NEW dy \in Int, NEW pressed, Packet(dx, dy, pressed)
  PROVE  /\ cursor' \in Screen /\ buttons' = pressed
         /\ childrens' \in Seq(Window) /\ Len(childrens') = Len(childrens)
  <1>1. cursor' \in Screen /\ buttons' = pressed
    BY CursorOnDesktop DEF Packet
  <1>2. /\ OnMouseMove(childrens, cursor, cursor') \in Seq(Window)
        /\ Len(OnMouseMove(childrens, cursor, cursor')) = Len(childrens)
    BY <1>1, FrontMoved
  <1>3. childrens' = OnButtons(OnMouseMove(childrens, cursor, cursor'), cursor',
                               buttons, pressed)
    BY DEF Packet
  <1> QED BY <1>1, <1>2, <1>3, ButtonsType

(* The window in front across a packet.                                    *)
LEMMA PacketFront ==
  ASSUME cursor \in Screen, childrens \in Seq(Window), Len(childrens) > 0, FrontHeld,
         NEW dx \in Int, NEW dy \in Int, NEW pressed, Packet(dx, dy, pressed)
  PROVE  /\ SamePlace(Front', Dragged(Front, cursor, cursor'))
         /\ FrontHeld'
         /\ Front'.dragged /\ ~Front.dragged => 1 \notin buttons
         /\ Front.dragged /\ buttons' = buttons => Front'.dragged
  <1> DEFINE moved == OnMouseMove(childrens, cursor, cursor')
  <1>1. /\ cursor' \in Screen /\ buttons' = pressed
        /\ childrens' \in Seq(Window) /\ Len(childrens') = Len(childrens)
    BY PacketType
  <1>2. Front = childrens[1] /\ Front' = childrens'[1] /\ childrens[1] \in Window
    BY <1>1 DEF Front
  <1>3. moved \in Seq(Window) /\ Len(moved) = Len(childrens)
        /\ moved[1] = Dragged(childrens[1], cursor, cursor')
    BY <1>1, <1>2, FrontMoved DEF FrontHeld
  <1>4. /\ moved[1].dragged = Front.dragged
        /\ Front.dragged => Contains(moved[1], cursor')
    <2>1. /\ cursor.x \in Int /\ cursor.y \in Int /\ cursor'.x \in Int /\ cursor'.y \in Int
      BY <1>1, DesktopAssumption DEF Screen
    <2>2. /\ childrens[1].x \in Int /\ childrens[1].y \in Int
          /\ childrens[1].width \in Int /\ childrens[1].height \in Int
      BY <1>2 DEF Window
    <2>3. moved[1].dragged = Front.dragged
      BY <1>1, <1>2, <1>3, DraggedType
    <2>4. Front.dragged =>
            /\ moved[1].x = childrens[1].x + cursor'.x - cursor.x
            /\ moved[1].y = childrens[1].y + cursor'.y - cursor.y
            /\ moved[1].width = childrens[1].width
            /\ moved[1].height = childrens[1].height
      BY <1>1, <1>2, <1>3, DraggedType
    <2>5. Front.dragged => Contains(childrens[1], cursor)
      BY <1>2 DEF FrontHeld
    <2> HIDE DEF moved
    <2>6. ASSUME Front.dragged PROVE Contains(moved[1], cursor')
      <3>1. Contains(childrens[1], cursor)
        BY <2>5, <2>6
      <3>2. /\ moved[1].x = childrens[1].x + cursor'.x - cursor.x
            /\ moved[1].y = childrens[1].y + cursor'.y - cursor.y
            /\ moved[1].width = childrens[1].width
            /\ moved[1].height = childrens[1].height
        BY <2>4, <2>6
      <3>3. /\ childrens[1].x <= cursor.x
            /\ cursor.x < childrens[1].x + childrens[1].width
            /\ childrens[1].y <= cursor.y
            /\ cursor.y < childrens[1].y + childrens[1].height
        BY <3>1 DEF Contains
      <3> DEFINE cx == cursor.x
                 cy == cursor.y
                 nx == cursor'.x
                 ny == cursor'.y
                 wx == childrens[1].x
                 wy == childrens[1].y
                 ww == childrens[1].width
                 wh == childrens[1].height
      <3>4. /\ cx \in Int /\ cy \in Int /\ nx \in Int /\ ny \in Int
            /\ wx \in Int /\ wy \in Int /\ ww \in Int /\ wh \in Int
            /\ wx <= cx /\ cx < wx + ww /\ wy <= cy /\ cy < wy + wh
        BY <2>1, <2>2, <3>3
      <3>5. /\ moved[1].x = wx + nx - cx /\ moved[1].y = wy + ny - cy
            /\ moved[1].width = ww /\ moved[1].height = wh
        BY <3>2
      <3>6. /\ wx + nx - cx <= nx /\ nx < wx + nx - cx + ww
            /\ wy + ny - cy <= ny /\ ny < wy + ny - cy + wh
        <4> HIDE DEF cx, cy, nx, ny, wx, wy, ww, wh
        <4> QED BY <3>4
      <3> QED BY <3>5, <3>6 DEF Contains
    <2> QED BY <2>3, <2>6
  <1>5. childrens' = OnButtons(moved, cursor', buttons, pressed)
    BY DEF Packet
  <1> HIDE DEF moved
  <1>6. moved[1].dragged => Contains(moved[1], cursor') /\ 1 \in buttons
    BY <1>4 DEF FrontHeld
  <1>7. /\ SamePlace(childrens'[1], moved[1])
        /\ childrens'[1].dragged => Contains(childrens'[1], cursor') /\ 1 \in pressed
        /\ childrens'[1].dragged /\ ~moved[1].dragged => 1 \notin buttons
        /\ buttons = pressed => childrens'[1] = moved[1]
    BY <1>1, <1>3, <1>5, <1>6, FrontButtons
  <1> QED BY <1>1, <1>2, <1>3, <1>4, <1>7 DEF FrontHeld, SamePlace
=============================================================================
