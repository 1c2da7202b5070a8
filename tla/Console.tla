------------------------------ MODULE Console ------------------------------
(***************************************************************************)
(* The text screen, which printf (source/common/print_to_console.cpp) and  *)
(* MouseToConsoleEventHandler (source/kernel.cpp) both write.              *)
(*                                                                         *)
(* kernelMain prints with interrupts enabled once it has activated the     *)
(* interrupt manager; the handlers of interrupts print, and move the mouse *)
(* cursor, in between any two of its instructions.  printf keeps the       *)
(* position in static variables, which it shares with the printf it has    *)
(* interrupted.  kernelMain's printf is therefore modelled by the accesses *)
(* to memory of the build (the Makefile asks for no optimisation): ++ is a *)
(* load and a store, and the statement that stores a character loads y and *)
(* x for the cell it reads, and loads both again for the cell it writes.   *)
(* A handler is never interrupted: each character it prints, and each      *)
(* motion of the cursor, is one step.                                      *)
(*                                                                         *)
(* A cell of video memory is abstracted to its colour byte: is foreground  *)
(* exchanged with background there?  Handing printf a character of more    *)
(* than 7 bits, which its cast extends into the colour byte, is left out.  *)
(***************************************************************************)
EXTENDS Integers

CONSTANTS
  Cols, Rows,   (* the screen, 80 and 25                                   *)
  Deltas,       (* what onMouseMove is called with                         *)
  Width         (* the number of values of int8_t, 256                     *)

ASSUME ScreenAssumption ==
  /\ Cols \in Nat \ {0} /\ Rows \in Nat \ {0}
  /\ Width \in Nat /\ Width % 2 = 0 /\ Cols <= Width \div 2 /\ Rows <= Width \div 2
  /\ Deltas \subseteq Int \X Int

VARIABLES
  x, y,         (* the static variables of printf                          *)
  inverted,     (* the cells whose colours are exchanged                   *)
  cursor,       (* members x and y of MouseToConsoleEventHandler           *)
  pc,           (* the next instruction of kernelMain's printf             *)
  loaded,       (* the variable it has loaded last                         *)
  cell, colour, (* the cell it addresses, and the colour byte it has read  *)
  i,            (* its loop variables i and j: the next cell to clear      *)
  disturbed     (* history: has a handler come between the accesses of the *)
                (* statement that stores: a printing one while it          *)
                (* addresses its cells, or a motion since it read colour?  *)

kernel == <<pc, loaded, cell, colour, i>>
vars == <<x, y, inverted, cursor, kernel, disturbed>>

Index(column, row) == Cols * row + column
Cells == 0 .. Index(Cols, Rows)    (* one row below the screen, and a cell *)
Flip(s, c) == IF c \in s THEN s \ {c} ELSE s \cup {c}
-----------------------------------------------------------------------------
(* The constructor of MouseToConsoleEventHandler has drawn the cursor in   *)
(* the middle of the screen.                                               *)
Init ==
  /\ x = 0 /\ y = 0
  /\ cursor = <<Cols \div 2, Rows \div 2>>
  /\ inverted = {Index(cursor[1], cursor[2])}
  /\ pc = "idle" /\ loaded = 0 /\ cell = 0 /\ colour = FALSE /\ i = 0
  /\ disturbed = FALSE

(***************************************************************************)
(* printf called by kernelMain                                             *)
(***************************************************************************)

Goto(l) == pc' = l
Quiet == UNCHANGED <<cursor, disturbed>>

(* It is called, or reaches the end of its text, or takes a character.     *)
Start ==
  /\ pc = "idle" /\ Goto("next")
  /\ UNCHANGED <<x, y, inverted, loaded, cell, colour, i>> /\ Quiet

TakeCharacter ==
  /\ pc = "next" /\ pc' \in {"idle", "return", "row"}
  /\ UNCHANGED <<x, y, inverted, loaded, cell, colour, i>> /\ Quiet

(* A newline: x = 0; y++.                                                  *)
CarriageReturn ==
  /\ pc = "return" /\ x' = 0 /\ Goto("down")
  /\ UNCHANGED <<y, inverted, loaded, cell, colour, i>> /\ Quiet

(* Loading a variable, whose value is v.                                   *)
Load(v, from, to) ==
  /\ pc = from /\ Goto(to) /\ loaded' = v
  /\ UNCHANGED <<x, y, inverted, cursor, cell, colour, i>>

(* The first load of the statement that stores a character: y, of the cell *)
(* to read.                                                                *)
LoadRow == Load(y, "row", "column") /\ disturbed' = FALSE

(* y, of the cell to write.                                                *)
LoadRowAgain == Load(y, "rowAgain", "columnAgain") /\ UNCHANGED disturbed

(* x, which makes up the address with the y loaded before.                 *)
LoadColumn ==
  /\ \/ pc = "column" /\ Goto("read")
     \/ pc = "columnAgain" /\ Goto("write")
  /\ cell' = Index(x, loaded)
  /\ UNCHANGED <<x, y, inverted, loaded, colour, i>> /\ Quiet

ReadCell ==
  /\ pc = "read" /\ Goto("rowAgain") /\ colour' = (cell \in inverted)
  /\ UNCHANGED <<x, y, inverted, loaded, cell, i>> /\ Quiet

(* Mutant: what is stored has the default colours.                         *)
StoreDefault == inverted' = inverted \ {cell}

(* Storing a character, or a blank, with the colour read.                  *)
Store == inverted' = IF colour THEN inverted \cup {cell} ELSE inverted \ {cell}

WriteCell ==
  /\ pc = "write" /\ Goto("right") /\ Store
  /\ UNCHANGED <<x, y, loaded, cell, colour, i>> /\ Quiet

(* ++ of x, and of y in two places: the load, and the store.               *)
LoadX == Load(x, "right", "storeX") /\ UNCHANGED disturbed
LoadY ==
  /\ Load(y, "down", "storeY") \/ Load(y, "wrap", "wrapY")
  /\ UNCHANGED disturbed

StoreX ==
  /\ pc = "storeX" /\ x' = loaded + 1 /\ Goto("testX")
  /\ UNCHANGED <<y, inverted, loaded, cell, colour, i>> /\ Quiet

StoreY ==
  /\ \/ pc = "storeY" /\ Goto("testX")
     \/ pc = "wrapY" /\ Goto("zeroX")
  /\ y' = loaded + 1
  /\ UNCHANGED <<x, inverted, loaded, cell, colour, i>> /\ Quiet

(* Mutant: the test is off by one.                                         *)
RowFullLate(column) == column > Cols

RowFull(column) == column >= Cols

TestX ==
  /\ pc = "testX" /\ Goto(IF RowFull(x) THEN "wrap" ELSE "testY")
  /\ UNCHANGED <<x, y, inverted, loaded, cell, colour, i>> /\ Quiet

ZeroX ==
  /\ \/ pc = "zeroX" /\ Goto("testY")
     \/ pc = "home" /\ Goto("zeroY")
  /\ x' = 0
  /\ UNCHANGED <<y, inverted, loaded, cell, colour, i>> /\ Quiet

ScreenFull(row) == row >= Rows

TestY ==
  /\ pc = "testY" /\ i' = 0
  /\ Goto(IF ScreenFull(y) THEN "clear" ELSE "next")
  /\ UNCHANGED <<x, y, inverted, loaded, cell, colour>> /\ Quiet

(* The two loops that clear the screen, one cell after the other.          *)
ReadOld ==
  /\ pc = "clear" /\ i < Rows * Cols /\ Goto("blank")
  /\ cell' = i /\ colour' = (i \in inverted) /\ disturbed' = FALSE
  /\ UNCHANGED <<x, y, inverted, cursor, loaded, i>>

WriteBlank ==
  /\ pc = "blank" /\ Goto("clear") /\ Store /\ i' = i + 1
  /\ UNCHANGED <<x, y, loaded, cell, colour>> /\ Quiet

Cleared ==
  /\ pc = "clear" /\ i = Rows * Cols /\ Goto("home")
  /\ UNCHANGED <<x, y, inverted, loaded, cell, colour, i>> /\ Quiet

ZeroY ==
  /\ pc = "zeroY" /\ y' = 0 /\ Goto("next")
  /\ UNCHANGED <<x, inverted, loaded, cell, colour, i>> /\ Quiet

(***************************************************************************)
(* Interrupt handlers                                                      *)
(***************************************************************************)

(* Where printf is after a character put at p, when nothing interrupts it. *)
After(p, character) ==
  LET q == IF character = "newline" THEN <<0, p[2] + 1>> ELSE <<p[1] + 1, p[2]>>
      r == IF RowFull(q[1]) THEN <<0, q[2] + 1>> ELSE q
  IN  IF ScreenFull(r[2]) THEN <<0, 0>> ELSE r

(* A handler that runs where it disturbs.                                  *)
Disturb(places) == disturbed' = (disturbed \/ pc \in places)

(* A handler prints; characters stored leave the colours alone.  A handler *)
(* that prints a text takes this step again and again.                     *)
HandlerPrints(character) ==
  /\ x' = After(<<x, y>>, character)[1] /\ y' = After(<<x, y>>, character)[2]
  /\ Disturb({"column", "read", "rowAgain", "columnAgain"})
  /\ UNCHANGED <<inverted, cursor, kernel>>

(* x += delta in an int8_t.                                                *)
Add8(a, delta) == ((a + delta + (Width \div 2)) % Width) - (Width \div 2)

(* Mutant: a column too many.                                              *)
ClipLate(a, size) == IF a < 0 THEN 0 ELSE IF a > size THEN size - 1 ELSE a

Clip(a, size) == IF a < 0 THEN 0 ELSE IF a >= size THEN size - 1 ELSE a

(* onMouseMove takes the cursor away, moves it and draws it.               *)
MoveCursor(d) ==
  LET to == <<Clip(Add8(cursor[1], d[1]), Cols), Clip(Add8(cursor[2], d[2]), Rows)>>
      Drawn(s, p) == Flip(s, Index(p[1], p[2]))
  IN  /\ cursor' = to
      /\ inverted' = Drawn(Drawn(inverted, cursor), to)
      /\ Disturb({"rowAgain", "columnAgain", "write", "blank"})
      /\ UNCHANGED <<x, y, kernel>>

Printf ==
  \/ TakeCharacter \/ CarriageReturn
  \/ LoadRow \/ LoadColumn \/ ReadCell \/ LoadRowAgain \/ WriteCell
  \/ LoadX \/ StoreX \/ LoadY \/ StoreY \/ TestX \/ ZeroX \/ TestY
  \/ ReadOld \/ WriteBlank \/ Cleared \/ ZeroY

Next ==
  \/ Start \/ Printf
  \/ \E character \in {"char", "newline"} : HandlerPrints(character)
  \/ \E d \in Deltas : MoveCursor(d)

Spec == Init /\ [][Next]_vars
-----------------------------------------------------------------------------
(***************************************************************************)
(* Properties.                                                             *)
(***************************************************************************)

(* Every variable has its C++ type; the cursor is on the screen, and cells *)
(* are looked at and written on the screen or just below it.               *)
TypeOK ==
  /\ x \in 0 .. Cols /\ y \in 0 .. Rows
  /\ inverted \subseteq Cells
  /\ cursor \in (0 .. Cols - 1) \X (0 .. Rows - 1)
  /\ pc \in {"idle", "next", "return", "down", "row", "column", "read",
             "rowAgain", "columnAgain", "write", "right", "storeX",
             "storeY", "wrapY", "testX", "wrap", "zeroX",
             "testY", "clear", "blank", "home", "zeroY"}
  /\ loaded \in 0 .. Cols + Rows
  /\ cell \in Cells /\ colour \in BOOLEAN
  /\ i \in 0 .. Rows * Cols
  /\ disturbed \in BOOLEAN

(* However the printing of handlers falls between the instructions of      *)
(* kernelMain's printf: whenever kernelMain is not printing, the position  *)
(* is on the screen.                                                       *)
RestsOnScreen == pc \in {"idle", "next"} => x < Cols /\ y < Rows

(* The cells whose colours are not what the cursor makes them.             *)
CursorCell == Index(cursor[1], cursor[2])
Misdrawn == {c \in Cells : ~(c \in inverted <=> c = CursorCell)}

(* Printing and cursor motion share the colour bytes, and neither spoils   *)
(* them for the other: wherever handlers print and move the cursor between *)
(* the steps of kernelMain's printf, no cell gets or loses exchanged       *)
(* colours but as the cursor goes there or leaves.  The one exception is   *)
(* the store of a statement that such a handler has come into.             *)
StaleStore == disturbed /\ (WriteCell \/ WriteBlank)
ColoursAreKept == [][~StaleStore => Misdrawn' = Misdrawn]_vars

(* The cursor's cell, and no other, has its colours exchanged.  The note   *)
(* in printf says that the color byte is black background and white        *)
(* foreground by default, so that printing need not set it.                *)
OnlyTheCursorIsInverted == inverted = {CursorCell}
=============================================================================
