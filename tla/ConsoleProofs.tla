--------------------------- MODULE ConsoleProofs ---------------------------
(***************************************************************************)
(* Theorems about Console for screens and cursor motions of every size,    *)
(* and handlers that print texts of every length.                          *)
(***************************************************************************)
EXTENDS Console, TLAPS

(* How far the position may be off the screen at each instruction of       *)
(* kernelMain's printf: a column, a row, and never both when a column is   *)
(* about to be wrapped.  Any handler that prints puts it back.             *)
Place ==
  /\ pc \notin {"testX", "wrap", "wrapY", "zeroX"} => x < Cols
  /\ pc \notin {"testX", "zeroX", "testY", "clear", "blank", "home", "zeroY"}
       => y < Rows
  /\ pc = "testX" /\ x = Cols => y < Rows
  /\ pc = "zeroY" => x < Cols

(* What has been loaded is a value the variable could have in between.     *)
Loads ==
  /\ pc = "storeX" => loaded < Cols
  /\ pc \in {"column", "columnAgain", "storeY", "wrapY"} => loaded < Rows

(* Unless a handler came in between, the cell read and the cell written    *)
(* are that of the position, and the colour read is still that of the cell.*)
Undisturbed ==
  ~disturbed =>
    /\ pc \in {"column", "columnAgain"} => loaded = y
    /\ pc \in {"read", "rowAgain", "columnAgain"} => cell = Index(x, y)
    /\ pc \in {"rowAgain", "columnAgain", "write", "blank"} =>
         (colour <=> cell \in inverted)

IInv ==
  /\ TypeOK /\ Place /\ Loads /\ Undisturbed
  /\ pc = "blank" => i < Rows * Cols
-----------------------------------------------------------------------------
LEMMA ScreenType ==
  /\ Cols \in Nat \ {0} /\ Rows \in Nat \ {0} /\ Width \in Int /\ Width > 0
  /\ Width \div 2 \in Int /\ Rows * Cols \in Nat
  BY ScreenAssumption

(* Positions on the screen and just below it are those of cells.           *)
LEMMA IndexIsCell ==
  /\ \A column \in 0 .. Cols - 1, row \in 0 .. Rows - 1 : Index(column, row) \in Cells
  /\ \A k \in Nat : k < Rows * Cols => k \in Cells
  <1>1. Index(Cols, Rows) = Cols * Rows + Cols /\ Cols * Rows = Rows * Cols
        /\ Cols * Rows \in Nat
    BY ScreenType DEF Index
  <1>2. ASSUME NEW column \in 0 .. Cols - 1, NEW row \in 0 .. Rows - 1
        PROVE  Index(column, row) \in Cells
    <2>1. row \in Nat /\ row <= Rows /\ column \in Nat /\ column <= Cols
      BY ScreenType
    <2>2. PICK d \in Nat : Rows = row + d
      <3>1. Rows - row \in Nat /\ Rows = row + (Rows - row)
        BY <2>1, ScreenType
      <3> QED BY <3>1
    <2>3. Cols * Rows = Cols * row + Cols * d /\ Cols * d \in Nat /\ Cols * row \in Nat
      BY <2>1, <2>2, ScreenType
    <2>4. Index(column, row) \in Nat /\ Index(column, row) <= Cols * Rows + Cols
      BY <2>1, <2>3, ScreenType DEF Index
    <2> QED BY <1>1, <2>4, ScreenType DEF Cells
  <1>3. ASSUME NEW k \in Nat, k < Rows * Cols PROVE k \in Cells
    BY <1>1, <1>3, ScreenType DEF Cells
  <1> QED BY <1>2, <1>3

(* A handler leaves the position on the screen, wherever it finds it.      *)
LEMMA AfterIsOnScreen ==
  ASSUME NEW column \in 0 .. Cols, NEW row \in 0 .. Rows, NEW character
  PROVE  /\ After(<<column, row>>, character)[1] \in 0 .. Cols - 1
         /\ After(<<column, row>>, character)[2] \in 0 .. Rows - 1
  BY ScreenType DEF After, RowFull, ScreenFull

LEMMA CursorStays ==
  ASSUME NEW a \in Int, NEW delta \in Int, NEW size \in Nat \ {0}
  PROVE  Clip(Add8(a, delta), size) \in 0 .. size - 1
  <1>1. Add8(a, delta) \in Int
    BY ScreenType DEF Add8
  <1> HIDE DEF Add8
  <1> QED BY <1>1 DEF Clip

THEOREM InitiallyInv == Init => IInv
  <1> SUFFICES ASSUME Init PROVE IInv
    OBVIOUS
  <1>1. Cols \div 2 \in 0 .. Cols - 1 /\ Rows \div 2 \in 0 .. Rows - 1
    BY ScreenType
  <1>2. cursor = <<Cols \div 2, Rows \div 2>> /\ cursor[1] = Cols \div 2 /\ cursor[2] = Rows \div 2
    BY DEF Init
  <1>3. inverted = {Index(cursor[1], cursor[2])} /\ inverted \subseteq Cells
    BY <1>1, <1>2, IndexIsCell DEF Init
  <1>4. 0 \in Cells /\ 0 \in 0 .. Cols /\ 0 \in 0 .. Rows /\ 0 \in 0 .. Rows * Cols
        /\ 0 \in 0 .. Cols + Rows /\ 0 < Cols /\ 0 < Rows
    <2>1. 0 < Rows * Cols
      BY ScreenType
    <2> QED BY <2>1, ScreenType, IndexIsCell
  <1>5. TypeOK
    BY <1>1, <1>2, <1>3, <1>4 DEF Init, TypeOK
  <1>6. Place /\ Loads /\ Undisturbed /\ pc # "blank"
    BY <1>4 DEF Init, Place, Loads, Undisturbed
  <1> QED BY <1>5, <1>6 DEF IInv

(* Drawing the cursor twice, where it was and where it is, moves it.       *)
LEMMA MotionMovesTheCursor ==
  ASSUME TypeOK, NEW d \in Deltas, MoveCursor(d)
  PROVE  /\ Misdrawn' = Misdrawn /\ inverted' \subseteq Cells
         /\ cursor' \in (0 .. Cols - 1) \X (0 .. Rows - 1)
  <1>0. d \in Int \X Int /\ cursor \in (0 .. Cols - 1) \X (0 .. Rows - 1)
    BY ScreenAssumption DEF TypeOK
  <1>1. cursor[1] \in Int /\ cursor[2] \in Int /\ d[1] \in Int /\ d[2] \in Int
    BY <1>0
  <1>2. cursor' = <<Clip(Add8(cursor[1], d[1]), Cols), Clip(Add8(cursor[2], d[2]), Rows)>>
    BY DEF MoveCursor
  <1>3. cursor' \in (0 .. Cols - 1) \X (0 .. Rows - 1)
    BY <1>1, <1>2, CursorStays, ScreenType
  <1> DEFINE from == Index(cursor[1], cursor[2])
             to == Index(cursor'[1], cursor'[2])
  <1>4. inverted' = Flip(Flip(inverted, from), to)
    BY <1>2 DEF MoveCursor
  <1>5. from \in Cells /\ to \in Cells
    BY <1>0, <1>3, IndexIsCell
  <1>6. /\ Misdrawn = {c \in Cells : ~(c \in inverted <=> c = from)}
        /\ Misdrawn' = {c \in Cells : ~(c \in inverted' <=> c = to)}
    BY DEF Misdrawn, CursorCell, Cells, Index
  <1>7. inverted \subseteq Cells
    BY DEF TypeOK
  <1> HIDE DEF from, to
  <1>8. \A c \in Cells : (c \in inverted' <=> c = to) <=> (c \in inverted <=> c = from)
    BY <1>4, <1>5, <1>7 DEF Flip
  <1> QED BY <1>3, <1>4, <1>5, <1>6, <1>7, <1>8 DEF Flip

THEOREM NextInv == IInv /\ [Next]_vars => IInv'
  <1> SUFFICES ASSUME IInv, [Next]_vars PROVE IInv'
    OBVIOUS
  <1> USE DEF kernel
  <1>0. /\ x \in 0 .. Cols /\ y \in 0 .. Rows /\ loaded \in 0 .. Cols + Rows
        /\ i \in 0 .. Rows * Cols /\ Place /\ Loads
    BY DEF IInv, TypeOK
  <1>1. CASE Start \/ TakeCharacter \/ CarriageReturn \/ LoadRow \/ LoadRowAgain
             \/ LoadX \/ LoadY \/ StoreX \/ StoreY
             \/ TestX \/ ZeroX \/ TestY \/ Cleared \/ ZeroY
    <2> USE DEF Goto, Quiet
    <2>1. /\ UNCHANGED <<inverted, cursor, cell, colour>>
          /\ disturbed' = disturbed \/ disturbed' = FALSE
      BY <1>1 DEF Start, TakeCharacter, CarriageReturn, LoadRow, LoadRowAgain, LoadX, LoadY,
                  Load, StoreX, StoreY, TestX, ZeroX, TestY, Cleared, ZeroY
    <2>2. /\ x' \in 0 .. Cols /\ y' \in 0 .. Rows /\ loaded' \in 0 .. Cols + Rows
          /\ Place' /\ Loads'
      <3>1. CASE Start \/ TakeCharacter
        BY <1>0, <3>1, ScreenType DEF Start, TakeCharacter, Place, Loads
      <3>2. CASE CarriageReturn \/ Cleared
        BY <1>0, <3>2, ScreenType DEF CarriageReturn, Cleared, Place, Loads
      <3>3. CASE LoadX
        BY <1>0, <3>3, ScreenType DEF LoadX, Load, Place, Loads
      <3>4. CASE LoadY \/ LoadRow \/ LoadRowAgain
        BY <1>0, <3>4, ScreenType DEF LoadY, LoadRow, LoadRowAgain, Load, Place, Loads
      <3>5. CASE StoreX
        BY <1>0, <3>5, ScreenType DEF StoreX, Place, Loads
      <3>6. CASE StoreY
        BY <1>0, <3>6, ScreenType DEF StoreY, Place, Loads
      <3>7. CASE TestX
        BY <1>0, <3>7, ScreenType DEF TestX, RowFull, Place, Loads
      <3>8. CASE ZeroX
        BY <1>0, <3>8, ScreenType DEF ZeroX, Place, Loads
      <3>9. CASE TestY
        BY <1>0, <3>9, ScreenType DEF TestY, ScreenFull, Place, Loads
      <3>10. CASE ZeroY
        BY <1>0, <3>10, ScreenType DEF ZeroY, Place, Loads
      <3> QED
        BY <1>1, <3>1, <3>2, <3>3, <3>4, <3>5, <3>6, <3>7, <3>8, <3>9, <3>10
    <2>3. i' \in 0 .. Rows * Cols
      <3>1. 0 \in 0 .. Rows * Cols
        BY ScreenType
      <3> QED
        BY <1>0, <1>1, <3>1
           DEF Start, TakeCharacter, CarriageReturn, LoadRow, LoadRowAgain, LoadX, LoadY,
               Load, StoreX, StoreY, TestX, ZeroX, TestY, Cleared, ZeroY
    <2>4. pc' \in {"idle", "next", "return", "down", "row", "column", "read",
                   "rowAgain", "columnAgain", "write", "right", "storeX",
                   "storeY", "wrapY", "testX", "wrap", "zeroX",
                   "testY", "clear", "blank", "home", "zeroY"}
      BY <1>1 DEF Start, TakeCharacter, CarriageReturn, LoadRow, LoadRowAgain, LoadX, LoadY,
                  Load, StoreX, StoreY, TestX, ZeroX, TestY, Cleared, ZeroY
    <2>5. TypeOK'
      BY <2>1, <2>2, <2>3, <2>4 DEF IInv, TypeOK
    <2>6. Undisturbed' /\ pc' # "blank"
      <3>1. CASE LoadRow \/ LoadRowAgain
        BY <3>1 DEF LoadRow, LoadRowAgain, Load, IInv, Undisturbed, Index
      <3>2. CASE ~(LoadRow \/ LoadRowAgain)
        BY <1>1, <3>2 DEF Start, TakeCharacter, CarriageReturn, LoadX, LoadY, Load, StoreX,
                    StoreY, TestX, ZeroX, TestY, Cleared, ZeroY, Undisturbed
      <3> QED BY <3>1, <3>2
    <2> QED BY <2>2, <2>5, <2>6 DEF IInv
  <1>2. CASE LoadColumn \/ ReadCell \/ ReadOld
    <2> USE DEF Goto, Quiet
    <2>1. cell' \in Cells
      <3>1. CASE LoadColumn
        <4>1. x \in 0 .. Cols - 1 /\ loaded \in 0 .. Rows - 1
          BY <1>0, <3>1, ScreenType DEF LoadColumn, Place, Loads
        <4> QED BY <3>1, <4>1, IndexIsCell DEF LoadColumn
      <3>2. CASE ReadCell
        BY <3>2 DEF ReadCell, IInv, TypeOK
      <3>3. CASE ReadOld
        <4>1. i \in Nat /\ i < Rows * Cols
          BY <1>0, <3>3, ScreenType DEF ReadOld
        <4> QED BY <3>3, <4>1, IndexIsCell DEF ReadOld
      <3> QED BY <1>2, <3>1, <3>2, <3>3
    <2>2. colour' \in BOOLEAN
      <3>1. colour' = colour \/ colour' = (cell \in inverted) \/ colour' = (i \in inverted)
        BY <1>2, Zenon DEF LoadColumn, ReadCell, ReadOld
      <3>2. ASSUME NEW c PROVE (c \in inverted) \in BOOLEAN
        OBVIOUS
      <3> QED BY <3>1, <3>2 DEF IInv, TypeOK
    <2>3. /\ UNCHANGED <<x, y, inverted, cursor, loaded, i>>
          /\ pc' \in {"read", "write", "rowAgain", "blank"}
          /\ disturbed' = disturbed \/ disturbed' = FALSE
      BY <1>2 DEF LoadColumn, ReadCell, ReadOld
    <2>4. TypeOK'
      BY <2>1, <2>2, <2>3 DEF IInv, TypeOK
    <2>5. Place' /\ Loads' /\ (pc' = "blank" => i' < Rows * Cols)
      BY <1>0, <1>2 DEF LoadColumn, ReadCell, ReadOld, Place, Loads
    <2>6. Undisturbed'
      <3>1. Undisturbed /\ Index(x, y)' = Index(x, y)
        BY <2>3 DEF IInv, Index
      <3>2. CASE LoadColumn
        <4>1. cell' = Index(x, loaded) /\ colour' = colour /\ disturbed' = disturbed
          BY <3>2 DEF LoadColumn
        <4> QED BY <2>3, <3>1, <3>2, <4>1 DEF LoadColumn, Undisturbed
      <3>3. CASE ReadCell
        BY <3>1, <3>3 DEF ReadCell, Undisturbed
      <3>4. CASE ReadOld
        BY <3>1, <3>4 DEF ReadOld, Undisturbed
      <3> QED BY <1>2, <3>2, <3>3, <3>4
    <2> QED BY <2>4, <2>5, <2>6 DEF IInv
  <1>3. CASE WriteCell \/ WriteBlank
    <2>1. cursor' = cursor /\ disturbed' = disturbed /\ Store
      BY <1>3 DEF WriteCell, WriteBlank, Quiet
    <2>2. inverted' \subseteq Cells
      BY <2>1 DEF Store, IInv, TypeOK
    <2>3. i' \in 0 .. Rows * Cols
      <3>1. i' = i \/ (i < Rows * Cols /\ i' = i + 1)
        BY <1>3 DEF WriteCell, WriteBlank, IInv
      <3> QED BY <1>0, <3>1, ScreenType
    <2>4. TypeOK'
      BY <1>3, <2>1, <2>2, <2>3 DEF WriteCell, WriteBlank, Goto, IInv, TypeOK
    <2>5. Place' /\ Loads' /\ Undisturbed' /\ pc' # "blank"
      BY <1>0, <1>3 DEF WriteCell, WriteBlank, Goto, Place, Loads, Undisturbed
    <2> QED BY <2>4, <2>5 DEF IInv
  <1>4. ASSUME NEW character \in {"char", "newline"}, HandlerPrints(character)
        PROVE  IInv'
    <2>1. x' \in 0 .. Cols - 1 /\ y' \in 0 .. Rows - 1
      BY <1>4, AfterIsOnScreen DEF HandlerPrints, IInv, TypeOK
    <2>2. /\ UNCHANGED <<inverted, cursor, kernel>>
          /\ Disturb({"column", "read", "rowAgain", "columnAgain"})
      BY <1>4 DEF HandlerPrints
    <2>3. TypeOK'
      <3>1. x' \in 0 .. Cols /\ y' \in 0 .. Rows /\ disturbed' \in BOOLEAN
        BY <2>1, <2>2, ScreenType DEF Disturb, IInv, TypeOK
      <3> QED BY <2>2, <3>1 DEF IInv, TypeOK
    <2>4. Place' /\ Loads' /\ (pc' = "blank" => i' < Rows * Cols)
      <3>1. x' < Cols /\ y' < Rows
        BY <2>1, ScreenType
      <3> QED BY <2>2, <3>1 DEF IInv, Place, Loads
    <2>5. Undisturbed'
      BY <2>2 DEF Disturb, IInv, Undisturbed
    <2> QED BY <2>3, <2>4, <2>5 DEF IInv
  <1>5. ASSUME NEW d \in Deltas, MoveCursor(d)
        PROVE  IInv'
    <2>1. /\ UNCHANGED <<x, y, kernel>>
          /\ Disturb({"rowAgain", "columnAgain", "write", "blank"})
      BY <1>5 DEF MoveCursor
    <2>2. TypeOK'
      <3>1. disturbed' \in BOOLEAN
        BY <2>1 DEF Disturb, IInv, TypeOK
      <3>2. TypeOK
        BY DEF IInv
      <3> QED BY <1>5, <2>1, <3>1, <3>2, MotionMovesTheCursor DEF TypeOK
    <2>3. Place' /\ Loads' /\ Undisturbed' /\ (pc' = "blank" => i' < Rows * Cols)
      BY <2>1 DEF Disturb, IInv, Place, Loads, Undisturbed, Index
    <2> QED BY <2>2, <2>3 DEF IInv
  <1>6. CASE UNCHANGED vars
    BY <1>6 DEF vars, IInv, TypeOK, Place, Loads, Undisturbed, Index
  <1> QED
    BY <1>1, <1>2, <1>3, <1>4, <1>5, <1>6 DEF Next, Printf

(* Nothing is looked at or written outside the screen and the row below it,*)
(* and the cursor stays on the screen.                                     *)
THEOREM ConsoleTypeOK == Spec => []TypeOK
  <1>1. IInv => TypeOK
    BY DEF IInv
  <1> QED BY <1>1, InitiallyInv, NextInv, PTL DEF Spec

(* Whatever handlers print between two instructions of kernelMain's printf,*)
(* the position is on the screen when it takes its next character.         *)
THEOREM ConsoleRestsOnScreen == Spec => []RestsOnScreen
  <1>1. IInv => RestsOnScreen
    BY DEF IInv, Place, RestsOnScreen
  <1> QED BY <1>1, InitiallyInv, NextInv, PTL DEF Spec

(* No step but the store of a disturbed statement changes which cells have *)
(* other colours than the cursor gives them.                               *)
LEMMA StepKeepsColours ==
  IInv /\ [Next]_vars => [~StaleStore => Misdrawn' = Misdrawn]_vars
  <1> SUFFICES ASSUME IInv, Next, ~StaleStore PROVE Misdrawn' = Misdrawn
    OBVIOUS
  <1>1. inverted' = inverted /\ cursor' = cursor => Misdrawn' = Misdrawn
    BY DEF Misdrawn, CursorCell, Index, Cells
  <1>2. CASE WriteCell \/ WriteBlank
    <2>1. cursor' = cursor /\ Store /\ (colour <=> cell \in inverted)
      BY <1>2 DEF StaleStore, WriteCell, WriteBlank, Quiet, IInv, Undisturbed
    <2>2. inverted' = inverted
      BY <2>1 DEF Store
    <2> QED BY <1>1, <2>1, <2>2
  <1>3. ASSUME NEW d \in Deltas, MoveCursor(d) PROVE Misdrawn' = Misdrawn
    BY <1>3, MotionMovesTheCursor DEF IInv
  <1>4. ASSUME NEW character, HandlerPrints(character) PROVE Misdrawn' = Misdrawn
    BY <1>1, <1>4 DEF HandlerPrints
  <1>5. CASE Start \/ TakeCharacter \/ CarriageReturn \/ LoadRow \/ LoadRowAgain \/ LoadColumn
             \/ ReadCell \/ ReadOld \/ LoadX \/ LoadY \/ StoreX \/ StoreY
             \/ TestX \/ ZeroX \/ TestY \/ Cleared \/ ZeroY
    BY <1>1, <1>5
       DEF Start, TakeCharacter, CarriageReturn, LoadRow, LoadRowAgain, LoadColumn, ReadCell,
           ReadOld, LoadX, LoadY, Load, StoreX, StoreY, TestX, ZeroX, TestY, Cleared, ZeroY,
           Quiet
  <1> QED BY <1>2, <1>3, <1>4, <1>5 DEF Next, Printf

(* Wherever handlers print and move the cursor between the loads and the   *)
(* stores of kernelMain's printf, only a statement that a handler came     *)
(* into gives a cell other colours than the cursor does.                   *)
THEOREM ConsoleColoursAreKept == Spec => ColoursAreKept
  <1> QED BY InitiallyInv, NextInv, StepKeepsColours, PTL DEF Spec, ColoursAreKept
=============================================================================
