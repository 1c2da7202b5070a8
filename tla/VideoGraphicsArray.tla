------------------------- MODULE VideoGraphicsArray -------------------------
(***************************************************************************)
(* VideoGraphicsArray::setMode (source/drivers/VideoGraphicsArray.cpp): the*)
(* port accesses that program mode 320x200x256, and the adapter they reach:*)
(* groups of registers behind an index and a data port, CRTC registers that*)
(* may be locked, and an attribute controller with one port for both index *)
(* and data.  The adapter is in whatever state the firmware left it.       *)
(***************************************************************************)
EXTENDS Integers, Sequences

CONSTANT FirstAdapters   (* the states in which the firmware may leave it  *)

VARIABLES
  vga,       (* the adapter                                                *)
  written    (* how many registers setMode has written                     *)

vgaVars == <<vga, written>>

(* g_320x200x256, group by group.                                          *)
Mode == [
  misc |-> <<99>>,
  seq  |-> <<3, 1, 15, 0, 14>>,
  crtc |-> <<95, 79, 80, 130, 84, 128, 191, 31, 0, 65, 0, 0, 0, 0, 0, 0,
             156, 14, 143, 40, 64, 150, 185, 163, 255>>,
  gc   |-> <<0, 0, 0, 0, 0, 64, 5, 15, 255>>,
  attr |-> <<0, 1, 2, 3, 4, 5, 6, 7, 8, 9, 10, 11, 12, 13, 14, 15,
             65, 0, 15, 0, 0>>]

Groups == DOMAIN Mode
Registers(g) == 0 .. Len(Mode[g]) - 1
Contents == 0 .. 255

(* Where the values of a group start in g_320x200x256, and how many it has.*)
First == [misc |-> 0, seq |-> 1, crtc |-> 6, gc |-> 31, attr |-> 40]
NofValues == 61

(* An adapter: what its registers hold, the register each group's index    *)
(* port has selected, and what the attribute port waits for.  Bit 7 of CRTC*)
(* register 17 locks registers 0 to 7.                                     *)
IsAdapter(v) ==
  /\ v = [reg |-> v.reg, index |-> v.index, flip |-> v.flip]
  /\ DOMAIN v.reg = Groups
  /\ \A g \in Groups : v.reg[g] \in [Registers(g) -> Contents]
  /\ v.index \in [Groups -> Contents]
  /\ v.flip \in {"index", "data"}

ASSUME VgaAssumption == \A v \in FirstAdapters : IsAdapter(v)

VgaInit == vga \in FirstAdapters /\ written = 0

SetBit7(v) == IF v >= 128 THEN v ELSE v + 128
ClearBit7(v) == v % 128

(* The adapter: accesses to index and data ports, and to the reset port.   *)
Locked(v, g, i) == g = "crtc" /\ i <= 7 /\ v.reg["crtc"][17] >= 128

Store(v, g, x) ==
  IF v.index[g] \notin DOMAIN v.reg[g] \/ Locked(v, g, v.index[g]) THEN v
  ELSE [v EXCEPT !.reg[g][v.index[g]] = x]

Index(v, g, x) ==
  IF g # "attr" THEN [v EXCEPT !.index[g] = x]
  ELSE IF v.flip = "index" THEN [v EXCEPT !.index[g] = x, !.flip = "data"]
  ELSE [Store(v, g, x) EXCEPT !.flip = "index"]

Data(v, g, x) ==
  IF g # "attr" THEN Store(v, g, x)
  ELSE IF v.flip = "index" THEN [v EXCEPT !.index[g] = x, !.flip = "data"]
  ELSE [Store(v, g, x) EXCEPT !.flip = "index"]

ReadReset(v) == [v EXCEPT !.flip = "index"]

Read(v, g) == v.reg[g][v.index[g]]

(***************************************************************************)
(* writeRegisters.  misc_port, which has no index, is the data port of a   *)
(* group with one register, which selecting it does not change.            *)
(***************************************************************************)
Select(v, g, i) == Index(IF g = "attr" THEN ReadReset(v) ELSE v, g, i)

(* What is written, with registers[0x03] and registers[0x11] of the CRTC   *)
(* changed.                                                                *)
Value(g, i) ==
  CASE g = "crtc" /\ i = 3  -> SetBit7(Mode[g][i + 1])
    [] g = "crtc" /\ i = 17 -> ClearBit7(Mode[g][i + 1])
    [] OTHER                -> Mode[g][i + 1]

(* Mutant: the lock is left as it is.                                      *)
UnlockNot(v) == v

(* Between sequencer and CRTC: bit 7 of register 3, then that of 17.       *)
Unlock(v) ==
  LET blank == Index(v, "crtc", 3)
      lock  == Index(Data(blank, "crtc", SetBit7(Read(blank, "crtc"))), "crtc", 17)
  IN  Data(lock, "crtc", ClearBit7(Read(lock, "crtc")))

(* One iteration of a loop.                                                *)
WriteNext ==
  /\ \E g \in Groups : \E i \in Registers(g) :
       /\ written = First[g] + i
       /\ LET v == IF g = "crtc" /\ i = 0 THEN Unlock(vga) ELSE vga
          IN  vga' = Data(Select(v, g, i), g, Value(g, i))
  /\ written' = written + 1

(* The last lines: the attribute controller shows the picture.             *)
ShowPicture ==
  /\ written = NofValues
  /\ vga' = Select(vga, "attr", 32)
  /\ UNCHANGED written

(* getFrameBufferAddressSegment, in pages of 64 KB and halves of one.      *)
FrameBuffer(v) ==
  CASE (v.reg["gc"][6] \div 4) % 4 = 0 -> 0
    [] (v.reg["gc"][6] \div 4) % 4 = 1 -> 655360
    [] (v.reg["gc"][6] \div 4) % 4 = 2 -> 720896
    [] (v.reg["gc"][6] \div 4) % 4 = 3 -> 753664

(* Every pixel that is drawn looks for its page first, which selects       *)
(* register 6.                                                             *)
DrawPixels == vga' = Index(vga, "gc", 6) /\ UNCHANGED written

(* Whatever state the firmware left the adapter in, every register of every*)
(* group holds the mode's value, the picture is switched on, and putPixel  *)
(* writes where the mode looks for pixels, at 0xA0000.                     *)
InMode(v) ==
  /\ \A g \in Groups : \A i \in Registers(g) : v.reg[g][i] = Value(g, i)
  /\ v.index["attr"] = 32
  /\ FrameBuffer(v) = 655360
=============================================================================
