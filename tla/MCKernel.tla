------------------------------ MODULE MCKernel ------------------------------
(* An instance of Kernel for TLC: one bus with places for two devices, a   *)
(* desktop of four columns and a row with two overlapping windows.         *)
EXTENDS Kernel

NoBars == [i \in 0 .. 5 |-> 0]

NetCard(line, bars) ==
  [vendor_id |-> AMD, device_id |-> am79c973, interrupt_line |-> line,
   headertype |-> 0, bars |-> bars]

Bridge ==
  [vendor_id |-> 32902, device_id |-> 4096, interrupt_line |-> 255,
   headertype |-> 1, bars |-> [NoBars EXCEPT ![2] = 33]]

None == [multi |-> TRUE, functions |-> [f \in {} |-> {}]]

Single(function) == [multi |-> FALSE, functions |-> [f \in {0} |-> function]]

Card == Single(NetCard(11, [NoBars EXCEPT ![0] = 65, ![1] = 128]))

(* Without function 0; on the line of the mouse.                           *)
SecondOnly ==
  [multi |-> TRUE,
   functions |-> [f \in {1} |-> NetCard(12, [NoBars EXCEPT ![3] = 97])]]

(* Two cards in one, the first of them without ports.                      *)
Twins ==
  [multi |-> TRUE,
   functions |-> [f \in {0, 1} |->
      NetCard(11, IF f = 0 THEN NoBars ELSE [NoBars EXCEPT ![5] = 161])]]

(* Three cards; a bridge, then two cards; a card on the line of the mouse, *)
(* then two; and two cards, then nothing.                                  *)
MCMachines ==
  {[s \in {<<0, 0>>, <<0, 1>>} |-> IF s = <<0, 0>> THEN d[1] ELSE d[2]] :
     d \in {<<Card, Twins>>, <<Single(Bridge), Twins>>, <<SecondOnly, Twins>>,
            <<Twins, None>>}}

MCPorts == {0, 64}

MCLimits == {0, 1, 4095, 65535, 65536, 65537, 69631, 67108864, 2147479552, 2147483647}

MCWindows ==
  << [x |-> 1, y |-> 0, width |-> 2, height |-> 1],
     [x |-> 2, y |-> 0, width |-> 2, height |-> 1] >>

(* Registers hold what the mode does not want, CRTC registers 0 to 7 are   *)
(* locked or not, and the attribute port waits for an index or for data.   *)
MCAdapters ==
  {[reg |-> [g \in Groups |-> [i \in Registers(g) |->
               IF g = "crtc" /\ i = 17 THEN lock ELSE 170]],
    index |-> [g \in Groups |-> 24],
    flip |-> f] : lock \in {0, 128}, f \in {"index", "data"}}

MCDeltas == {-5, 11}
MCPresses == {{}, {1}, {2}}
=============================================================================
