------------------- MODULE MCAdvancedTechnologyAttachment -------------------
(* Sectors of two words, one drive of two, sector numbers that the driver  *)
(* addresses differently and one it must refuse, and byte counts of none,  *)
(* odd parts, all and more than all of a sector.                           *)
EXTENDS AdvancedTechnologyAttachment

MCSectors == {0, 5, 2^28}
MCCounts == {0, 1, 3, 4, 5}
MCBuffers == {[k \in 0 .. 3 |-> k + 1]}
MCIdentity == [k \in 0 .. 3 |-> 7]
=============================================================================
