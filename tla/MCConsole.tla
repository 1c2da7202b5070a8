----------------------------- MODULE MCConsole -----------------------------
(* A screen of two rows and two columns; cursor motion to all sides and one*)
(* that overflows the cursor's column.                                     *)
EXTENDS Console

MCDeltas == {<<1, 0>>, <<-1, 0>>, <<0, 1>>, <<0, -1>>, <<7, 1>>}
=============================================================================
