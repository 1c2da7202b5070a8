---------------------------- MODULE HeapContract ----------------------------
(***************************************************************************)
(* What a caller of malloc and free may rely on, with no word about chunks,*)
(* headers or lists: a block handed out lies inside the heap and shares no *)
(* byte with a block somebody still holds, and a block is given back only  *)
(* by the caller that holds it.  MemoryManager implements this module.     *)
(***************************************************************************)
EXTENDS Integers

CONSTANTS
  HeapStart,  (* first byte of the heap                                    *)
  HeapSize,   (* its length in bytes                                       *)
  Requests    (* the sizes callers ask for                                 *)

VARIABLE
  live        (* the blocks in use: address |-> size that was asked for    *)

HeapEnd == HeapStart + HeapSize

(* [p, p + n) and [q, q + m) have no byte in common.                       *)
Apart(p, n, q, m) == p + n <= q \/ q + m <= p

Init == live = [p \in {} |-> 0]

Allocate(p, n) ==
  /\ p \notin DOMAIN live
  /\ HeapStart <= p /\ p + n <= HeapEnd
  /\ \A q \in DOMAIN live : Apart(p, n, q, live[q])
  /\ live' = [q \in DOMAIN live \cup {p} |-> IF q = p THEN n ELSE live[q]]

Release(p) ==
  /\ p \in DOMAIN live
  /\ live' = [q \in DOMAIN live \ {p} |-> live[q]]

Next ==
  \/ \E p \in HeapStart .. HeapEnd, n \in Requests : Allocate(p, n)
  \/ \E p \in DOMAIN live : Release(p)

Spec == Init /\ [][Next]_live
=============================================================================
