----------------------- MODULE GlobalDescriptorTable -----------------------
(***************************************************************************)
(* SegmentDescriptor (source/GlobalDescriptorTable.cpp): how a segment's   *)
(* base and limit are spread over the eight bytes of a descriptor, how the *)
(* base is read back, and what the processor makes of the limit.           *)
(***************************************************************************)
EXTENDS Integers

CONSTANT
  Limits     (* the limits segments are constructed with                   *)

(* They are 32-bit words.                                                  *)
ASSUME LimitsAssumption ==
  Limits \subseteq Nat /\ \A limit \in Limits : limit \div 65536 <= 65535

(* The byte of v whose lowest bit weighs w.                                *)
Byte(v, w) == (v \div w) % 256

(* Above 64 KB a limit is stored in pages of 4 KB.                         *)
InPages(limit) == limit > 65536

(* Mutant: the last page is counted although it does not fit.              *)
StoredWhole(limit) == IF InPages(limit) THEN limit \div 4096 ELSE limit

Stored(limit) ==
  CASE ~InPages(limit)                            -> limit
    [] InPages(limit) /\ limit % 4096 # 4095      -> limit \div 4096 - 1
    [] InPages(limit) /\ limit % 4096 = 4095      -> limit \div 4096

(* The constructor: target[i], byte by byte; the two nibbles of target[6]. *)
SegmentDescriptor(base_ptr, limit) ==
  [limit_low_bytes |-> Stored(limit) % 65536,
   base_low_bytes  |-> Byte(base_ptr, 1) + 256 * Byte(base_ptr, 256),
   base_high_byte  |-> Byte(base_ptr, 65536),
   limit_high      |-> (Stored(limit) \div 65536) % 16,
   flags           |-> IF InPages(limit) THEN 12 ELSE 4,
   base_vhi        |-> Byte(base_ptr, 16777216)]

getBasePointer(s) ==
  s.base_low_bytes + 65536 * s.base_high_byte + 16777216 * s.base_vhi

StoredLimit(s) == s.limit_low_bytes + 65536 * s.limit_high

(* The last offset the processor lets pass: flag 8 stands for pages.       *)
ProcessorLimit(s) ==
  IF s.flags >= 8 THEN StoredLimit(s) * 4096 + 4095 ELSE StoredLimit(s)

(* A segment starts where it was asked to, reaches no further than it was  *)
(* asked to, and loses less than a page (GlobalDescriptorTable.cpp:54).    *)
SegmentReachesItsLimit(base_ptr, limit) ==
  LET s == SegmentDescriptor(base_ptr, limit)
  IN  /\ getBasePointer(s) = base_ptr
      /\ ProcessorLimit(s) <= limit
      /\ limit - ProcessorLimit(s) < 4096
=============================================================================
