--------------------------- MODULE MCAMD_am79c973 ---------------------------
(* Rings of three descriptors, so that one frame or two can arrive while   *)
(* the handler is between its last look at the ring and its acknowledgement*)
(* and leave room for another; the distance of 8 bytes is that between two *)
(* elements of recieve_buffers, and of send_buffers, as the header declares*)
(* them.                                                                   *)
EXTENDS AMD_am79c973
=============================================================================
