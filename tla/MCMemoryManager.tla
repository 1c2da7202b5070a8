-------------------------- MODULE MCMemoryManager --------------------------
(* A heap of four headers' worth of bytes and six more: room for up to     *)
(* three blocks and the holes they leave, blocks that leave no room for a  *)
(* further header, and requests that can never be met, the largest of      *)
(* which makes size + sizeof(MemoryChunk) + 1 wrap around the word.        *)
EXTENDS MemoryManager

MCRequests == {0, 1, 8, 255}
=============================================================================
