------------------------ MODULE MCKeyboardAndMouse ------------------------
(* A key with two characters, its release and a key without a character;   *)
(* packets with motion, with a button only and with both; a firmware that  *)
(* leaves both devices off and one that leaves the keyboard on.            *)
EXTENDS KeyboardAndMouse

MCKeyMap == [c \in {30} |-> <<97, 65>>]
MCOtherKeys == {1, 158}
MCPackets == {<<8, 255, 1>>, <<9, 0, 0>>}
MCFirstConfigs == {48, 101}
=============================================================================
