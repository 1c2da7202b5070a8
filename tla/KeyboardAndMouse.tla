-------------------------- MODULE KeyboardAndMouse --------------------------
(***************************************************************************)
(* KeyboardDriver and MouseDriver (source/drivers), which share the one    *)
(* data port of the 8042 controller: their activate functions, called by   *)
(* kernelMain with interrupts disabled, and their interrupt handlers.      *)
(*                                                                         *)
(* The controller, the two devices and the user are external.  A device    *)
(* sends bytes one after the other; the controller shows one byte at a     *)
(* time at the data port, tells in its status (bits 0 and 5) whether there *)
(* is one and whether it is the mouse's, and raises the interrupt line of  *)
(* its sender if its configuration says so.  Its answer to a command takes *)
(* the same way.  An interrupt line, once raised, stays raised until the   *)
(* processor takes the interrupt, also when the byte was read before that; *)
(* an empty data port still reads as the last byte it has shown.           *)
(***************************************************************************)
EXTENDS Integers, Sequences

CONSTANTS
  KeyMap,       (* scan code |-> <<its character, and that with shift>>    *)
  OtherKeys,    (* scan codes without a character, other than shift's      *)
  Packets,      (* what the mouse sends: <<buttons, dx, dy>>               *)
  FirstConfigs, (* the configuration the firmware leaves in the controller *)
  KeysAhead,    (* bound: bytes the keyboard holds back                    *)
  PacketsAhead, (* bound: packets the mouse holds back                     *)
  AnswersAtOnce,(* are answers at the data port at the next port access?   *)
  QuietStart    (* does the user wait until interrupts are enabled?        *)

ASSUME InputAssumption ==
  /\ DOMAIN KeyMap \subseteq 1 .. 127
  /\ OtherKeys \subseteq (0 .. 255) \ DOMAIN KeyMap
  /\ Packets \subseteq [1 .. 3 -> 0 .. 255]
  /\ FirstConfigs \subseteq 0 .. 255
  /\ KeysAhead \in Nat /\ PacketsAhead \in Nat
  /\ {AnswersAtOnce, QuietStart} \subseteq BOOLEAN

VARIABLES
  port,         (* the last byte the data port has shown, and its sender   *)
  full,         (* status bit 0: it has not been read yet                  *)
  config,       (* the controller's configuration byte                     *)
  reply, kbd, aux,    (* bytes the controller, keyboard, mouse will send   *)
  reporting,    (* has the mouse been told to send packets?                *)
  irr,          (* interrupt lines raised: of "kbd" and "aux"              *)
  pc,           (* how far kernelMain is                                   *)
  shift_pressed,                    (* KeyboardDriver::handleInterrupt     *)
  offset, buffer, buttons,          (* members of MouseDriver              *)
  key, moved,   (* history: the last onKeyDown, the last onMouseMove       *)
  held, typed,  (* history: shift keys down; characters typed, not reported*)
  sent          (* history: packets the mouse has sent, not reported       *)

controller == <<port, full, config, reply, irr>>
devices == <<kbd, aux, reporting, held>>
keyboard == <<shift_pressed, key, typed>>
mouse == <<offset, buffer, buttons, moved, sent>>
vars == <<controller, devices, pc, keyboard, mouse>>

ACK == 250                                   (* 0xFA                       *)
ShiftDown == {42, 54}                        (* 0x2A, 0x36                 *)
ShiftUp == {170, 182}                        (* 0xAA, 0xB6                 *)

Bit(b, weight) == (b \div weight) % 2 = 1
Set(b, weight) == IF Bit(b, weight) THEN b ELSE b + weight
Clear(b, weight) == IF Bit(b, weight) THEN b - weight ELSE b
KbdInterrupt == 1                            (* weights of config's bits   *)
AuxInterrupt == 2
KbdDisabled == 16
AuxDisabled == 32
-----------------------------------------------------------------------------
Init ==
  /\ port = [from |-> "kbd", byte |-> 0] /\ full \in BOOLEAN
  /\ config \in FirstConfigs
  /\ reply = <<>> /\ kbd = <<>> /\ aux = <<>> /\ reporting = FALSE
  /\ irr = {}
  /\ pc = "drainKeyboard"
  /\ shift_pressed = FALSE
  /\ offset = 0 /\ buffer = <<0, 0, 0>> /\ buttons = 0
  /\ key = 0 /\ moved = <<0, 0>>
  /\ held = {} /\ typed = <<>> /\ sent = <<>>

(***************************************************************************)
(* The controller, the devices and the user                                *)
(***************************************************************************)

Show(from, byte, interrupt) ==
  /\ ~full /\ full' = TRUE
  /\ port' = [from |-> from, byte |-> byte]
  /\ irr' = irr \cup (IF Bit(config, interrupt)
                      THEN {IF from = "aux" THEN "aux" ELSE "kbd"} ELSE {})
  /\ UNCHANGED <<config, reporting, held, pc, keyboard, mouse>>

ShowReply ==
  /\ reply # <<>> /\ Show("controller", Head(reply), KbdInterrupt)
  /\ reply' = Tail(reply) /\ UNCHANGED <<kbd, aux>>

ShowKey ==
  /\ kbd # <<>> /\ ~Bit(config, KbdDisabled)
  /\ Show("kbd", Head(kbd), KbdInterrupt)
  /\ kbd' = Tail(kbd) /\ UNCHANGED <<reply, aux>>

ShowMotion ==
  /\ aux # <<>> /\ ~Bit(config, AuxDisabled)
  /\ Show("aux", Head(aux), AuxInterrupt)
  /\ aux' = Tail(aux) /\ UNCHANGED <<reply, kbd>>

(* May the user touch a device?  A line that is raised while the data port *)
(* is empty is one the processor takes as soon as it may.                  *)
MayAct == QuietStart => pc = "on" /\ (full \/ irr = {})

(* A key goes down or up.  The user holds down one shift key at a time.    *)
Type(c) ==
  /\ MayAct /\ Len(kbd) < KeysAhead
  /\ c \in ShiftDown => held = {}
  /\ c \in ShiftUp => c - 128 \in held
  /\ kbd' = Append(kbd, c)
  /\ held' = (held \cup ({c} \cap ShiftDown)) \ {c - 128}
  /\ typed' = IF c \in DOMAIN KeyMap
              THEN Append(typed, KeyMap[c][IF held = {} THEN 1 ELSE 2]) ELSE typed
  /\ UNCHANGED <<controller, aux, reporting, pc, shift_pressed, key, mouse>>

Move(p) ==
  /\ MayAct /\ reporting /\ Len(aux) <= 3 * (PacketsAhead - 1)
  /\ aux' = aux \o p
  /\ sent' = Append(sent, p)
  /\ UNCHANGED <<controller, kbd, reporting, held, pc, keyboard,
                 offset, buffer, buttons, moved>>

User ==
  \/ \E c \in DOMAIN KeyMap \cup OtherKeys \cup ShiftDown \cup ShiftUp : Type(c)
  \/ \E p \in Packets : Move(p)

(* With AnswersAtOnce, no answer is outstanding when the driver goes on.   *)
Answered ==
  AnswersAtOnce =>
    full \/ (reply = <<>> /\ ~\E q \in {kbd, aux} : q # <<>> /\ Head(q) = ACK)
-----------------------------------------------------------------------------
(***************************************************************************)
(* activate                                                                *)
(***************************************************************************)

(* Reading the data port takes the byte away.                              *)
ReadPort == full' = FALSE /\ UNCHANGED port

(* The loop that empties the data port, at pc = here; behind it, command   *)
(* 0xAE or 0xA8 enables a device and 0x20 asks for the configuration.      *)
Drain(here, next, disabled) ==
  /\ pc = here /\ Answered
  /\ IF full
     THEN ReadPort /\ UNCHANGED <<config, reply, pc>>
     ELSE /\ config' = Clear(config, disabled)
          /\ reply' = Append(reply, config')
          /\ pc' = next /\ UNCHANGED <<port, full>>
  /\ UNCHANGED <<irr, devices, keyboard, mouse>>

(* Mutant: the mouse driver does not empty the data port first.            *)
DrainMouseNot ==
  /\ pc = "drainMouse" /\ Answered
  /\ config' = Clear(config, AuxDisabled) /\ reply' = Append(reply, config')
  /\ pc' = "configureMouse"
  /\ UNCHANGED <<port, full, irr, devices, keyboard, mouse>>

DrainKeyboard == Drain("drainKeyboard", "configureKeyboard", KbdDisabled)
DrainMouse == Drain("drainMouse", "configureMouse", AuxDisabled)

(* The configuration read is changed and written back, and 0xF4 is sent to *)
(* the keyboard, which will acknowledge it.                                *)
ConfigureKeyboard ==
  /\ pc = "configureKeyboard" /\ Answered
  /\ ReadPort
  /\ config' = Clear(Set(port.byte, KbdInterrupt), KbdDisabled)
  /\ kbd' = Append(kbd, ACK)
  /\ pc' = "drainMouse"
  /\ UNCHANGED <<reply, irr, aux, reporting, held, keyboard, mouse>>

(* Mutant: the interrupt of the mouse is not switched on.                  *)
ConfigureMouseNot ==
  /\ pc = "configureMouse" /\ Answered
  /\ ReadPort
  /\ config' = port.byte
  /\ aux' = Append(aux, ACK) /\ reporting' = TRUE
  /\ pc' = "acknowledgeMouse"
  /\ UNCHANGED <<reply, irr, kbd, held, keyboard, mouse>>

(* The same for the mouse.                                                 *)
ConfigureMouse ==
  /\ pc = "configureMouse" /\ Answered
  /\ ReadPort
  /\ config' = Set(port.byte, AuxInterrupt)
  /\ aux' = Append(aux, ACK) /\ reporting' = TRUE
  /\ pc' = "acknowledgeMouse"
  /\ UNCHANGED <<reply, irr, kbd, held, keyboard, mouse>>

(* Mutant: the acknowledgement stays in the data port.                     *)
AcknowledgeMouseNot ==
  /\ pc = "acknowledgeMouse" /\ Answered
  /\ pc' = "enable" /\ UNCHANGED <<controller, devices, keyboard, mouse>>

(* The mouse driver reads the mouse's acknowledgement.                     *)
AcknowledgeMouse ==
  /\ pc = "acknowledgeMouse" /\ Answered
  /\ ReadPort /\ pc' = "enable"
  /\ UNCHANGED <<config, reply, irr, devices, keyboard, mouse>>

(* kernelMain activates the interrupt manager.                             *)
Enable ==
  /\ pc = "enable" /\ pc' = "on"
  /\ UNCHANGED <<controller, devices, keyboard, mouse>>
-----------------------------------------------------------------------------
(***************************************************************************)
(* handleInterrupt.  Each handler runs with interrupts disabled; the port  *)
(* accesses of one see the same byte, because the controller shows another *)
(* only after it was read.                                                 *)
(***************************************************************************)

(* Mutant: releasing a key other than shift ends shift, too.               *)
ShiftAfterAnyUp(code) ==
  IF code \in ShiftDown THEN TRUE ELSE IF code >= 128 THEN FALSE ELSE shift_pressed

(* shift_pressed after a scan code.                                        *)
ShiftAfter(code) ==
  IF code \in ShiftDown THEN TRUE
  ELSE IF code \in ShiftUp THEN FALSE ELSE shift_pressed

(* The keyboard's handler does not look at the status.                     *)
KeyboardInterrupt ==
  /\ pc = "on" /\ "kbd" \in irr /\ irr' = irr \ {"kbd"}
  /\ ReadPort
  /\ shift_pressed' = ShiftAfter(port.byte)
  /\ IF port.byte \in DOMAIN KeyMap
     THEN /\ key' = KeyMap[port.byte][IF shift_pressed THEN 2 ELSE 1]
          /\ typed' = IF typed = <<>> THEN <<>> ELSE Tail(typed)
     ELSE UNCHANGED <<key, typed>>
  /\ UNCHANGED <<config, reply, devices, pc, mouse>>

Signed(b) == IF b >= 128 THEN b - 256 ELSE b    (* (int8_t) b               *)

(* Mutant: the handler does not look at the status.                        *)
MouseDataAlways == TRUE

(* Status bit 5, which the controller clears when the byte is read, as it  *)
(* clears bit 0.                                                           *)
MouseData == full /\ port.from = "aux"

(* The handler's third byte: motion, if there is one, and buttons with it. *)
Report(b) ==
  IF b[2] # 0 \/ b[3] # 0
  THEN moved' = <<Signed(b[2]), -Signed(b[3])>> /\ buttons' = b[1]
  ELSE UNCHANGED <<moved, buttons>>

(* Mutant: offset does not start again.                                    *)
NextOffsetOn == offset + 1

NextOffset == (offset + 1) % 3

MouseInterrupt ==
  /\ pc = "on" /\ "aux" \in irr /\ "kbd" \notin irr
  /\ irr' = irr \ {"aux"}
  /\ IF MouseData
     THEN LET b == [buffer EXCEPT ![offset + 1] = port.byte]
          IN  /\ ReadPort
              /\ buffer' = b /\ offset' = NextOffset
              /\ IF offset = 2
                 THEN Report(b) /\ sent' = IF sent = <<>> THEN <<>> ELSE Tail(sent)
                 ELSE UNCHANGED <<buttons, moved, sent>>
     ELSE UNCHANGED <<port, full, mouse>>
  /\ UNCHANGED <<config, reply, devices, pc, keyboard>>

Activate ==
  \/ DrainKeyboard \/ ConfigureKeyboard
  \/ DrainMouse \/ ConfigureMouse \/ AcknowledgeMouse \/ Enable

Kernel == Activate \/ KeyboardInterrupt \/ MouseInterrupt

Controller == ShowReply \/ ShowKey \/ ShowMotion

Next == Kernel \/ Controller \/ User

Spec == Init /\ [][Next]_vars

(* The kernel and the controller go on; the user may stop at any time.     *)
FairSpec == Spec /\ WF_vars(Kernel) /\ WF_vars(Controller)
-----------------------------------------------------------------------------
(***************************************************************************)
(* Properties.                                                             *)
(***************************************************************************)

(* Every variable has its C++ type; offset is an index of buffer.          *)
TypeOK ==
  /\ port \in [from : {"controller", "kbd", "aux"}, byte : 0 .. 255]
  /\ full \in BOOLEAN
  /\ config \in 0 .. 255
  /\ {reply, kbd, aux} \subseteq Seq(0 .. 255)
  /\ reporting \in BOOLEAN
  /\ irr \subseteq {"kbd", "aux"}
  /\ pc \in {"drainKeyboard", "configureKeyboard", "drainMouse",
             "configureMouse", "acknowledgeMouse", "enable", "on"}
  /\ shift_pressed \in BOOLEAN
  /\ offset \in 0 .. 2 /\ buffer \in Seq(0 .. 255) /\ Len(buffer) = 3
  /\ buttons \in 0 .. 255
  /\ moved \in (-128 .. 127) \X (-127 .. 128)
  /\ held \subseteq ShiftDown

(* Once interrupts are enabled, both devices are connected and raise their *)
(* interrupt lines: neither activate has undone the other's work, or taken *)
(* a byte of a device for the controller's configuration.                  *)
BothConnected ==
  pc \in {"enable", "on"} =>
    /\ Bit(config, KbdInterrupt) /\ Bit(config, AuxInterrupt)
    /\ ~Bit(config, KbdDisabled) /\ ~Bit(config, AuxDisabled)

(* The handler's idea of where a packet starts is the mouse's: what it has *)
(* taken of a packet and what is still to come make whole packets.         *)
PacketsAligned ==
  pc = "on" =>
    (offset + Len(aux) + (IF full /\ port.from = "aux" THEN 1 ELSE 0)) % 3 = 0

(* onKeyDown reports the characters the user has typed, each of them once, *)
(* in their order, in the case of the shift key held when it was typed.    *)
ReportsWhatWasTyped ==
  /\ [][typed' # typed /\ pc = "on" /\ Len(typed') <= Len(typed)
          => key' = Head(typed)]_vars
  /\ [][key' # key => typed # <<>>]_vars

(* onMouseMove reports the motions of the packets the mouse has sent, in   *)
(* their order, also when the keyboard sends bytes in between.             *)
ReportsEveryMotion ==
  [][Len(sent') < Len(sent) =>
       LET p == Head(sent)
       IN  (p[2] # 0 \/ p[3] # 0) =>
             moved' = <<Signed(p[2]), -Signed(p[3])>> /\ buttons' = p[1]]_vars

(* No byte stays in the data port for ever, where it would keep both       *)
(* devices from being heard.                                               *)
NoByteIsStuck == (pc = "on" /\ full) ~> ~full
=============================================================================
