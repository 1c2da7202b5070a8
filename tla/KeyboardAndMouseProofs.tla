----------------------- MODULE KeyboardAndMouseProofs -----------------------
(***************************************************************************)
(* Theorems about KeyboardAndMouse for every keyboard, every mouse, every  *)
(* configuration the firmware may leave, and any number of bytes held back *)
(* by the devices.                                                         *)
(***************************************************************************)
EXTENDS KeyboardAndMouse, SequenceTheorems, TLAPS

(* What the drivers rely on: a controller that answers before it is asked  *)
(* again, and users that wait until interrupts are enabled.                *)
KindHardware == AnswersAtOnce = TRUE /\ QuietStart = TRUE

(* The configuration asked for is at the data port, or about to be.        *)
Answer ==
  \/ reply = <<config>> /\ ~full
  \/ reply = <<>> /\ full /\ port.byte = config

KeyboardOn == Bit(config, KbdInterrupt) /\ ~Bit(config, KbdDisabled)
MouseOn == Bit(config, AuxInterrupt) /\ ~Bit(config, AuxDisabled)

Line(from) == IF from = "aux" THEN "aux" ELSE "kbd"

(* How far the conversation with the controller is at each step of         *)
(* activate; and that interrupts left over from it are taken before the    *)
(* devices have anything to say.                                           *)
Conversation ==
  /\ pc = "drainKeyboard" => reply = <<>> /\ kbd = <<>> /\ aux = <<>>
  /\ pc = "configureKeyboard" => Answer /\ kbd = <<>> /\ aux = <<>>
  /\ pc = "drainMouse" =>
       reply = <<>> /\ aux = <<>> /\ KeyboardOn /\ (kbd = <<>> \/ (kbd = <<ACK>> /\ ~full))
  /\ pc = "configureMouse" =>
       Answer /\ kbd = <<>> /\ aux = <<>> /\ KeyboardOn /\ ~Bit(config, AuxDisabled)
  /\ pc = "acknowledgeMouse" =>
       /\ reply = <<>> /\ kbd = <<>> /\ KeyboardOn /\ MouseOn
       /\ (aux = <<ACK>> /\ ~full) \/ (aux = <<>> /\ full)
  /\ pc = "enable" =>
       reply = <<>> /\ kbd = <<>> /\ aux = <<>> /\ ~full /\ KeyboardOn /\ MouseOn
  /\ pc = "on" =>
       /\ reply = <<>> /\ KeyboardOn /\ MouseOn
       /\ \/ ~full /\ irr = {}
          \/ full /\ irr = {Line(port.from)}
          \/ ~full /\ kbd = <<>> /\ aux = <<>>

(* The m-th byte of the packets that have not been reported: the handler   *)
(* has it, the data port shows it, or the mouse still has to send it.      *)
Shown == IF full /\ port.from = "aux" THEN 1 ELSE 0
Byte(m) ==
  IF m <= offset THEN buffer[m]
  ELSE IF m <= offset + Shown THEN port.byte ELSE aux[m - offset - Shown]

(* Those bytes are the packets the mouse has sent.                         *)
Flow ==
  /\ sent \in Seq(Packets)
  /\ pc # "on" => sent = <<>> /\ offset = 0
  /\ pc = "on" =>
       /\ offset + Shown + Len(aux) = 3 * Len(sent)
       /\ \A n \in 1 .. Len(sent), k \in 1 .. 3 : Byte(3 * (n - 1) + k) = sent[n][k]

IInv == TypeOK /\ Conversation /\ Flow
-----------------------------------------------------------------------------
(* Setting and clearing a bit of a byte does that, and leaves the others.  *)
LEMMA Bits ==
  \A b \in 0 .. 255, w \in {1, 2, 16, 32} :
    /\ Set(b, w) \in 0 .. 255 /\ Clear(b, w) \in 0 .. 255
    /\ Bit(Set(b, w), w) /\ ~Bit(Clear(b, w), w)
  <1> SUFFICES ASSUME NEW b \in 0 .. 255, NEW w \in {1, 2, 16, 32}
               PROVE  /\ Set(b, w) \in 0 .. 255 /\ Clear(b, w) \in 0 .. 255
                      /\ Bit(Set(b, w), w) /\ ~Bit(Clear(b, w), w)
    OBVIOUS
  <1>1. CASE w = 1
    BY <1>1 DEF Set, Clear, Bit
  <1>2. CASE w = 2
    BY <1>2 DEF Set, Clear, Bit
  <1>3. CASE w = 16
    BY <1>3 DEF Set, Clear, Bit
  <1>4. CASE w = 32
    BY <1>4 DEF Set, Clear, Bit
  <1> QED BY <1>1, <1>2, <1>3, <1>4

LEMMA OtherBits ==
  \A b \in 0 .. 255, v, w \in {1, 2, 16, 32} : v # w =>
    (Bit(Set(b, w), v) <=> Bit(b, v)) /\ (Bit(Clear(b, w), v) <=> Bit(b, v))
  <1> SUFFICES ASSUME NEW b \in 0 .. 255, NEW v \in {1, 2, 16, 32},
                      NEW w \in {1, 2, 16, 32}, v # w
               PROVE  /\ Bit(Set(b, w), v) <=> Bit(b, v)
                      /\ Bit(Clear(b, w), v) <=> Bit(b, v)
    OBVIOUS
  <1>1. CASE w = 1
    BY <1>1 DEF Set, Clear, Bit
  <1>2. CASE w = 2
    BY <1>2 DEF Set, Clear, Bit
  <1>3. CASE w = 16
    BY <1>3 DEF Set, Clear, Bit
  <1>4. CASE w = 32
    BY <1>4 DEF Set, Clear, Bit
  <1> QED BY <1>1, <1>2, <1>3, <1>4

(* The constants of the controller and the devices are bytes.              *)
LEMMA Weights ==
  /\ KbdInterrupt = 1 /\ AuxInterrupt = 2 /\ KbdDisabled = 16 /\ AuxDisabled = 32
  /\ ACK \in 0 .. 255
  BY DEF KbdInterrupt, AuxInterrupt, KbdDisabled, AuxDisabled, ACK

LEMMA PacketType ==
  ASSUME NEW p \in Packets
  PROVE  p \in Seq(0 .. 255) /\ Len(p) = 3
  <1>1. p \in [1 .. 3 -> 0 .. 255]
    BY InputAssumption
  <1>2. p \in Seq(0 .. 255)
    <2>1. [1 .. 3 -> 0 .. 255] \in {[1 .. n -> 0 .. 255] : n \in Nat}
      <3>1. 3 \in Nat
        OBVIOUS
      <3> QED BY <3>1
    <2>2. p \in UNION {[1 .. n -> 0 .. 255] : n \in Nat}
      BY <1>1, <2>1
    <2>3. Seq(0 .. 255) = UNION {[1 .. n -> 0 .. 255] : n \in Nat}
      BY SeqDef
    <2> QED BY <2>2, <2>3
  <1>3. Len(p) \in Nat /\ DOMAIN p = 1 .. Len(p)
    BY <1>2, LenProperties
  <1> QED BY <1>1, <1>2, <1>3

(* Types do not depend on what devices and users do.                       *)
THEOREM NextType == TypeOK /\ [Next]_vars => TypeOK'
  <1> SUFFICES ASSUME TypeOK, [Next]_vars PROVE TypeOK'
    OBVIOUS
  <1> USE DEF controller, devices, keyboard, mouse
  <1>q. reply \in Seq(0 .. 255) /\ kbd \in Seq(0 .. 255) /\ aux \in Seq(0 .. 255)
    BY DEF TypeOK
  <1>p. port.byte \in 0 .. 255 /\ config \in 0 .. 255
    BY DEF TypeOK
  <1>1. CASE ShowReply \/ ShowKey \/ ShowMotion
    <2>0. \A s \in Seq(0 .. 255) : s # <<>> => Head(s) \in 0 .. 255 /\ Tail(s) \in Seq(0 .. 255)
      BY HeadTailProperties
    <2>1. port' \in [from : {"controller", "kbd", "aux"}, byte : 0 .. 255]
      <3>1. CASE ShowReply
        BY <1>q, <2>0, <3>1 DEF ShowReply, Show
      <3>2. CASE ShowKey
        BY <1>q, <2>0, <3>2 DEF ShowKey, Show
      <3>3. CASE ShowMotion
        BY <1>q, <2>0, <3>3 DEF ShowMotion, Show
      <3> QED BY <1>1, <3>1, <3>2, <3>3
    <2>2. reply' \in Seq(0 .. 255) /\ kbd' \in Seq(0 .. 255) /\ aux' \in Seq(0 .. 255)
      <3>1. CASE ShowReply
        <4>1. reply # <<>> /\ reply' = Tail(reply) /\ kbd' = kbd /\ aux' = aux
          BY <3>1 DEF ShowReply
        <4>2. Tail(reply) \in Seq(0 .. 255)
          BY <1>q, <2>0, <4>1
        <4> QED BY <1>q, <4>1, <4>2
      <3>2. CASE ShowKey
        <4>1. kbd # <<>> /\ kbd' = Tail(kbd) /\ reply' = reply /\ aux' = aux
          BY <3>2 DEF ShowKey
        <4>2. Tail(kbd) \in Seq(0 .. 255)
          BY <1>q, <2>0, <4>1
        <4> QED BY <1>q, <4>1, <4>2
      <3>3. CASE ShowMotion
        <4>1. aux # <<>> /\ aux' = Tail(aux) /\ reply' = reply /\ kbd' = kbd
          BY <3>3 DEF ShowMotion
        <4>2. Tail(aux) \in Seq(0 .. 255)
          BY <1>q, <2>0, <4>1
        <4> QED BY <1>q, <4>1, <4>2
      <3> QED BY <1>1, <3>1, <3>2, <3>3
    <2>3. irr' \subseteq {"kbd", "aux"} /\ full' = TRUE
      BY <1>1 DEF ShowReply, ShowKey, ShowMotion, Show, TypeOK
    <2>4. UNCHANGED <<config, reporting, held, pc, keyboard, mouse>>
      BY <1>1 DEF ShowReply, ShowKey, ShowMotion, Show
    <2> QED BY <2>1, <2>2, <2>3, <2>4 DEF TypeOK
  <1>2. CASE User
    <2>1. ASSUME NEW c \in DOMAIN KeyMap \cup OtherKeys \cup ShiftDown \cup ShiftUp, Type(c)
          PROVE  TypeOK'
      <3>1. c \in 0 .. 255
        <4>1. DOMAIN KeyMap \subseteq 0 .. 255
          <5>1. 1 .. 127 \subseteq 0 .. 255
            OBVIOUS
          <5> QED BY <5>1, InputAssumption
        <4>2. OtherKeys \subseteq 0 .. 255
          BY InputAssumption
        <4>3. ShiftDown \cup ShiftUp \subseteq 0 .. 255
          BY DEF ShiftDown, ShiftUp
        <4> QED BY <2>1, <4>1, <4>2, <4>3
      <3>2. kbd' \in Seq(0 .. 255)
        BY <1>q, <2>1, <3>1, AppendProperties DEF Type
      <3>3. held' \subseteq ShiftDown
        BY <2>1 DEF Type, TypeOK
      <3> QED BY <1>q, <2>1, <3>2, <3>3 DEF Type, TypeOK
    <2>2. ASSUME NEW p \in Packets, Move(p) PROVE TypeOK'
      <3>1. aux' \in Seq(0 .. 255)
        BY <1>q, <2>2, PacketType, ConcatProperties DEF Move
      <3> QED BY <1>q, <2>2, <3>1 DEF Move, TypeOK
    <2> QED BY <1>2, <2>1, <2>2 DEF User
  <1>3. CASE DrainKeyboard \/ DrainMouse
    <2>1. /\ UNCHANGED <<port, irr, devices, keyboard, mouse>>
          /\ \/ UNCHANGED <<config, reply, pc>> /\ full' = FALSE
             \/ /\ \E w \in {16, 32} : config' = Clear(config, w)
                /\ reply' = Append(reply, config') /\ UNCHANGED full
                /\ pc' \in {"configureKeyboard", "configureMouse"}
      <3>1. CASE DrainKeyboard
        BY <3>1, Weights DEF DrainKeyboard, Drain, ReadPort
      <3>2. CASE DrainMouse
        BY <3>2, Weights DEF DrainMouse, Drain, ReadPort
      <3> QED BY <1>3, <3>1, <3>2
    <2>2. config' \in 0 .. 255
      <3>1. Clear(config, 16) \in 0 .. 255 /\ Clear(config, 32) \in 0 .. 255
        BY <1>p, Bits
      <3>2. config' = config \/ config' = Clear(config, 16) \/ config' = Clear(config, 32)
        BY <2>1
      <3> QED BY <1>p, <3>1, <3>2
    <2>3. reply' \in Seq(0 .. 255)
      <3>1. Append(reply, config') \in Seq(0 .. 255)
        BY <1>q, <2>2, AppendProperties
      <3> QED BY <1>q, <2>1, <3>1
    <2>4. full' \in BOOLEAN
      BY <2>1 DEF TypeOK
    <2>5. pc' = pc \/ pc' \in {"configureKeyboard", "configureMouse"}
      BY <2>1
    <2>6. UNCHANGED <<port, irr, devices, keyboard, mouse>>
      BY <2>1
    <2> QED BY <1>q, <2>2, <2>3, <2>4, <2>5, <2>6 DEF TypeOK
  <1>4. CASE ConfigureKeyboard
    <2>1. config' \in 0 .. 255
      BY <1>4, <1>p, Bits, Weights DEF ConfigureKeyboard
    <2>2. kbd' \in Seq(0 .. 255)
      BY <1>4, <1>q, Weights, AppendProperties DEF ConfigureKeyboard
    <2> QED BY <1>4, <1>q, <2>1, <2>2 DEF ConfigureKeyboard, ReadPort, TypeOK
  <1>5. CASE ConfigureMouse
    <2>1. config' \in 0 .. 255
      BY <1>5, <1>p, Bits, Weights DEF ConfigureMouse
    <2>2. aux' \in Seq(0 .. 255)
      BY <1>5, <1>q, Weights, AppendProperties DEF ConfigureMouse
    <2> QED BY <1>5, <1>q, <2>1, <2>2 DEF ConfigureMouse, ReadPort, TypeOK
  <1>6. CASE AcknowledgeMouse \/ Enable
    <2>1. /\ UNCHANGED <<port, config, reply, irr, devices, keyboard, mouse>>
          /\ full' \in BOOLEAN /\ pc' \in {"enable", "on"}
      BY <1>6 DEF AcknowledgeMouse, Enable, ReadPort, TypeOK
    <2> QED BY <1>q, <2>1 DEF TypeOK
  <1>7. CASE KeyboardInterrupt
    <2>1. shift_pressed' \in BOOLEAN
      BY <1>7 DEF KeyboardInterrupt, ShiftAfter, TypeOK
    <2> QED BY <1>7, <1>q, <2>1 DEF KeyboardInterrupt, ReadPort, TypeOK
  <1>8. CASE MouseInterrupt
    <2>1. UNCHANGED <<port, config, reply, devices, pc, keyboard>>
          /\ irr' \subseteq {"kbd", "aux"} /\ full' \in BOOLEAN
      BY <1>8 DEF MouseInterrupt, ReadPort, TypeOK
    <2>2. /\ offset' \in 0 .. 2 /\ buffer' \in Seq(0 .. 255) /\ Len(buffer') = 3
          /\ buttons' \in 0 .. 255 /\ moved' \in (-128 .. 127) \X (-127 .. 128)
      <3>1. CASE ~MouseData
        BY <1>8, <3>1 DEF MouseInterrupt, TypeOK
      <3>2. CASE MouseData
        <4> DEFINE b == [buffer EXCEPT ![offset + 1] = port.byte]
        <4>1. b \in Seq(0 .. 255) /\ Len(b) = 3
          <5>1. offset + 1 \in 1 .. Len(buffer) /\ buffer \in Seq(0 .. 255) /\ Len(buffer) = 3
            BY DEF TypeOK
          <5>2. port.byte \in 0 .. 255
            BY <1>p
          <5>3. b \in Seq(0 .. 255)
            BY <5>1, <5>2, ExceptSeq
          <5>4. Len(b) = Len(buffer)
            BY <5>1, <5>2, ExceptSeq
          <5> QED BY <5>1, <5>3, <5>4
        <4>2. b[1] \in 0 .. 255 /\ b[2] \in 0 .. 255 /\ b[3] \in 0 .. 255
          <5> HIDE DEF b
          <5>1. 1 \in 1 .. Len(b) /\ 2 \in 1 .. Len(b) /\ 3 \in 1 .. Len(b)
            BY <4>1
          <5>2. b \in Seq(0 .. 255)
            BY <4>1
          <5>3. \A n \in 1 .. Len(b) : b[n] \in 0 .. 255
            BY <5>2, ElementOfSeq
          <5> QED BY <5>1, <5>3
        <4>3. buffer' = b /\ offset' = (offset + 1) % 3
              /\ (Report(b) \/ UNCHANGED <<buttons, moved>>)
          BY <1>8, <3>2 DEF MouseInterrupt, NextOffset
        <4> HIDE DEF b
        <4>4. buttons' \in 0 .. 255 /\ moved' \in (-128 .. 127) \X (-127 .. 128)
          <5>1. Signed(b[2]) \in -128 .. 127 /\ -Signed(b[3]) \in -127 .. 128
            BY <4>2 DEF Signed
          <5>2. buttons \in 0 .. 255 /\ moved \in (-128 .. 127) \X (-127 .. 128)
            BY DEF TypeOK
          <5> QED BY <4>2, <4>3, <5>1, <5>2 DEF Report
        <4>5. offset' \in 0 .. 2
          BY <4>3 DEF TypeOK
        <4> QED BY <4>1, <4>3, <4>4, <4>5
      <3> QED BY <3>1, <3>2
    <2> QED BY <1>q, <2>1, <2>2 DEF TypeOK
  <1>9. CASE UNCHANGED vars
    BY <1>9 DEF vars, TypeOK
  <1> QED
    BY <1>1, <1>2, <1>3, <1>4, <1>5, <1>6, <1>7, <1>8, <1>9
       DEF Next, Kernel, Activate, Controller

THEOREM InitiallyType == Init => TypeOK
  <1> SUFFICES ASSUME Init PROVE TypeOK
    OBVIOUS
  <1>1. /\ <<>> \in Seq(0 .. 255) /\ FirstConfigs \subseteq 0 .. 255
        /\ <<0, 0, 0>> \in Seq(0 .. 255) /\ Len(<<0, 0, 0>>) = 3
    BY InputAssumption
  <1>2. port \in [from : {"controller", "kbd", "aux"}, byte : 0 .. 255]
    BY DEF Init
  <1>3. moved \in (-128 .. 127) \X (-127 .. 128)
    BY DEF Init
  <1>4. /\ config \in 0 .. 255 /\ full \in BOOLEAN /\ {reply, kbd, aux} \subseteq Seq(0 .. 255)
        /\ buffer \in Seq(0 .. 255) /\ Len(buffer) = 3
    BY <1>1 DEF Init
  <1>5. /\ reporting = FALSE /\ irr = {} /\ pc = "drainKeyboard" /\ shift_pressed = FALSE
        /\ offset = 0 /\ buttons = 0 /\ held = {}
    BY DEF Init
  <1>6. offset \in 0 .. 2 /\ buttons \in 0 .. 255
    BY <1>5
  <1>7. reporting \in BOOLEAN /\ shift_pressed \in BOOLEAN
    BY <1>5
  <1>8. irr \subseteq {"kbd", "aux"} /\ held \subseteq ShiftDown
    BY <1>5
  <1> QED BY <1>2, <1>3, <1>4, <1>5, <1>6, <1>7, <1>8 DEF TypeOK

(* Every variable has its type, on any hardware.                           *)
THEOREM InputTypeOK == Spec => []TypeOK
  BY InitiallyType, NextType, PTL DEF Spec
-----------------------------------------------------------------------------
(* What the bits of the configuration are after each activate.             *)
LEMMA Configured ==
  ASSUME NEW b \in 0 .. 255
  PROVE  /\ Bit(Clear(Set(b, KbdInterrupt), KbdDisabled), KbdInterrupt)
         /\ ~Bit(Clear(Set(b, KbdInterrupt), KbdDisabled), KbdDisabled)
         /\ Bit(Clear(b, AuxDisabled), KbdInterrupt) <=> Bit(b, KbdInterrupt)
         /\ Bit(Clear(b, AuxDisabled), KbdDisabled) <=> Bit(b, KbdDisabled)
         /\ ~Bit(Clear(b, AuxDisabled), AuxDisabled)
         /\ \A w \in {KbdInterrupt, KbdDisabled, AuxDisabled} :
              Bit(Set(b, AuxInterrupt), w) <=> Bit(b, w)
         /\ Bit(Set(b, AuxInterrupt), AuxInterrupt)
  <1>1. Set(b, 1) \in 0 .. 255
    BY Bits
  <1>2. Bit(Set(b, 1), 1) /\ Bit(Set(b, 2), 2) /\ ~Bit(Clear(b, 32), 32)
    BY Bits
  <1>3. Bit(Clear(Set(b, 1), 16), 1) /\ ~Bit(Clear(Set(b, 1), 16), 16)
    <2>1. ~Bit(Clear(Set(b, 1), 16), 16)
      BY <1>1, Bits
    <2>2. Bit(Clear(Set(b, 1), 16), 1) <=> Bit(Set(b, 1), 1)
      BY <1>1, OtherBits
    <2> QED BY <1>2, <2>1, <2>2
  <1>4. /\ Bit(Clear(b, 32), 1) <=> Bit(b, 1)
        /\ Bit(Clear(b, 32), 16) <=> Bit(b, 16)
        /\ \A w \in {1, 16, 32} : Bit(Set(b, 2), w) <=> Bit(b, w)
    BY OtherBits
  <1> QED BY <1>2, <1>3, <1>4, Weights

(* One step of the conversation after the other.                           *)
LEMMA NextConversation ==
  ASSUME KindHardware, TypeOK, TypeOK', Conversation, [Next]_vars
  PROVE  Conversation'
  <1> USE DEF controller, devices, keyboard, mouse
  <1>t. /\ reply \in Seq(0 .. 255) /\ kbd \in Seq(0 .. 255) /\ aux \in Seq(0 .. 255)
        /\ port.byte \in 0 .. 255 /\ config \in 0 .. 255
        /\ pc \in {"drainKeyboard", "configureKeyboard", "drainMouse",
                   "configureMouse", "acknowledgeMouse", "enable", "on"}
    BY DEF TypeOK
  <1>o. \A b : Head(<<b>>) = b /\ Tail(<<b>>) = <<>> /\ Append(<<>>, b) = <<b>> /\ <<b>> # <<>>
    OBVIOUS
  <1>1. CASE ShowReply
    <2>1. /\ reply # <<>> /\ ~full /\ full'
          /\ port' = [from |-> "controller", byte |-> Head(reply)] /\ reply' = Tail(reply)
          /\ UNCHANGED <<kbd, aux, config, pc>>
      BY <1>1 DEF ShowReply, Show
    <2>2. pc \in {"configureKeyboard", "configureMouse"} /\ reply = <<config>>
      BY <1>t, <2>1 DEF Conversation, Answer
    <2>3. port'.byte = config /\ reply' = <<>>
      BY <1>o, <2>1, <2>2
    <2> QED BY <2>1, <2>2, <2>3 DEF Conversation, Answer, KeyboardOn, MouseOn
  <1>2. CASE ShowKey
    <2>1. /\ kbd # <<>> /\ ~full /\ full' /\ port'.from = "kbd" /\ kbd' = Tail(kbd)
          /\ irr' = irr \cup (IF Bit(config, KbdInterrupt) THEN {"kbd"} ELSE {})
          /\ UNCHANGED <<reply, aux, config, pc>>
      BY <1>2 DEF ShowKey, Show
    <2>2. pc \in {"drainMouse", "on"}
      BY <1>t, <2>1 DEF Conversation
    <2>3. CASE pc = "drainMouse"
      BY <1>o, <2>1, <2>3 DEF Conversation, KeyboardOn
    <2>4. CASE pc = "on"
      BY <2>1, <2>4 DEF Conversation, KeyboardOn, MouseOn, Line
    <2> QED BY <2>2, <2>3, <2>4
  <1>3. CASE ShowMotion
    <2>1. /\ aux # <<>> /\ ~full /\ full' /\ port'.from = "aux" /\ aux' = Tail(aux)
          /\ irr' = irr \cup (IF Bit(config, AuxInterrupt) THEN {"aux"} ELSE {})
          /\ UNCHANGED <<reply, kbd, config, pc>>
      BY <1>3 DEF ShowMotion, Show
    <2>2. pc \in {"acknowledgeMouse", "on"}
      BY <1>t, <2>1 DEF Conversation
    <2>3. CASE pc = "acknowledgeMouse"
      BY <1>o, <2>1, <2>3 DEF Conversation, KeyboardOn, MouseOn
    <2>4. CASE pc = "on"
      BY <2>1, <2>4 DEF Conversation, KeyboardOn, MouseOn, Line
    <2> QED BY <2>2, <2>3, <2>4
  <1>4. CASE User
    <2>1. /\ UNCHANGED <<port, full, config, reply, irr, pc>> /\ pc = "on"
          /\ full \/ irr = {}
      BY <1>4 DEF User, Type, Move, MayAct, KindHardware
    <2> QED BY <2>1 DEF Conversation, KeyboardOn, MouseOn, Line
  <1>5. CASE DrainKeyboard
    <2>1. /\ pc = "drainKeyboard" /\ UNCHANGED <<kbd, aux>>
          /\ IF full THEN UNCHANGED <<config, reply, pc>>
                     ELSE /\ reply' = Append(reply, config')
                          /\ pc' = "configureKeyboard" /\ full' = full
      BY <1>5 DEF DrainKeyboard, Drain
    <2> QED BY <1>o, <2>1 DEF Conversation, Answer
  <1>6. CASE ConfigureKeyboard
    <2>1. /\ pc = "configureKeyboard" /\ pc' = "drainMouse" /\ full' = FALSE
          /\ config' = Clear(Set(port.byte, KbdInterrupt), KbdDisabled)
          /\ kbd' = Append(kbd, ACK) /\ UNCHANGED <<reply, aux>>
          /\ full \/ reply = <<>>
      BY <1>6 DEF ConfigureKeyboard, ReadPort, Answered, KindHardware
    <2>2. reply = <<>> /\ kbd = <<>> /\ aux = <<>>
      BY <1>o, <2>1 DEF Conversation, Answer
    <2>3. Bit(config', KbdInterrupt) /\ ~Bit(config', KbdDisabled)
      BY <1>t, <2>1, Configured
    <2> QED BY <1>o, <2>1, <2>2, <2>3 DEF Conversation, KeyboardOn
  <1>7. CASE DrainMouse
    <2>1. /\ pc = "drainMouse" /\ UNCHANGED <<kbd, aux>>
          /\ IF full THEN full' = FALSE /\ UNCHANGED <<config, reply, pc>>
                     ELSE /\ config' = Clear(config, AuxDisabled)
                          /\ reply' = Append(reply, config')
                          /\ pc' = "configureMouse" /\ full' = full
          /\ full \/ ~(kbd # <<>> /\ Head(kbd) = ACK)
      BY <1>7 DEF DrainMouse, Drain, ReadPort, Answered, KindHardware
    <2>2. reply = <<>> /\ aux = <<>> /\ KeyboardOn /\ kbd = <<>>
      BY <1>o, <2>1 DEF Conversation
    <2>3. CASE full
      BY <2>1, <2>2, <2>3 DEF Conversation, KeyboardOn
    <2>4. CASE ~full
      <3>1. /\ Bit(config', KbdInterrupt) /\ ~Bit(config', KbdDisabled)
            /\ ~Bit(config', AuxDisabled)
        <4>1. config' = Clear(config, AuxDisabled)
          BY <2>1, <2>4
        <4>2. /\ Bit(Clear(config, AuxDisabled), KbdInterrupt) <=> Bit(config, KbdInterrupt)
              /\ Bit(Clear(config, AuxDisabled), KbdDisabled) <=> Bit(config, KbdDisabled)
              /\ ~Bit(Clear(config, AuxDisabled), AuxDisabled)
          BY <1>t, Configured
        <4> QED BY <2>2, <4>1, <4>2 DEF KeyboardOn
      <3> QED BY <1>o, <2>1, <2>2, <2>4, <3>1 DEF Conversation, Answer, KeyboardOn
    <2> QED BY <2>3, <2>4
  <1>8. CASE ConfigureMouse
    <2>1. /\ pc = "configureMouse" /\ pc' = "acknowledgeMouse" /\ full' = FALSE
          /\ config' = Set(port.byte, AuxInterrupt)
          /\ aux' = Append(aux, ACK) /\ UNCHANGED <<reply, kbd>>
          /\ full \/ reply = <<>>
      BY <1>8 DEF ConfigureMouse, ReadPort, Answered, KindHardware
    <2>2. /\ reply = <<>> /\ kbd = <<>> /\ aux = <<>> /\ port.byte = config
          /\ KeyboardOn /\ ~Bit(config, AuxDisabled)
      BY <1>o, <2>1 DEF Conversation, Answer
    <2>3. KeyboardOn' /\ MouseOn'
      BY <1>t, <2>1, <2>2, Configured DEF KeyboardOn, MouseOn
    <2> QED BY <1>o, <2>1, <2>2, <2>3 DEF Conversation
  <1>9. CASE AcknowledgeMouse
    <2>1. /\ pc = "acknowledgeMouse" /\ pc' = "enable" /\ full' = FALSE
          /\ UNCHANGED <<reply, kbd, aux, config>>
          /\ full \/ ~(aux # <<>> /\ Head(aux) = ACK)
      BY <1>9 DEF AcknowledgeMouse, ReadPort, Answered, KindHardware
    <2> QED BY <1>o, <2>1 DEF Conversation, KeyboardOn, MouseOn
  <1>10. CASE Enable
    BY <1>10 DEF Enable, Conversation, KeyboardOn, MouseOn
  <1>11. CASE KeyboardInterrupt \/ MouseInterrupt
    <2>1. /\ pc = "on" /\ UNCHANGED <<reply, kbd, aux, config, pc>>
          /\ \/ full' = FALSE /\ irr' = irr \ {"kbd"} /\ "kbd" \in irr
             \/ /\ full' = FALSE \/ (full' = full /\ ~(full /\ port.from = "aux"))
                /\ irr' = irr \ {"aux"} /\ "aux" \in irr
      BY <1>11 DEF KeyboardInterrupt, MouseInterrupt, ReadPort, MouseData
    <2> QED BY <2>1 DEF Conversation, KeyboardOn, MouseOn, Line
  <1>12. CASE UNCHANGED vars
    BY <1>12 DEF vars, Conversation, Answer, KeyboardOn, MouseOn, Line
  <1> QED
    BY <1>1, <1>2, <1>3, <1>4, <1>5, <1>6, <1>7, <1>8, <1>9, <1>10, <1>11, <1>12
       DEF Next, Kernel, Activate, Controller

(* A byte at the data port is one more, and the rest is what it was.       *)
LEMMA SameFlow ==
  ASSUME TypeOK, Flow, pc = "on", pc' = pc, UNCHANGED <<offset, buffer, sent>>,
         \/ Shown' = Shown /\ aux' = aux /\ (Shown = 1 => port'.byte = port.byte)
         \/ Shown = 0 /\ Shown' = 1 /\ aux # <<>> /\ aux' = Tail(aux) /\ port'.byte = Head(aux)
  PROVE  Flow'
  <1>1. /\ offset \in 0 .. 2 /\ Shown \in 0 .. 1 /\ aux \in Seq(0 .. 255)
        /\ sent \in Seq(Packets) /\ Len(sent) \in Nat /\ Len(aux) \in Nat
    BY LenProperties DEF TypeOK, Flow, Shown
  <1>2. /\ offset + Shown + Len(aux) = 3 * Len(sent)
        /\ \A n \in 1 .. Len(sent), k \in 1 .. 3 : Byte(3 * (n - 1) + k) = sent[n][k]
    BY DEF Flow
  <1>3. offset' + Shown' + Len(aux') = 3 * Len(sent')
    BY <1>1, <1>2, HeadTailProperties
  <1>4. ASSUME NEW m \in 1 .. 3 * Len(sent)
        PROVE  (IF m <= offset' THEN buffer'[m]
                ELSE IF m <= offset' + Shown' THEN port'.byte ELSE aux'[m - offset' - Shown'])
                 = Byte(m)
    <2>1. CASE Shown' = Shown /\ aux' = aux /\ (Shown = 1 => port'.byte = port.byte)
      BY <1>1, <2>1 DEF Byte
    <2>2. CASE Shown = 0 /\ Shown' = 1 /\ aux # <<>> /\ aux' = Tail(aux) /\ port'.byte = Head(aux)
      <3>1. Len(aux) > 0 /\ Head(aux) = aux[1] /\ Len(aux') = Len(aux) - 1
            /\ \A j \in 1 .. Len(aux) - 1 : aux'[j] = aux[j + 1]
        BY <1>1, <2>2, HeadTailProperties
      <3>2. CASE m <= offset
        BY <1>1, <2>2, <3>2 DEF Byte
      <3>3. CASE m = offset + 1
        BY <1>1, <2>2, <3>1, <3>3 DEF Byte
      <3>4. CASE m > offset + 1
        <4>1. m - offset - 1 \in 1 .. Len(aux) - 1 /\ (m - offset - 1) + 1 = m - offset - 0
          BY <1>1, <1>2, <2>2, <3>4
        <4>2. aux'[m - offset - 1] = aux[m - offset - 0]
          BY <3>1, <4>1
        <4>3. ~(m <= offset) /\ ~(m <= offset + 0) /\ ~(m <= offset + 1)
          BY <1>1, <3>4
        <4>4. Byte(m) = aux[m - offset - 0]
          BY <2>2, <4>3 DEF Byte
        <4>5. offset' = offset
          OBVIOUS
        <4> QED BY <2>2, <4>2, <4>3, <4>4, <4>5
      <3> QED BY <1>1, <3>2, <3>3, <3>4
    <2> QED BY <2>1, <2>2
  <1>5. ASSUME NEW n \in 1 .. Len(sent), NEW k \in 1 .. 3
        PROVE  3 * (n - 1) + k \in 1 .. 3 * Len(sent)
    BY <1>1
  <1>6. \A n \in 1 .. Len(sent'), k \in 1 .. 3 :
          LET m == 3 * (n - 1) + k
          IN  (IF m <= offset' THEN buffer'[m]
               ELSE IF m <= offset' + Shown' THEN port'.byte ELSE aux'[m - offset' - Shown'])
                = sent'[n][k]
    BY <1>2, <1>4, <1>5
  <1>7. pc' = "on" /\ sent' \in Seq(Packets)
    BY <1>1
  <1>8. \A n \in 1 .. Len(sent'), k \in 1 .. 3 : Byte(3 * (n - 1) + k)' = sent'[n][k]
    BY <1>6 DEF Byte
  <1> QED BY <1>3, <1>7, <1>8 DEF Flow

(* A packet sent comes behind the others.                                  *)
LEMMA MoveKeepsFlow ==
  ASSUME TypeOK, Flow, pc = "on", NEW p \in Packets, Move(p)
  PROVE  Flow'
  <1> USE DEF controller, keyboard
  <1> DEFINE L == Len(sent)
             A == Len(aux)
  <1>1. /\ offset \in 0 .. 2 /\ Shown \in 0 .. 1 /\ aux \in Seq(0 .. 255)
        /\ sent \in Seq(Packets) /\ L \in Nat /\ A \in Nat
    BY LenProperties DEF TypeOK, Flow, Shown
  <1>2. /\ offset + Shown + A = 3 * L
        /\ \A n \in 1 .. L, k \in 1 .. 3 : Byte(3 * (n - 1) + k) = sent[n][k]
    BY DEF Flow
  <1>3. /\ aux' = aux \o p /\ sent' = Append(sent, p) /\ pc' = pc
        /\ UNCHANGED <<port, full, offset, buffer>> /\ Shown' = Shown
    BY DEF Move, Shown
  <1>4. p \in Seq(0 .. 255) /\ Len(p) = 3
    BY PacketType
  <1>5. /\ Len(aux') = A + 3 /\ \A j \in 1 .. A : aux'[j] = aux[j]
        /\ \A k \in 1 .. 3 : aux'[A + k] = p[k]
    <2>1. /\ Len(aux \o p) = Len(aux) + Len(p)
          /\ \A j \in 1 .. Len(aux) + Len(p) :
               (aux \o p)[j] = IF j <= Len(aux) THEN aux[j] ELSE p[j - Len(aux)]
      BY <1>1, <1>4, ConcatProperties
    <2>2. ASSUME NEW k \in 1 .. 3 PROVE aux'[A + k] = p[k]
      <3>1. A + k \in 1 .. Len(aux) + Len(p) /\ ~(A + k <= Len(aux)) /\ (A + k) - Len(aux) = k
        BY <1>1, <1>4
      <3> QED BY <1>3, <2>1, <3>1
    <2>3. ASSUME NEW j \in 1 .. A PROVE aux'[j] = aux[j]
      <3>1. j \in 1 .. Len(aux) + Len(p) /\ j <= Len(aux)
        BY <1>1, <1>4
      <3> QED BY <1>3, <2>1, <3>1
    <2> QED BY <1>3, <1>4, <2>1, <2>2, <2>3
  <1>6. /\ sent' \in Seq(Packets) /\ Len(sent') = L + 1 /\ sent'[L + 1] = p
        /\ \A n \in 1 .. L : sent'[n] = sent[n]
    BY <1>1, <1>3, AppendProperties
  <1> DEFINE New(m) == IF m <= offset THEN buffer[m]
                       ELSE IF m <= offset + Shown THEN port.byte
                       ELSE aux'[m - offset - Shown]
  <1>7. ASSUME NEW m \in 1 .. 3 * L PROVE New(m) = Byte(m)
    <2>1. CASE m <= offset + Shown
      BY <2>1 DEF Byte
    <2>2. CASE m > offset + Shown
      <3>1. m - offset - Shown \in 1 .. A /\ ~(m <= offset) /\ ~(m <= offset + Shown)
        BY <1>1, <1>2, <2>2
      <3>2. aux'[m - offset - Shown] = aux[m - offset - Shown]
        BY <1>5, <3>1
      <3> QED BY <3>1, <3>2 DEF Byte
    <2> QED BY <1>1, <2>1, <2>2
  <1>8. ASSUME NEW k \in 1 .. 3 PROVE New(3 * L + k) = p[k]
    <2>0. offset + Shown + A = 3 * L
      BY <1>2
    <2>1. /\ (3 * L + k) - offset - Shown = A + k
          /\ ~(3 * L + k <= offset) /\ ~(3 * L + k <= offset + Shown)
      <3> HIDE DEF L, A
      <3> QED BY <1>1, <2>0
    <2>2. New(3 * L + k) = aux'[(3 * L + k) - offset - Shown]
      BY <2>1
    <2> HIDE DEF New, A, L
    <2> QED BY <1>5, <2>1, <2>2
  <1>9. ASSUME NEW n \in 1 .. L + 1, NEW k \in 1 .. 3
        PROVE  New(3 * (n - 1) + k) = sent'[n][k]
    <2>1. CASE n = L + 1
      <3>1. 3 * (n - 1) + k = 3 * L + k
        BY <1>1, <2>1
      <3> HIDE DEF New, L
      <3> QED BY <1>6, <1>8, <2>1, <3>1
    <2>2. CASE n # L + 1
      <3>1. n \in 1 .. L /\ 3 * (n - 1) + k \in 1 .. 3 * L
        BY <1>1, <2>2
      <3> HIDE DEF New, L
      <3> QED BY <1>2, <1>6, <1>7, <3>1
    <2> QED BY <2>1, <2>2
  <1>10. \A n \in 1 .. Len(sent'), k \in 1 .. 3 : Byte(3 * (n - 1) + k)' = sent'[n][k]
    BY <1>3, <1>6, <1>9 DEF Byte
  <1>11. offset' + Shown' + Len(aux') = 3 * Len(sent')
    BY <1>1, <1>2, <1>3, <1>5, <1>6
  <1> QED BY <1>3, <1>6, <1>10, <1>11 DEF Flow

(* A byte taken completes the first packet, or brings it closer.           *)
LEMMA MouseByteKeepsFlow ==
  ASSUME TypeOK, Flow, pc = "on", MouseInterrupt, MouseData
  PROVE  /\ Flow'
         /\ offset = 2 =>
              /\ sent # <<>> /\ sent' = Tail(sent)
              /\ buffer[1] = sent[1][1] /\ buffer[2] = sent[1][2] /\ port.byte = sent[1][3]
  <1> USE DEF devices, keyboard
  <1> DEFINE L == Len(sent)
             A == Len(aux)
  <1>1. /\ offset \in 0 .. 2 /\ Shown = 1 /\ aux \in Seq(0 .. 255)
        /\ sent \in Seq(Packets) /\ L \in Nat /\ A \in Nat
        /\ buffer \in Seq(0 .. 255) /\ Len(buffer) = 3
    BY LenProperties DEF TypeOK, Flow, Shown, MouseData
  <1>2. /\ offset + 1 + A = 3 * L /\ L \in Nat \ {0}
        /\ \A n \in 1 .. L, k \in 1 .. 3 : Byte(3 * (n - 1) + k) = sent[n][k]
    <2>1. offset + Shown + A = 3 * L
      BY DEF Flow
    <2>2. offset + 1 + A = 3 * L /\ L \in Nat \ {0}
      BY <1>1, <2>1
    <2> QED BY <2>2 DEF Flow
  <1>3. /\ buffer' = [buffer EXCEPT ![offset + 1] = port.byte] /\ offset' = (offset + 1) % 3
        /\ UNCHANGED <<aux, pc>> /\ Shown' = 0
        /\ sent' = IF offset = 2 THEN (IF sent = <<>> THEN <<>> ELSE Tail(sent)) ELSE sent
    BY DEF MouseInterrupt, NextOffset, ReadPort, Shown
  <1>4. /\ DOMAIN buffer = 1 .. 3 /\ offset + 1 \in 1 .. 3
    BY <1>1, LenProperties
  <1>5. ASSUME NEW m \in Nat
        PROVE  Byte(m) = IF m <= offset THEN buffer[m]
                         ELSE IF m <= offset + 1 THEN port.byte ELSE aux[m - offset - 1]
    BY <1>1 DEF Byte
  <1>6. CASE offset # 2
    <2>1. offset' = offset + 1 /\ sent' = sent
      BY <1>1, <1>3, <1>6
    <2>2. ASSUME NEW m \in 1 .. 3 * L
          PROVE  (IF m <= offset' THEN buffer'[m]
                  ELSE IF m <= offset' + Shown' THEN port'.byte
                  ELSE aux'[m - offset' - Shown']) = Byte(m)
      <3>1. CASE m <= offset
        <4>1. m \in 1 .. 3 /\ m # offset + 1 /\ m <= offset + 1
          BY <1>1, <3>1
        <4>2. buffer'[m] = buffer[m]
          BY <1>3, <1>4, <4>1
        <4> QED BY <1>5, <2>1, <3>1, <4>1, <4>2
      <3>2. CASE m = offset + 1
        <4>1. buffer'[offset + 1] = port.byte
          BY <1>3, <1>4
        <4>2. m <= offset + 1 /\ ~(m <= offset)
          BY <1>1, <3>2
        <4> QED BY <1>5, <2>1, <3>2, <4>1, <4>2
      <3>3. CASE m > offset + 1
        <4>1. /\ ~(m <= offset) /\ ~(m <= offset + 1) /\ ~(m <= (offset + 1) + 0)
              /\ m - (offset + 1) - 0 = m - offset - 1 /\ m \in Nat
          BY <1>1, <3>3
        <4>2. Byte(m) = aux[m - offset - 1]
          BY <1>5, <4>1
        <4> QED BY <1>3, <2>1, <4>1, <4>2
      <3> QED BY <1>1, <3>1, <3>2, <3>3
    <2>3. ASSUME NEW n \in 1 .. L, NEW k \in 1 .. 3
          PROVE  3 * (n - 1) + k \in 1 .. 3 * L
      BY <1>1
    <2>4. \A n \in 1 .. Len(sent'), k \in 1 .. 3 : Byte(3 * (n - 1) + k)' = sent'[n][k]
      BY <1>2, <2>1, <2>2, <2>3 DEF Byte
    <2>5. offset' + Shown' + Len(aux') = 3 * Len(sent')
      <3>1. offset + 1 + A = 3 * L /\ Len(aux') = A /\ Len(sent') = L /\ Shown' = 0
        BY <1>2, <1>3, <2>1
      <3> HIDE DEF L, A
      <3> QED BY <1>1, <2>1, <3>1
    <2>6. pc' = "on" /\ sent' \in Seq(Packets)
      BY <1>1, <1>3, <2>1
    <2> QED BY <1>6, <2>4, <2>5, <2>6 DEF Flow
  <1>7. CASE offset = 2
    <2>1. offset' = 0 /\ sent # <<>> /\ sent' = Tail(sent)
      BY <1>1, <1>2, <1>3, <1>7
    <2>2. /\ sent' \in Seq(Packets) /\ Len(sent') = L - 1
          /\ \A n \in 1 .. L - 1 : sent'[n] = sent[n + 1]
      BY <1>1, <2>1, HeadTailProperties
    <2>3. ASSUME NEW n \in 1 .. L - 1, NEW k \in 1 .. 3
          PROVE  aux[3 * (n - 1) + k] = sent'[n][k]
      <3>1. /\ n + 1 \in 1 .. L /\ 3 * ((n + 1) - 1) + k \in Nat
            /\ ~(3 * ((n + 1) - 1) + k <= 2) /\ ~(3 * ((n + 1) - 1) + k <= 2 + 1)
            /\ (3 * ((n + 1) - 1) + k) - 2 - 1 = 3 * (n - 1) + k
        BY <1>1
      <3>2. Byte(3 * ((n + 1) - 1) + k) = sent[n + 1][k]
        BY <1>2, <3>1
      <3>3. Byte(3 * ((n + 1) - 1) + k) = aux[(3 * ((n + 1) - 1) + k) - 2 - 1]
        BY <1>5, <1>7, <3>1
      <3> QED BY <2>2, <3>1, <3>2, <3>3
    <2>4. ASSUME NEW n \in 1 .. Len(sent'), NEW k \in 1 .. 3
          PROVE  (IF 3 * (n - 1) + k <= offset' THEN buffer'[3 * (n - 1) + k]
                  ELSE IF 3 * (n - 1) + k <= offset' + Shown' THEN port'.byte
                  ELSE aux'[(3 * (n - 1) + k) - offset' - Shown']) = sent'[n][k]
      <3>1. /\ n \in 1 .. L - 1 /\ ~(3 * (n - 1) + k <= 0) /\ ~(3 * (n - 1) + k <= 0 + 0)
            /\ (3 * (n - 1) + k) - 0 - 0 = 3 * (n - 1) + k
        BY <2>2
      <3>2. offset' = 0 /\ Shown' = 0 /\ aux' = aux
        BY <1>3, <2>1
      <3>3. aux[3 * (n - 1) + k] = sent'[n][k]
        BY <2>3, <3>1
      <3> QED BY <3>1, <3>2, <3>3
    <2>5. \A n \in 1 .. Len(sent'), k \in 1 .. 3 : Byte(3 * (n - 1) + k)' = sent'[n][k]
      BY <2>4 DEF Byte
    <2>6. offset' + Shown' + Len(aux') = 3 * Len(sent')
      <3>1. 2 + 1 + A = 3 * L /\ Len(aux') = A /\ Len(sent') = L - 1 /\ Shown' = 0
        BY <1>2, <1>3, <1>7, <2>2
      <3>2. L \in Nat /\ A \in Nat
        BY <1>1
      <3>3. 0 + 0 + A = 3 * (L - 1)
        <4> HIDE DEF L, A
        <4> QED BY <3>1, <3>2
      <3> QED BY <2>1, <3>1, <3>3
    <2>7. Flow'
      BY <1>3, <2>2, <2>5, <2>6 DEF Flow
    <2>8. buffer[1] = sent[1][1] /\ buffer[2] = sent[1][2] /\ port.byte = sent[1][3]
      <3>1. Byte(1) = buffer[1] /\ Byte(2) = buffer[2] /\ Byte(3) = port.byte
        BY <1>5, <1>7
      <3>2. 1 \in 1 .. L
        BY <1>2
      <3>3. \A k \in 1 .. 3 : Byte(3 * (1 - 1) + k) = sent[1][k]
        BY <1>2, <3>2
      <3>4. 3 * (1 - 1) + 1 = 1 /\ 3 * (1 - 1) + 2 = 2 /\ 3 * (1 - 1) + 3 = 3
        OBVIOUS
      <3>5. Byte(1) = sent[1][1] /\ Byte(2) = sent[1][2] /\ Byte(3) = sent[1][3]
        BY <3>3, <3>4
      <3> QED BY <3>1, <3>5
    <2> QED BY <2>1, <2>7, <2>8
  <1> QED BY <1>6, <1>7

THEOREM InitiallyInv == Init => IInv
  <1> SUFFICES ASSUME Init PROVE IInv
    OBVIOUS
  <1>1. /\ pc = "drainKeyboard" /\ reply = <<>> /\ kbd = <<>> /\ aux = <<>>
        /\ offset = 0 /\ sent = <<>> /\ sent \in Seq(Packets)
    BY DEF Init
  <1>2. Conversation /\ Flow
    BY <1>1 DEF Conversation, Flow
  <1> QED BY <1>2, InitiallyType DEF IInv

LEMMA NextFlow ==
  ASSUME KindHardware, IInv, [Next]_vars
  PROVE  Flow'
  <1> USE DEF controller, devices, keyboard, mouse
  <1>t. TypeOK /\ Conversation /\ Flow /\ offset \in 0 .. 2 /\ Shown \in 0 .. 1
    BY DEF IInv, TypeOK, Shown
  <1>1. CASE pc # "on" /\ ~Enable
    <2>1. pc' # "on" /\ offset' = offset /\ sent' = sent
      BY <1>1 DEF Next, Kernel, Activate, Controller, User, ShowReply, ShowKey, ShowMotion, Show,
                  Type, Move, MayAct, KindHardware, DrainKeyboard, DrainMouse, Drain,
                  ConfigureKeyboard, ConfigureMouse, AcknowledgeMouse, KeyboardInterrupt,
                  MouseInterrupt, vars
    <2> QED BY <1>1, <1>t, <2>1 DEF Flow
  <1>2. CASE Enable
    <2>1. /\ pc' = "on" /\ aux' = <<>> /\ full' = FALSE
          /\ offset' = 0 /\ sent' = <<>> /\ sent' \in Seq(Packets)
      BY <1>2, <1>t DEF Enable, Conversation, Flow
    <2>2. Shown' = 0
      BY <2>1 DEF Shown
    <2>3. Len(sent') = 0 /\ Len(aux') = 0
      BY <2>1
    <2> QED BY <2>1, <2>2, <2>3 DEF Flow
  <1>3. CASE pc = "on" /\ (ShowReply \/ ShowKey)
    <2>1. /\ UNCHANGED <<offset, buffer, sent, aux, pc>> /\ ~full
          /\ port'.from \in {"controller", "kbd"}
      BY <1>3 DEF ShowReply, ShowKey, Show
    <2>2. Shown = 0 /\ Shown' = 0
      BY <2>1 DEF Shown
    <2> QED BY <1>3, <1>t, <2>1, <2>2, SameFlow
  <1>4. CASE pc = "on" /\ ShowMotion
    <2>1. /\ UNCHANGED <<offset, buffer, sent, pc>> /\ ~full /\ full' /\ aux # <<>>
          /\ aux' = Tail(aux) /\ port'.from = "aux" /\ port'.byte = Head(aux)
      BY <1>4 DEF ShowMotion, Show
    <2>2. Shown = 0 /\ Shown' = 1
      BY <2>1 DEF Shown
    <2> QED BY <1>4, <1>t, <2>1, <2>2, SameFlow
  <1>5. ASSUME pc = "on", NEW c, Type(c) PROVE Flow'
    <2>1. UNCHANGED <<offset, buffer, sent, aux, pc, port, full>>
      BY <1>5 DEF Type
    <2>2. Shown' = Shown
      BY <2>1 DEF Shown
    <2> QED BY <1>5, <1>t, <2>1, <2>2, SameFlow
  <1>6. ASSUME pc = "on", NEW p \in Packets, Move(p) PROVE Flow'
    BY <1>6, <1>t, MoveKeepsFlow
  <1>7. CASE pc = "on" /\ KeyboardInterrupt
    <2>1. /\ UNCHANGED <<offset, buffer, sent, aux, pc, port>> /\ full' = FALSE /\ "kbd" \in irr
      BY <1>7 DEF KeyboardInterrupt, ReadPort
    <2>2. Shown = 0 /\ Shown' = 0
      BY <1>7, <1>t, <2>1 DEF Conversation, Shown, Line
    <2> QED BY <1>7, <1>t, <2>1, <2>2, SameFlow
  <1>8. CASE pc = "on" /\ MouseInterrupt
    <2>1. CASE MouseData
      BY <1>8, <1>t, <2>1, MouseByteKeepsFlow
    <2>2. CASE ~MouseData
      <3>1. UNCHANGED <<offset, buffer, sent, aux, pc, port, full>>
        BY <1>8, <2>2 DEF MouseInterrupt
      <3>2. Shown' = Shown
        BY <3>1 DEF Shown
      <3> QED BY <1>8, <1>t, <3>1, <3>2, SameFlow
    <2> QED BY <2>1, <2>2
  <1>9. CASE UNCHANGED vars
    <2>1. UNCHANGED <<offset, buffer, sent, aux, pc, port, full>>
      BY <1>9 DEF vars
    <2>2. Shown' = Shown
      BY <2>1 DEF Shown
    <2>3. CASE pc = "on"
      BY <1>t, <2>1, <2>2, <2>3, SameFlow
    <2>4. CASE pc # "on"
      BY <1>t, <2>1, <2>4 DEF Flow
    <2> QED BY <2>3, <2>4
  <1>10. CASE pc = "on" /\ Activate /\ ~Enable
    BY <1>10 DEF Activate, DrainKeyboard, DrainMouse, Drain, ConfigureKeyboard, ConfigureMouse,
                 AcknowledgeMouse
  <1> QED
    BY <1>1, <1>2, <1>3, <1>4, <1>5, <1>6, <1>7, <1>8, <1>9, <1>10
       DEF Next, Kernel, Controller, User

LEMMA NextInv == KindHardware /\ IInv /\ [Next]_vars => IInv'
  BY NextType, NextConversation, NextFlow DEF IInv

(* On hardware that answers at once, with users that wait until interrupts *)
(* are enabled, activate leaves both devices connected.                    *)
THEOREM InputBothConnected ==
  ASSUME KindHardware
  PROVE  Spec => []BothConnected
  <1>1. IInv => BothConnected
    BY DEF IInv, Conversation, KeyboardOn, MouseOn, BothConnected
  <1> QED BY <1>1, InitiallyInv, NextInv, PTL DEF Spec

(* On such hardware no byte of the mouse gets lost or is taken for another *)
(* one's, whatever the keyboard sends in between.                          *)
THEOREM InputPacketsAligned ==
  ASSUME KindHardware
  PROVE  Spec => []PacketsAligned
  <1>1. IInv => PacketsAligned
    <2> SUFFICES ASSUME IInv, pc = "on"
                 PROVE  (offset + Len(aux) + (IF full /\ port.from = "aux" THEN 1 ELSE 0)) % 3 = 0
      BY DEF PacketsAligned
    <2>1. offset + Shown + Len(aux) = 3 * Len(sent)
      BY DEF IInv, Flow
    <2>2. offset \in Nat /\ Shown \in Nat /\ Len(aux) \in Nat /\ Len(sent) \in Nat
      <3>1. aux \in Seq(0 .. 255) /\ sent \in Seq(Packets) /\ offset \in 0 .. 2
        BY DEF IInv, TypeOK, Flow
      <3> QED BY <3>1, LenProperties DEF Shown
    <2>3. (offset + Len(aux) + Shown) % 3 = 0
      BY <2>1, <2>2
    <2> QED BY <2>3 DEF Shown
  <1> QED BY <1>1, InitiallyInv, NextInv, PTL DEF Spec

(* On such hardware every packet is reported, in its order, with the motion*)
(* and the buttons the mouse has sent.                                     *)
THEOREM InputReportsEveryMotion ==
  ASSUME KindHardware
  PROVE  Spec => ReportsEveryMotion
  <1> DEFINE Reports ==
        Len(sent') < Len(sent) =>
          LET p == Head(sent)
          IN  (p[2] # 0 \/ p[3] # 0) =>
                moved' = <<Signed(p[2]), -Signed(p[3])>> /\ buttons' = p[1]
  <1>1. IInv /\ [Next]_vars => Reports
    <2> SUFFICES ASSUME IInv, [Next]_vars, Len(sent') < Len(sent)
                 PROVE  LET p == Head(sent)
                        IN  (p[2] # 0 \/ p[3] # 0) =>
                              moved' = <<Signed(p[2]), -Signed(p[3])>> /\ buttons' = p[1]
      OBVIOUS
    <2>1. sent \in Seq(Packets) /\ Len(sent) \in Nat /\ sent' # sent
      BY LenProperties DEF IInv, Flow
    <2>2. ASSUME NEW p \in Packets, Move(p) PROVE FALSE
      <3>1. Len(sent') = Len(sent) + 1
        BY <2>1, <2>2, AppendProperties DEF Move
      <3> QED BY <2>1, <3>1
    <2>3. MouseInterrupt /\ pc = "on"
      BY <2>1, <2>2
         DEF Next, Kernel, Activate, Controller, User, ShowReply, ShowKey, ShowMotion, Show,
             Type, DrainKeyboard, DrainMouse, Drain, ConfigureKeyboard, ConfigureMouse,
             AcknowledgeMouse, Enable, KeyboardInterrupt, MouseInterrupt, vars,
             controller, devices, keyboard, mouse
    <2>4. MouseData /\ offset = 2
      BY <2>1, <2>3 DEF MouseInterrupt, mouse
    <2>5. /\ buffer[1] = sent[1][1] /\ buffer[2] = sent[1][2] /\ port.byte = sent[1][3]
          /\ sent # <<>>
      BY <2>3, <2>4, MouseByteKeepsFlow DEF IInv
    <2>6. Head(sent) = sent[1]
      BY <2>1, <2>5
    <2> DEFINE b == [buffer EXCEPT ![offset + 1] = port.byte]
    <2>7. b[1] = sent[1][1] /\ b[2] = sent[1][2] /\ b[3] = sent[1][3]
      <3>1. DOMAIN buffer = 1 .. 3
        BY LenProperties DEF IInv, TypeOK
      <3> QED BY <2>4, <2>5, <3>1
    <2>8. Report(b)
      BY <2>3, <2>4 DEF MouseInterrupt
    <2> HIDE DEF b
    <2> QED BY <2>6, <2>7, <2>8 DEF Report
  <1>2. Spec => [][Reports]_vars
    <2>1. IInv /\ [Next]_vars => [Reports]_vars
      BY <1>1
    <2> HIDE DEF Reports
    <2> QED BY <2>1, InitiallyInv, NextInv, PTL DEF Spec
  <1> QED BY <1>2 DEF ReportsEveryMotion
-----------------------------------------------------------------------------
(* The keyboard's handler, 1 being the case without shift and 2 that with  *)
(* it: the case after scan code c, if it was l before.                     *)
After(l, c) == IF c \in ShiftDown THEN 2 ELSE IF c \in ShiftUp THEN 1 ELSE l

Characters == {KeyMap[c][k] : c \in DOMAIN KeyMap, k \in 1 .. 2}

(* The scan codes S, handled in their order from case b on, report the     *)
(* characters T and end in case a; level and count say which case holds    *)
(* and how many characters have been reported after each of them.          *)
Explained(S, T, b, a, level, count) ==
  /\ level[0] = b /\ level[Len(S)] = a
  /\ count[0] = 0 /\ count[Len(S)] = Len(T)
  /\ \A i \in 1 .. Len(S) :
       /\ level[i] = After(level[i - 1], S[i])
       /\ count[i] = IF S[i] \in DOMAIN KeyMap THEN count[i - 1] + 1 ELSE count[i - 1]
       /\ S[i] \in DOMAIN KeyMap => T[count[i]] = KeyMap[S[i]][level[i - 1]]
  /\ \A i, j \in 0 .. Len(S) : i <= j => count[i] <= count[j]

Explains(S, T, b, a) ==
  \E level \in [0 .. Len(S) -> 1 .. 2], count \in [0 .. Len(S) -> 0 .. Len(T)] :
    Explained(S, T, b, a, level, count)

(* No scan code reports nothing.                                           *)
LEMMA ExplainsNothing == Explains(<<>>, <<>>, 1, 1)
  <1> DEFINE level == [i \in 0 .. 0 |-> 1]
             count == [i \in 0 .. 0 |-> 0]
  <1>1. Len(<<>>) = 0
    OBVIOUS
  <1>2. level \in [0 .. 0 -> 1 .. 2] /\ count \in [0 .. 0 -> 0 .. 0]
    OBVIOUS
  <1>3. level[0] = 1 /\ count[0] = 0
    OBVIOUS
  <1> HIDE DEF level, count
  <1>4. \A i, j \in 0 .. 0 : i <= j => count[i] <= count[j]
    BY <1>3
  <1>5. Explained(<<>>, <<>>, 1, 1, level, count)
    BY <1>1, <1>3, <1>4 DEF Explained
  <1> QED BY <1>1, <1>2, <1>5 DEF Explains

(* One more scan code reports its character in the case reached so far.    *)
LEMMA ExplainsMore ==
  ASSUME NEW S \in Seq(0 .. 255), NEW T \in Seq(Characters),
         NEW b \in 1 .. 2, NEW a \in 1 .. 2, NEW c \in 0 .. 255, NEW U,
         Explains(S, T, b, a),
         U = IF c \in DOMAIN KeyMap THEN Append(T, KeyMap[c][a]) ELSE T
  PROVE  U \in Seq(Characters) /\ Explains(Append(S, c), U, b, After(a, c))
  <1>1. PICK level \in [0 .. Len(S) -> 1 .. 2], count \in [0 .. Len(S) -> 0 .. Len(T)] :
           Explained(S, T, b, a, level, count)
    BY DEF Explains
  <1> DEFINE n == Len(S)
             m == Len(T)
             R == Append(S, c)
             k == IF c \in DOMAIN KeyMap THEN m + 1 ELSE m
             nlevel == [i \in 0 .. n + 1 |-> IF i = n + 1 THEN After(a, c) ELSE level[i]]
             ncount == [i \in 0 .. n + 1 |-> IF i = n + 1 THEN k ELSE count[i]]
  <1>2. n \in Nat /\ m \in Nat
    BY LenProperties
  <1>3. /\ R \in Seq(0 .. 255) /\ Len(R) = n + 1 /\ R[n + 1] = c
        /\ \A i \in 1 .. n : R[i] = S[i]
    BY AppendProperties
  <1>4. U \in Seq(Characters) /\ Len(U) = k /\ (\A i \in 1 .. m : U[i] = T[i])
        /\ (c \in DOMAIN KeyMap => U[m + 1] = KeyMap[c][a])
    <2>1. CASE c \in DOMAIN KeyMap
      <3>1. KeyMap[c][a] \in Characters
        BY <2>1 DEF Characters
      <3> QED BY <1>2, <2>1, <3>1, AppendProperties
    <2>2. CASE c \notin DOMAIN KeyMap
      BY <2>2
    <2> QED BY <2>1, <2>2
  <1>5. nlevel \in [0 .. n + 1 -> 1 .. 2]
    BY <1>2 DEF After
  <1>6. k \in Nat /\ k >= m /\ ncount \in [0 .. n + 1 -> 0 .. k]
    BY <1>2
  <1>7. /\ \A i \in 0 .. n : nlevel[i] = level[i] /\ ncount[i] = count[i]
        /\ nlevel[n + 1] = After(a, c) /\ ncount[n + 1] = k
    BY <1>2
  <1>8. /\ level[0] = b /\ level[n] = a /\ count[0] = 0 /\ count[n] = m
        /\ \A i \in 1 .. n :
             /\ level[i] = After(level[i - 1], S[i])
             /\ count[i] = IF S[i] \in DOMAIN KeyMap THEN count[i - 1] + 1 ELSE count[i - 1]
             /\ S[i] \in DOMAIN KeyMap => T[count[i]] = KeyMap[S[i]][level[i - 1]]
        /\ \A i, j \in 0 .. n : i <= j => count[i] <= count[j]
    BY <1>1 DEF Explained
  <1> HIDE DEF n, m, R, nlevel, ncount
  <1>9. ASSUME NEW i \in 1 .. n + 1
        PROVE  /\ nlevel[i] = After(nlevel[i - 1], R[i])
               /\ ncount[i] = IF R[i] \in DOMAIN KeyMap THEN ncount[i - 1] + 1 ELSE ncount[i - 1]
               /\ R[i] \in DOMAIN KeyMap => U[ncount[i]] = KeyMap[R[i]][nlevel[i - 1]]
    <2>1. CASE i = n + 1
      <3>1. i - 1 = n /\ n \in 0 .. n
        BY <1>2, <2>1
      <3>2. nlevel[i - 1] = a /\ ncount[i - 1] = m
        BY <1>7, <1>8, <3>1
      <3> QED BY <1>3, <1>4, <1>7, <2>1, <3>2
    <2>2. CASE i # n + 1
      <3>1. i \in 1 .. n /\ i \in 0 .. n /\ i - 1 \in 0 .. n
        BY <1>2, <2>2
      <3>2. /\ nlevel[i] = level[i] /\ ncount[i] = count[i] /\ R[i] = S[i]
            /\ nlevel[i - 1] = level[i - 1] /\ ncount[i - 1] = count[i - 1]
        BY <1>3, <1>7, <3>1
      <3>3. R[i] \in DOMAIN KeyMap => U[ncount[i]] = T[count[i]]
        <4>1. SUFFICES ASSUME R[i] \in DOMAIN KeyMap PROVE U[ncount[i]] = T[count[i]]
          OBVIOUS
        <4>2. count[i] = count[i - 1] + 1 /\ count[i - 1] \in 0 .. m /\ count[i] \in 0 .. m
          BY <1>8, <3>1, <3>2, <4>1 DEF n, m
        <4>3. count[i] \in 1 .. m
          BY <1>2, <4>2
        <4> QED BY <1>4, <3>2, <4>3
      <3> QED BY <1>8, <3>1, <3>2, <3>3
    <2> QED BY <2>1, <2>2
  <1>10. ASSUME NEW i \in 0 .. n + 1, NEW j \in 0 .. n + 1, i <= j
         PROVE  ncount[i] <= ncount[j]
    <2>1. CASE j = n + 1
      <3>1. ncount[i] \in 0 .. k
        BY <1>6
      <3> QED BY <1>6, <1>7, <2>1, <3>1
    <2>2. CASE j # n + 1
      <3>1. i \in 0 .. n /\ j \in 0 .. n
        BY <1>2, <2>2, <1>10
      <3> QED BY <1>7, <1>8, <1>10, <3>1
    <2> QED BY <2>1, <2>2
  <1>11. nlevel[0] = b /\ ncount[0] = 0
    BY <1>2, <1>7, <1>8
  <1>12. Explained(R, U, b, After(a, c), nlevel, ncount)
    <2> HIDE DEF k
    <2> QED BY <1>3, <1>4, <1>7, <1>9, <1>10, <1>11 DEF Explained
  <1>13. nlevel \in [0 .. Len(R) -> 1 .. 2] /\ ncount \in [0 .. Len(R) -> 0 .. Len(U)]
    <2> HIDE DEF k
    <2> QED BY <1>3, <1>4, <1>5, <1>6
  <1> QED BY <1>4, <1>12, <1>13 DEF Explains, R

LEMMA Less ==
  \A k \in 0 .. 1, m \in Nat : \A x \in k .. m :
    x - k \in 0 .. m - k /\ (x - k) + k = x /\ (x + 1) - k = (x - k) + 1
  OBVIOUS

(* The first scan code reports the first character, in the first case.     *)
LEMMA ExplainsFirst ==
  ASSUME NEW S \in Seq(0 .. 255), NEW T \in Seq(Characters), S # <<>>,
         NEW b \in 1 .. 2, NEW a \in 1 .. 2, NEW U, Explains(S, T, b, a),
         U = IF Head(S) \in DOMAIN KeyMap THEN Tail(T) ELSE T
  PROVE  /\ Head(S) \in DOMAIN KeyMap => T # <<>> /\ Head(T) = KeyMap[Head(S)][b]
         /\ U \in Seq(Characters)
         /\ Explains(Tail(S), U, After(b, Head(S)), a)
  <1>1. PICK level \in [0 .. Len(S) -> 1 .. 2], count \in [0 .. Len(S) -> 0 .. Len(T)] :
           Explained(S, T, b, a, level, count)
    BY DEF Explains
  <1> DEFINE n == Len(S)
             m == Len(T)
             R == Tail(S)
             k == IF Head(S) \in DOMAIN KeyMap THEN 1 ELSE 0
             nlevel == [i \in 0 .. n - 1 |-> level[i + 1]]
             ncount == [i \in 0 .. n - 1 |-> count[i + 1] - k]
  <1>2. n \in Nat \ {0} /\ m \in Nat /\ Head(S) = S[1]
    BY LenProperties, EmptySeq
  <1>3. R \in Seq(0 .. 255) /\ Len(R) = n - 1 /\ \A i \in 1 .. n - 1 : R[i] = S[i + 1]
    BY HeadTailProperties
  <1>4. /\ level[0] = b /\ level[n] = a /\ count[0] = 0 /\ count[n] = m
        /\ \A i \in 1 .. n :
             /\ level[i] = After(level[i - 1], S[i])
             /\ count[i] = IF S[i] \in DOMAIN KeyMap THEN count[i - 1] + 1 ELSE count[i - 1]
             /\ S[i] \in DOMAIN KeyMap => T[count[i]] = KeyMap[S[i]][level[i - 1]]
        /\ \A i, j \in 0 .. n : i <= j => count[i] <= count[j]
    BY <1>1 DEF Explained
  <1>5. \A i \in 0 .. n : count[i] \in 0 .. m /\ level[i] \in 1 .. 2
    OBVIOUS
  <1>6. level[1] = After(b, S[1]) /\ count[1] = k
        /\ (k = 1 => T[1] = KeyMap[S[1]][b] /\ m >= 1)
    <2>1. 1 \in 1 .. n /\ 1 \in 0 .. n /\ 1 - 1 = 0
      BY <1>2
    <2>2. /\ level[1] = After(level[1 - 1], S[1])
          /\ count[1] = IF S[1] \in DOMAIN KeyMap THEN count[1 - 1] + 1 ELSE count[1 - 1]
          /\ S[1] \in DOMAIN KeyMap => T[count[1]] = KeyMap[S[1]][level[1 - 1]]
      BY <1>4, <2>1
    <2>3. count[1] \in 0 .. m
      BY <1>5, <2>1
    <2> QED BY <1>2, <1>4, <2>1, <2>2, <2>3
  <1>7. Head(S) \in DOMAIN KeyMap => T # <<>> /\ Head(T) = KeyMap[Head(S)][b]
    BY <1>2, <1>6, EmptySeq
  <1>8. /\ U \in Seq(Characters) /\ Len(U) = m - k
        /\ \A i \in 1 .. m - k : U[i] = T[i + k]
    <2>1. CASE Head(S) \in DOMAIN KeyMap
      <3>1. T # <<>> /\ U = Tail(T) /\ k = 1
        BY <1>7, <2>1
      <3>2. U \in Seq(Characters) /\ Len(U) = m - 1 /\ \A i \in 1 .. m - 1 : U[i] = T[i + 1]
        BY <3>1, HeadTailProperties
      <3> HIDE DEF k, m
      <3> QED BY <3>1, <3>2
    <2>2. CASE Head(S) \notin DOMAIN KeyMap
      BY <1>2, <2>2
    <2> QED BY <2>1, <2>2
  <1>9. \A i \in 0 .. n - 1 : count[i + 1] \in k .. m
    <2> SUFFICES ASSUME NEW i \in 0 .. n - 1 PROVE count[i + 1] \in k .. m
      OBVIOUS
    <2>1. 1 \in 0 .. n /\ i + 1 \in 0 .. n /\ 1 <= i + 1
      BY <1>2
    <2>2. count[1] <= count[i + 1] /\ count[i + 1] \in 0 .. m
      BY <1>4, <1>5, <2>1
    <2> HIDE DEF k, m, n
    <2>3. k \in Nat
      BY DEF k
    <2> QED BY <1>2, <1>6, <2>2, <2>3
  <1>10. nlevel \in [0 .. n - 1 -> 1 .. 2]
    BY <1>2, <1>5
  <1>11. ncount \in [0 .. n - 1 -> 0 .. m - k]
    <2>1. k \in 0 .. 1
      OBVIOUS
    <2>2. \A i \in 0 .. n - 1 : count[i + 1] - k \in 0 .. m - k
      <3> HIDE DEF k, m, n
      <3> QED BY <1>2, <1>9, <2>1, Less
    <2> HIDE DEF k, m, n
    <2> QED BY <2>2
  <1>12. \A i \in 0 .. n - 1 : nlevel[i] = level[i + 1] /\ ncount[i] = count[i + 1] - k
    <2> HIDE DEF k, n
    <2> QED
      OBVIOUS
  <1>13. k \in 0 .. 1
    OBVIOUS
  <1> HIDE DEF n, m, R, k, nlevel, ncount
  <1>14. ASSUME NEW i \in 1 .. n - 1
         PROVE  /\ nlevel[i] = After(nlevel[i - 1], R[i])
                /\ ncount[i] = IF R[i] \in DOMAIN KeyMap THEN ncount[i - 1] + 1 ELSE ncount[i - 1]
                /\ R[i] \in DOMAIN KeyMap => U[ncount[i]] = KeyMap[R[i]][nlevel[i - 1]]
    <2>1. /\ i \in 0 .. n - 1 /\ i - 1 \in 0 .. n - 1 /\ i + 1 \in 1 .. n
          /\ (i - 1) + 1 = i /\ (i + 1) - 1 = i /\ i \in 0 .. n /\ i + 1 \in 0 .. n
      BY <1>2
    <2>2. /\ nlevel[i] = level[i + 1] /\ nlevel[i - 1] = level[i] /\ R[i] = S[i + 1]
          /\ ncount[i] = count[i + 1] - k /\ ncount[i - 1] = count[i] - k
      BY <1>3, <1>12, <2>1
    <2>3. /\ level[i + 1] = After(level[i], S[i + 1])
          /\ count[i + 1] = IF S[i + 1] \in DOMAIN KeyMap THEN count[i] + 1 ELSE count[i]
          /\ S[i + 1] \in DOMAIN KeyMap => T[count[i + 1]] = KeyMap[S[i + 1]][level[i]]
      BY <1>4, <2>1
    <2>4. /\ count[i] \in k .. m /\ count[i + 1] \in k .. m
          /\ ncount[i] \in 0 .. m - k /\ ncount[i] + k = count[i + 1]
          /\ (count[i] + 1) - k = ncount[i - 1] + 1
      <3>1. count[i] \in k .. m /\ count[i + 1] \in k .. m
        <4>1. count[(i - 1) + 1] \in k .. m
          BY <1>9, <2>1
        <4> QED BY <1>9, <2>1, <4>1
      <3>2. /\ count[i + 1] - k \in 0 .. m - k /\ (count[i + 1] - k) + k = count[i + 1]
            /\ (count[i] + 1) - k = (count[i] - k) + 1
        BY <1>2, <1>13, <3>1, Less
      <3> QED BY <2>2, <3>1, <3>2
    <2>5. R[i] \in DOMAIN KeyMap => U[ncount[i]] = T[count[i + 1]]
      <3>1. SUFFICES ASSUME R[i] \in DOMAIN KeyMap PROVE U[ncount[i]] = T[count[i + 1]]
        OBVIOUS
      <3>2. count[i + 1] = count[i] + 1
        BY <2>2, <2>3, <3>1
      <3>3. ncount[i] = ncount[i - 1] + 1
        BY <2>2, <2>4, <3>2
      <3>4. ncount[i - 1] \in 0 .. m - k
        <4>1. count[i] - k \in 0 .. m - k
          BY <1>2, <1>13, <2>4, Less
        <4> QED BY <2>2, <4>1
      <3>5. ncount[i] \in 1 .. m - k
        BY <2>4, <3>3, <3>4
      <3> QED BY <1>8, <2>4, <3>5
    <2> QED BY <2>2, <2>3, <2>4, <2>5
  <1>15. ASSUME NEW i \in 0 .. n - 1, NEW j \in 0 .. n - 1, i <= j
         PROVE  ncount[i] <= ncount[j]
    <2>1. i + 1 \in 0 .. n /\ j + 1 \in 0 .. n /\ i + 1 <= j + 1
      BY <1>2, <1>15
    <2>2. count[i + 1] <= count[j + 1] /\ count[i + 1] \in k .. m /\ count[j + 1] \in k .. m
      BY <1>4, <1>9, <2>1
    <2> QED BY <1>2, <1>12, <1>13, <2>2
  <1>16. /\ nlevel[0] = After(b, Head(S)) /\ nlevel[n - 1] = a
         /\ ncount[0] = 0 /\ ncount[n - 1] = m - k
    <2>1. 0 \in 0 .. n - 1 /\ n - 1 \in 0 .. n - 1 /\ 0 + 1 = 1 /\ (n - 1) + 1 = n
      BY <1>2
    <2>2. /\ nlevel[0] = level[1] /\ nlevel[n - 1] = level[n]
          /\ ncount[0] = count[1] - k /\ ncount[n - 1] = count[n] - k
      BY <1>12, <2>1
    <2> QED BY <1>2, <1>4, <1>6, <1>13, <2>2
  <1>17. Explained(R, U, After(b, Head(S)), a, nlevel, ncount)
    BY <1>3, <1>8, <1>14, <1>15, <1>16 DEF Explained
  <1>18. nlevel \in [0 .. Len(R) -> 1 .. 2] /\ ncount \in [0 .. Len(R) -> 0 .. Len(U)]
    BY <1>3, <1>8, <1>10, <1>11
  <1> QED BY <1>7, <1>8, <1>17, <1>18 DEF Explains, R

(* The scan codes the keyboard has produced and the handler has not seen.  *)
Codes == IF full /\ port.from = "kbd" THEN <<port.byte>> \o kbd ELSE kbd

CaseHandled == IF shift_pressed THEN 2 ELSE 1
CaseTyped == IF held = {} THEN 1 ELSE 2

(* The scan codes on their way report the characters that were typed and   *)
(* not reported, in the case they were typed in.  What activate has left at*)
(* the data port, which the handler of a late interrupt reads again, is the*)
(* mouse's acknowledgement.                                                *)
Keys ==
  /\ typed \in Seq(Characters)
  /\ \A x, y \in held : x = y
  /\ pc = "acknowledgeMouse" /\ full => port.byte = ACK
  /\ pc = "enable" => port.byte = ACK
  /\ pc # "on" => typed = <<>> /\ held = {} /\ shift_pressed = FALSE
  /\ pc = "on" =>
       /\ full => port.from # "controller"
       /\ ~full /\ irr # {} => port.byte = ACK
       /\ Explains(Codes, typed, CaseHandled, CaseTyped)

LEMMA KeysInit == Init => Keys
  <1> SUFFICES ASSUME Init PROVE Keys
    OBVIOUS
  <1>1. /\ pc = "drainKeyboard" /\ typed = <<>> /\ held = {} /\ shift_pressed = FALSE
        /\ typed \in Seq(Characters)
    BY DEF Init
  <1> QED BY <1>1 DEF Keys

(* Codes and typed have their types.                                       *)
LEMMA CodesType ==
  ASSUME TypeOK
  PROVE  /\ Codes \in Seq(0 .. 255) /\ kbd \in Seq(0 .. 255) /\ port.byte \in 0 .. 255
         /\ CaseHandled \in 1 .. 2 /\ CaseTyped \in 1 .. 2
  <1>1. kbd \in Seq(0 .. 255) /\ port.byte \in 0 .. 255
    BY DEF TypeOK
  <1>2. <<port.byte>> \in Seq(0 .. 255)
    BY <1>1
  <1>3. <<port.byte>> \o kbd \in Seq(0 .. 255)
    BY <1>1, <1>2, ConcatProperties
  <1>4. Codes \in Seq(0 .. 255)
    <2>1. Codes = <<port.byte>> \o kbd \/ Codes = kbd
      BY DEF Codes
    <2> QED BY <1>1, <1>3, <2>1
  <1>5. CaseHandled \in 1 .. 2
    BY DEF CaseHandled
  <1>6. CaseTyped \in 1 .. 2
    BY DEF CaseTyped
  <1> QED BY <1>1, <1>4, <1>5, <1>6

(* What a user types comes behind the codes on their way.                  *)
LEMMA TypeKeys ==
  ASSUME TypeOK, Keys, pc = "on", NEW c \in 0 .. 255, Type(c)
  PROVE  Keys'
  <1>1. /\ kbd' = Append(kbd, c) /\ (c \in ShiftDown => held = {})
        /\ (c \in ShiftUp => c - 128 \in held)
        /\ held' = (held \cup ({c} \cap ShiftDown)) \ {c - 128}
        /\ typed' = IF c \in DOMAIN KeyMap THEN Append(typed, KeyMap[c][CaseTyped]) ELSE typed
        /\ UNCHANGED <<port, full, irr, pc, shift_pressed>>
    BY DEF Type, controller, CaseTyped
  <1>2. Codes' = Append(Codes, c)
    <2>1. CASE full /\ port.from = "kbd"
      <3>1. <<port.byte>> \o Append(kbd, c) = Append(<<port.byte>> \o kbd, c)
        BY CodesType
      <3> QED BY <1>1, <2>1, <3>1 DEF Codes
    <2>2. CASE ~(full /\ port.from = "kbd")
      BY <1>1, <2>2 DEF Codes
    <2> QED BY <2>1, <2>2
  <1>3. held \subseteq {42, 54} /\ \A x, y \in held : x = y
    BY DEF TypeOK, Keys, ShiftDown
  <1>4. (\A x, y \in held' : x = y) /\ CaseTyped' = After(CaseTyped, c)
    <2>1. CASE c \in ShiftDown
      <3>1. held' = {c} /\ c \notin ShiftUp
        <4>1. c = 42 \/ c = 54
          BY <2>1 DEF ShiftDown
        <4>2. c - 128 # c /\ c \notin ShiftUp
          BY <4>1 DEF ShiftUp
        <4>3. held = {} /\ {c} \cap ShiftDown = {c}
          BY <1>1, <2>1
        <4>4. held' = {c} \ {c - 128}
          BY <1>1, <4>3
        <4> QED BY <4>2, <4>4
      <3> QED BY <2>1, <3>1 DEF After, CaseTyped
    <2>2. CASE c \in ShiftUp
      <3>1. held' = {} /\ c \notin ShiftDown
        BY <1>1, <1>3, <2>2 DEF ShiftDown, ShiftUp
      <3> QED BY <2>2, <3>1 DEF After, CaseTyped
    <2>3. CASE c \notin ShiftDown /\ c \notin ShiftUp
      <3>1. held' = held
        BY <1>1, <1>3, <2>3 DEF ShiftDown, ShiftUp
      <3> QED BY <1>3, <2>3, <3>1 DEF After, CaseTyped
    <2> QED BY <2>1, <2>2, <2>3
  <1>5. CaseHandled' = CaseHandled
    BY <1>1 DEF CaseHandled
  <1>6. typed \in Seq(Characters) /\ Explains(Codes, typed, CaseHandled, CaseTyped)
    BY DEF Keys
  <1>7. /\ typed' \in Seq(Characters)
        /\ Explains(Append(Codes, c), typed', CaseHandled, After(CaseTyped, c))
    BY <1>1, <1>6, CodesType, ExplainsMore
  <1>8. Explains(Codes', typed', CaseHandled', CaseTyped')
    BY <1>2, <1>4, <1>5, <1>7
  <1>9. Explains(Codes, typed, CaseHandled, CaseTyped)'
    BY <1>8 DEF Explains, Explained, After
  <1> HIDE DEF Codes, CaseHandled, CaseTyped
  <1> QED BY <1>1, <1>4, <1>7, <1>9 DEF Keys

(* The handler reports the first of them, or what is no key.               *)
LEMMA KeyboardKeys ==
  ASSUME TypeOK, Conversation, Keys, KeyboardInterrupt
  PROVE  /\ Keys'
         /\ port.byte \in DOMAIN KeyMap => typed # <<>> /\ key' = Head(typed)
  <1>1. /\ pc = "on" /\ "kbd" \in irr /\ irr' = irr \ {"kbd"} /\ full' = FALSE
        /\ shift_pressed' = ShiftAfter(port.byte)
        /\ port.byte \in DOMAIN KeyMap =>
             /\ key' = KeyMap[port.byte][CaseHandled]
             /\ typed' = IF typed = <<>> THEN <<>> ELSE Tail(typed)
        /\ port.byte \notin DOMAIN KeyMap => typed' = typed
        /\ UNCHANGED <<port, kbd, held, pc>>
    BY DEF KeyboardInterrupt, ReadPort, devices, CaseHandled
  <1>2. Codes' = kbd
    BY <1>1 DEF Codes
  <1>3. CaseTyped' = CaseTyped /\ CaseHandled' = After(CaseHandled, port.byte)
    BY <1>1 DEF CaseTyped, CaseHandled, ShiftAfter, After
  <1>4. typed \in Seq(Characters) /\ Explains(Codes, typed, CaseHandled, CaseTyped)
    BY <1>1 DEF Keys
  <1>5. CASE full
    <2>1. irr = {Line(port.from)} /\ port.from = "kbd"
      BY <1>1, <1>5 DEF Conversation, Keys, Line, TypeOK
    <2>2. Codes = <<port.byte>> \o kbd
      BY <1>5, <2>1 DEF Codes
    <2>3. Codes # <<>> /\ Head(Codes) = port.byte /\ Tail(Codes) = kbd
      BY <2>2, CodesType
    <2> DEFINE U == IF port.byte \in DOMAIN KeyMap THEN Tail(typed) ELSE typed
    <2>4. /\ port.byte \in DOMAIN KeyMap =>
               typed # <<>> /\ Head(typed) = KeyMap[port.byte][CaseHandled]
          /\ U \in Seq(Characters) /\ Explains(kbd, U, After(CaseHandled, port.byte), CaseTyped)
      BY <1>4, <2>3, CodesType, ExplainsFirst
    <2>5. typed' = U
      BY <1>1, <2>4
    <2>6. irr' = {}
      BY <1>1, <2>1 DEF Line
    <2> HIDE DEF U
    <2>7. Explains(Codes', typed', CaseHandled', CaseTyped') /\ typed' \in Seq(Characters)
      BY <1>2, <1>3, <2>4, <2>5
    <2>8. Explains(Codes, typed, CaseHandled, CaseTyped)'
      BY <2>7 DEF Explains, Explained, After
    <2>9. Keys'
      BY <1>1, <2>6, <2>7, <2>8 DEF Keys
    <2> QED BY <1>1, <2>4, <2>9
  <1>6. CASE ~full
    <2>1. kbd = <<>> /\ port.byte = ACK /\ Codes = kbd
      BY <1>1, <1>6 DEF Conversation, Keys, Codes
    <2>2. ACK \notin DOMAIN KeyMap /\ ACK \notin ShiftDown /\ ACK \notin ShiftUp
      BY InputAssumption DEF ACK, ShiftDown, ShiftUp
    <2>3. typed' = typed /\ Codes' = Codes /\ CaseHandled' = CaseHandled
      BY <1>1, <1>2, <1>3, <2>1, <2>2 DEF After
    <2>4. Explains(Codes', typed', CaseHandled', CaseTyped')
      BY <1>3, <1>4, <2>3
    <2>5. Explains(Codes, typed, CaseHandled, CaseTyped)'
      <3> HIDE DEF Codes, CaseHandled, CaseTyped
      <3> QED BY <2>4 DEF Explains, Explained, After
    <2>6. Keys'
      BY <1>1, <1>4, <2>1, <2>3, <2>5 DEF Keys
    <2> QED BY <1>1, <2>1, <2>2, <2>6
  <1> QED BY <1>5, <1>6

(* A step that only moves a byte of the keyboard closer keeps them.        *)
LEMMA SameKeys ==
  ASSUME Keys, pc = "on", Codes' = Codes, UNCHANGED <<typed, held, shift_pressed, pc>>,
         full' => port'.from # "controller",
         ~full' /\ irr' # {} => port'.byte = ACK
  PROVE  Keys'
  <1>1. CaseHandled' = CaseHandled /\ CaseTyped' = CaseTyped
    BY DEF CaseHandled, CaseTyped
  <1>2. Explains(Codes, typed, CaseHandled, CaseTyped)
    BY DEF Keys
  <1>3. Explains(Codes', typed', CaseHandled', CaseTyped')
    BY <1>1, <1>2
  <1> HIDE DEF Codes, CaseHandled, CaseTyped
  <1>4. Explains(Codes, typed, CaseHandled, CaseTyped)'
    BY <1>3 DEF Explains, Explained, After
  <1> QED BY <1>4 DEF Keys

LEMMA KeysStep ==
  ASSUME KindHardware, IInv, Keys, [Next]_vars
  PROVE  Keys'
  <1> USE DEF controller, devices, keyboard, mouse
  <1>t. TypeOK /\ Conversation /\ kbd \in Seq(0 .. 255) /\ Codes \in Seq(0 .. 255)
    BY CodesType DEF IInv
  <1>o. \A b : Head(<<b>>) = b /\ Tail(<<b>>) = <<>>
    OBVIOUS
  <1>1. CASE pc # "on" /\ (ShowReply \/ ShowKey \/ ShowMotion)
    <2>1. /\ UNCHANGED <<pc, typed, held, shift_pressed>> /\ ~full /\ full'
      BY <1>1 DEF ShowReply, ShowKey, ShowMotion, Show
    <2>2. pc = "acknowledgeMouse" => port'.byte = ACK
      <3>1. SUFFICES ASSUME pc = "acknowledgeMouse" PROVE port'.byte = ACK
        OBVIOUS
      <3>2. reply = <<>> /\ kbd = <<>> /\ aux = <<ACK>>
        BY <1>t, <2>1, <3>1 DEF Conversation
      <3>3. ShowMotion
        BY <1>1, <3>2 DEF ShowReply, ShowKey
      <3> QED BY <1>o, <3>2, <3>3 DEF ShowMotion, Show
    <2>3. pc # "enable"
      BY <1>1, <1>t DEF Conversation, ShowReply, ShowKey, ShowMotion
    <2> QED BY <1>1, <2>1, <2>2, <2>3 DEF Keys
  <1>2. CASE DrainKeyboard \/ DrainMouse \/ ConfigureKeyboard \/ ConfigureMouse
    <2>1. /\ pc # "on" /\ UNCHANGED <<typed, held, shift_pressed>>
          /\ pc' \notin {"enable", "on"} /\ (pc' = "acknowledgeMouse" => full' = FALSE)
      BY <1>2 DEF DrainKeyboard, DrainMouse, Drain, ConfigureKeyboard, ConfigureMouse, ReadPort
    <2> QED BY <2>1 DEF Keys
  <1>3. CASE AcknowledgeMouse
    <2>1. /\ pc = "acknowledgeMouse" /\ pc' = "enable" /\ full' = FALSE /\ port' = port
          /\ UNCHANGED <<typed, held, shift_pressed>>
          /\ full \/ ~(aux # <<>> /\ Head(aux) = ACK)
      BY <1>3 DEF AcknowledgeMouse, ReadPort, Answered, KindHardware
    <2>2. full
      BY <1>o, <1>t, <2>1 DEF Conversation
    <2> QED BY <2>1, <2>2 DEF Keys
  <1>4. CASE Enable
    <2>1. /\ pc = "enable" /\ pc' = "on" /\ UNCHANGED <<port, full, kbd, typed, held, shift_pressed>>
      BY <1>4 DEF Enable
    <2>2. /\ kbd' = <<>> /\ ~full' /\ port'.byte = ACK
          /\ typed' = <<>> /\ held' = {} /\ shift_pressed' = FALSE /\ typed \in Seq(Characters)
      BY <1>t, <2>1 DEF Conversation, Keys
    <2>3. Codes' = <<>> /\ CaseHandled' = 1 /\ CaseTyped' = 1
      BY <2>2 DEF Codes, CaseHandled, CaseTyped
    <2>4. Explains(Codes', typed', CaseHandled', CaseTyped')
      BY <2>2, <2>3, ExplainsNothing
    <2>5. Explains(Codes, typed, CaseHandled, CaseTyped)'
      <3> HIDE DEF Codes, CaseHandled, CaseTyped
      <3> QED BY <2>4 DEF Explains, Explained, After
    <2> QED BY <2>1, <2>2, <2>5 DEF Keys
  <1>5. CASE pc = "on" /\ ShowReply
    BY <1>5, <1>t DEF ShowReply, Conversation
  <1>6. CASE pc = "on" /\ ShowKey
    <2>1. /\ kbd # <<>> /\ ~full /\ full' /\ port'.from = "kbd" /\ port'.byte = Head(kbd)
          /\ kbd' = Tail(kbd) /\ UNCHANGED <<typed, held, shift_pressed, pc>>
      BY <1>6 DEF ShowKey, Show
    <2>2. <<Head(kbd)>> \o Tail(kbd) = kbd
      BY <1>t, <2>1
    <2>3. Codes' = Codes
      BY <2>1, <2>2 DEF Codes
    <2> QED BY <1>6, <2>1, <2>3, SameKeys
  <1>7. CASE pc = "on" /\ ShowMotion
    <2>1. /\ ~full /\ full' /\ port'.from = "aux" /\ UNCHANGED <<kbd, typed, held, shift_pressed, pc>>
      BY <1>7 DEF ShowMotion, Show
    <2>2. Codes' = Codes
      BY <2>1 DEF Codes
    <2> QED BY <1>7, <2>1, <2>2, SameKeys
  <1>8. ASSUME NEW c \in DOMAIN KeyMap \cup OtherKeys \cup ShiftDown \cup ShiftUp, Type(c)
        PROVE  Keys'
    <2>1. pc = "on"
      BY <1>8 DEF Type, MayAct, KindHardware
    <2>2. c \in 0 .. 255
      <3>1. 1 .. 127 \subseteq 0 .. 255
        OBVIOUS
      <3>2. DOMAIN KeyMap \subseteq 0 .. 255 /\ OtherKeys \subseteq 0 .. 255
        BY <3>1, InputAssumption
      <3>3. ShiftDown \cup ShiftUp \subseteq 0 .. 255
        BY DEF ShiftDown, ShiftUp
      <3> QED BY <3>2, <3>3
    <2> QED BY <1>t, <1>8, <2>1, <2>2, TypeKeys
  <1>9. ASSUME NEW p \in Packets, Move(p) PROVE Keys'
    <2>1. pc = "on" /\ UNCHANGED <<port, full, irr, kbd, typed, held, shift_pressed, pc>>
      BY <1>9 DEF Move, MayAct, KindHardware
    <2>2. Codes' = Codes
      BY <2>1 DEF Codes
    <2> QED BY <2>1, <2>2, SameKeys DEF Keys
  <1>10. CASE KeyboardInterrupt
    BY <1>10, <1>t, KeyboardKeys
  <1>11. CASE MouseInterrupt
    <2>1. /\ pc = "on" /\ "aux" \in irr /\ irr' = irr \ {"aux"} /\ "kbd" \notin irr
          /\ UNCHANGED <<port, kbd, typed, held, shift_pressed, pc>>
          /\ IF MouseData THEN full' = FALSE ELSE full' = full
      BY <1>11 DEF MouseInterrupt, ReadPort
    <2>2. irr' = {}
      BY <1>t, <2>1 DEF TypeOK
    <2>3. Codes' = Codes
      BY <2>1 DEF Codes, MouseData
    <2>4. full' => port'.from # "controller"
      BY <2>1 DEF Keys, MouseData
    <2> QED BY <2>1, <2>2, <2>3, <2>4, SameKeys
  <1>12. CASE UNCHANGED vars
    <2>1. UNCHANGED <<port, full, irr, kbd, typed, held, shift_pressed, pc>>
      BY <1>12 DEF vars
    <2>2. CASE pc = "on"
      <3>1. Codes' = Codes
        BY <2>1 DEF Codes
      <3> QED BY <2>1, <2>2, <3>1, SameKeys DEF Keys
    <2>3. CASE pc # "on"
      BY <2>1, <2>3 DEF Keys
    <2> QED BY <2>2, <2>3
  <1> QED
    BY <1>1, <1>2, <1>3, <1>4, <1>5, <1>6, <1>7, <1>8, <1>9, <1>10, <1>11, <1>12
       DEF Next, Kernel, Activate, Controller, User

(* On such hardware onKeyDown reports what was typed, in its order and in  *)
(* the case of the shift key held at that time, and nothing else.          *)
THEOREM InputReportsWhatWasTyped ==
  ASSUME KindHardware
  PROVE  Spec => ReportsWhatWasTyped
  <1> DEFINE InOrder == typed' # typed /\ pc = "on" /\ Len(typed') <= Len(typed)
                          => key' = Head(typed)
             NothingElse == key' # key => typed # <<>>
  <1>1. IInv /\ Keys /\ [Next]_vars => InOrder /\ NothingElse
    <2> SUFFICES ASSUME IInv, Keys, [Next]_vars PROVE InOrder /\ NothingElse
      OBVIOUS
    <2>1. typed \in Seq(Characters)
      BY DEF Keys
    <2>2. CASE KeyboardInterrupt
      <3>1. port.byte \in DOMAIN KeyMap => typed # <<>> /\ key' = Head(typed)
        BY <2>2, KeyboardKeys DEF IInv
      <3>2. port.byte \notin DOMAIN KeyMap => key' = key /\ typed' = typed
        BY <2>2 DEF KeyboardInterrupt
      <3> QED BY <3>1, <3>2
    <2>3. ASSUME NEW c, Type(c) PROVE InOrder /\ NothingElse
      <3>1. key' = key
        BY <2>3 DEF Type
      <3>2. pc = "on" /\ typed' # typed => Len(typed') = Len(typed) + 1
        <4>1. SUFFICES ASSUME typed' # typed PROVE Len(typed') = Len(typed) + 1
          OBVIOUS
        <4>2. PICK x : typed' = Append(typed, x)
          BY <2>3, <4>1 DEF Type
        <4> QED BY <2>1, <4>2
      <3>3. Len(typed) \in Nat
        BY <2>1, LenProperties
      <3> QED BY <3>1, <3>2, <3>3
    <2>4. CASE ~KeyboardInterrupt /\ ~\E c : Type(c)
      <3>1. UNCHANGED <<key, typed>>
        BY <2>4 DEF Next, Kernel, Activate, Controller, User, ShowReply, ShowKey, ShowMotion,
                    Show, Move, DrainKeyboard, DrainMouse, Drain, ConfigureKeyboard,
                    ConfigureMouse, AcknowledgeMouse, Enable, MouseInterrupt, vars,
                    controller, devices, keyboard, mouse
      <3> QED BY <3>1
    <2> QED BY <2>2, <2>3, <2>4
  <1>2. Spec => [][InOrder]_vars
    <2>1. IInv /\ Keys /\ [Next]_vars => [InOrder]_vars
      BY <1>1
    <2>2. KindHardware /\ IInv /\ Keys /\ [Next]_vars => Keys'
      BY KeysStep
    <2> HIDE DEF InOrder
    <2> QED BY <2>1, <2>2, InitiallyInv, NextInv, KeysInit, PTL DEF Spec
  <1>3. Spec => [][NothingElse]_vars
    <2>1. IInv /\ Keys /\ [Next]_vars => [NothingElse]_vars
      BY <1>1
    <2>2. KindHardware /\ IInv /\ Keys /\ [Next]_vars => Keys'
      BY KeysStep
    <2> HIDE DEF NothingElse
    <2> QED BY <2>1, <2>2, InitiallyInv, NextInv, KeysInit, PTL DEF Spec
  <1> QED BY <1>2, <1>3 DEF ReportsWhatWasTyped
=============================================================================
