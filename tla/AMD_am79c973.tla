---------------------------- MODULE AMD_am79c973 ----------------------------
(***************************************************************************)
(* The driver of the Am79C973 network card                                 *)
(* (source/drivers/AMD_am79c973.cpp) and the card.  They share two rings   *)
(* of descriptors, one for frames received and one for frames to send, and *)
(* the buffers that the descriptors point at; each descriptor's OWN flag   *)
(* says whose it is.                                                       *)
(*                                                                         *)
(* The card is external.  It puts a frame that arrives into the next       *)
(* buffer it owns and gives it to the driver, or misses the frame; it      *)
(* sends the next buffer it was given, and takes back a descriptor once it *)
(* is done.  Flags of its register CSR0 tell what happened; it interrupts  *)
(* as long as one of them is set, and writing a 1 to a flag clears it.     *)
(* The card goes on while the interrupt handler runs.                      *)
(*                                                                         *)
(* Buffer memory is counted in paragraphs of 16 bytes, which is what the   *)
(* driver rounds addresses to; a frame fills FrameSize of them.            *)
(***************************************************************************)
EXTENDS Integers, Sequences

CONSTANTS
  RingSize,     (* 8                                                       *)
  Frames,       (* contents of frames that arrive                          *)
  Outgoing,     (* contents of frames to send                              *)
  FrameSize,    (* paragraphs a frame fills, at least 4                    *)
  FirstByte,    (* address of recieve_buffers in its paragraph             *)
  FirstSendByte,  (* address of send_buffers in its paragraph              *)
  Distance,     (* bytes from one element of either array to the next      *)
  SendsAhead    (* frames the callers of send_data have waiting at most    *)

ASSUME RingAssumption ==
  /\ RingSize \in Nat \ {0}
  /\ Frames # {}
  /\ FrameSize \in Nat \ {0}
  /\ FirstByte \in 0 .. 15 /\ FirstSendByte \in 0 .. 15
  /\ Distance \in Nat \ {0}
  /\ SendsAhead \in Nat

VARIABLES
  cardOwns,     (* receive descriptor |-> its OWN flag                     *)
  bad,          (* receive descriptor |-> its ERR flag                     *)
  memory,       (* paragraph of recieve_buffers |-> the frame of which it  *)
                (* holds a part                                            *)
  current_receive_buffer_index,
  sendOwned,    (* send descriptor |-> its OWN flag                        *)
  sendMemory,   (* paragraph of send_buffers |-> the frame of which it     *)
                (* holds a part                                            *)
  current_send_buffer_index,
  csr0,         (* the flags set                                           *)
  receiving, sending,     (* the card's positions in the rings             *)
  pc, temp,     (* where handleInterrupt is, and its local variable        *)
  printed,      (* the paragraphs receive_data has printed last            *)
  pending,      (* history: frames put into the ring, not yet printed      *)
  queued,       (* history: frames given to send_data, not yet sent        *)
  burst         (* history: frames put into the ring since its last look   *)

receiver == <<cardOwns, bad, memory, receiving, pending, burst>>
sender == <<sendOwned, sendMemory, current_send_buffer_index, sending, queued>>
handler == <<pc, temp, printed, current_receive_buffer_index>>
vars == <<receiver, sender, handler, csr0>>

Slots == 0 .. RingSize - 1

(* The paragraphs of a frame in element k of an array of buffers: from the *)
(* element's address, rounded up.                                          *)
Buffer(firstByte, k) ==
  LET first == (firstByte + Distance * k + 15) \div 16
  IN  first .. first + FrameSize - 1
ReceiveBuffer(k) == Buffer(FirstByte, k)
SendBuffer(k) == Buffer(FirstSendByte, k)
ReceiveParagraphs == UNION {ReceiveBuffer(k) : k \in Slots}
SendParagraphs == UNION {SendBuffer(k) : k \in Slots}
NoFrame == "none"

(* Mutant: the index does not start again.                                 *)
NextSlotLinear(k) == k + 1

NextSlot(k) == (k + 1) % RingSize
-----------------------------------------------------------------------------
(* The constructor.                                                        *)
Init ==
  /\ cardOwns = [k \in Slots |-> TRUE] /\ bad = [k \in Slots |-> FALSE]
  /\ memory = [a \in ReceiveParagraphs |-> NoFrame]
  /\ current_receive_buffer_index = 0 /\ receiving = 0
  /\ sendOwned = [k \in Slots |-> FALSE]
  /\ sendMemory = [a \in SendParagraphs |-> NoFrame]
  /\ current_send_buffer_index = 0 /\ sending = 0
  /\ csr0 = {} /\ pc = "inactive" /\ temp = {}
  /\ printed = {}
  /\ pending = <<>> /\ queued = <<>> /\ burst = 0

(* activate: the card reads the rings, and starts.                         *)
Activate ==
  /\ pc = "inactive" /\ pc' = "idle"
  /\ csr0' = {"IDON"}
  /\ UNCHANGED <<receiver, sender, temp, printed, current_receive_buffer_index>>

(***************************************************************************)
(* The card                                                                *)
(***************************************************************************)
Active == pc # "inactive"

Receive(f) ==
  /\ Active /\ cardOwns[receiving] /\ burst < RingSize - 1
  /\ memory' = [a \in ReceiveParagraphs |->
                  IF a \in ReceiveBuffer(receiving) THEN f ELSE memory[a]]
  /\ cardOwns' = [cardOwns EXCEPT ![receiving] = FALSE]
  /\ \E e \in BOOLEAN :
       /\ bad' = [bad EXCEPT ![receiving] = e]
       /\ pending' = Append(pending, [frame |-> f, bad |-> e])
  /\ receiving' = NextSlot(receiving)
  /\ csr0' = csr0 \cup {"RINT"}
  /\ burst' = IF pc = "acknowledge" THEN burst + 1 ELSE 0
  /\ UNCHANGED <<sender, handler>>

Miss ==
  /\ Active /\ ~cardOwns[receiving]
  /\ csr0' = csr0 \cup {"MISS"}
  /\ UNCHANGED <<receiver, sender, handler>>

(* It sends what is in the buffer by then.                                 *)
Transmit ==
  /\ Active /\ sendOwned[sending]
  /\ sendOwned' = [sendOwned EXCEPT ![sending] = FALSE]
  /\ sending' = NextSlot(sending)
  /\ queued' = Tail(queued)
  /\ csr0' = csr0 \cup {"TINT"}
  /\ UNCHANGED <<receiver, handler, sendMemory, current_send_buffer_index>>

(***************************************************************************)
(* send_data                                                               *)
(***************************************************************************)

(* Mutant: the index is taken after it has moved on.                       *)
SendIndexAfter == NextSlot(current_send_buffer_index)

(* send_descriptor_index.                                                  *)
SendIndex == current_send_buffer_index

(* It copies the frame into the buffer of the next descriptor and gives the*)
(* descriptor to the card.  It does not look whether the card is done with *)
(* the descriptor: that there is a free one is up to its callers, who have *)
(* no more than SendsAhead frames waiting.                                 *)
SendData(f) ==
  LET k == SendIndex
  IN  /\ pc = "idle" /\ Len(queued) < SendsAhead
      /\ current_send_buffer_index' = NextSlot(current_send_buffer_index)
      /\ sendMemory' = [a \in SendParagraphs |->
                          IF a \in SendBuffer(k) THEN f ELSE sendMemory[a]]
      /\ sendOwned' = [sendOwned EXCEPT ![k] = TRUE]
      /\ queued' = Append(queued, f)
      /\ UNCHANGED <<receiver, handler, sending, csr0>>

(***************************************************************************)
(* handleInterrupt                                                         *)
(***************************************************************************)
Interrupt ==
  /\ pc = "idle" /\ csr0 # {}
  /\ pc' = "status"
  /\ UNCHANGED <<receiver, sender, csr0, temp, printed, current_receive_buffer_index>>

(* Of the flags, only RINT makes it look at the ring.                      *)
ReadStatus ==
  /\ pc = "status" /\ temp' = csr0
  /\ pc' = IF "RINT" \in csr0 THEN "receive" ELSE "acknowledge"
  /\ burst' = 0
  /\ UNCHANGED <<cardOwns, bad, memory, receiving, pending, sender, csr0,
                 printed, current_receive_buffer_index>>

(* The loop of receive_data ends at a descriptor that the card owns.       *)
ReceiveEnds ==
  /\ pc = "receive" /\ cardOwns[current_receive_buffer_index]
  /\ pc' = "acknowledge" /\ burst' = 0
  /\ UNCHANGED <<cardOwns, bad, memory, receiving, pending, sender, csr0,
                 temp, printed, current_receive_buffer_index>>

(* It prints a frame that has no error.                                    *)
PrintFrame ==
  /\ pc = "receive" /\ ~cardOwns[current_receive_buffer_index]
  /\ printed' = IF bad[current_receive_buffer_index] THEN {}
                ELSE {memory[a] : a \in ReceiveBuffer(current_receive_buffer_index)}
  /\ pc' = "release"
  /\ UNCHANGED <<receiver, sender, csr0, temp, current_receive_buffer_index>>

(* Mutant: it gives the descriptor back but stays at it.                   *)
ReleaseStays ==
  /\ pc = "release" /\ pc' = "receive"
  /\ cardOwns' = [cardOwns EXCEPT ![current_receive_buffer_index] = TRUE]
  /\ bad' = [bad EXCEPT ![current_receive_buffer_index] = FALSE]
  /\ pending' = Tail(pending)
  /\ UNCHANGED <<memory, receiving, burst, sender, csr0, temp, printed,
                 current_receive_buffer_index>>

(* It gives the descriptor back and goes on to the next.                   *)
Release ==
  /\ pc = "release" /\ pc' = "receive"
  /\ cardOwns' = [cardOwns EXCEPT ![current_receive_buffer_index] = TRUE]
  /\ bad' = [bad EXCEPT ![current_receive_buffer_index] = FALSE]
  /\ pending' = Tail(pending)
  /\ current_receive_buffer_index' = NextSlot(current_receive_buffer_index)
  /\ UNCHANGED <<memory, receiving, burst, sender, csr0, temp, printed>>

(* Mutant: flags that were not seen are cleared as well.                   *)
ClearedAll == {}

(* Writing back what was read clears the flags that were seen.             *)
Cleared == csr0 \ temp

Acknowledge ==
  /\ pc = "acknowledge"
  /\ csr0' = Cleared /\ pc' = "idle"
  /\ temp' = {} /\ burst' = 0
  /\ UNCHANGED <<cardOwns, bad, memory, receiving, pending, sender,
                 printed, current_receive_buffer_index>>

Handler ==
  Interrupt \/ ReadStatus \/ ReceiveEnds \/ PrintFrame \/ Release \/ Acknowledge

Next ==
  \/ Activate \/ Handler
  \/ (\E f \in Frames : Receive(f)) \/ Miss \/ Transmit
  \/ \E f \in Outgoing : SendData(f)

Spec == Init /\ [][Next]_vars

(* Interrupts are taken, and frames keep arriving.                         *)
FairSpec ==
  Spec /\ WF_vars(Handler) /\ WF_vars(Miss \/ \E f \in Frames : Receive(f))
-----------------------------------------------------------------------------
(***************************************************************************)
(* Properties.                                                             *)
(***************************************************************************)

(* Every variable has its type, and the indices are those of descriptors.  *)
TypeOK ==
  /\ cardOwns \in [Slots -> BOOLEAN] /\ bad \in [Slots -> BOOLEAN]
  /\ memory \in [ReceiveParagraphs -> Frames \cup {NoFrame}]
  /\ current_receive_buffer_index \in Slots /\ receiving \in Slots
  /\ sendOwned \in [Slots -> BOOLEAN]
  /\ sendMemory \in [SendParagraphs -> Outgoing \cup {NoFrame}]
  /\ current_send_buffer_index \in Slots /\ sending \in Slots
  /\ csr0 \subseteq {"IDON", "RINT", "TINT", "MISS"} /\ temp \subseteq csr0
  /\ pc \in {"inactive", "idle", "status", "receive", "release", "acknowledge"}
  /\ printed \subseteq Frames
  /\ Len(pending) <= RingSize /\ Len(queued) <= SendsAhead
  /\ burst \in 0 .. RingSize - 1

(* The receive descriptors that are the driver's are the ones behind its   *)
(* index, in the order in which their frames arrived, each with the error  *)
(* flag of its frame; the ones it has given to the card for sending are    *)
(* those before its other index.  So no descriptor is printed or sent twice*)
(* or out of turn.  What the buffers hold by then is another question.     *)
RingsInOrder ==
  /\ \A n \in 0 .. RingSize - 1 :
       LET k == (current_receive_buffer_index + n) % RingSize
       IN  /\ cardOwns[k] <=> n >= Len(pending)
           /\ n < Len(pending) => bad[k] = pending[n + 1].bad
  /\ \A n \in 0 .. RingSize - 1 :
       sendOwned[(sending + n) % RingSize] <=> n < Len(queued)
  /\ receiving = (current_receive_buffer_index + Len(pending)) % RingSize

(* A frame in the ring is printed some time, if frames keep arriving and   *)
(* the ring is not filled while the handler is on its way from the loop of *)
(* receive_data to the acknowledgement, which clears RINT for them, too.   *)
NoFrameIsStuck == pending # <<>> ~> pc = "release"

(* What is printed for a frame is that frame.                              *)
PrintsTheFrame ==
  pc = "release" /\ printed # {} => printed = {Head(pending).frame}

(* send_data copies a frame over those that wait to be sent, since buffers *)
(* overlap.  Its callers can rely on this only: of the frames waiting, the *)
(* card finds the last one as it was given.                                *)
SendsTheLastFrame ==
  Len(queued) = 1 =>
    {sendMemory[a] : a \in SendBuffer(sending)} = {Head(queued)}
=============================================================================
