------------------------- MODULE AMD_am79c973Proofs -------------------------
(***************************************************************************)
(* Theorems about AMD_am79c973 for rings of every size, every set of frames*)
(* and every distance of the buffers.  They suppose that the callers of    *)
(* send_data never have more frames waiting than there are descriptors.    *)
(***************************************************************************)
EXTENDS AMD_am79c973, SequenceTheorems, TLAPS

(* The callers of send_data wait for a free descriptor.                    *)
Room == SendsAhead <= RingSize

(* Descriptor n, counted from descriptor k round the ring.                 *)
Ahead(k, n) == IF k + n < RingSize THEN k + n ELSE k + n - RingSize

Frame == [frame : Frames, bad : BOOLEAN]

(* What the histories hold, and where the driver puts the next frame.      *)
Histories ==
  /\ pending \in Seq(Frame) /\ queued \in Seq(Outgoing)
  /\ current_send_buffer_index = Ahead(sending, Len(queued))

(* The driver's descriptors point at buffers that hold frames.             *)
Filled ==
  \A k \in Slots : ~cardOwns[k] => \A a \in ReceiveBuffer(k) : memory[a] \in Frames

(* Where the handler has seen no flags, and where it has a frame.          *)
Stages ==
  /\ pc \in {"inactive", "idle", "status"} => temp = {}
  /\ pc = "release" => ~cardOwns[current_receive_buffer_index]

(* RingsInOrder without remainders, ring by ring.                          *)
ReceiveOrder ==
  /\ \A n \in Slots :
       LET k == Ahead(current_receive_buffer_index, n)
       IN  /\ cardOwns[k] <=> n >= Len(pending)
           /\ n < Len(pending) => bad[k] = pending[n + 1].bad
  /\ receiving = Ahead(current_receive_buffer_index, Len(pending))

SendOrder == \A n \in Slots : sendOwned[Ahead(sending, n)] <=> n < Len(queued)

IInv == TypeOK /\ ReceiveOrder /\ SendOrder /\ Histories /\ Filled /\ Stages
-----------------------------------------------------------------------------
(* What is left after division by the size of the ring.                    *)
LEMMA Remainder ==
  ASSUME NEW v \in Nat, v < 2 * RingSize
  PROVE  v % RingSize = IF v < RingSize THEN v ELSE v - RingSize
  <1>1. RingSize \in Nat \ {0}
    BY RingAssumption
  <1>2. v = RingSize * (v \div RingSize) + (v % RingSize)
        /\ v % RingSize \in 0 .. RingSize - 1 /\ v \div RingSize \in Int
    BY <1>1
  <1> QED BY <1>1, <1>2

LEMMA Rounds ==
  /\ RingSize \in Nat \ {0}
  /\ \A k \in Slots, n \in 0 .. RingSize :
       Ahead(k, n) = (k + n) % RingSize /\ Ahead(k, n) \in Slots
  /\ \A k \in Slots : NextSlot(k) = Ahead(k, 1) /\ NextSlot(k) \in Slots
  <1>1. RingSize \in Nat \ {0}
    BY RingAssumption
  <1>2. ASSUME NEW k \in Slots, NEW n \in 0 .. RingSize
        PROVE  Ahead(k, n) = (k + n) % RingSize /\ Ahead(k, n) \in Slots
    BY <1>1, Remainder DEF Ahead, Slots
  <1>3. ASSUME NEW k \in Slots
        PROVE  NextSlot(k) = Ahead(k, 1) /\ NextSlot(k) \in Slots
    BY <1>1, <1>2 DEF NextSlot
  <1> QED BY <1>1, <1>2, <1>3

(* The driver's descriptors are counted from its indices.                  *)
LEMMA SameOrder ==
  ASSUME current_receive_buffer_index \in Slots, sending \in Slots,
         Len(pending) \in 0 .. RingSize
  PROVE  RingsInOrder <=> ReceiveOrder /\ SendOrder
  <1>1. \A n \in 0 .. RingSize - 1 :
          /\ Ahead(current_receive_buffer_index, n) = (current_receive_buffer_index + n) % RingSize
          /\ Ahead(sending, n) = (sending + n) % RingSize
    BY Rounds
  <1>2. Ahead(current_receive_buffer_index, Len(pending))
          = (current_receive_buffer_index + Len(pending)) % RingSize
    BY Rounds
  <1> QED BY <1>1, <1>2 DEF RingsInOrder, ReceiveOrder, SendOrder, Slots

THEOREM InitiallyInv == Init => IInv
  <1> SUFFICES ASSUME Init PROVE IInv
    OBVIOUS
  <1>1. RingSize \in Nat \ {0} /\ 0 \in Slots
    BY Rounds DEF Slots
  <1>2. pending = <<>> /\ queued = <<>> /\ Len(pending) = 0 /\ Len(queued) = 0
    BY DEF Init
  <1>3. TypeOK
    <2>1. 0 \in 0 .. RingSize - 1
      BY <1>1 DEF Slots
    <2> QED BY <1>1, <1>2, <2>1, RingAssumption DEF Init, TypeOK
  <1>4. \A n \in Slots : Ahead(0, n) = n
    BY <1>1 DEF Ahead, Slots
  <1>a. Ahead(0, 0) = 0 /\ \A n \in Slots : n \in Nat
    BY <1>1 DEF Ahead, Slots
  <1>b. \A n \in Slots : ~(n < 0) /\ n >= 0
    BY <1>a
  <1>c. ReceiveOrder /\ SendOrder
    BY <1>1, <1>2, <1>4, <1>a, <1>b DEF Init, ReceiveOrder, SendOrder
  <1>5. Histories
    BY <1>1, <1>2 DEF Init, Histories, Ahead
  <1>6. Filled /\ Stages
    BY DEF Init, Filled, Stages
  <1> QED BY <1>3, <1>c, <1>5, <1>6 DEF IInv

(* Descriptors at different distances are different.                       *)
LEMMA Apart ==
  ASSUME NEW k \in Slots
  PROVE  /\ \A m, n \in Slots : Ahead(k, m) = Ahead(k, n) => m = n
         /\ \A l \in Slots : \E n \in Slots : l = Ahead(k, n)
         /\ \A n \in Slots : n + 1 \in Slots => Ahead(Ahead(k, 1), n) = Ahead(k, n + 1)
         /\ Ahead(Ahead(k, 1), RingSize - 1) = k
         /\ Ahead(k, 0) = k /\ Ahead(k, RingSize) = k
  <1>1. RingSize \in Nat \ {0} /\ k \in Nat /\ k < RingSize
    BY Rounds DEF Slots
  <1>2. \A m, n \in Slots : Ahead(k, m) = Ahead(k, n) => m = n
    BY <1>1 DEF Ahead, Slots
  <1>3. ASSUME NEW l \in Slots
        PROVE  \E n \in Slots : l = Ahead(k, n)
    <2>1. CASE l >= k
      <3>1. l - k \in Slots /\ l = Ahead(k, l - k)
        BY <1>1, <2>1 DEF Ahead, Slots
      <3> QED BY <3>1
    <2>2. CASE l < k
      <3>1. l + RingSize - k \in Slots /\ l = Ahead(k, l + RingSize - k)
        BY <1>1, <2>2 DEF Ahead, Slots
      <3> QED BY <3>1
    <2> QED BY <1>1, <2>1, <2>2 DEF Slots
  <1>4. \A n \in Slots : n + 1 \in Slots => Ahead(Ahead(k, 1), n) = Ahead(k, n + 1)
    BY <1>1 DEF Ahead, Slots
  <1>5. /\ Ahead(Ahead(k, 1), RingSize - 1) = k
        /\ Ahead(k, 0) = k /\ Ahead(k, RingSize) = k
    BY <1>1 DEF Ahead, Slots
  <1> QED BY <1>2, <1>3, <1>4, <1>5

(* Where each ring is handed over: at the card's position, behind the      *)
(* frames that wait, and at the driver's, the first of them.               *)
LEMMA Fronts ==
  ASSUME Room, IInv
  PROVE  /\ RingSize \in Nat \ {0}
         /\ Len(pending) \in 0 .. RingSize /\ Len(queued) \in 0 .. SendsAhead
         /\ SendsAhead \in 0 .. RingSize
         /\ current_receive_buffer_index \in Slots /\ receiving \in Slots
         /\ sending \in Slots /\ current_send_buffer_index \in Slots
         /\ cardOwns[receiving] => Len(pending) < RingSize
         /\ ~cardOwns[current_receive_buffer_index] => Len(pending) > 0
         /\ sendOwned[sending] => Len(queued) > 0
  <1>1. /\ RingSize \in Nat \ {0} /\ SendsAhead \in 0 .. RingSize
        /\ Len(pending) \in 0 .. RingSize /\ Len(queued) \in 0 .. SendsAhead
    BY RingAssumption, LenProperties DEF Room, IInv, TypeOK, Histories
  <1>2. /\ current_receive_buffer_index \in Slots /\ receiving \in Slots
        /\ sending \in Slots /\ current_send_buffer_index \in Slots
    BY DEF IInv, TypeOK
  <1>0. 0 \in Slots
    BY <1>1 DEF Slots
  <1>3. 0 \in Slots /\ Ahead(current_receive_buffer_index, 0) = current_receive_buffer_index
        /\ Ahead(current_receive_buffer_index, RingSize) = current_receive_buffer_index
        /\ Ahead(sending, 0) = sending
    BY <1>0, <1>2, Apart
  <1>4. ~cardOwns[current_receive_buffer_index] => Len(pending) > 0
    BY <1>1, <1>3 DEF IInv, ReceiveOrder, SendOrder
  <1>5. sendOwned[sending] => Len(queued) > 0
    BY <1>1, <1>3 DEF IInv, ReceiveOrder, SendOrder
  <1>6. ASSUME Len(pending) = RingSize PROVE ~cardOwns[receiving]
    <2>1. receiving = current_receive_buffer_index
      BY <1>3, <1>6 DEF IInv, ReceiveOrder, SendOrder
    <2> QED BY <1>1, <1>3, <1>6, <2>1 DEF IInv, ReceiveOrder, SendOrder
  <1>7. cardOwns[receiving] => Len(pending) < RingSize
    BY <1>1, <1>6
  <1> QED BY <1>1, <1>2, <1>4, <1>5, <1>7
-----------------------------------------------------------------------------
(* A frame that arrives is put behind the others.                          *)
LEMMA ReceiveKeepsOrder ==
  ASSUME Room, IInv, NEW f \in Frames, Receive(f)
  PROVE  ReceiveOrder' /\ receiving' \in Slots /\ pending' \in Seq(Frame)
         /\ Len(pending') = Len(pending) + 1 /\ Len(pending') <= RingSize
  <1> DEFINE c == current_receive_buffer_index
             L == Len(pending)
  <1>1. PICK e \in BOOLEAN :
          /\ bad' = [bad EXCEPT ![receiving] = e]
          /\ pending' = Append(pending, [frame |-> f, bad |-> e])
    BY DEF Receive
  <1>2. /\ cardOwns' = [cardOwns EXCEPT ![receiving] = FALSE]
        /\ receiving' = NextSlot(receiving) /\ c' = c /\ cardOwns[receiving]
    BY DEF Receive, handler
  <1>3. /\ RingSize \in Nat \ {0} /\ L \in Nat /\ L < RingSize
        /\ c \in Slots /\ receiving \in Slots
    BY <1>2, Fronts
  <1>4. L \in Slots /\ receiving = Ahead(c, L)
    BY <1>3 DEF Slots, IInv, ReceiveOrder
  <1>5. /\ pending \in Seq(Frame) /\ [frame |-> f, bad |-> e] \in Frame
        /\ cardOwns \in [Slots -> BOOLEAN] /\ bad \in [Slots -> BOOLEAN]
    BY DEF IInv, TypeOK, Histories, Frame
  <1>6. /\ pending' \in Seq(Frame) /\ Len(pending') = L + 1
        /\ pending'[L + 1] = [frame |-> f, bad |-> e]
        /\ \A n \in Nat : n < L => pending'[n + 1] = pending[n + 1]
    BY <1>1, <1>3, <1>5, AppendProperties
  <1>7. ASSUME NEW n \in Slots
        PROVE  /\ cardOwns'[Ahead(c, n)] <=> n >= L + 1
               /\ n < L + 1 => bad'[Ahead(c, n)] = pending'[n + 1].bad
    <2>1. n \in Nat /\ Ahead(c, n) \in Slots /\ (Ahead(c, n) = receiving <=> n = L)
      <3>1. n \in Nat /\ n \in 0 .. RingSize
        BY <1>3 DEF Slots
      <3>2. Ahead(c, n) \in Slots
        BY <1>3, <3>1, Rounds
      <3>3. Ahead(c, n) = Ahead(c, L) <=> n = L
        <4>1. c \in Slots /\ n \in Slots /\ L \in Slots
          BY <1>3, <1>4
        <4> HIDE DEF c, L
        <4>2. \A m, o \in Slots : Ahead(c, m) = Ahead(c, o) => m = o
          BY <4>1, Apart
        <4> QED BY <4>1, <4>2
      <3> HIDE DEF c, L
      <3> QED BY <1>4, <3>1, <3>2, <3>3
    <2>2. CASE n = L
      BY <1>1, <1>2, <1>3, <1>5, <1>6, <2>1, <2>2
    <2>3. CASE n # L
      <3>1. /\ cardOwns'[Ahead(c, n)] = cardOwns[Ahead(c, n)]
            /\ bad'[Ahead(c, n)] = bad[Ahead(c, n)]
        BY <1>1, <1>2, <1>5, <2>1, <2>3
      <3>2. /\ cardOwns[Ahead(c, n)] <=> n >= L
            /\ n < L => bad[Ahead(c, n)] = pending[n + 1].bad
        BY DEF IInv, ReceiveOrder
      <3>3. (n >= L <=> n >= L + 1) /\ (n < L + 1 <=> n < L)
        BY <1>3, <2>1, <2>3
      <3>4. n < L => pending'[n + 1] = pending[n + 1]
        BY <1>6, <2>1
      <3> HIDE DEF c, L
      <3> QED BY <3>1, <3>2, <3>3, <3>4
    <2> QED BY <2>2, <2>3
  <1>8. receiving' = Ahead(c, L + 1) /\ receiving' \in Slots
    <2>1. receiving' = Ahead(Ahead(c, L), 1) /\ receiving' \in Slots
      BY <1>2, <1>3, <1>4, Rounds
    <2>2. Ahead(Ahead(c, L), 1) = Ahead(c, L + 1)
      BY <1>3, <1>4 DEF Ahead, Slots
    <2> QED BY <2>1, <2>2
  <1>9. ReceiveOrder'
    BY <1>2, <1>6, <1>7, <1>8 DEF ReceiveOrder
  <1> QED BY <1>3, <1>6, <1>8, <1>9

(* The frame given back is the first of those that wait.                   *)
LEMMA ReleaseKeepsOrder ==
  ASSUME Room, IInv, Release
  PROVE  ReceiveOrder' /\ current_receive_buffer_index' \in Slots
         /\ pending' \in Seq(Frame) /\ Len(pending') = Len(pending) - 1
  <1> DEFINE c == current_receive_buffer_index
             L == Len(pending)
  <1>1. /\ cardOwns' = [cardOwns EXCEPT ![c] = TRUE]
        /\ bad' = [bad EXCEPT ![c] = FALSE]
        /\ pending' = Tail(pending) /\ receiving' = receiving
        /\ c' = NextSlot(c) /\ ~cardOwns[c]
    BY DEF Release, IInv, Stages
  <1>2. /\ RingSize \in Nat \ {0} /\ L \in Nat /\ L > 0 /\ L <= RingSize /\ c \in Slots
    BY <1>1, Fronts
  <1>3. /\ pending \in Seq(Frame) /\ pending # <<>>
        /\ cardOwns \in [Slots -> BOOLEAN] /\ bad \in [Slots -> BOOLEAN]
    BY <1>2 DEF IInv, TypeOK, Histories
  <1>4. /\ pending' \in Seq(Frame) /\ Len(pending') = L - 1
        /\ \A n \in Nat : n < L - 1 => pending'[n + 1] = pending[n + 2]
    <2>1. pending' \in Seq(Frame) /\ Len(pending') = L - 1
          /\ \A m \in 1 .. L - 1 : pending'[m] = pending[m + 1]
      BY <1>1, <1>3, HeadTailProperties
    <2>2. \A n \in Nat : n < L - 1 => n + 1 \in 1 .. L - 1 /\ (n + 1) + 1 = n + 2
      BY <1>2
    <2> QED BY <2>1, <2>2
  <1>5. c' = Ahead(c, 1) /\ c' \in Slots
    BY <1>1, <1>2, Rounds
  <1>6. ASSUME NEW n \in Slots
        PROVE  /\ cardOwns'[Ahead(c', n)] <=> n >= L - 1
               /\ n < L - 1 => bad'[Ahead(c', n)] = pending'[n + 1].bad
    <2>1. n \in Nat /\ n < RingSize
      BY <1>2 DEF Slots
    <2>2. CASE n + 1 \in Slots
      <3>1. /\ Ahead(c', n) = Ahead(c, n + 1) /\ Ahead(c, n + 1) \in Slots
            /\ Ahead(c, n + 1) # c
        <4>1. 0 \in Slots /\ n + 1 # 0 /\ n + 1 \in 0 .. RingSize
          BY <1>2, <2>1 DEF Slots
        <4> HIDE DEF c, L
        <4> QED BY <1>2, <1>5, <2>2, <4>1, Apart, Rounds
      <3>2. /\ cardOwns'[Ahead(c, n + 1)] = cardOwns[Ahead(c, n + 1)]
            /\ bad'[Ahead(c, n + 1)] = bad[Ahead(c, n + 1)]
        BY <1>1, <1>3, <3>1
      <3>3. /\ cardOwns[Ahead(c, n + 1)] <=> n + 1 >= L
            /\ n + 1 < L => bad[Ahead(c, n + 1)] = pending[(n + 1) + 1].bad
        BY <2>2 DEF IInv, ReceiveOrder
      <3>4. (n + 1 >= L <=> n >= L - 1) /\ (n + 1 < L <=> n < L - 1)
            /\ (n + 1) + 1 = n + 2
        BY <1>2, <2>1
      <3>5. n < L - 1 => pending'[n + 1] = pending[n + 2]
        BY <1>4, <2>1
      <3> HIDE DEF c, L
      <3> QED BY <3>1, <3>2, <3>3, <3>4, <3>5
    <2>3. CASE n + 1 \notin Slots
      <3>1. n = RingSize - 1 /\ n >= L - 1 /\ ~(n < L - 1)
        BY <1>2, <2>1, <2>3 DEF Slots
      <3>2. Ahead(c', n) = c
        BY <1>2, <1>5, <3>1, Apart
      <3> QED BY <1>1, <1>2, <1>3, <3>1, <3>2
    <2> QED BY <2>2, <2>3
  <1>7. receiving' = Ahead(c', L - 1)
    <2>1. receiving = Ahead(c, L)
      BY DEF IInv, ReceiveOrder
    <2>2. Ahead(Ahead(c, 1), L - 1) = Ahead(c, L)
      BY <1>2 DEF Ahead, Slots
    <2> QED BY <1>1, <1>5, <2>1, <2>2
  <1>8. ReceiveOrder'
    BY <1>4, <1>6, <1>7 DEF ReceiveOrder
  <1> QED BY <1>4, <1>5, <1>8

(* A frame to send is put behind the others.                               *)
LEMMA SendKeepsOrder ==
  ASSUME Room, IInv, NEW f \in Outgoing, SendData(f)
  PROVE  SendOrder' /\ current_send_buffer_index' \in Slots
         /\ queued' \in Seq(Outgoing) /\ Len(queued') = Len(queued) + 1
         /\ current_send_buffer_index' = Ahead(sending, Len(queued) + 1)
         /\ Len(queued') <= SendsAhead
  <1> DEFINE c == sending
             L == Len(queued)
             k == current_send_buffer_index
  <1>1. /\ sendOwned' = [sendOwned EXCEPT ![k] = TRUE]
        /\ queued' = Append(queued, f) /\ c' = c /\ k' = NextSlot(k)
        /\ L < SendsAhead
    BY DEF SendIndex, SendData
  <1>2. /\ RingSize \in Nat \ {0} /\ L \in Nat /\ L < RingSize
        /\ c \in Slots /\ k \in Slots /\ SendsAhead \in Nat
    BY <1>1, Fronts
  <1>3. L \in Slots /\ k = Ahead(c, L)
    BY <1>2 DEF Slots, IInv, Histories
  <1>4. queued \in Seq(Outgoing) /\ sendOwned \in [Slots -> BOOLEAN]
    BY DEF IInv, TypeOK, Histories
  <1>5. queued' \in Seq(Outgoing) /\ Len(queued') = L + 1
    BY <1>1, <1>2, <1>4, AppendProperties
  <1>6. ASSUME NEW n \in Slots
        PROVE  sendOwned'[Ahead(c, n)] <=> n < L + 1
    <2>1. n \in Nat /\ Ahead(c, n) \in Slots /\ (Ahead(c, n) = k <=> n = L)
      <3>0. n \in Nat /\ n \in 0 .. RingSize
        BY <1>2 DEF Slots
      <3>1. n \in Nat /\ Ahead(c, n) \in Slots
        BY <1>2, <3>0, Rounds
      <3>2. \A m, o \in Slots : Ahead(c, m) = Ahead(c, o) => m = o
        BY <1>2, Apart
      <3> HIDE DEF c, L, k
      <3> QED BY <1>3, <3>1, <3>2
    <2>2. CASE n = L
      BY <1>1, <1>2, <1>4, <1>5, <2>1, <2>2
    <2>3. CASE n # L
      <3>1. sendOwned'[Ahead(c, n)] = sendOwned[Ahead(c, n)]
        BY <1>1, <1>4, <2>1, <2>3
      <3>2. sendOwned[Ahead(c, n)] <=> n < L
        BY DEF IInv, SendOrder
      <3>3. n < L + 1 <=> n < L
        BY <1>2, <2>1, <2>3
      <3> HIDE DEF c, L
      <3> QED BY <3>1, <3>2, <3>3
    <2> QED BY <2>2, <2>3
  <1>7. k' = Ahead(c, L + 1) /\ k' \in Slots
    <2>1. k' = Ahead(Ahead(c, L), 1) /\ k' \in Slots
      BY <1>1, <1>2, <1>3, Rounds
    <2>2. Ahead(Ahead(c, L), 1) = Ahead(c, L + 1)
      BY <1>2, <1>3 DEF Ahead, Slots
    <2> QED BY <2>1, <2>2
  <1>8. SendOrder'
    BY <1>1, <1>5, <1>6 DEF SendOrder
  <1> QED BY <1>1, <1>2, <1>5, <1>7, <1>8

(* The frame sent is the first of those that wait.                         *)
LEMMA TransmitKeepsOrder ==
  ASSUME Room, IInv, Transmit
  PROVE  SendOrder' /\ sending' \in Slots
         /\ queued' \in Seq(Outgoing) /\ Len(queued') = Len(queued) - 1
         /\ current_send_buffer_index = Ahead(sending', Len(queued) - 1)
  <1> DEFINE c == sending
             L == Len(queued)
  <1>1. /\ sendOwned' = [sendOwned EXCEPT ![c] = FALSE]
        /\ queued' = Tail(queued)
        /\ c' = NextSlot(c) /\ sendOwned[c]
    BY DEF Transmit
  <1>2. /\ RingSize \in Nat \ {0} /\ L \in Nat /\ L > 0 /\ L <= RingSize /\ c \in Slots
    BY <1>1, Fronts
  <1>3. /\ queued \in Seq(Outgoing) /\ queued # <<>> /\ sendOwned \in [Slots -> BOOLEAN]
    BY <1>2 DEF IInv, TypeOK, Histories
  <1>4. queued' \in Seq(Outgoing) /\ Len(queued') = L - 1
    BY <1>1, <1>3, HeadTailProperties
  <1>5. c' = Ahead(c, 1) /\ c' \in Slots
    BY <1>1, <1>2, Rounds
  <1>6. ASSUME NEW n \in Slots
        PROVE  sendOwned'[Ahead(c', n)] <=> n < L - 1
    <2>1. n \in Nat /\ n < RingSize
      BY <1>2 DEF Slots
    <2>2. CASE n + 1 \in Slots
      <3>1. /\ Ahead(c', n) = Ahead(c, n + 1) /\ Ahead(c, n + 1) \in Slots
            /\ Ahead(c, n + 1) # c
        <4>1. 0 \in Slots /\ n + 1 # 0 /\ n + 1 \in 0 .. RingSize
          BY <1>2, <2>1 DEF Slots
        <4> HIDE DEF c, L
        <4> QED BY <1>2, <1>5, <2>2, <4>1, Apart, Rounds
      <3>2. sendOwned'[Ahead(c, n + 1)] = sendOwned[Ahead(c, n + 1)]
        BY <1>1, <1>3, <3>1
      <3>3. sendOwned[Ahead(c, n + 1)] <=> n + 1 < L
        BY <2>2 DEF IInv, SendOrder
      <3>4. n + 1 < L <=> n < L - 1
        BY <1>2, <2>1
      <3> HIDE DEF c, L
      <3> QED BY <3>1, <3>2, <3>3, <3>4
    <2>3. CASE n + 1 \notin Slots
      <3>1. n = RingSize - 1 /\ ~(n < L - 1)
        BY <1>2, <2>1, <2>3 DEF Slots
      <3>2. Ahead(c', n) = c
        BY <1>2, <1>5, <3>1, Apart
      <3> QED BY <1>1, <1>2, <1>3, <3>1, <3>2
    <2> QED BY <2>2, <2>3
  <1>7. current_send_buffer_index = Ahead(c', L - 1)
    <2>1. current_send_buffer_index = Ahead(c, L)
      BY DEF IInv, Histories
    <2>2. Ahead(Ahead(c, 1), L - 1) = Ahead(c, L)
      BY <1>2 DEF Ahead, Slots
    <2> QED BY <1>5, <2>1, <2>2
  <1>8. SendOrder'
    BY <1>4, <1>6 DEF SendOrder
  <1> QED BY <1>4, <1>5, <1>7, <1>8

(* Everything that leaves a ring alone leaves it in order.                 *)
LEMMA OrderStays ==
  ASSUME IInv
  PROVE  /\ UNCHANGED <<cardOwns, bad, pending, receiving, current_receive_buffer_index>>
              => ReceiveOrder'
         /\ UNCHANGED <<sendOwned, queued, sending>> => SendOrder'
         /\ UNCHANGED <<queued, sending, pending, current_send_buffer_index>> => Histories'
         /\ UNCHANGED <<cardOwns, memory>> => Filled'
  <1>1. UNCHANGED <<cardOwns, bad, pending, receiving, current_receive_buffer_index>>
          => ReceiveOrder'
    BY DEF IInv, ReceiveOrder
  <1>2. UNCHANGED <<sendOwned, queued, sending>> => SendOrder'
    BY DEF IInv, SendOrder
  <1>3. UNCHANGED <<queued, sending, pending, current_send_buffer_index>> => Histories'
    BY DEF IInv, Histories
  <1>4. UNCHANGED <<cardOwns, memory>> => Filled'
    BY DEF IInv, Filled
  <1> QED BY <1>1, <1>2, <1>3, <1>4

THEOREM NextInv ==
  ASSUME Room
  PROVE  IInv /\ [Next]_vars => IInv'
  <1> SUFFICES ASSUME IInv, [Next]_vars PROVE IInv'
    OBVIOUS
  <1> USE DEF receiver, sender, handler
  <1>1. CASE Activate
    <2>1. TypeOK'
      BY <1>1 DEF Activate, IInv, TypeOK, Stages
    <2>2. ReceiveOrder' /\ SendOrder' /\ Histories' /\ Filled'
      BY <1>1, OrderStays DEF Activate
    <2>3. Stages'
      BY <1>1 DEF Activate, IInv, Stages
    <2> QED BY <2>1, <2>2, <2>3 DEF IInv
  <1>2. CASE Interrupt \/ ReadStatus \/ ReceiveEnds \/ PrintFrame \/ Acknowledge
    <2>1. TypeOK'
      <3>1. 0 \in 0 .. RingSize - 1
        BY Fronts
      <3>2. ASSUME PrintFrame PROVE printed' \subseteq Frames
        BY <3>2 DEF PrintFrame, IInv, TypeOK, Filled
      <3>3. CASE Interrupt \/ ReadStatus \/ ReceiveEnds \/ Acknowledge
        BY <3>1, <3>3 DEF Interrupt, ReadStatus, ReceiveEnds, Acknowledge, Cleared, IInv, TypeOK
      <3>4. CASE PrintFrame
        BY <3>2, <3>4 DEF PrintFrame, IInv, TypeOK
      <3> QED BY <1>2, <3>3, <3>4
    <2>2. ReceiveOrder' /\ SendOrder' /\ Histories' /\ Filled'
      BY <1>2, OrderStays DEF Interrupt, ReadStatus, ReceiveEnds, PrintFrame, Acknowledge
    <2>3. Stages'
      BY <1>2 DEF Interrupt, ReadStatus, ReceiveEnds, PrintFrame, Acknowledge, IInv, Stages
    <2> QED BY <2>1, <2>2, <2>3 DEF IInv
  <1>3. CASE Release
    <2>1. TypeOK'
      <3>1. current_receive_buffer_index' \in Slots /\ Len(pending') <= RingSize
        BY <1>3, ReleaseKeepsOrder, Fronts
      <3> QED BY <1>3, <3>1 DEF Release, IInv, TypeOK
    <2>2. ReceiveOrder' /\ SendOrder'
      BY <1>3, ReleaseKeepsOrder, OrderStays DEF Release
    <2>3. Histories'
      BY <1>3, ReleaseKeepsOrder DEF Release, IInv, Histories
    <2>4. Filled'
      BY <1>3 DEF Release, IInv, Filled, TypeOK
    <2>5. Stages'
      BY <1>3 DEF Release, IInv, Stages
    <2> QED BY <2>1, <2>2, <2>3, <2>4, <2>5 DEF IInv
  <1>4. ASSUME NEW f \in Frames, Receive(f) PROVE IInv'
    <2>1. TypeOK'
      <3>1. receiving' \in Slots /\ Len(pending') <= RingSize
        BY <1>4, ReceiveKeepsOrder
      <3>2. burst' \in 0 .. RingSize - 1
        BY <1>4, Fronts DEF Receive, IInv, TypeOK
      <3>3. PICK e \in BOOLEAN : bad' = [bad EXCEPT ![receiving] = e]
        BY <1>4 DEF Receive
      <3> QED BY <1>4, <3>1, <3>2, <3>3 DEF Receive, IInv, TypeOK
    <2>2. ReceiveOrder' /\ SendOrder'
      BY <1>4, ReceiveKeepsOrder, OrderStays DEF Receive
    <2>3. Histories'
      BY <1>4, ReceiveKeepsOrder DEF Receive, IInv, Histories
    <2>4. Filled'
      <3>1. receiving \in Slots /\ cardOwns \in [Slots -> BOOLEAN]
            /\ memory \in [ReceiveParagraphs -> Frames \cup {NoFrame}]
        BY DEF IInv, TypeOK
      <3>2. \A a \in ReceiveParagraphs :
              memory'[a] = IF a \in ReceiveBuffer(receiving) THEN f ELSE memory[a]
        BY <1>4 DEF Receive
      <3> SUFFICES ASSUME NEW k \in Slots, ~cardOwns'[k], NEW a \in ReceiveBuffer(k)
                   PROVE  memory'[a] \in Frames
        BY DEF Filled
      <3>3. a \in ReceiveParagraphs
        BY DEF ReceiveParagraphs
      <3>4. k = receiving \/ ~cardOwns[k]
        BY <1>4, <3>1 DEF Receive
      <3> QED BY <3>2, <3>3, <3>4, <1>4 DEF IInv, Filled
    <2>5. Stages'
      BY <1>4 DEF Receive, IInv, Stages, TypeOK
    <2> QED BY <2>1, <2>2, <2>3, <2>4, <2>5 DEF IInv
  <1>5. CASE Miss
    <2>1. TypeOK'
      BY <1>5 DEF Miss, IInv, TypeOK
    <2>2. ReceiveOrder' /\ SendOrder' /\ Histories' /\ Filled'
      BY <1>5, OrderStays DEF Miss
    <2>3. Stages'
      BY <1>5 DEF Miss, IInv, Stages
    <2> QED BY <2>1, <2>2, <2>3 DEF IInv
  <1>6. CASE Transmit
    <2>1. TypeOK'
      <3>1. sending' \in Slots /\ Len(queued') <= SendsAhead
        BY <1>6, TransmitKeepsOrder, Fronts
      <3> QED BY <1>6, <3>1 DEF Transmit, IInv, TypeOK
    <2>2. ReceiveOrder' /\ SendOrder' /\ Filled'
      BY <1>6, TransmitKeepsOrder, OrderStays DEF Transmit
    <2>3. Histories'
      BY <1>6, TransmitKeepsOrder DEF Transmit, IInv, Histories
    <2>4. Stages'
      BY <1>6 DEF Transmit, IInv, Stages
    <2> QED BY <2>1, <2>2, <2>3, <2>4 DEF IInv
  <1>7. ASSUME NEW f \in Outgoing, SendData(f) PROVE IInv'
    <2>1. TypeOK'
      <3>1. current_send_buffer_index' \in Slots /\ Len(queued') <= SendsAhead
        BY <1>7, SendKeepsOrder
      <3> QED BY <1>7, <3>1 DEF SendIndex, SendData, IInv, TypeOK
    <2>2. ReceiveOrder' /\ SendOrder' /\ Filled'
      BY <1>7, SendKeepsOrder, OrderStays DEF SendIndex, SendData
    <2>3. Histories'
      BY <1>7, SendKeepsOrder DEF SendIndex, SendData, IInv, Histories
    <2>4. Stages'
      BY <1>7 DEF SendIndex, SendData, IInv, Stages
    <2> QED BY <2>1, <2>2, <2>3, <2>4 DEF IInv
  <1>8. CASE UNCHANGED vars
    <2>1. TypeOK' /\ Stages'
      BY <1>8 DEF vars, IInv, TypeOK, Stages
    <2>2. ReceiveOrder' /\ SendOrder' /\ Histories' /\ Filled'
      BY <1>8, OrderStays DEF vars
    <2> QED BY <2>1, <2>2 DEF IInv
  <1> QED
    BY <1>1, <1>2, <1>3, <1>4, <1>5, <1>6, <1>7, <1>8 DEF Next, Handler

(* Every variable has its type, and no index leaves its ring.              *)
THEOREM NetworkTypeOK ==
  ASSUME Room
  PROVE  Spec => []TypeOK
  <1>1. IInv => TypeOK
    BY DEF IInv
  <1> QED BY <1>1, InitiallyInv, NextInv, PTL DEF Spec

(* Descriptors are printed once and in the order in which frames arrived,  *)
(* with their error flags, and sent once and in the order of the calls of  *)
(* send_data, whatever the card does while the handler runs.               *)
THEOREM NetworkRingsInOrder ==
  ASSUME Room
  PROVE  Spec => []RingsInOrder
  <1>1. IInv => RingsInOrder
    BY SameOrder, Fronts DEF IInv
  <1> QED BY <1>1, InitiallyInv, NextInv, PTL DEF Spec
-----------------------------------------------------------------------------
(***************************************************************************)
(* The buffers of send_data overlap.                                       *)
(***************************************************************************)

(* The frame handed over last is in its buffer.                            *)
Copied ==
  Len(queued) > 0 =>
    \A a \in SendBuffer(Ahead(sending, Len(queued) - 1)) :
      sendMemory[a] = queued[Len(queued)]

LEMMA KeepsCopied ==
  ASSUME Room, IInv, Copied, [Next]_vars
  PROVE  Copied'
  <1> USE DEF receiver, sender, handler
  <1> DEFINE L == Len(queued)
  <1>1. /\ RingSize \in Nat \ {0} /\ L \in Nat /\ L <= RingSize
        /\ sending \in Slots /\ current_send_buffer_index \in Slots
        /\ queued \in Seq(Outgoing)
    BY Fronts DEF IInv, Histories
  <1>3. ASSUME NEW f \in Outgoing, SendData(f) PROVE Copied'
    <2>1. /\ queued' = Append(queued, f) /\ sending' = sending
          /\ \A a \in SendParagraphs : sendMemory'[a] =
               IF a \in SendBuffer(current_send_buffer_index) THEN f ELSE sendMemory[a]
      BY <1>3 DEF SendData, SendIndex
    <2>2. current_send_buffer_index = Ahead(sending, L)
      BY DEF IInv, Histories
    <2>3. Len(queued') = L + 1 /\ queued'[L + 1] = f /\ L + 1 - 1 = L
      BY <1>1, <2>1, AppendProperties
    <2>4. \A a \in SendBuffer(current_send_buffer_index) : a \in SendParagraphs
      BY <1>1 DEF SendParagraphs
    <2>5. \A a \in SendBuffer(Ahead(sending', Len(queued') - 1)) :
            sendMemory'[a] = queued'[Len(queued')]
      <3>1. Ahead(sending', Len(queued') - 1) = current_send_buffer_index
        BY <2>1, <2>2, <2>3
      <3>2. queued'[Len(queued')] = f
        BY <2>3
      <3>3. \A a \in SendBuffer(current_send_buffer_index) : sendMemory'[a] = f
        BY <2>1, <2>4
      <3> QED BY <3>1, <3>2, <3>3
    <2> QED BY <2>5 DEF Copied
  <1>4. CASE Transmit
    <2>1. /\ queued' = Tail(queued) /\ sending' = NextSlot(sending)
          /\ UNCHANGED sendMemory /\ sendOwned[sending]
      BY <1>4 DEF Transmit
    <2>2. L > 0
      BY <2>1, Fronts
    <2>3. Len(queued') = L - 1 /\ \A n \in 1 .. L - 1 : queued'[n] = queued[n + 1]
      BY <1>1, <2>1, <2>2, HeadTailProperties
    <2>4. ASSUME L - 1 > 0
          PROVE  /\ Ahead(sending', L - 1 - 1) = Ahead(sending, L - 1)
                 /\ queued'[L - 1] = queued[L]
      <3>1. sending' = Ahead(sending, 1)
        BY <1>1, <2>1, Rounds
      <3>2. Ahead(Ahead(sending, 1), L - 1 - 1) = Ahead(sending, L - 1)
        BY <1>1, <2>4 DEF Ahead, Slots
      <3>3. L - 1 \in 1 .. L - 1 /\ L - 1 + 1 = L
        BY <1>1, <2>4
      <3> HIDE DEF L
      <3> QED BY <2>3, <3>1, <3>2, <3>3
    <2> HIDE DEF L
    <2>5. CASE L - 1 > 0
      <3>1. \A a \in SendBuffer(Ahead(sending, L - 1)) : sendMemory[a] = queued[L]
        BY <2>2 DEF Copied, L
      <3> QED BY <2>1, <2>3, <2>4, <2>5, <3>1 DEF Copied
    <2>6. CASE ~(L - 1 > 0)
      BY <2>3, <2>6 DEF Copied
    <2> QED BY <2>5, <2>6
  <1>5. CASE UNCHANGED sender
    BY <1>5 DEF Copied
  <1>6. CASE Activate \/ Handler \/ Miss \/ UNCHANGED vars
    BY <1>5, <1>6 DEF Activate, Handler, Interrupt, ReadStatus, ReceiveEnds,
      PrintFrame, Release, Acknowledge, Miss, vars
  <1>7. ASSUME NEW f \in Frames, Receive(f) PROVE Copied'
    BY <1>5, <1>7 DEF Receive
  <1> QED BY <1>3, <1>4, <1>6, <1>7 DEF Next

(* However close the buffers of send_data are, the card finds the last of  *)
(* the frames that wait as it was given: callers that wait for each frame  *)
(* to be sent before they hand over the next have all of them sent intact. *)
THEOREM LastFrameIsSent ==
  ASSUME Room
  PROVE  Spec => []SendsTheLastFrame
  <1>2. Init => Copied
    <2> SUFFICES ASSUME Init PROVE Copied
      OBVIOUS
    <2>1. Len(queued) = 0
      BY DEF Init
    <2> QED BY <2>1 DEF Copied
  <1>3. IInv /\ Copied => SendsTheLastFrame
    <2> SUFFICES ASSUME IInv, Copied, Len(queued) = 1
                 PROVE  {sendMemory[a] : a \in SendBuffer(sending)} = {Head(queued)}
      BY DEF SendsTheLastFrame
    <2>1. Head(queued) = queued[1]
      BY DEF IInv, Histories
    <2>2. Ahead(sending, Len(queued) - 1) = sending
      BY Fronts DEF Ahead, Slots
    <2>3. SendBuffer(sending) # {}
      <3> DEFINE first == (FirstSendByte + Distance * sending + 15) \div 16
      <3>1. first \in Int
        BY Fronts, RingAssumption DEF Slots
      <3>2. SendBuffer(sending) = first .. first + FrameSize - 1 /\ FrameSize \in Nat \ {0}
        BY RingAssumption DEF SendBuffer, Buffer
      <3> HIDE DEF first
      <3>3. first \in first .. first + FrameSize - 1
        BY <3>1, <3>2
      <3> QED BY <3>2, <3>3
    <2>4. \A a \in SendBuffer(sending) : sendMemory[a] = queued[1]
      BY <2>2 DEF Copied
    <2> QED BY <2>1, <2>3, <2>4
  <1> QED
    BY <1>2, <1>3, InitiallyInv, NextInv, KeepsCopied, PTL DEF Spec
=============================================================================
