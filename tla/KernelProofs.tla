---------------------------- MODULE KernelProofs ----------------------------
(***************************************************************************)
(* Theorems about Kernel for every machine, every number of drivers, every *)
(* desktop and every set of windows.                                       *)
(***************************************************************************)
EXTENDS Kernel, DesktopProofs, SequenceTheorems

(* The walk asks a device only for functions it may have.                  *)
Walks == at[1] < NofBuses => at[3] < NofFunctionsOf(at)

Places == (0 .. NofBuses) \X (0 .. NofDevices - 1) \X (0 .. NofFunctions - 1)
-----------------------------------------------------------------------------
(* What the bus answers is known once the machine is.                      *)
LEMMA SameMachine ==
  ASSUME machine' = machine
  PROVE  /\ Existing' = Existing /\ Cards' = Cards
         /\ \A p : Reply(p)' = Reply(p) /\ NofFunctionsOf(p)' = NofFunctionsOf(p)
  <1>1. \A p : DeviceAt(p)' = DeviceAt(p)
    BY DEF DeviceAt
  <1>2. Existing' = Existing
    BY <1>1 DEF Existing
  <1>3. \A p : Reply(p)' = Reply(p)
    BY <1>1, <1>2 DEF Reply
  <1>4. \A p : NofFunctionsOf(p)' = NofFunctionsOf(p)
    BY <1>1 DEF NofFunctionsOf, hasDeviceFunctions
  <1> QED BY <1>2, <1>3, <1>4 DEF Cards

(* Devices are built as the bus requires.                                  *)
LEMMA DeviceType ==
  ASSUME machine \in Machines, NEW p \in Positions
  PROVE  /\ IsDevice(DeviceAt(p))
         /\ NofFunctionsOf(p) \in 1 .. NofFunctions
  <1>1. p[1] \in 0 .. NofBuses - 1 /\ p[2] \in 0 .. NofDevices - 1
    BY DEF Positions
  <1>2. IsDevice(DeviceAt(p))
    BY <1>1, PciAssumption DEF DeviceAt
  <1> QED BY <1>2, PciAssumption DEF NofFunctionsOf

(* Where the walk reads something that is not a function, nothing is; and  *)
(* where it reads a function, it is the one of that place.                 *)
LEMMA ReplyOf ==
  ASSUME machine \in Machines, at \in Positions, Walks
  PROVE  /\ at \in Existing => Reply(at) = DeviceAt(at).functions[at[3]]
                               /\ IsFunction(Reply(at))
         /\ at \in Existing <=> Reply(at).vendor_id \notin {0, AllOnes}
  <1>1. IsDevice(DeviceAt(at)) /\ at[1] < NofBuses /\ at[3] \in 0 .. NofFunctions - 1
    BY DeviceType, PciAssumption DEF Positions
  <1>2. CASE at \in Existing
    <2>1. Reply(at) = DeviceAt(at).functions[at[3]] /\ at[3] \in DOMAIN DeviceAt(at).functions
      BY <1>2 DEF Reply, Existing
    <2>2. IsFunction(Reply(at))
      BY <1>1, <2>1 DEF IsDevice
    <2>3. Reply(at).vendor_id \in 1 .. AllOnes - 1
      BY <2>2 DEF IsFunction
    <2>4. AllOnes \in Nat
      BY DEF AllOnes
    <2>5. Reply(at).vendor_id \notin {0, AllOnes}
      BY <2>3, <2>4
    <2> QED BY <1>2, <2>1, <2>2, <2>5
  <1>3. CASE at \notin Existing
    <2>1. at[3] \notin DOMAIN DeviceAt(at).functions
      BY <1>3 DEF Existing
    <2>2. 0 \in DOMAIN DeviceAt(at).functions => DeviceAt(at).multi
      BY <1>1, <2>1 DEF Walks, NofFunctionsOf, hasDeviceFunctions
    <2>3. Reply(at) = Nothing
      BY <1>3, <2>2 DEF Reply
    <2> QED BY <1>3, <2>3 DEF Nothing
  <1> QED BY <1>2, <1>3

(* One iteration passes the place it was at and no other function.         *)
LEMMA AfterNext ==
  ASSUME machine \in Machines, at \in Positions, Walks
  PROVE  /\ After(at) \in Places
         /\ After(at)[1] < NofBuses => After(at)[3] < NofFunctionsOf(After(at))
         /\ Precedes(at, After(at))
         /\ \A p \in Existing : Precedes(p, After(at)) <=> (Precedes(p, at) \/ p = at)
  <1> DEFINE b == at[1]
             d == at[2]
             f == at[3]
  <1>1. /\ b \in 0 .. NofBuses - 1 /\ d \in 0 .. NofDevices - 1
        /\ f \in 0 .. NofFunctions - 1 /\ at = <<b, d, f>>
        /\ NofBuses \in Nat /\ NofDevices \in Nat \ {0} /\ NofFunctions \in Nat \ {0}
    BY PciAssumption DEF Positions
  <1>2. NofFunctionsOf(at) \in 1 .. NofFunctions /\ f < NofFunctionsOf(at)
    BY <1>1, DeviceType DEF Walks
  <1>3. \A q \in Positions : NofFunctionsOf(q) \in 1 .. NofFunctions
    BY DeviceType
  <1>4. ASSUME NEW p \in Existing
        PROVE  /\ p = <<p[1], p[2], p[3]>> /\ p[1] \in 0 .. NofBuses - 1
               /\ p[2] \in 0 .. NofDevices - 1 /\ p[3] \in 0 .. NofFunctions - 1
               /\ p[1] = b /\ p[2] = d => p[3] < NofFunctionsOf(at)
    <2>1. p \in Positions /\ p[3] \in DOMAIN DeviceAt(p).functions
      BY DEF Existing
    <2>2. IsDevice(DeviceAt(p))
      BY <2>1, DeviceType
    <2>3. p[1] = b /\ p[2] = d => DeviceAt(p) = DeviceAt(at)
      BY DEF DeviceAt
    <2>4. p[1] = b /\ p[2] = d => p[3] < NofFunctionsOf(at)
      BY <1>1, <2>1, <2>2, <2>3, PciAssumption
         DEF NofFunctionsOf, hasDeviceFunctions, IsDevice, Positions
    <2> QED BY <2>1, <2>4 DEF Positions
  <1>5. CASE f + 1 < NofFunctionsOf(at)
    <2>1. After(at) = <<b, d, f + 1>>
      BY <1>1, <1>2, <1>5 DEF After
    <2>2. NofFunctionsOf(<<b, d, f + 1>>) = NofFunctionsOf(at)
      BY DEF NofFunctionsOf, hasDeviceFunctions, DeviceAt
    <2>3. /\ After(at) \in Places /\ Precedes(at, After(at))
          /\ After(at)[3] < NofFunctionsOf(After(at))
      BY <1>1, <1>2, <1>5, <2>1, <2>2 DEF Places, Precedes
    <2>4. \A p \in Existing : Precedes(p, After(at)) <=> (Precedes(p, at) \/ p = at)
      BY <1>1, <1>4, <2>1 DEF Precedes
    <2> QED BY <2>3, <2>4
  <1>6. CASE f + 1 >= NofFunctionsOf(at) /\ d + 1 < NofDevices
    <2>1. After(at) = <<b, d + 1, 0>>
      BY <1>1, <1>2, <1>6 DEF After
    <2>2. <<b, d + 1, 0>> \in Positions
      BY <1>1, <1>6 DEF Positions
    <2>3. /\ After(at) \in Places /\ Precedes(at, After(at))
          /\ After(at)[3] < NofFunctionsOf(After(at))
      BY <1>1, <1>3, <1>6, <2>1, <2>2 DEF Places, Precedes
    <2>4. \A p \in Existing : Precedes(p, After(at)) <=> (Precedes(p, at) \/ p = at)
      BY <1>1, <1>2, <1>4, <1>6, <2>1 DEF Precedes
    <2> QED BY <2>3, <2>4
  <1>7. CASE f + 1 >= NofFunctionsOf(at) /\ d + 1 >= NofDevices
    <2>1. After(at) = <<b + 1, 0, 0>>
      BY <1>1, <1>2, <1>7 DEF After
    <2>2. b + 1 < NofBuses => <<b + 1, 0, 0>> \in Positions
      BY <1>1 DEF Positions
    <2>3. /\ After(at) \in Places /\ Precedes(at, After(at))
          /\ After(at)[1] < NofBuses => After(at)[3] < NofFunctionsOf(After(at))
      BY <1>1, <1>3, <2>1, <2>2 DEF Places, Precedes
    <2>4. \A p \in Existing : Precedes(p, After(at)) <=> (Precedes(p, at) \/ p = at)
      BY <1>1, <1>2, <1>4, <1>7, <2>1 DEF Precedes
    <2> QED BY <2>3, <2>4
  <1> QED BY <1>1, <1>2, <1>5, <1>6, <1>7
-----------------------------------------------------------------------------
(* A base that is taken apart into bytes and put together again.           *)
LEMMA Bytes ==
  ASSUME NEW v \in Nat, v \div 65536 <= 65535
  PROVE  Byte(v, 1) + 256 * Byte(v, 256) + 65536 * Byte(v, 65536)
           + 16777216 * Byte(v, 16777216) = v
  BY DEF Byte

(* A stored limit fits into 20 bits and is not above what was asked for.   *)
LEMMA StoredFits ==
  ASSUME NEW limit \in Nat, limit \div 65536 <= 65535
  PROVE  /\ Stored(limit) \in Nat /\ Stored(limit) <= 1048575
         /\ InPages(limit) => /\ Stored(limit) * 4096 + 4095 <= limit
                              /\ limit - (Stored(limit) * 4096 + 4095) < 4096
         /\ ~InPages(limit) => Stored(limit) = limit
  <1>1. CASE ~InPages(limit)
    <2>1. Stored(limit) = limit /\ limit <= 65536
      BY <1>1 DEF Stored, InPages
    <2> QED BY <1>1, <2>1
  <1>2. CASE InPages(limit) /\ limit % 4096 # 4095
    <2>1. Stored(limit) = limit \div 4096 - 1 /\ limit > 65536
      BY <1>2 DEF Stored, InPages
    <2> QED BY <1>2, <2>1
  <1>3. CASE InPages(limit) /\ limit % 4096 = 4095
    <2>1. Stored(limit) = limit \div 4096 /\ limit > 65536
      BY <1>3 DEF Stored, InPages
    <2> QED BY <1>3, <2>1
  <1> QED BY <1>1, <1>2, <1>3

(* The two parts of a stored limit, put together.                          *)
LEMMA Segment ==
  ASSUME NEW base_ptr \in Nat, base_ptr \div 65536 <= 65535,
         NEW limit \in Nat, limit \div 65536 <= 65535
  PROVE  SegmentReachesItsLimit(base_ptr, limit)
  <1> DEFINE s == SegmentDescriptor(base_ptr, limit)
             l == Stored(limit)
  <1>1. getBasePointer(s) = base_ptr
    <2>1. getBasePointer(s) = Byte(base_ptr, 1) + 256 * Byte(base_ptr, 256)
            + 65536 * Byte(base_ptr, 65536) + 16777216 * Byte(base_ptr, 16777216)
      BY DEF getBasePointer, SegmentDescriptor
    <2> QED BY <2>1, Bytes
  <1>2. l \in Nat /\ l <= 1048575
    BY StoredFits
  <1>3. StoredLimit(s) = (l % 65536) + 65536 * ((l \div 65536) % 16)
    BY DEF StoredLimit, SegmentDescriptor
  <1>4. StoredLimit(s) = l
    <2> HIDE DEF l, s
    <2> QED BY <1>2, <1>3
  <1>5. s.flags = IF InPages(limit) THEN 12 ELSE 4
    BY DEF SegmentDescriptor
  <1>6. ProcessorLimit(s) = IF InPages(limit) THEN l * 4096 + 4095 ELSE l
    <2> HIDE DEF l, s
    <2> QED BY <1>4, <1>5 DEF ProcessorLimit
  <1>7. /\ InPages(limit) => l * 4096 + 4095 <= limit /\ limit - (l * 4096 + 4095) < 4096
        /\ ~InPages(limit) => l = limit
    BY StoredFits
  <1>8. ProcessorLimit(s) <= limit /\ limit - ProcessorLimit(s) < 4096
    <2> HIDE DEF l, s
    <2> QED BY <1>2, <1>6, <1>7
  <1> QED BY <1>1, <1>8 DEF SegmentReachesItsLimit
-----------------------------------------------------------------------------
(* The mode's values are bytes, so many of each group.                     *)
LEMMA Lengths ==
  /\ Groups = {"misc", "seq", "crtc", "gc", "attr"}
  /\ Len(Mode["misc"]) = 1 /\ Len(Mode["seq"]) = 5 /\ Len(Mode["crtc"]) = 25
  /\ Len(Mode["gc"]) = 9 /\ Len(Mode["attr"]) = 21
  /\ \A g \in Groups : Mode[g] \in Seq(Contents)
  <1>1. Groups = {"misc", "seq", "crtc", "gc", "attr"}
    BY DEF Groups, Mode
  <1>2. Mode["misc"] \in Seq(Contents) /\ Len(Mode["misc"]) = 1
    BY DEF Mode, Contents
  <1>3. Mode["seq"] \in Seq(Contents) /\ Len(Mode["seq"]) = 5
    BY DEF Mode, Contents
  <1>4. Mode["crtc"] \in Seq(Contents) /\ Len(Mode["crtc"]) = 25
    BY DEF Mode, Contents
  <1>5. Mode["gc"] \in Seq(Contents) /\ Len(Mode["gc"]) = 9
    BY DEF Mode, Contents
  <1>6. Mode["attr"] \in Seq(Contents) /\ Len(Mode["attr"]) = 21
    BY DEF Mode, Contents
  <1> QED BY <1>1, <1>2, <1>3, <1>4, <1>5, <1>6

(* The registers of a group, and where its values start.                   *)
LEMMA Layout ==
  /\ Registers("misc") = 0 .. 0 /\ Registers("seq") = 0 .. 4
  /\ Registers("crtc") = 0 .. 24 /\ Registers("gc") = 0 .. 8
  /\ Registers("attr") = 0 .. 20
  /\ First["misc"] = 0 /\ First["seq"] = 1 /\ First["crtc"] = 6
  /\ First["gc"] = 31 /\ First["attr"] = 40
  BY Lengths DEF Registers, First

LEMMA Block ==
  \A g \in Groups : \A i \in Registers(g) :
    /\ i \in Int
    /\ \/ g = "misc" /\ First[g] = 0 /\ i = 0
       \/ g = "seq" /\ First[g] = 1 /\ 0 <= i /\ i <= 4
       \/ g = "crtc" /\ First[g] = 6 /\ 0 <= i /\ i <= 24
       \/ g = "gc" /\ First[g] = 31 /\ 0 <= i /\ i <= 8
       \/ g = "attr" /\ First[g] = 40 /\ 0 <= i /\ i <= 20
  <1> SUFFICES ASSUME NEW g \in Groups, NEW i \in Registers(g)
               PROVE  /\ i \in Int
                      /\ \/ g = "misc" /\ First[g] = 0 /\ i = 0
                         \/ g = "seq" /\ First[g] = 1 /\ 0 <= i /\ i <= 4
                         \/ g = "crtc" /\ First[g] = 6 /\ 0 <= i /\ i <= 24
                         \/ g = "gc" /\ First[g] = 31 /\ 0 <= i /\ i <= 8
                         \/ g = "attr" /\ First[g] = 40 /\ 0 <= i /\ i <= 20
    OBVIOUS
  <1>1. CASE g = "misc"
    <2>1. i \in 0 .. 0
      BY <1>1, Layout
    <2> QED BY <1>1, <2>1, Layout
  <1>2. CASE g = "seq"
    <2>1. i \in 0 .. 4
      BY <1>2, Layout
    <2> QED BY <1>2, <2>1, Layout
  <1>3. CASE g = "crtc"
    <2>1. i \in 0 .. 24
      BY <1>3, Layout
    <2> QED BY <1>3, <2>1, Layout
  <1>4. CASE g = "gc"
    <2>1. i \in 0 .. 8
      BY <1>4, Layout
    <2> QED BY <1>4, <2>1, Layout
  <1>5. CASE g = "attr"
    <2>1. i \in 0 .. 20
      BY <1>5, Layout
    <2> QED BY <1>5, <2>1, Layout
  <1> QED BY <1>1, <1>2, <1>3, <1>4, <1>5, Lengths

(* No value is written to two registers.                                   *)
LEMMA OneRegisterEach ==
  \A g, h \in Groups : \A i \in Registers(g), j \in Registers(h) :
    /\ i \in Contents /\ First[g] + i \in 0 .. 60
    /\ First[h] + j = First[g] + i => h = g /\ j = i
  <1> SUFFICES ASSUME NEW g \in Groups, NEW h \in Groups,
                      NEW i \in Registers(g), NEW j \in Registers(h)
               PROVE  /\ i \in Contents /\ First[g] + i \in 0 .. 60
                      /\ First[h] + j = First[g] + i => h = g /\ j = i
    OBVIOUS
  <1>1. /\ i \in Int
        /\ \/ g = "misc" /\ First[g] = 0 /\ i = 0
           \/ g = "seq" /\ First[g] = 1 /\ 0 <= i /\ i <= 4
           \/ g = "crtc" /\ First[g] = 6 /\ 0 <= i /\ i <= 24
           \/ g = "gc" /\ First[g] = 31 /\ 0 <= i /\ i <= 8
           \/ g = "attr" /\ First[g] = 40 /\ 0 <= i /\ i <= 20
    BY Block
  <1>2. /\ j \in Int
        /\ \/ h = "misc" /\ First[h] = 0 /\ j = 0
           \/ h = "seq" /\ First[h] = 1 /\ 0 <= j /\ j <= 4
           \/ h = "crtc" /\ First[h] = 6 /\ 0 <= j /\ j <= 24
           \/ h = "gc" /\ First[h] = 31 /\ 0 <= j /\ j <= 8
           \/ h = "attr" /\ First[h] = 40 /\ 0 <= j /\ j <= 20
    BY Block
  <1> QED BY <1>1, <1>2 DEF Contents

(* What is written are bytes; that of CRTC register 17 unlocks.            *)
LEMMA ValueType ==
  /\ \A g \in Groups : \A i \in Registers(g) : Value(g, i) \in Contents
  /\ Value("crtc", 17) < 128 /\ Value("gc", 6) = 5
  <1>1. ASSUME NEW g \in Groups, NEW i \in Registers(g)
        PROVE  Mode[g][i + 1] \in Contents
    <2>1. Mode[g] \in Seq(Contents) /\ Len(Mode[g]) \in Nat
      BY Lengths
    <2>2. i + 1 \in 1 .. Len(Mode[g])
      BY <2>1 DEF Registers
    <2>3. \A n \in 1 .. Len(Mode[g]) : Mode[g][n] \in Contents
      BY <2>1, ElementOfSeq, Zenon
    <2> QED BY <2>2, <2>3
  <1>2. \A b \in Contents :
          SetBit7(b) \in Contents /\ ClearBit7(b) \in Contents /\ ClearBit7(b) < 128
    BY DEF SetBit7, ClearBit7, Contents
  <1>3. \A g \in Groups : \A i \in Registers(g) : Value(g, i) \in Contents
    <2> SUFFICES ASSUME NEW g \in Groups, NEW i \in Registers(g)
                 PROVE  Value(g, i) \in Contents
      OBVIOUS
    <2>1. PICK b \in Contents : b = Mode[g][i + 1]
      BY <1>1, Zenon
    <2>2. SetBit7(b) \in Contents /\ ClearBit7(b) \in Contents
      BY <1>2
    <2> QED BY <2>1, <2>2 DEF Value
  <1>4. Value("crtc", 17) = ClearBit7(Mode["crtc"][17 + 1])
    BY DEF Value
  <1>5. "crtc" \in Groups /\ 17 \in Registers("crtc")
    BY Lengths, Layout
  <1>6. Value("crtc", 17) < 128
    <2>1. PICK b \in Contents : b = Mode["crtc"][17 + 1]
      BY <1>1, <1>5, Zenon
    <2>2. ClearBit7(b) < 128
      BY <1>2
    <2> QED BY <1>4, <2>1, <2>2
  <1>7. Value("gc", 6) = 5
    <2>1. Mode["gc"][7] = 5
      BY DEF Mode
    <2> QED BY <2>1 DEF Value
  <1> QED BY <1>3, <1>6, <1>7

(* Writing a register that is there and not locked changes it and no other.*)
LEMMA Stores ==
  ASSUME NEW v, IsAdapter(v), NEW g \in Groups, NEW x \in Contents
  PROVE  /\ IsAdapter(Store(v, g, x))
         /\ Store(v, g, x).index = v.index /\ Store(v, g, x).flip = v.flip
         /\ v.index[g] \in Registers(g) /\ ~Locked(v, g, v.index[g]) =>
              Store(v, g, x).reg = [v.reg EXCEPT ![g] = [v.reg[g] EXCEPT ![v.index[g]] = x]]
  <1>1. v = [reg |-> v.reg, index |-> v.index, flip |-> v.flip] /\ DOMAIN v.reg = Groups
        /\ \A h \in Groups : v.reg[h] \in [Registers(h) -> Contents]
        /\ v.index \in [Groups -> Contents] /\ v.flip \in {"index", "data"}
    BY DEF IsAdapter
  <1>2. CASE v.index[g] \notin DOMAIN v.reg[g] \/ Locked(v, g, v.index[g])
    BY <1>1, <1>2 DEF Store
  <1>3. CASE v.index[g] \in DOMAIN v.reg[g] /\ ~Locked(v, g, v.index[g])
    <2> DEFINE k == v.index[g]
               r == [v.reg EXCEPT ![g] = [v.reg[g] EXCEPT ![k] = x]]
    <2>1. Store(v, g, x) = [reg |-> r, index |-> v.index, flip |-> v.flip]
      BY <1>1, <1>3 DEF Store
    <2>2. DOMAIN r = Groups /\ \A h \in Groups : r[h] \in [Registers(h) -> Contents]
      BY <1>1, <1>3
    <2> HIDE DEF r
    <2>3. IsAdapter(Store(v, g, x))
      BY <1>1, <2>1, <2>2 DEF IsAdapter
    <2> QED BY <2>1, <2>3 DEF r
  <1> QED BY <1>2, <1>3

(* Selecting a register and writing it, with the attribute port waiting for*)
(* its index.                                                              *)
LEMMA Selects ==
  ASSUME NEW v, IsAdapter(v), NEW g \in Groups, NEW k \in Contents
  PROVE  /\ IsAdapter(Select(v, g, k)) /\ Select(v, g, k).reg = v.reg
         /\ Select(v, g, k).index = [v.index EXCEPT ![g] = k]
         /\ g = "attr" => Select(v, g, k).flip = "data"
  <1>1. v = [reg |-> v.reg, index |-> v.index, flip |-> v.flip] /\ DOMAIN v.reg = Groups
        /\ \A h \in Groups : v.reg[h] \in [Registers(h) -> Contents]
        /\ v.index \in [Groups -> Contents] /\ v.flip \in {"index", "data"}
    BY DEF IsAdapter
  <1> DEFINE n == [v.index EXCEPT ![g] = k]
  <1>2. n \in [Groups -> Contents]
    BY <1>1
  <1>3. CASE g # "attr"
    <2>1. Select(v, g, k) = [reg |-> v.reg, index |-> n, flip |-> v.flip]
      BY <1>1, <1>3 DEF Select, Index
    <2> HIDE DEF n
    <2>2. IsAdapter(Select(v, g, k))
      BY <1>1, <1>2, <2>1 DEF IsAdapter
    <2> QED BY <1>3, <2>1, <2>2 DEF n
  <1>4. CASE g = "attr"
    <2>1. ReadReset(v) = [reg |-> v.reg, index |-> v.index, flip |-> "index"]
      BY <1>1 DEF ReadReset
    <2>4. PICK w : w = [reg |-> v.reg, index |-> v.index, flip |-> "index"]
      OBVIOUS
    <2>5. Select(v, g, k) = [[w EXCEPT !.index = [w.index EXCEPT ![g] = k]] EXCEPT !.flip = "data"]
      BY <1>4, <2>1, <2>4 DEF Select, Index
    <2>6. [w EXCEPT !.index = [w.index EXCEPT ![g] = k]] = [reg |-> v.reg, index |-> n, flip |-> "index"]
      BY <2>4
    <2>7. PICK z : z = [reg |-> v.reg, index |-> n, flip |-> "index"]
      OBVIOUS
    <2>8. Select(v, g, k) = [z EXCEPT !.flip = "data"]
      BY <2>5, <2>6, <2>7
    <2>2. Select(v, g, k) = [reg |-> v.reg, index |-> n, flip |-> "data"]
      BY <2>7, <2>8
    <2> HIDE DEF n
    <2>3. IsAdapter(Select(v, g, k))
      BY <1>1, <1>2, <2>2 DEF IsAdapter
    <2> QED BY <1>4, <2>2, <2>3 DEF n
  <1> QED BY <1>3, <1>4

(* A register that is selected and written, if it is not locked.           *)
LEMMA Writing ==
  ASSUME NEW v, IsAdapter(v), NEW g \in Groups, NEW k \in Registers(g), NEW x \in Contents,
         g = "crtc" => v.reg["crtc"][17] < 128
  PROVE  /\ IsAdapter(Data(Select(v, g, k), g, x))
         /\ Data(Select(v, g, k), g, x).reg = [v.reg EXCEPT ![g] = [v.reg[g] EXCEPT ![k] = x]]
         /\ g # "attr" =>
              Data(Select(v, g, k), g, x).index["attr"] = v.index["attr"]
  <1>1. PICK w : w = Select(v, g, k)
    OBVIOUS
  <1>2. k \in Contents /\ v.index \in [Groups -> Contents] /\ v.reg["crtc"][17] \in Contents
    <2>1. "crtc" \in Groups /\ 17 \in Registers("crtc")
      BY Lengths, Layout
    <2>2. v.reg["crtc"] \in [Registers("crtc") -> Contents]
      BY <2>1 DEF IsAdapter
    <2> QED BY <2>1, <2>2, OneRegisterEach DEF IsAdapter
  <1>3. /\ IsAdapter(w) /\ w.reg = v.reg /\ w.index = [v.index EXCEPT ![g] = k]
        /\ g = "attr" => w.flip = "data"
    BY <1>1, <1>2, Selects
  <1>4. w.index[g] = k /\ (g # "attr" => w.index["attr"] = v.index["attr"])
    BY <1>2, <1>3
  <1>5. ~Locked(w, g, k)
    BY <1>2, <1>3 DEF Locked, Contents
  <1>6. PICK s : s = Store(w, g, x)
    OBVIOUS
  <1>7. /\ IsAdapter(s) /\ s.index = w.index /\ s.flip = w.flip
        /\ s.reg = [v.reg EXCEPT ![g] = [v.reg[g] EXCEPT ![k] = x]]
    <2>1. /\ IsAdapter(s) /\ s.index = w.index /\ s.flip = w.flip
          /\ w.index[g] \in Registers(g) /\ ~Locked(w, g, w.index[g]) =>
               s.reg = [w.reg EXCEPT ![g] = [w.reg[g] EXCEPT ![w.index[g]] = x]]
      <3>1. /\ IsAdapter(Store(w, g, x))
            /\ Store(w, g, x).index = w.index /\ Store(w, g, x).flip = w.flip
            /\ w.index[g] \in Registers(g) /\ ~Locked(w, g, w.index[g]) =>
                 Store(w, g, x).reg
                   = [w.reg EXCEPT ![g] = [w.reg[g] EXCEPT ![w.index[g]] = x]]
        <4>1. IsAdapter(w)
          BY <1>3
        <4> QED BY <4>1, Stores
      <3> QED BY <1>6, <3>1, Zenon
    <2> QED BY <1>3, <1>4, <1>5, <2>1
  <1>8. CASE g # "attr"
    <2>1. Data(w, g, x) = s
      BY <1>6, <1>8 DEF Data
    <2> QED BY <1>1, <1>4, <1>7, <1>8, <2>1
  <1>9. CASE g = "attr"
    <2>1. Data(w, g, x) = [s EXCEPT !.flip = "index"]
      BY <1>3, <1>6, <1>9 DEF Data
    <2>2. s = [reg |-> s.reg, index |-> s.index, flip |-> s.flip]
      BY <1>7 DEF IsAdapter
    <2>3. Data(w, g, x) = [reg |-> s.reg, index |-> s.index, flip |-> "index"]
      BY <2>1, <2>2
    <2>4. IsAdapter(Data(w, g, x))
      BY <1>7, <2>3 DEF IsAdapter
    <2> QED BY <1>1, <1>7, <1>9, <2>3, <2>4
  <1> QED BY <1>8, <1>9

(* The two accesses between sequencer and CRTC change CRTC registers only  *)
(* and leave them unlocked.                                                *)
LEMMA Unlocks ==
  ASSUME NEW v, IsAdapter(v)
  PROVE  /\ IsAdapter(Unlock(v)) /\ Unlock(v).reg["crtc"][17] < 128
         /\ \A g \in Groups : g # "crtc" => Unlock(v).reg[g] = v.reg[g]
  <1>0. /\ "crtc" \in Groups /\ 3 \in Registers("crtc") /\ 17 \in Registers("crtc")
        /\ \A b \in Contents : SetBit7(b) \in Contents /\ ClearBit7(b) \in 0 .. 127
    BY Lengths, Layout DEF SetBit7, ClearBit7, Contents
  <1>1. ASSUME NEW w, NEW a, NEW k \in Contents, IsAdapter(w), a = Index(w, "crtc", k)
        PROVE  IsAdapter(a) /\ a.reg = w.reg /\ a.index["crtc"] = k
    <2>1. a = Select(w, "crtc", k)
      BY <1>1 DEF Select
    <2>2. w.index \in [Groups -> Contents]
      BY <1>1 DEF IsAdapter
    <2>3. IsAdapter(a) /\ a.reg = w.reg /\ a.index = [w.index EXCEPT !["crtc"] = k]
      BY <1>0, <1>1, <2>1, Selects
    <2> QED BY <1>0, <2>2, <2>3
  <1>2. ASSUME NEW w, NEW k \in Registers("crtc"), IsAdapter(w), w.index["crtc"] = k
        PROVE  Read(w, "crtc") \in Contents
    <2>1. w.reg["crtc"] \in [Registers("crtc") -> Contents]
      BY <1>0, <1>2 DEF IsAdapter
    <2> QED BY <1>2, <2>1 DEF Read
  <1>3. PICK a : a = Index(v, "crtc", 3)
    OBVIOUS
  <1>4. /\ IsAdapter(a) /\ a.reg = v.reg /\ a.index["crtc"] = 3
        /\ Read(a, "crtc") \in Contents
    <2>1. 3 \in Contents
      BY DEF Contents
    <2>2. IsAdapter(a) /\ a.reg = v.reg /\ a.index["crtc"] = 3
      BY <1>1, <1>3, <2>1
    <2> QED BY <1>0, <1>2, <2>2
  <1>5. PICK x \in Contents : x = SetBit7(Read(a, "crtc"))
    BY <1>0, <1>4
  <1>6. PICK b : b = Data(a, "crtc", x)
    OBVIOUS
  <1>7. /\ IsAdapter(b)
        /\ \A g \in Groups : g # "crtc" => b.reg[g] = v.reg[g]
    <2>1. b = Store(a, "crtc", x)
      BY <1>6 DEF Data
    <2>2. /\ IsAdapter(b)
          /\ a.index["crtc"] \in Registers("crtc") /\ ~Locked(a, "crtc", a.index["crtc"]) =>
               b.reg = [a.reg EXCEPT !["crtc"] = [a.reg["crtc"] EXCEPT ![a.index["crtc"]] = x]]
      BY <1>0, <1>4, <2>1, Stores
    <2>3. CASE Locked(a, "crtc", a.index["crtc"])
      <3>1. b = a
        BY <2>1, <2>3 DEF Store
      <3> QED BY <1>4, <2>2, <3>1
    <2>4. CASE ~Locked(a, "crtc", a.index["crtc"])
      <3>1. b.reg = [a.reg EXCEPT !["crtc"] = [a.reg["crtc"] EXCEPT ![a.index["crtc"]] = x]]
        BY <1>0, <1>4, <2>2, <2>4
      <3>2. DOMAIN a.reg = Groups
        BY <1>4 DEF IsAdapter
      <3> QED BY <1>4, <2>2, <3>1, <3>2
    <2> QED BY <2>3, <2>4
  <1>8. PICK c : c = Index(b, "crtc", 17)
    OBVIOUS
  <1>9. /\ IsAdapter(c) /\ c.reg = b.reg /\ c.index["crtc"] = 17
        /\ Read(c, "crtc") \in Contents
    <2>1. 17 \in Contents
      BY DEF Contents
    <2>2. IsAdapter(c) /\ c.reg = b.reg /\ c.index["crtc"] = 17
      BY <1>1, <1>7, <1>8, <2>1
    <2> QED BY <1>0, <1>2, <2>2
  <1>10. PICK y \in 0 .. 127 : y = ClearBit7(Read(c, "crtc"))
    BY <1>0, <1>9
  <1>11. PICK d : d = Data(c, "crtc", y)
    OBVIOUS
  <1>12. /\ IsAdapter(d) /\ d.reg["crtc"][17] = y
         /\ \A g \in Groups : g # "crtc" => d.reg[g] = c.reg[g]
    <2>1. d = Store(c, "crtc", y) /\ y \in Contents
      BY <1>11 DEF Data, Contents
    <2>2. /\ IsAdapter(d)
          /\ c.index["crtc"] \in Registers("crtc") /\ ~Locked(c, "crtc", c.index["crtc"]) =>
               d.reg = [c.reg EXCEPT !["crtc"] = [c.reg["crtc"] EXCEPT ![c.index["crtc"]] = y]]
      <3>1. /\ IsAdapter(Store(c, "crtc", y))
            /\ c.index["crtc"] \in Registers("crtc") /\ ~Locked(c, "crtc", c.index["crtc"]) =>
                 Store(c, "crtc", y).reg
                   = [c.reg EXCEPT !["crtc"] = [c.reg["crtc"] EXCEPT ![c.index["crtc"]] = y]]
        <4>1. IsAdapter(c) /\ "crtc" \in Groups /\ y \in Contents
          BY <1>0, <1>9, <2>1
        <4> QED BY <4>1, Stores
      <3> QED BY <2>1, <3>1, Zenon
    <2>3. ~Locked(c, "crtc", 17)
      BY DEF Locked
    <2>4. d.reg = [c.reg EXCEPT !["crtc"] = [c.reg["crtc"] EXCEPT ![17] = y]]
      BY <1>0, <1>9, <2>2, <2>3
    <2>5. DOMAIN c.reg = Groups /\ c.reg["crtc"] \in [Registers("crtc") -> Contents]
      BY <1>0, <1>9 DEF IsAdapter
    <2> QED BY <1>0, <2>2, <2>4, <2>5
  <1>13. Unlock(v) = d
    BY <1>3, <1>5, <1>6, <1>8, <1>10, <1>11 DEF Unlock
  <1>14. \A g \in Groups : g # "crtc" => d.reg[g] = v.reg[g]
    BY <1>7, <1>9, <1>12
  <1> QED BY <1>12, <1>13, <1>14

(* The attribute controller's port takes a value too.                      *)
LEMMA DataType ==
  ASSUME NEW v, IsAdapter(v), NEW g \in Groups, NEW x \in Contents
  PROVE  IsAdapter(Data(v, g, x))
  <1>1. PICK s : s = Store(v, g, x)
    OBVIOUS
  <1>2. IsAdapter(s)
    BY <1>1, Stores
  <1>3. /\ s = [reg |-> s.reg, index |-> s.index, flip |-> s.flip]
        /\ v = [reg |-> v.reg, index |-> v.index, flip |-> v.flip]
        /\ v.flip \in {"index", "data"}
    BY <1>2 DEF IsAdapter
  <1>4. CASE g # "attr"
    BY <1>1, <1>2, <1>4 DEF Data
  <1>5. CASE g = "attr" /\ v.flip = "data"
    <2>1. Data(v, g, x) = [s EXCEPT !.flip = "index"]
      BY <1>1, <1>5 DEF Data
    <2>2. Data(v, g, x) = [reg |-> s.reg, index |-> s.index, flip |-> "index"]
      BY <1>3, <2>1
    <2> QED BY <1>2, <2>2 DEF IsAdapter
  <1>6. CASE g = "attr" /\ v.flip = "index"
    <2>1. PICK n : n = [v.index EXCEPT ![g] = x]
      OBVIOUS
    <2>2. Data(v, g, x) = [reg |-> v.reg, index |-> n, flip |-> "data"]
      BY <1>3, <1>6, <2>1 DEF Data
    <2>3. n \in [Groups -> Contents]
      BY <2>1 DEF IsAdapter
    <2> QED BY <2>2, <2>3 DEF IsAdapter
  <1> QED BY <1>3, <1>4, <1>5, <1>6
-----------------------------------------------------------------------------
(* Adding a driver: at the end, or, if the array is full, nowhere.         *)
LEMMA Adding ==
  ASSUME NEW D, drivers \in Seq(D), Len(drivers) <= MaxDrivers, NEW d \in D, AddDriver(d)
  PROVE  /\ drivers' \in Seq(D) /\ Len(drivers') <= MaxDrivers
         /\ Len(drivers) <= Len(drivers') /\ Len(drivers') <= Len(drivers) + 1
         /\ \A i \in 1 .. Len(drivers) : drivers'[i] = drivers[i]
         /\ \A i \in 1 .. Len(drivers') : i > Len(drivers) => drivers'[i] = d
         /\ Managed \subseteq Managed' /\ Managed' \subseteq Managed \cup {d}
         /\ d \in Managed' \/ (Len(drivers) = MaxDrivers /\ Len(drivers') = MaxDrivers)
  <1>1. Len(drivers) \in Nat /\ MaxDrivers \in Nat
    BY MaxDriversAssumption
  <1>2. CASE Len(drivers) < MaxDrivers
    <2>1. drivers' = Append(drivers, d)
      BY <1>2 DEF AddDriver, HasPlace
    <2>2. /\ drivers' \in Seq(D) /\ Len(drivers') = Len(drivers) + 1
          /\ \A i \in 1 .. Len(drivers) : drivers'[i] = drivers[i]
          /\ drivers'[Len(drivers) + 1] = d
      BY <2>1
    <2>3. Managed \subseteq Managed' /\ Managed' \subseteq Managed \cup {d} /\ d \in Managed'
      BY <1>1, <2>2 DEF Managed
    <2> QED BY <1>1, <1>2, <2>2, <2>3
  <1>3. CASE Len(drivers) = MaxDrivers
    <2>1. drivers' = drivers
      BY <1>1, <1>3 DEF AddDriver, HasPlace
    <2> QED BY <1>1, <1>3, <2>1 DEF Managed
  <1> QED BY <1>1, <1>2, <1>3

(* Entering a handler changes one entry of the table.                      *)
LEMMA Registering ==
  ASSUME NEW n, NEW h, Register(n, h)
  PROVE  /\ DOMAIN interruptHandlers' = DOMAIN interruptHandlers \cup {n}
         /\ interruptHandlers'[n] = h
         /\ \A m \in DOMAIN interruptHandlers :
              m # n => interruptHandlers'[m] = interruptHandlers[m]
  BY DEF Register

(* A table of handlers stays one.                                          *)
LEMMA RegisteringType ==
  ASSUME NEW I, NEW H, NEW n \in I, NEW h \in H, Register(n, h),
         DOMAIN interruptHandlers \subseteq I,
         \A m \in DOMAIN interruptHandlers : interruptHandlers[m] \in H
  PROVE  /\ DOMAIN interruptHandlers' \subseteq I
         /\ \A m \in DOMAIN interruptHandlers' : interruptHandlers'[m] \in H
  <1>1. /\ DOMAIN interruptHandlers' = DOMAIN interruptHandlers \cup {n}
        /\ interruptHandlers'[n] = h
        /\ \A m \in DOMAIN interruptHandlers :
             m # n => interruptHandlers'[m] = interruptHandlers[m]
    BY Registering
  <1> QED BY <1>1

(* What a driver's constructor takes for its ports is a number.            *)
LEMMA PortsAreNumbers ==
  ASSUME NEW f, IsFunction(f), NEW base \in PortBaseNumbers(f)
  PROVE  /\ base \in Nat
         /\ AddressBars(f) # {} => \E i \in AddressBars(f) : f.bars[i] = base + 1
  <1>1. ASSUME NEW v \in Nat
        PROVE  Address(v) \in Nat
    BY DEF Address
  <1>2. ASSUME NEW v \in Nat, InputOutput(v), v % 2 = 1 => v % 4 = 1
        PROVE  v = Address(v) + 1
    BY <1>2 DEF InputOutput, Address
  <1>3. \A i \in AddressBars(f) :
          /\ f.bars[i] \in Nat /\ InputOutput(f.bars[i])
          /\ f.bars[i] % 2 = 1 => f.bars[i] % 4 = 1
    BY DEF AddressBars, IsFunction
  <1>4. CASE AddressBars(f) = {}
    BY <1>4, PciAssumption DEF PortBaseNumbers
  <1>5. CASE AddressBars(f) # {}
    <2>1. PICK i \in AddressBars(f) : base = Address(f.bars[i])
      BY <1>5 DEF PortBaseNumbers
    <2>2. base \in Nat /\ f.bars[i] = base + 1
      BY <1>1, <1>2, <1>3, <2>1
    <2> QED BY <1>5, <2>2
  <1> QED BY <1>4, <1>5

(* Functions that exist are functions.                                     *)
LEMMA ExistingAreFunctions ==
  ASSUME machine \in Machines, NEW p \in Existing
  PROVE  IsFunction(Reply(p))
  <1>1. p \in Positions /\ p[3] \in DOMAIN DeviceAt(p).functions
    BY DEF Existing
  <1>2. IsDevice(DeviceAt(p))
    BY <1>1, DeviceType
  <1>3. Reply(p) = DeviceAt(p).functions[p[3]]
    BY DEF Reply
  <1> QED BY <1>1, <1>2, <1>3 DEF IsDevice
-----------------------------------------------------------------------------
(* An iteration that constructs a driver for the card it is at, and one    *)
(* that does not.                                                          *)
Constructs ==
  \E base \in PortBaseNumbers(Reply(at)) :
    /\ NetworkDriver(at, base) \in NetworkDrivers
    /\ Register(NetworkNumber(Reply(at)), NetworkDriver(at, base))
    /\ AddDriver(NetworkDriver(at, base))

Passes == UNCHANGED <<drivers, interruptHandlers>>

(* What an iteration of the walk does.                                     *)
LEMMA Iteration ==
  ASSUME machine \in Machines, at \in Places, chunk \in Nat, Walks, Enumerate
  PROVE  /\ machine' = machine /\ nof_activated' = nof_activated
         /\ at \in Positions /\ at' = After(at)
         /\ found' = IF at \in Existing THEN found \cup {at} ELSE found
         /\ chunk' \in Nat /\ chunk' <= chunk
         /\ \/ at \in Cards /\ Constructs
            \/ at \in Cards /\ chunk' <= DriverSize /\ Passes
            \/ at \notin Cards /\ Passes
  <1>1. /\ machine' = machine /\ nof_activated' = nof_activated /\ at' = After(at)
        /\ at[1] < NofBuses
    BY DEF Enumerate
  <1>2. at \in Positions
    BY <1>1, PciAssumption DEF Places, Positions
  <1>3. /\ at \in Existing => IsFunction(Reply(at))
        /\ at \in Existing <=> Reply(at).vendor_id \notin {0, AllOnes}
    BY <1>2, ReplyOf
  <1>4. DriverSize \in Nat /\ ChunkHeader \in Nat
    BY PciAssumption
  <1>5. CASE at \notin Existing
    <2>1. found' = found /\ chunk' = chunk /\ Passes /\ at \notin Cards
      BY <1>3, <1>5 DEF Enumerate, Passes, Cards
    <2> QED BY <1>1, <1>2, <1>5, <2>1
  <1>6. CASE at \in Existing /\ ~Supported(Reply(at))
    <2>1. found' = found \cup {at} /\ chunk' = chunk /\ Passes /\ at \notin Cards
      BY <1>3, <1>6 DEF Enumerate, Passes, Cards
    <2> QED BY <1>1, <1>2, <1>6, <2>1
  <1>7. CASE at \in Existing /\ Supported(Reply(at))
    <2>1. found' = found \cup {at} /\ CreateDriver(at) /\ at \in Cards
      BY <1>3, <1>7 DEF Enumerate, Cards
    <2>2. CASE ~Allocates(DriverSize)
      <3>1. chunk' = chunk /\ Passes
        BY <2>1, <2>2 DEF CreateDriver, Passes
      <3>2. chunk <= DriverSize
        BY <1>4, <2>2 DEF Allocates
      <3> QED BY <1>1, <1>2, <1>7, <2>1, <3>1, <3>2
    <2>3. CASE Allocates(DriverSize)
      <3>1. PICK base \in PortBaseNumbers(Reply(at)) :
              /\ Register(NetworkNumber(Reply(at)), NetworkDriver(at, base))
              /\ AddDriver(NetworkDriver(at, base))
        BY <2>1, <2>3 DEF CreateDriver
      <3>2. base \in Nat
        BY <1>3, <1>7, PortsAreNumbers
      <3>3. NetworkDriver(at, base) \in NetworkDrivers
        BY <2>1, <3>2 DEF NetworkDriver, NetworkDrivers
      <3>4. chunk' = Left(DriverSize)
        BY <2>1, <2>3 DEF CreateDriver
      <3>5. chunk' \in Nat /\ chunk' <= chunk
        BY <1>4, <3>4 DEF Left
      <3> QED BY <1>1, <1>2, <1>7, <2>1, <3>1, <3>3, <3>5 DEF Constructs
    <2> QED BY <2>2, <2>3
  <1> QED BY <1>5, <1>6, <1>7

(* The steps of kernelMain as the drivers and their handlers see them.     *)
BeforeDrivers == {"heap", "system calls", "keyboard"}

Elsewhere ==
  /\ UNCHANGED <<drivers, interruptHandlers, at, found>>
  /\ chunk' \in Nat /\ chunk' <= chunk
  /\ phase' \in BeforeDrivers => phase \in BeforeDrivers
  /\ phase' = "mouse" => phase = "mouse"
  /\ nof_activated' \in 0 .. Len(drivers)

Added(p, q, n, d) ==
  /\ phase = p /\ phase' = q
  /\ Register(n, d) /\ AddDriver(d)
  /\ UNCHANGED <<nof_activated, pciVars>>

LEMMA DriverSteps ==
  ASSUME TypeOK, [Next]_vars
  PROVE  /\ machine' = machine
         /\ \/ Elsewhere
            \/ ConstructSystemCallHandler
            \/ Added("keyboard", "mouse", KeyboardNumber, Keyboard)
            \/ Added("mouse", "enumerate", MouseNumber, Mouse)
            \/ phase = "enumerate" /\ phase' = "enumerate" /\ Enumerate
  <1> USE DEF TypeOK
  <1>1. CASE AllocateFirst
    <2>1. /\ UNCHANGED <<driverVars, machine, at, found>> /\ phase = "heap"
          /\ phase' = "system calls"
          /\ chunk' = IF Allocates(FirstRequest) THEN Left(FirstRequest) ELSE chunk
      BY <1>1 DEF AllocateFirst, Goes
    <2>2. chunk' \in Nat /\ chunk' <= chunk
      <3>1. chunk \in Nat /\ FirstRequest \in Nat /\ ChunkHeader \in Nat
        BY KernelAssumption, PciAssumption
      <3> HIDE DEF TypeOK
      <3>2. Left(FirstRequest) \in Nat /\ Left(FirstRequest) <= chunk
        BY <3>1 DEF Left
      <3>3. chunk' \in {chunk, Left(FirstRequest)}
        BY <2>1 DEF Allocates
      <3> QED BY <3>1, <3>2, <3>3
    <2> QED BY <2>1, <2>2 DEF Elsewhere, driverVars, BeforeDrivers
  <1>2. CASE ConstructSystemCallHandler
    BY <1>2 DEF ConstructSystemCallHandler, pciVars
  <1>3. CASE AddKeyboard
    BY <1>3 DEF AddKeyboard, Goes, Added, pciVars
  <1>4. CASE AddMouse
    BY <1>4 DEF AddMouse, Goes, Added, pciVars
  <1>5. CASE EnumerateDrivers
    BY <1>5 DEF EnumerateDrivers, Enumerate
  <1>6. CASE ActivateAll
    <2>1. /\ UNCHANGED <<drivers, interruptHandlers, machine, at, found, chunk>>
          /\ phase' = phase /\ nof_activated' = nof_activated + 1
          /\ nof_activated < Len(drivers)
      BY <1>6 DEF ActivateAll, ActivateNext, ActivatesMore, pciVars
    <2>2. nof_activated' \in 0 .. Len(drivers)
      BY <2>1
    <2> QED BY <2>1, <2>2 DEF Elsewhere
  <1>7. ASSUME UNCHANGED <<driverVars, pciVars>>,
               phase' \in BeforeDrivers => phase \in BeforeDrivers,
               phase' = "mouse" => phase = "mouse"
        PROVE  machine' = machine /\ Elsewhere
    BY <1>7 DEF Elsewhere, driverVars, pciVars
  <1>8. CASE EnumerationEnds \/ ActivationEnds \/ ModeIsSet \/ WindowsEnd \/ EnableInterrupts
             \/ CallReturns
    BY <1>7, <1>8 DEF EnumerationEnds, ActivationEnds, ModeIsSet, WindowsEnd,
                      EnableInterrupts, CallReturns, Goes, BeforeDrivers
  <1>9. CASE SetMode \/ AddWindows \/ MouseInterrupt \/ MainLoop \/ UNCHANGED vars
    BY <1>7, <1>9 DEF SetMode, AddWindows, MouseInterrupt, MainLoop, vars
  <1> QED BY <1>1, <1>2, <1>3, <1>4, <1>5, <1>6, <1>8, <1>9 DEF Next, Boot, OwnSteps
-----------------------------------------------------------------------------
(* The parts of TypeOK, and the walk's promise, step by step.              *)
LEMMA WalkStep ==
  ASSUME TypeOK, Walks, [Next]_vars
  PROVE  /\ machine' \in Machines /\ found' \subseteq Positions /\ chunk' \in Nat
         /\ at' \in Places /\ Walks'
  <1>0. /\ machine \in Machines /\ found \subseteq Positions /\ chunk \in Nat
        /\ at \in Places
    BY DEF TypeOK, Places
  <1>1. CASE phase = "enumerate" /\ Enumerate
    <2>1. /\ machine' = machine /\ at \in Positions /\ at' = After(at)
          /\ found' = IF at \in Existing THEN found \cup {at} ELSE found
          /\ chunk' \in Nat
      BY <1>0, <1>1, Iteration
    <2>2. /\ at' \in Places
          /\ at'[1] < NofBuses => at'[3] < NofFunctionsOf(at')
      BY <1>0, <2>1, AfterNext
    <2>3. \A p : NofFunctionsOf(p)' = NofFunctionsOf(p)
      BY <2>1, SameMachine
    <2>4. Walks'
      BY <2>2, <2>3 DEF Walks
    <2>5. found' \subseteq Positions
      BY <1>0, <2>1
    <2> QED BY <1>0, <2>1, <2>2, <2>4, <2>5
  <1>2. CASE UNCHANGED <<machine, at, found>> /\ chunk' \in Nat
    <2>1. \A p : NofFunctionsOf(p)' = NofFunctionsOf(p)
      BY <1>2, SameMachine
    <2>2. Walks'
      BY <1>2, <2>1 DEF Walks
    <2> QED BY <1>0, <1>2, <2>2
  <1>3. /\ machine' = machine
        /\ \/ Elsewhere
           \/ ConstructSystemCallHandler
           \/ Added("keyboard", "mouse", KeyboardNumber, Keyboard)
           \/ Added("mouse", "enumerate", MouseNumber, Mouse)
           \/ phase = "enumerate" /\ phase' = "enumerate" /\ Enumerate
    BY DriverSteps
  <1>4. CASE Elsewhere
    BY <1>2, <1>3, <1>4 DEF Elsewhere
  <1>5. CASE ConstructSystemCallHandler
    BY <1>0, <1>2, <1>5 DEF ConstructSystemCallHandler, pciVars
  <1>6. ASSUME NEW p, NEW q, NEW n, NEW d, Added(p, q, n, d)
        PROVE  UNCHANGED <<machine, at, found>> /\ chunk' \in Nat
    BY <1>0, <1>6 DEF Added, pciVars
  <1> QED BY <1>1, <1>2, <1>3, <1>4, <1>5, <1>6

LEMMA DriversStep ==
  ASSUME TypeOK, Walks, [Next]_vars
  PROVE  /\ drivers' \in Seq(Drivers') /\ Len(drivers') <= MaxDrivers
         /\ nof_activated' \in 0 .. Len(drivers')
         /\ DOMAIN interruptHandlers' \subseteq 0 .. 255
         /\ \A n \in DOMAIN interruptHandlers' :
              interruptHandlers'[n] \in (Drivers \cup {SystemCalls})'
  <1>0. /\ drivers \in Seq(Drivers) /\ Len(drivers) <= MaxDrivers
        /\ nof_activated \in 0 .. Len(drivers)
        /\ DOMAIN interruptHandlers \subseteq 0 .. 255
        /\ \A n \in DOMAIN interruptHandlers :
             interruptHandlers[n] \in Drivers \cup {SystemCalls}
        /\ machine \in Machines /\ at \in Places /\ chunk \in Nat
    BY DEF TypeOK, Places
  <1>1. /\ machine' = machine
        /\ \/ Elsewhere
           \/ ConstructSystemCallHandler
           \/ Added("keyboard", "mouse", KeyboardNumber, Keyboard)
           \/ Added("mouse", "enumerate", MouseNumber, Mouse)
           \/ phase = "enumerate" /\ phase' = "enumerate" /\ Enumerate
    BY DriverSteps
  <1>2. Cards' = Cards
    BY <1>1, SameMachine
  <1>3. Drivers' = Drivers /\ SystemCalls' = SystemCalls
    BY <1>2 DEF Drivers, NetworkDrivers, Keyboard, Mouse, SystemCalls
  <1>4. ASSUME NEW n \in 0 .. 255, NEW d \in Drivers, Register(n, d), AddDriver(d),
               nof_activated' = nof_activated
        PROVE  /\ drivers' \in Seq(Drivers) /\ Len(drivers') <= MaxDrivers
               /\ nof_activated' \in 0 .. Len(drivers')
               /\ DOMAIN interruptHandlers' \subseteq 0 .. 255
               /\ \A m \in DOMAIN interruptHandlers' :
                    interruptHandlers'[m] \in Drivers \cup {SystemCalls}
    <2>1. /\ drivers' \in Seq(Drivers) /\ Len(drivers') <= MaxDrivers
          /\ Len(drivers) <= Len(drivers')
      BY <1>0, <1>4, Adding
    <2>2. nof_activated' \in 0 .. Len(drivers')
      BY <1>0, <1>4, <2>1
    <2>3. /\ DOMAIN interruptHandlers' \subseteq 0 .. 255
          /\ \A m \in DOMAIN interruptHandlers' :
               interruptHandlers'[m] \in Drivers \cup {SystemCalls}
      <3>1. d \in Drivers \cup {SystemCalls}
        BY <1>4
      <3> QED BY <1>0, <1>4, <3>1, RegisteringType
    <2> QED BY <2>1, <2>2, <2>3
  <1>5. CASE Elsewhere
    BY <1>0, <1>3, <1>5 DEF Elsewhere
  <1>6. CASE ConstructSystemCallHandler
    <2>1. Register(SystemCallNumber, SystemCalls) /\ UNCHANGED <<drivers, nof_activated>>
      BY <1>6 DEF ConstructSystemCallHandler
    <2>2. /\ DOMAIN interruptHandlers' \subseteq 0 .. 255
          /\ \A m \in DOMAIN interruptHandlers' :
               interruptHandlers'[m] \in Drivers \cup {SystemCalls}
      <3>1. SystemCallNumber \in 0 .. 255 /\ SystemCalls \in Drivers \cup {SystemCalls}
        BY DEF SystemCallNumber
      <3> QED BY <1>0, <2>1, <3>1, RegisteringType
    <2> QED BY <1>0, <1>3, <2>1, <2>2
  <1>7. CASE Added("keyboard", "mouse", KeyboardNumber, Keyboard)
    <2>1. Register(KeyboardNumber, Keyboard) /\ AddDriver(Keyboard)
          /\ nof_activated' = nof_activated
      BY <1>7 DEF Added
    <2>2. KeyboardNumber \in 0 .. 255 /\ Keyboard \in Drivers
      BY DEF KeyboardNumber, Drivers
    <2> QED BY <1>3, <1>4, <2>1, <2>2
  <1>8. CASE Added("mouse", "enumerate", MouseNumber, Mouse)
    <2>1. Register(MouseNumber, Mouse) /\ AddDriver(Mouse) /\ nof_activated' = nof_activated
      BY <1>8 DEF Added
    <2>2. MouseNumber \in 0 .. 255 /\ Mouse \in Drivers
      BY DEF MouseNumber, Drivers
    <2> QED BY <1>3, <1>4, <2>1, <2>2
  <1>9. CASE phase = "enumerate" /\ Enumerate
    <2>1. /\ nof_activated' = nof_activated
          /\ \/ at \in Cards /\ Constructs
             \/ Passes
      BY <1>0, <1>9, Iteration
    <2>2. CASE Passes
      BY <1>0, <1>3, <2>1, <2>2 DEF Passes
    <2>3. CASE at \in Cards /\ Constructs
      <3>1. PICK base \in PortBaseNumbers(Reply(at)) :
              /\ NetworkDriver(at, base) \in NetworkDrivers
              /\ Register(NetworkNumber(Reply(at)), NetworkDriver(at, base))
              /\ AddDriver(NetworkDriver(at, base))
        BY <2>3 DEF Constructs
      <3>2. IsFunction(Reply(at))
        BY <1>0, <2>3, ExistingAreFunctions DEF Cards
      <3>3. Reply(at).interrupt_line \in 0 .. 255
        BY <3>2 DEF IsFunction
      <3>4. NetworkNumber(Reply(at)) \in 0 .. 255
        BY <3>3 DEF NetworkNumber
      <3>5. NetworkDriver(at, base) \in Drivers
        BY <3>1 DEF Drivers
      <3> QED BY <1>3, <1>4, <2>1, <3>1, <3>4, <3>5
    <2> QED BY <2>1, <2>2, <2>3
  <1> QED BY <1>1, <1>5, <1>6, <1>7, <1>8, <1>9
-----------------------------------------------------------------------------
(* The steps of kernelMain as the desktop sees them.                       *)
Enabled == DriveCalls \cup {"running"}

Adds ==
  /\ phase = "windows" /\ phase' = "windows"
  /\ Len(childrens) < Len(Windows)
  /\ childrens' = Append(childrens, NewWindow(Windows[Len(childrens) + 1]))
  /\ UNCHANGED <<cursor, buttons>>

Moves ==
  /\ phase \in Enabled /\ phase' = phase
  /\ \E dx, dy \in Deltas, pressed \in Presses : Packet(dx, dy, pressed)

Rests ==
  /\ UNCHANGED <<cursor, buttons, childrens>>
  /\ phase' \in {"enable"} \cup Enabled =>
       phase \in {"enable"} \cup Enabled \/ Len(childrens) = Len(Windows)

(* kernelMain adds no more windows than the desktop has room for.          *)
LEMMA AddingWindow ==
  ASSUME TypeOK, AddWindows
  PROVE  Adds
  <1>1. Len(childrens) < Len(Windows) /\ Len(Windows) <= MaxChildren
        /\ Len(childrens) \in Nat /\ Len(Windows) \in Nat /\ MaxChildren \in Nat
    BY DesktopAssumption DEF AddWindows, TypeOK
  <1>2. Len(childrens) < MaxChildren
    BY <1>1
  <1> QED BY <1>1, <1>2 DEF AddWindows, Adds, AddChild

LEMMA DesktopSteps ==
  ASSUME TypeOK, [Next]_vars
  PROVE  Adds \/ Moves \/ Rests
  <1>1. CASE AllocateFirst \/ ConstructSystemCallHandler \/ AddKeyboard \/ AddMouse
             \/ EnumerationEnds \/ ActivationEnds \/ ModeIsSet \/ WindowsEnd
             \/ EnableInterrupts \/ CallReturns
    BY <1>1 DEF AllocateFirst, ConstructSystemCallHandler, AddKeyboard, AddMouse,
                EnumerationEnds, ActivationEnds, ModeIsSet, WindowsEnd, EnableInterrupts,
                CallReturns, Goes, Rests, Enabled, DriveCalls, desktopVars
  <1>2. CASE EnumerateDrivers \/ ActivateAll \/ SetMode \/ MainLoop \/ UNCHANGED vars
    BY <1>2 DEF EnumerateDrivers, ActivateAll, SetMode, MainLoop, vars, Rests, desktopVars
  <1>3. CASE MouseInterrupt
    BY <1>3 DEF MouseInterrupt, InterruptsEnabled, Enabled, Moves
  <1>4. CASE AddWindows
    BY <1>4, AddingWindow
  <1> QED BY <1>1, <1>2, <1>3, <1>4 DEF Next, Boot, OwnSteps

(* The windows, added one by one.                                          *)
LEMMA AddsWindow ==
  ASSUME childrens \in Seq(Window), Adds
  PROVE  /\ childrens' \in Seq(Window) /\ Len(childrens') = Len(childrens) + 1
         /\ Front' = Front
  <1>1. Len(childrens) + 1 \in 1 .. Len(Windows) /\ Windows \in Seq(Area)
    BY DesktopAssumption DEF Adds
  <1>2. Windows[Len(childrens) + 1] \in Area
    BY <1>1
  <1>3. NewWindow(Windows[Len(childrens) + 1]) \in Window
    BY <1>2 DEF NewWindow, Area, Window
  <1>4. childrens' \in Seq(Window) /\ Len(childrens') = Len(childrens) + 1
    BY <1>3 DEF Adds
  <1>5. childrens' # <<>>
    BY <1>4
  <1>6. CASE childrens = <<>>
    <2>1. childrens' = <<NewWindow(Windows[1])>>
      BY <1>6 DEF Adds
    <2> QED BY <1>4, <1>5, <1>6, <2>1 DEF Front
  <1>7. CASE childrens # <<>>
    <2>1. childrens'[1] = childrens[1]
      BY <1>3, <1>7 DEF Adds
    <2> QED BY <1>4, <1>5, <1>7, <2>1 DEF Front
  <1> QED BY <1>6, <1>7

LEMMA DesktopStep ==
  ASSUME TypeOK, [Next]_vars
  PROVE  /\ cursor' \in Screen /\ buttons' \subseteq Buttons
         /\ childrens' \in Seq(Window) /\ Len(childrens') <= Len(Windows)
  <1>0. /\ cursor \in Screen /\ buttons \subseteq Buttons
        /\ childrens \in Seq(Window) /\ Len(childrens) <= Len(Windows)
        /\ Len(Windows) \in Nat /\ Deltas \subseteq Int /\ Presses \subseteq SUBSET Buttons
    BY DesktopAssumption DEF TypeOK
  <1>1. CASE Adds
    <2>1. childrens' \in Seq(Window) /\ Len(childrens') = Len(childrens) + 1
      BY <1>0, <1>1, AddsWindow
    <2> QED BY <1>0, <1>1, <2>1 DEF Adds
  <1>2. CASE Moves
    <2>1. PICK dx \in Deltas, dy \in Deltas, pressed \in Presses : Packet(dx, dy, pressed)
      BY <1>2 DEF Moves
    <2>2. dx \in Int /\ dy \in Int
      BY <1>0
    <2>3. /\ cursor' \in Screen /\ buttons' = pressed
          /\ childrens' \in Seq(Window) /\ Len(childrens') = Len(childrens)
      BY <1>0, <2>1, <2>2, PacketType
    <2> QED BY <1>0, <2>3
  <1>3. CASE Rests
    BY <1>0, <1>3 DEF Rests
  <1> QED BY <1>1, <1>2, <1>3, DesktopSteps

-----------------------------------------------------------------------------
(* The phases in which the picture is on, and what setMode has achieved: in*)
(* order, every register written so far holds its value, the CRTC's are    *)
(* unlocked from the first of them on, and the picture is switched on last.*)
Shows == {"windows", "enable"} \cup Enabled

Programmed ==
  /\ written <= NofValues
  /\ written > First["crtc"] => vga.reg["crtc"][17] < 128
  /\ \A g \in Groups : \A i \in Registers(g) :
       First[g] + i < written => vga.reg[g][i] = Value(g, i)
  /\ phase \in Shows => written = NofValues /\ vga.index["attr"] = 32

(* The steps of kernelMain as the adapter sees them.                       *)
LEMMA AdapterSteps ==
  ASSUME [Next]_vars
  PROVE  \/ phase = "mode" /\ phase' = "mode" /\ WriteNext
         \/ phase = "mode" /\ phase' = "windows" /\ ShowPicture
         \/ phase = "running" /\ phase' = "running" /\ DrawPixels
         \/ UNCHANGED vgaVars /\ (phase' \in Shows => phase \in Shows)
  <1>1. CASE SetMode
    BY <1>1 DEF SetMode
  <1>2. CASE ModeIsSet
    BY <1>2 DEF ModeIsSet, Goes
  <1>3. CASE MainLoop
    BY <1>3 DEF MainLoop
  <1>4. CASE AllocateFirst \/ ConstructSystemCallHandler \/ AddKeyboard \/ AddMouse
             \/ EnumerationEnds \/ ActivationEnds \/ WindowsEnd \/ EnableInterrupts
             \/ CallReturns
    BY <1>4 DEF AllocateFirst, ConstructSystemCallHandler, AddKeyboard, AddMouse,
                EnumerationEnds, ActivationEnds, WindowsEnd, EnableInterrupts, CallReturns,
                Goes, Shows, Enabled, DriveCalls
  <1>5. CASE EnumerateDrivers \/ ActivateAll \/ AddWindows \/ MouseInterrupt \/ UNCHANGED vars
    BY <1>5 DEF EnumerateDrivers, ActivateAll, AddWindows, MouseInterrupt, vars
  <1> QED BY <1>1, <1>2, <1>3, <1>4, <1>5 DEF Next, Boot, OwnSteps

(* The adapter stays one.                                                  *)
LEMMA AdapterStep ==
  ASSUME TypeOK, [Next]_vars
  PROVE  IsAdapter(vga') /\ written' \in Nat
  <1>0. IsAdapter(vga) /\ written \in Nat /\ {"attr", "gc"} \subseteq Groups
    BY Lengths DEF TypeOK
  <1>1. CASE WriteNext
    <2>0. PICK g \in Groups : \E i \in Registers(g) :
            /\ written = First[g] + i
            /\ LET v == IF g = "crtc" /\ i = 0 THEN Unlock(vga) ELSE vga
               IN  vga' = Data(Select(v, g, i), g, Value(g, i))
      BY <1>1 DEF WriteNext
    <2>1. PICK i \in Registers(g) :
            /\ written = First[g] + i
            /\ LET v == IF g = "crtc" /\ i = 0 THEN Unlock(vga) ELSE vga
               IN  vga' = Data(Select(v, g, i), g, Value(g, i))
      BY <2>0
    <2>2. PICK v : v = IF g = "crtc" /\ i = 0 THEN Unlock(vga) ELSE vga
      OBVIOUS
    <2>3. IsAdapter(v)
      <3>1. IsAdapter(Unlock(vga))
        BY <1>0, Unlocks
      <3> QED BY <1>0, <2>2, <3>1
    <2>4. i \in Contents /\ Value(g, i) \in Contents
      BY OneRegisterEach, ValueType
    <2>5. IsAdapter(Select(v, g, i))
      BY <2>3, <2>4, Selects
    <2>6. IsAdapter(Data(Select(v, g, i), g, Value(g, i)))
      BY <2>4, <2>5, DataType
    <2>7. written' \in Nat
      BY <1>0, <1>1 DEF WriteNext
    <2> QED BY <2>1, <2>2, <2>6, <2>7
  <1>2. CASE ShowPicture
    <2>1. 32 \in Contents /\ vga' = Select(vga, "attr", 32) /\ written' = written
      BY <1>2 DEF ShowPicture, Contents
    <2> QED BY <1>0, <2>1, Selects
  <1>3. CASE DrawPixels
    <2>1. 6 \in Contents /\ vga' = Select(vga, "gc", 6) /\ written' = written
      BY <1>3 DEF DrawPixels, Select, Contents
    <2> QED BY <1>0, <2>1, Selects
  <1>4. CASE UNCHANGED vgaVars
    BY <1>0, <1>4 DEF vgaVars
  <1> QED BY <1>1, <1>2, <1>3, <1>4, AdapterSteps
-----------------------------------------------------------------------------
(* The types of all of them.                                               *)
LEMMA TypeInit ==
  ASSUME Init
  PROVE  TypeOK /\ Walks
  <1>1. /\ machine \in Machines /\ found \subseteq Positions /\ chunk \in Nat
        /\ phase \in Phases /\ written \in Nat /\ IsAdapter(vga)
    BY KernelAssumption, VgaAssumption DEF Init, Phases, VgaInit
  <1>2. at \in Places /\ at = <<0, 0, 0>>
    BY PciAssumption DEF Init, Places
  <1>3. /\ drivers = <<>> /\ nof_activated = 0 /\ DOMAIN interruptHandlers = {}
    BY DEF Init, DriverManagerInit
  <1>4. drivers \in Seq(Drivers) /\ Len(drivers) <= MaxDrivers
        /\ nof_activated \in 0 .. Len(drivers)
    BY <1>3, MaxDriversAssumption
  <1>5. buttons \subseteq Buttons /\ childrens \in Seq(Window) /\ Len(childrens) <= Len(Windows)
    BY DesktopAssumption DEF Init, DesktopInit
  <1>6. cursor \in Screen
    <2>1. ASSUME NEW n \in Nat \ {0}
          PROVE  n \div 2 \in 0 .. n - 1
      OBVIOUS
    <2> QED BY <2>1, DesktopAssumption DEF Init, DesktopInit, Screen
  <1>7. Walks
    <2>1. NofBuses > 0 => at \in Positions
      BY <1>2, PciAssumption DEF Positions
    <2>2. NofBuses > 0 => NofFunctionsOf(at) \in 1 .. NofFunctions
      BY <1>1, <2>1, DeviceType
    <2> QED BY <1>2, <2>2, PciAssumption DEF Walks
  <1> QED BY <1>1, <1>2, <1>3, <1>4, <1>5, <1>6, <1>7 DEF TypeOK, Places

LEMMA TypeStep ==
  ASSUME TypeOK, Walks, [Next]_vars
  PROVE  TypeOK' /\ Walks'
  <1>1. written' \in Nat /\ IsAdapter(vga')
    BY AdapterStep
  <1>2. phase' \in Phases
    BY DEF TypeOK, Next, Boot, OwnSteps, CallReturns, AllocateFirst, ConstructSystemCallHandler, AddKeyboard, AddMouse,
           EnumerateDrivers, EnumerationEnds, ActivateAll, ActivationEnds, SetMode,
           ModeIsSet, AddWindows, WindowsEnd, EnableInterrupts, MouseInterrupt, MainLoop,
           vars, Goes, Phases
  <1> QED BY <1>1, <1>2, WalkStep, DriversStep, DesktopStep DEF TypeOK, Places

(* Every variable keeps its type (source/kernel.cpp), whatever the machine.*)
THEOREM KernelTypeOK == Spec => []TypeOK
  <1>1. Init => TypeOK /\ Walks
    BY TypeInit
  <1>2. TypeOK /\ Walks /\ [Next]_vars => (TypeOK /\ Walks)'
    BY TypeStep
  <1> QED BY <1>1, <1>2, PTL DEF Spec
-----------------------------------------------------------------------------
(* Whoever is in the array or the table: a network driver there belongs to *)
(* a card the walk has passed, and has its ports.                          *)
OfPassedCard(x, place) ==
  x.kind = "network" =>
    /\ x.at \in Cards /\ Precedes(x.at, place)
    /\ x.port \in PortBaseNumbers(Reply(x.at))

Provenance ==
  /\ \A d \in Managed : OfPassedCard(d, at)
  /\ \A n \in DOMAIN interruptHandlers : OfPassedCard(interruptHandlers[n], at)

WalkInv == TypeOK /\ Walks /\ EachFunctionOnce /\ Provenance

LEMMA FoundStep ==
  ASSUME TypeOK, Walks, EachFunctionOnce, [Next]_vars
  PROVE  EachFunctionOnce'
  <1>0. machine \in Machines /\ at \in Places /\ chunk \in Nat
    BY DEF TypeOK, Places
  <1>1. /\ machine' = machine
        /\ \/ Elsewhere
           \/ ConstructSystemCallHandler
           \/ Added("keyboard", "mouse", KeyboardNumber, Keyboard)
           \/ Added("mouse", "enumerate", MouseNumber, Mouse)
           \/ phase = "enumerate" /\ phase' = "enumerate" /\ Enumerate
    BY DriverSteps
  <1>2. Existing' = Existing
    BY <1>1, SameMachine
  <1>3. CASE UNCHANGED <<at, found>>
    BY <1>2, <1>3 DEF EachFunctionOnce
  <1>4. CASE Enumerate
    <2>1. /\ at \in Positions /\ at' = After(at)
          /\ found' = IF at \in Existing THEN found \cup {at} ELSE found
      BY <1>0, <1>4, Iteration
    <2>2. \A p \in Existing : Precedes(p, at') <=> (Precedes(p, at) \/ p = at)
      BY <1>0, <2>1, AfterNext
    <2>3. found' = {p \in Existing : Precedes(p, at')}
      BY <2>1, <2>2 DEF EachFunctionOnce
    <2> QED BY <1>2, <2>3 DEF EachFunctionOnce
  <1> QED BY <1>1, <1>3, <1>4 DEF Elsewhere, ConstructSystemCallHandler, Added, pciVars

(* The walk leaves behind what it has passed.                              *)
LEMMA PassedStaysPassed ==
  ASSUME TypeOK, Walks, [Next]_vars, NEW p \in Existing, Precedes(p, at)
  PROVE  Precedes(p, at')
  <1>0. machine \in Machines /\ at \in Places /\ chunk \in Nat
    BY DEF TypeOK, Places
  <1>1. at' = at \/ Enumerate
    BY DriverSteps DEF Elsewhere, ConstructSystemCallHandler, Added, pciVars
  <1>2. CASE Enumerate
    <2>1. at \in Positions /\ at' = After(at)
      BY <1>0, <1>2, Iteration
    <2> QED BY <1>0, <2>1, AfterNext
  <1> QED BY <1>1, <1>2

LEMMA ProvenanceStep ==
  ASSUME TypeOK, Walks, Provenance, [Next]_vars
  PROVE  Provenance'
  <1>0. /\ machine \in Machines /\ at \in Places /\ chunk \in Nat
        /\ drivers \in Seq(Drivers) /\ Len(drivers) <= MaxDrivers
    BY DEF TypeOK, Places
  <1>1. /\ machine' = machine
        /\ \/ Elsewhere
           \/ ConstructSystemCallHandler
           \/ Added("keyboard", "mouse", KeyboardNumber, Keyboard)
           \/ Added("mouse", "enumerate", MouseNumber, Mouse)
           \/ phase = "enumerate" /\ phase' = "enumerate" /\ Enumerate
    BY DriverSteps
  <1>2. Cards' = Cards /\ \A p : Reply(p)' = Reply(p)
    BY <1>1, SameMachine
  <1>3. \A p \in Cards : Precedes(p, at) => Precedes(p, at')
    BY PassedStaysPassed DEF Cards
  <1>4. ASSUME \A d \in Managed' : OfPassedCard(d, at'),
               \A n \in DOMAIN interruptHandlers' : OfPassedCard(interruptHandlers'[n], at')
        PROVE  Provenance'
    BY <1>2, <1>4 DEF Provenance, OfPassedCard
  <1>5. \A x : OfPassedCard(x, at) => OfPassedCard(x, at')
    BY <1>3 DEF OfPassedCard
  <1>6. ASSUME UNCHANGED <<drivers, interruptHandlers>>
        PROVE  Provenance'
    <2>1. Managed' = Managed
      BY <1>6 DEF Managed
    <2> QED BY <1>4, <1>5, <1>6, <2>1 DEF Provenance
  <1>7. ASSUME NEW n, NEW h, Register(n, h), OfPassedCard(h, at'),
               Managed' \subseteq Managed \cup {h}
        PROVE  Provenance'
    <2>1. \A d \in Managed' : OfPassedCard(d, at')
      BY <1>5, <1>7 DEF Provenance
    <2>2. /\ DOMAIN interruptHandlers' = DOMAIN interruptHandlers \cup {n}
          /\ interruptHandlers'[n] = h
          /\ \A m \in DOMAIN interruptHandlers :
               m # n => interruptHandlers'[m] = interruptHandlers[m]
      BY <1>7, Registering
    <2>3. \A m \in DOMAIN interruptHandlers' : OfPassedCard(interruptHandlers'[m], at')
      BY <1>5, <1>7, <2>2 DEF Provenance
    <2> QED BY <1>4, <2>1, <2>3
  <1>8. CASE ConstructSystemCallHandler
    <2>1. Register(SystemCallNumber, SystemCalls) /\ drivers' = drivers
      BY <1>8 DEF ConstructSystemCallHandler
    <2>2. OfPassedCard(SystemCalls, at')
      BY DEF OfPassedCard, SystemCalls
    <2> QED BY <1>7, <2>1, <2>2 DEF Managed
  <1>9. ASSUME NEW p, NEW q, NEW n, NEW d \in {Keyboard, Mouse}, Added(p, q, n, d)
        PROVE  Provenance'
    <2>1. OfPassedCard(d, at')
      BY <1>9 DEF OfPassedCard, Keyboard, Mouse
    <2>2. d \in Drivers
      BY DEF Drivers
    <2>3. Managed' \subseteq Managed \cup {d}
      BY <1>0, <1>9, <2>2, Adding DEF Added
    <2> QED BY <1>7, <1>9, <2>1, <2>3 DEF Added
  <1>10. CASE Enumerate
    <2>1. /\ at \in Positions /\ at' = After(at)
          /\ \/ at \in Cards /\ Constructs
             \/ Passes
      BY <1>0, <1>10, Iteration
    <2>2. CASE Passes
      BY <1>6, <2>2 DEF Passes
    <2>3. CASE at \in Cards /\ Constructs
      <3>1. PICK base \in PortBaseNumbers(Reply(at)) :
              /\ NetworkDriver(at, base) \in NetworkDrivers
              /\ Register(NetworkNumber(Reply(at)), NetworkDriver(at, base))
              /\ AddDriver(NetworkDriver(at, base))
        BY <2>3 DEF Constructs
      <3>2. Precedes(at, at')
        BY <1>0, <2>1, AfterNext
      <3>3. OfPassedCard(NetworkDriver(at, base), at')
        BY <2>3, <3>1, <3>2 DEF OfPassedCard, NetworkDriver
      <3>4. NetworkDriver(at, base) \in Drivers
        BY <3>1 DEF Drivers
      <3>5. Managed' \subseteq Managed \cup {NetworkDriver(at, base)}
        BY <1>0, <3>1, <3>4, Adding
      <3> QED BY <1>7, <3>1, <3>3, <3>5
    <2> QED BY <2>1, <2>2, <2>3
  <1> QED BY <1>1, <1>6, <1>8, <1>9, <1>10 DEF Elsewhere
-----------------------------------------------------------------------------
(* The two halves of EachCardOneDriver.                                    *)
HasDriver(p) ==
  \/ \E d \in Managed : d.kind = "network" /\ d.at = p
  \/ chunk <= DriverSize \/ Len(drivers) = MaxDrivers

InOrder(s) ==
  \A i, j \in 1 .. Len(s) :
    i < j /\ s[i].kind = "network" /\ s[j].kind = "network" => Precedes(s[i].at, s[j].at)

(* One more driver, at the end, that comes after all the others.           *)
LEMMA StaysInOrder ==
  ASSUME TypeOK, Provenance, InOrder(drivers), NEW d \in Drivers, AddDriver(d),
         d.kind = "network" => d.at = at
  PROVE  InOrder(drivers')
  <1>1. drivers \in Seq(Drivers) /\ Len(drivers) <= MaxDrivers
    BY DEF TypeOK
  <1>2. /\ \A i \in 1 .. Len(drivers) : drivers'[i] = drivers[i]
        /\ \A i \in 1 .. Len(drivers') : i > Len(drivers) => drivers'[i] = d
        /\ Len(drivers') \in Nat /\ Len(drivers) \in Nat
        /\ Len(drivers') <= Len(drivers) + 1
    BY <1>1, Adding
  <1>3. ASSUME NEW i \in 1 .. Len(drivers'), NEW j \in 1 .. Len(drivers'), i < j,
               drivers'[i].kind = "network", drivers'[j].kind = "network"
        PROVE  Precedes(drivers'[i].at, drivers'[j].at)
    <2>1. i \in 1 .. Len(drivers) /\ drivers'[i] = drivers[i]
      BY <1>2, <1>3
    <2>2. CASE j \in 1 .. Len(drivers)
      BY <1>2, <1>3, <2>1, <2>2 DEF InOrder
    <2>3. CASE j \notin 1 .. Len(drivers)
      <3>1. drivers'[j] = d
        BY <1>2, <1>3, <2>3
      <3>2. drivers[i] \in Managed
        BY <2>1 DEF Managed
      <3>3. Precedes(drivers[i].at, at)
        BY <1>3, <2>1, <3>2 DEF Provenance, OfPassedCard
      <3> QED BY <1>3, <2>1, <3>1, <3>3
    <2> QED BY <2>2, <2>3
  <1> QED BY <1>3 DEF InOrder

LEMMA CardsStep ==
  ASSUME TypeOK, Walks, Provenance, EachCardOneDriver, [Next]_vars
  PROVE  EachCardOneDriver'
  <1>0. /\ machine \in Machines /\ at \in Places /\ chunk \in Nat
        /\ drivers \in Seq(Drivers) /\ Len(drivers) <= MaxDrivers
        /\ DriverSize \in Nat
    BY PciAssumption DEF TypeOK, Places
  <1>1. /\ machine' = machine
        /\ \/ Elsewhere
           \/ ConstructSystemCallHandler
           \/ Added("keyboard", "mouse", KeyboardNumber, Keyboard)
           \/ Added("mouse", "enumerate", MouseNumber, Mouse)
           \/ phase = "enumerate" /\ phase' = "enumerate" /\ Enumerate
    BY DriverSteps
  <1>2. Cards' = Cards
    BY <1>1, SameMachine
  <1>3. (\A p \in Cards : Precedes(p, at) => HasDriver(p)) /\ InOrder(drivers)
    BY DEF EachCardOneDriver, HasDriver, InOrder
  <1>4. ASSUME \A p \in Cards : Precedes(p, at') => HasDriver(p)', InOrder(drivers')
        PROVE  EachCardOneDriver'
    BY <1>2, <1>4 DEF EachCardOneDriver, HasDriver, InOrder
  <1>5. ASSUME Managed \subseteq Managed', chunk' \in Nat, chunk' <= chunk,
               Len(drivers) = MaxDrivers => Len(drivers') = MaxDrivers
        PROVE  \A p : HasDriver(p) => HasDriver(p)'
    BY <1>0, <1>5 DEF HasDriver
  <1>6. ASSUME UNCHANGED <<drivers, at>>, chunk' \in Nat, chunk' <= chunk
        PROVE  EachCardOneDriver'
    <2>1. Managed' = Managed
      BY <1>6 DEF Managed
    <2>2. \A p : HasDriver(p) => HasDriver(p)'
      BY <1>5, <1>6, <2>1
    <2> QED BY <1>3, <1>4, <1>6, <2>2
  <1>7. CASE Elsewhere
    BY <1>6, <1>7 DEF Elsewhere
  <1>8. CASE ConstructSystemCallHandler
    <2>1. UNCHANGED <<drivers, at, chunk>>
      BY <1>8 DEF ConstructSystemCallHandler, pciVars
    <2> QED BY <1>0, <1>6, <2>1
  <1>9. ASSUME NEW p, NEW q, NEW n, NEW d \in {Keyboard, Mouse}, Added(p, q, n, d)
        PROVE  EachCardOneDriver'
    <2>1. AddDriver(d) /\ UNCHANGED <<at, chunk>> /\ d \in Drivers /\ d.kind # "network"
      BY <1>9 DEF Added, pciVars, Drivers, Keyboard, Mouse
    <2>2. /\ Managed \subseteq Managed'
          /\ Len(drivers) <= Len(drivers') /\ Len(drivers') <= MaxDrivers
          /\ drivers' \in Seq(Drivers)
      BY <1>0, <2>1, Adding
    <2>3. Len(drivers) = MaxDrivers => Len(drivers') = MaxDrivers
      BY <2>2, MaxDriversAssumption
    <2>4. \A x : HasDriver(x) => HasDriver(x)'
      BY <1>0, <1>5, <2>1, <2>2, <2>3
    <2>5. InOrder(drivers')
      BY <1>3, <2>1, StaysInOrder
    <2> QED BY <1>3, <1>4, <2>1, <2>4, <2>5
  <1>10. CASE Enumerate
    <2>1. /\ at \in Positions /\ at' = After(at) /\ chunk' \in Nat /\ chunk' <= chunk
          /\ \/ at \in Cards /\ Constructs
             \/ at \in Cards /\ chunk' <= DriverSize /\ Passes
             \/ at \notin Cards /\ Passes
      BY <1>0, <1>10, Iteration
    <2>2. \A p \in Cards : Precedes(p, at') => Precedes(p, at) \/ p = at
      BY <1>0, <2>1, AfterNext DEF Cards
    <2>3. CASE Passes
      <3>1. Managed' = Managed /\ drivers' = drivers
        BY <2>3 DEF Passes, Managed
      <3>2. \A p : HasDriver(p) => HasDriver(p)'
        BY <1>5, <2>1, <3>1
      <3>3. at \in Cards /\ chunk' <= DriverSize => \A p : p = at => HasDriver(p)'
        BY DEF HasDriver
      <3>4. CASE at \in Cards /\ chunk' <= DriverSize
        <4>1. \A p \in Cards : Precedes(p, at') => HasDriver(p)'
          BY <1>3, <2>2, <3>2, <3>3, <3>4
        <4> QED BY <1>3, <1>4, <3>1, <4>1
      <3>5. CASE at \notin Cards
        <4>1. \A p \in Cards : Precedes(p, at') => HasDriver(p)'
          BY <1>3, <2>2, <3>2, <3>5
        <4> QED BY <1>3, <1>4, <3>1, <4>1
      <3>6. CASE Constructs
        <4>1. PICK base \in PortBaseNumbers(Reply(at)) :
                /\ NetworkDriver(at, base) \in NetworkDrivers
                /\ AddDriver(NetworkDriver(at, base))
          BY <3>6 DEF Constructs
        <4>2. NetworkDriver(at, base) \in Drivers
          BY <4>1 DEF Drivers
        <4>3. NetworkDriver(at, base) \in Managed' \/ Len(drivers') = MaxDrivers
          BY <1>0, <4>1, <4>2, Adding
        <4>4. \A p : p = at => HasDriver(p)'
          BY <4>3 DEF HasDriver, NetworkDriver
        <4>5. \A p \in Cards : Precedes(p, at') => HasDriver(p)'
          BY <1>3, <2>2, <3>2, <4>4
        <4> QED BY <1>3, <1>4, <3>1, <4>5
      <3> QED BY <2>1, <3>4, <3>5, <3>6
    <2>4. CASE at \in Cards /\ Constructs
      <3>1. PICK base \in PortBaseNumbers(Reply(at)) :
              /\ NetworkDriver(at, base) \in NetworkDrivers
              /\ AddDriver(NetworkDriver(at, base))
        BY <2>4 DEF Constructs
      <3>2. NetworkDriver(at, base) \in Drivers
        BY <3>1 DEF Drivers
      <3>3. /\ Managed \subseteq Managed' /\ drivers' \in Seq(Drivers)
            /\ Len(drivers) <= Len(drivers') /\ Len(drivers') <= MaxDrivers
            /\ NetworkDriver(at, base) \in Managed' \/ Len(drivers') = MaxDrivers
        BY <1>0, <3>1, <3>2, Adding
      <3>4. Len(drivers) = MaxDrivers => Len(drivers') = MaxDrivers
        BY <3>3, MaxDriversAssumption
      <3>5. \A p : HasDriver(p) => HasDriver(p)'
        BY <1>5, <2>1, <3>3, <3>4
      <3>6. \A p : p = at => HasDriver(p)'
        BY <3>3 DEF HasDriver, NetworkDriver
      <3>7. InOrder(drivers')
        BY <1>3, <3>1, <3>2, StaysInOrder DEF NetworkDriver
      <3>8. \A p \in Cards : Precedes(p, at') => HasDriver(p)'
        BY <1>3, <2>2, <3>5, <3>6
      <3> QED BY <1>4, <3>7, <3>8
    <2> QED BY <2>1, <2>3, <2>4
  <1> QED BY <1>1, <1>7, <1>8, <1>9, <1>10
-----------------------------------------------------------------------------
(* Why the handlers in the table are those of active drivers: nothing but  *)
(* kernelMain's own drivers is there before the walk, everything in the    *)
(* array is active after activateAll, a handler without a place in the     *)
(* array came when there was none, and a driver lost its entry of the table*)
(* to a card that was found later.                                         *)
Early ==
  /\ phase \in BeforeDrivers => drivers = <<>>
  /\ phase = "mouse" => Managed \subseteq {Keyboard}

AfterActivation == {"mode", "windows", "enable"} \cup Enabled

Late == phase \in AfterActivation => nof_activated = Len(drivers)

Reached ==
  \A n \in DOMAIN interruptHandlers :
    interruptHandlers[n] \in Managed \cup {SystemCalls} \/ Len(drivers) = MaxDrivers

Heard(d, table) ==
  /\ Number(d) \in DOMAIN table
  /\ \/ table[Number(d)] = d
     \/ /\ table[Number(d)].kind = "network"
        /\ d.kind = "network" => Precedes(d.at, table[Number(d)].at)

AllHeard == \A d \in Managed : Heard(d, interruptHandlers)

LEMMA Numbers ==
  /\ Number(Keyboard) = KeyboardNumber /\ Number(Mouse) = MouseNumber
  /\ \A x : x.kind = "network" => Number(x) = NetworkNumber(Reply(x.at))
  BY DEF Number, Keyboard, Mouse

LEMMA EarlyLateStep ==
  ASSUME TypeOK, Walks, Early, Late, [Next]_vars
  PROVE  Early' /\ Late'
  <1>0. /\ drivers \in Seq(Drivers) /\ Len(drivers) <= MaxDrivers
        /\ nof_activated \in 0 .. Len(drivers)
        /\ machine \in Machines /\ at \in Places /\ chunk \in Nat
    BY DEF TypeOK, Places
  <1>1. \/ Elsewhere
        \/ ConstructSystemCallHandler
        \/ Added("keyboard", "mouse", KeyboardNumber, Keyboard)
        \/ Added("mouse", "enumerate", MouseNumber, Mouse)
        \/ phase = "enumerate" /\ phase' = "enumerate" /\ Enumerate
    BY DriverSteps
  <1>2. Early'
    <2>1. CASE Elsewhere
      BY <2>1 DEF Early, Elsewhere, BeforeDrivers, Managed
    <2>2. CASE ConstructSystemCallHandler
      BY <2>2 DEF Early, ConstructSystemCallHandler, Goes, BeforeDrivers, Managed
    <2>3. CASE Added("keyboard", "mouse", KeyboardNumber, Keyboard)
      <3>1. Managed = {}
        <4>1. drivers = <<>>
          BY <2>3 DEF Early, Added, BeforeDrivers
        <4> QED BY <4>1 DEF Managed
      <3>2. Managed' \subseteq Managed \cup {Keyboard}
        <4>1. Keyboard \in Drivers
          BY DEF Drivers
        <4> QED BY <1>0, <2>3, <4>1, Adding DEF Added
      <3> QED BY <2>3, <3>1, <3>2 DEF Early, Added, BeforeDrivers
    <2>4. CASE phase' = "enumerate"
      BY <2>4 DEF Early, BeforeDrivers
    <2> QED BY <1>1, <2>1, <2>2, <2>3, <2>4 DEF Added
  <1>3. Late'
    <2>1. CASE ActivationEnds
      <3>1. /\ ~(nof_activated < Len(drivers))
            /\ nof_activated' = nof_activated /\ drivers' = drivers
        BY <2>1 DEF ActivationEnds, ActivatesMore, driverVars
      <3>2. nof_activated = Len(drivers)
        BY <1>0, <3>1
      <3> QED BY <3>1, <3>2 DEF Late
    <2>2. CASE SetMode \/ ModeIsSet \/ AddWindows \/ WindowsEnd \/ EnableInterrupts
               \/ CallReturns \/ MouseInterrupt \/ MainLoop \/ UNCHANGED vars
      BY <2>2 DEF SetMode, ModeIsSet, AddWindows, WindowsEnd, EnableInterrupts,
                  CallReturns, MouseInterrupt, MainLoop, vars, Goes, driverVars, Late,
                  AfterActivation, Enabled, DriveCalls
    <2>3. CASE AllocateFirst \/ ConstructSystemCallHandler \/ AddKeyboard \/ AddMouse
               \/ EnumerateDrivers \/ EnumerationEnds \/ ActivateAll
      BY <2>3 DEF AllocateFirst, ConstructSystemCallHandler, AddKeyboard, AddMouse,
                  EnumerateDrivers, EnumerationEnds, ActivateAll, Goes, Late,
                  AfterActivation, Enabled, DriveCalls
    <2> QED BY <2>1, <2>2, <2>3 DEF Next, Boot, OwnSteps
  <1> QED BY <1>2, <1>3

(* A driver that enters both the array and the table.                      *)
LEMMA Entering ==
  ASSUME TypeOK, Provenance, Reached, AllHeard, machine' = machine,
         NEW h \in Drivers, Register(Number(h), h), AddDriver(h),
         \/ h.kind = "network" /\ h.at = at
         \/ \A d \in Managed : Number(d) # Number(h)
  PROVE  Reached' /\ AllHeard'
  <1>1. drivers \in Seq(Drivers) /\ Len(drivers) <= MaxDrivers
    BY DEF TypeOK
  <1>2. /\ Managed \subseteq Managed' /\ Managed' \subseteq Managed \cup {h}
        /\ h \in Managed' \/ (Len(drivers) = MaxDrivers /\ Len(drivers') = MaxDrivers)
        /\ Len(drivers) = MaxDrivers => Len(drivers') = MaxDrivers
    <2>1. /\ Len(drivers) <= Len(drivers') /\ Len(drivers') <= MaxDrivers
          /\ drivers' \in Seq(Drivers)
      BY <1>1, Adding
    <2> QED BY <1>1, <2>1, Adding, MaxDriversAssumption
  <1>3. /\ DOMAIN interruptHandlers' = DOMAIN interruptHandlers \cup {Number(h)}
        /\ interruptHandlers'[Number(h)] = h
        /\ \A m \in DOMAIN interruptHandlers :
             m # Number(h) => interruptHandlers'[m] = interruptHandlers[m]
    BY Registering
  <1>4. Reached'
    <2>1. SystemCalls' = SystemCalls
      BY DEF SystemCalls
    <2> QED BY <1>2, <1>3, <2>1 DEF Reached
  <1>5. \A p : Reply(p)' = Reply(p)
    BY SameMachine
  <1>6. ASSUME \A d \in Managed' : Heard(d, interruptHandlers')
        PROVE  AllHeard'
    BY <1>5, <1>6 DEF AllHeard, Heard, Number
  <1>7. ASSUME NEW d \in Managed'
        PROVE  Heard(d, interruptHandlers')
    <2>1. CASE d = h
      BY <1>3, <2>1 DEF Heard
    <2>2. CASE d \in Managed /\ Number(d) # Number(h)
      BY <1>3, <2>2 DEF Heard, AllHeard
    <2>3. CASE d \in Managed /\ Number(d) = Number(h) /\ h.kind = "network" /\ h.at = at
      <3>1. d.kind = "network" => Precedes(d.at, at)
        BY <2>3 DEF Provenance, OfPassedCard
      <3> QED BY <1>3, <2>3, <3>1 DEF Heard
    <2> QED BY <1>2, <2>1, <2>2, <2>3
  <1> QED BY <1>4, <1>6, <1>7

LEMMA HandlersStep ==
  ASSUME TypeOK, Walks, Provenance, Early, Reached, AllHeard, [Next]_vars
  PROVE  Reached' /\ AllHeard'
  <1>0. /\ machine \in Machines /\ at \in Places /\ chunk \in Nat
    BY DEF TypeOK, Places
  <1>1. /\ machine' = machine
        /\ \/ Elsewhere
           \/ ConstructSystemCallHandler
           \/ Added("keyboard", "mouse", KeyboardNumber, Keyboard)
           \/ Added("mouse", "enumerate", MouseNumber, Mouse)
           \/ phase = "enumerate" /\ phase' = "enumerate" /\ Enumerate
    BY DriverSteps
  <1>2. CASE UNCHANGED <<drivers, interruptHandlers>>
    <2>1. \A p : Reply(p)' = Reply(p)
      BY <1>1, SameMachine
    <2>2. Managed' = Managed
      BY <1>2 DEF Managed
    <2>3. Reached'
      BY <1>2, <2>2 DEF Reached, SystemCalls
    <2>4. AllHeard'
      BY <1>2, <2>1, <2>2 DEF AllHeard, Heard, Number
    <2> QED BY <2>3, <2>4
  <1>3. CASE ConstructSystemCallHandler
    <2>1. drivers = <<>> /\ drivers' = drivers /\ Register(SystemCallNumber, SystemCalls)
      BY <1>3 DEF ConstructSystemCallHandler, Goes, Early, BeforeDrivers
    <2>2. Managed = {} /\ Managed' = {}
      BY <2>1 DEF Managed
    <2>3. /\ DOMAIN interruptHandlers' = DOMAIN interruptHandlers \cup {SystemCallNumber}
          /\ interruptHandlers'[SystemCallNumber] = SystemCalls
          /\ \A m \in DOMAIN interruptHandlers :
               m # SystemCallNumber => interruptHandlers'[m] = interruptHandlers[m]
      BY <2>1, Registering
    <2>4. SystemCalls' = SystemCalls
      BY DEF SystemCalls
    <2>5. Reached'
      BY <2>1, <2>2, <2>3, <2>4 DEF Reached
    <2> QED BY <2>2, <2>5 DEF AllHeard
  <1>4. CASE Added("keyboard", "mouse", KeyboardNumber, Keyboard)
    <2>1. drivers = <<>> /\ Register(KeyboardNumber, Keyboard) /\ AddDriver(Keyboard)
      BY <1>4 DEF Added, Early, BeforeDrivers
    <2>2. Managed = {}
      BY <2>1 DEF Managed
    <2>3. Keyboard \in Drivers
      BY DEF Drivers
    <2> QED BY <1>1, <2>1, <2>2, <2>3, Numbers, Entering
  <1>5. CASE Added("mouse", "enumerate", MouseNumber, Mouse)
    <2>1. Managed \subseteq {Keyboard} /\ Register(MouseNumber, Mouse) /\ AddDriver(Mouse)
      BY <1>5 DEF Added, Early
    <2>2. \A d \in Managed : Number(d) # Number(Mouse)
      BY <2>1, Numbers DEF KeyboardNumber, MouseNumber
    <2>3. Mouse \in Drivers
      BY DEF Drivers
    <2> QED BY <1>1, <2>1, <2>2, <2>3, Numbers, Entering
  <1>6. CASE Enumerate
    <2>1. (at \in Cards /\ Constructs) \/ Passes
      BY <1>0, <1>6, Iteration
    <2>2. CASE Passes
      BY <1>2, <2>2 DEF Passes
    <2>3. CASE Constructs
      <3>1. PICK base \in PortBaseNumbers(Reply(at)) :
              /\ NetworkDriver(at, base) \in NetworkDrivers
              /\ Register(NetworkNumber(Reply(at)), NetworkDriver(at, base))
              /\ AddDriver(NetworkDriver(at, base))
        BY <2>3 DEF Constructs
      <3>2. NetworkDriver(at, base) \in Drivers
        BY <3>1 DEF Drivers
      <3>3. NetworkDriver(at, base).kind = "network" /\ NetworkDriver(at, base).at = at
        BY DEF NetworkDriver
      <3>4. Number(NetworkDriver(at, base)) = NetworkNumber(Reply(at))
        BY <3>3, Numbers
      <3> QED BY <1>1, <3>1, <3>2, <3>3, <3>4, Entering
    <2> QED BY <2>1, <2>2, <2>3
  <1> QED BY <1>1, <1>2, <1>3, <1>4, <1>5, <1>6 DEF Elsewhere
-----------------------------------------------------------------------------
(* What is programmed stays so until the picture is on, and after.         *)
LEMMA ProgrammedStep ==
  ASSUME TypeOK, Programmed, [Next]_vars
  PROVE  Programmed'
  <1>0. /\ IsAdapter(vga) /\ written \in Nat /\ {"crtc", "gc", "attr"} \subseteq Groups
        /\ First["crtc"] = 6 /\ 0 \in Registers("crtc") /\ 17 \in Registers("crtc")
    BY Lengths, Layout DEF TypeOK
  <1>1. CASE phase = "mode" /\ phase' = "mode" /\ WriteNext
    <2>0. PICK g \in Groups : \E i \in Registers(g) :
            /\ written = First[g] + i
            /\ LET v == IF g = "crtc" /\ i = 0 THEN Unlock(vga) ELSE vga
               IN  vga' = Data(Select(v, g, i), g, Value(g, i))
      BY <1>1 DEF WriteNext
    <2>1. PICK i \in Registers(g) :
            /\ written = First[g] + i
            /\ LET v == IF g = "crtc" /\ i = 0 THEN Unlock(vga) ELSE vga
               IN  vga' = Data(Select(v, g, i), g, Value(g, i))
      BY <2>0
    <2>2. PICK v : v = IF g = "crtc" /\ i = 0 THEN Unlock(vga) ELSE vga
      OBVIOUS
    <2>3. written' = written + 1 /\ written \in 0 .. 60
      BY <1>1, <2>1, OneRegisterEach DEF WriteNext
    (* Nothing that was written is lost on the way to register i.          *)
    <2>4. /\ IsAdapter(v) /\ (written >= 6 => v.reg["crtc"][17] < 128)
          /\ \A h \in Groups : \A j \in Registers(h) :
               First[h] + j < written => v.reg[h][j] = Value(h, j)
      <3>1. CASE g = "crtc" /\ i = 0
        <4>1. /\ IsAdapter(v) /\ v.reg["crtc"][17] < 128
              /\ \A h \in Groups : h # "crtc" => v.reg[h] = vga.reg[h]
          BY <1>0, <2>2, <3>1, Unlocks
        <4>2. \A j \in Registers("crtc") : ~(First["crtc"] + j < written)
          BY <1>0, <2>1, <3>1, Block
        <4> QED BY <4>1, <4>2 DEF Programmed
      <3>2. CASE ~(g = "crtc" /\ i = 0)
        <4>1. v = vga
          BY <2>2, <3>2
        <4>2. written # 6
          <5>1. First["crtc"] + 0 = First[g] + i => "crtc" = g /\ 0 = i
            BY <1>0, OneRegisterEach
          <5> QED BY <1>0, <2>1, <3>2, <5>1
        <4>3. written >= 6 => written > 6
          BY <2>3, <4>2
        <4> QED BY <1>0, <4>1, <4>3 DEF Programmed
      <3> QED BY <3>1, <3>2
    <2>5. g = "crtc" => written >= 6
      BY <1>0, <2>1, Block
    <2>6. Value(g, i) \in Contents /\ (g = "crtc" /\ i = 17 => Value(g, i) < 128)
      BY ValueType
    <2>7. vga'.reg = [v.reg EXCEPT ![g] = [v.reg[g] EXCEPT ![i] = Value(g, i)]]
      BY <2>1, <2>2, <2>4, <2>5, <2>6, Writing
    <2>8. /\ vga'.reg[g][i] = Value(g, i)
          /\ \A h \in Groups : \A j \in Registers(h) :
               h # g \/ j # i => vga'.reg[h][j] = v.reg[h][j]
      <3>1. DOMAIN v.reg = Groups /\ \A h \in Groups : DOMAIN v.reg[h] = Registers(h)
        BY <2>4 DEF IsAdapter
      <3> QED BY <2>7, <3>1
    <2>9. written' > First["crtc"] => vga'.reg["crtc"][17] < 128
      <3>1. CASE g = "crtc" /\ i = 17
        BY <2>6, <2>8, <3>1
      <3>2. CASE ~(g = "crtc" /\ i = 17)
        BY <1>0, <2>3, <2>4, <2>8, <3>2
      <3> QED BY <3>1, <3>2
    <2>10. ASSUME NEW h \in Groups, NEW j \in Registers(h), First[h] + j < written'
           PROVE  vga'.reg[h][j] = Value(h, j)
      <3>1. CASE h = g /\ j = i
        BY <2>8, <3>1
      <3>2. CASE h # g \/ j # i
        <4>1. First[h] + j # written /\ First[h] + j \in 0 .. 60
          BY <2>1, <3>2, OneRegisterEach
        <4>2. First[h] + j < written
          BY <2>3, <2>10, <4>1
        <4> QED BY <2>4, <2>8, <3>2, <4>2
      <3> QED BY <3>1, <3>2
    <2>11. written' <= NofValues
      BY <2>3 DEF NofValues
    <2>12. phase' \notin Shows
      BY <1>1 DEF Shows, Enabled, DriveCalls
    <2> QED BY <2>9, <2>10, <2>11, <2>12 DEF Programmed
  <1>2. CASE phase = "mode" /\ phase' = "windows" /\ ShowPicture
    <2>1. /\ 32 \in Contents /\ vga' = Select(vga, "attr", 32)
          /\ written' = written /\ written = NofValues
      BY <1>2 DEF ShowPicture, Contents
    <2>2. vga'.reg = vga.reg /\ vga'.index = [vga.index EXCEPT !["attr"] = 32]
      BY <1>0, <2>1, Selects
    <2>3. vga'.index["attr"] = 32
      BY <1>0, <2>2 DEF IsAdapter
    <2> QED BY <2>1, <2>2, <2>3 DEF Programmed
  <1>3. CASE phase = "running" /\ phase' = "running" /\ DrawPixels
    <2>1. 6 \in Contents /\ vga' = Select(vga, "gc", 6) /\ written' = written
      BY <1>3 DEF DrawPixels, Select, Contents
    <2>2. vga'.reg = vga.reg /\ vga'.index = [vga.index EXCEPT !["gc"] = 6]
      BY <1>0, <2>1, Selects
    <2>3. vga'.index["attr"] = vga.index["attr"]
      BY <1>0, <2>2 DEF IsAdapter
    <2> QED BY <1>3, <2>1, <2>2, <2>3 DEF Programmed
  <1>4. CASE UNCHANGED vgaVars /\ (phase' \in Shows => phase \in Shows)
    BY <1>4 DEF Programmed, vgaVars
  <1> QED BY <1>1, <1>2, <1>3, <1>4, AdapterSteps
-----------------------------------------------------------------------------
(* Packets reach the desktop when there is a window in front.              *)
Shown == phase \in {"enable"} \cup Enabled => Len(childrens) > 0

FrontSeen == \E p \in Screen : Contains(Front, p)

LEMMA FrontType ==
  ASSUME childrens \in Seq(Window)
  PROVE  Front \in Window
  <1>1. CASE childrens = <<>>
    <2>1. Windows[1] \in Area
      BY DesktopAssumption
    <2>2. NewWindow(Windows[1]) \in Window
      BY <2>1 DEF NewWindow, Area, Window
    <2> QED BY <1>1, <2>2 DEF Front
  <1>2. CASE childrens # <<>>
    BY <1>2 DEF Front
  <1> QED BY <1>1, <1>2

(* A window that is dragged keeps the cursor inside.                       *)
LEMMA DraggedFollows ==
  ASSUME NEW w \in Window, NEW old \in Screen, NEW new \in Screen,
         w.dragged, Contains(w, old)
  PROVE  Contains(Dragged(w, old, new), new)
  <1>1. /\ w.x \in Int /\ w.y \in Int /\ w.width \in Nat /\ w.height \in Nat
        /\ old.x \in Int /\ old.y \in Int /\ new.x \in Int /\ new.y \in Int
    BY DesktopAssumption DEF Window, Screen
  <1>2. /\ Dragged(w, old, new).x = w.x + new.x - old.x
        /\ Dragged(w, old, new).y = w.y + new.y - old.y
        /\ Dragged(w, old, new).width = w.width
        /\ Dragged(w, old, new).height = w.height
    BY DraggedType
  <1> QED BY <1>1, <1>2 DEF Contains

LEMMA FrontStep ==
  ASSUME TypeOK, Shown, FrontSeen, FrontHeld, [Next]_vars
  PROVE  Shown' /\ FrontSeen' /\ FrontHeld'
  <1>0. /\ cursor \in Screen /\ childrens \in Seq(Window) /\ Len(Windows) \in Nat
        /\ Len(Windows) > 0 /\ Deltas \subseteq Int /\ Len(childrens) \in Nat
    BY DesktopAssumption DEF TypeOK
  <1>1. CASE Adds
    <2>1. Len(childrens') = Len(childrens) + 1 /\ Front' = Front
      BY <1>0, <1>1, AddsWindow
    <2>2. cursor' = cursor /\ buttons' = buttons
      BY <1>1 DEF Adds
    <2> QED BY <1>0, <2>1, <2>2 DEF Shown, FrontSeen, FrontHeld
  <1>2. CASE Moves
    <2>1. PICK dx \in Deltas, dy \in Deltas, pressed \in Presses : Packet(dx, dy, pressed)
      BY <1>2 DEF Moves
    <2>2. dx \in Int /\ dy \in Int /\ Len(childrens) > 0
      BY <1>0, <1>2 DEF Moves, Shown
    <2>3. cursor' \in Screen /\ Len(childrens') = Len(childrens)
      BY <1>0, <2>1, <2>2, PacketType
    <2>4. SamePlace(Front', Dragged(Front, cursor, cursor')) /\ FrontHeld'
      BY <1>0, <2>1, <2>2, PacketFront
    <2>5. Front \in Window
      BY <1>0, FrontType
    <2>6. PICK p \in Screen : Contains(Dragged(Front, cursor, cursor'), p)
      <3>1. CASE Front.dragged
        BY <1>0, <2>3, <2>5, <3>1, DraggedFollows DEF FrontHeld
      <3>2. CASE ~Front.dragged
        BY <1>0, <2>3, <2>5, <3>2, DraggedType DEF FrontSeen
      <3> QED BY <3>1, <3>2
    <2>7. Contains(Front', p)
      BY <2>4, <2>6 DEF SamePlace, Contains
    <2>8. FrontSeen'
      BY <2>6, <2>7 DEF FrontSeen, Screen
    <2> QED BY <2>2, <2>3, <2>4, <2>8 DEF Shown
  <1>3. CASE Rests
    <2>1. Front' = Front /\ cursor' = cursor /\ buttons' = buttons
      BY <1>3 DEF Rests, Front
    <2>2. Shown'
      BY <1>0, <1>3 DEF Rests, Shown
    <2> QED BY <2>1, <2>2 DEF FrontSeen, FrontHeld
  <1> QED BY <1>1, <1>2, <1>3, DesktopSteps

(* Everything an inductive proof needs, at once.                           *)
IInv ==
  /\ TypeOK /\ Walks /\ EachFunctionOnce /\ Provenance /\ EachCardOneDriver
  /\ Early /\ Late /\ Reached /\ AllHeard
  /\ Shown /\ FrontSeen /\ FrontHeld /\ Programmed

LEMMA IInvInit == Init => IInv
  <1> SUFFICES ASSUME Init PROVE IInv
    OBVIOUS
  <1>1. TypeOK /\ Walks
    BY TypeInit
  <1>2. drivers = <<>> /\ DOMAIN interruptHandlers = {} /\ phase = "heap" /\ childrens = <<>>
        /\ at = <<0, 0, 0>> /\ found = {} /\ nof_activated = 0
    BY DEF Init, DriverManagerInit, DesktopInit
  <1>3. \A p \in Existing : ~Precedes(p, at)
    BY <1>2, PciAssumption DEF Existing, Positions, Precedes
  <1>4. Managed = {}
    BY <1>2 DEF Managed
  <1>5. EachFunctionOnce /\ EachCardOneDriver
    BY <1>2, <1>3 DEF EachFunctionOnce, EachCardOneDriver, Cards
  <1>6. Provenance /\ Early /\ Late /\ Reached /\ AllHeard /\ Shown
    BY <1>2, <1>4 DEF Provenance, Early, Late, AfterActivation, Reached, AllHeard, Shown,
                           Enabled, DriveCalls
  <1>7. Front = NewWindow(Windows[1])
    BY <1>2 DEF Front
  <1>8. FrontSeen
    <2>1. PICK p \in Screen : Contains(Windows[1], p)
      BY DesktopAssumption
    <2>2. Contains(NewWindow(Windows[1]), p)
      BY <2>1 DEF Contains, NewWindow
    <2> QED BY <1>7, <2>2 DEF FrontSeen
  <1>9. FrontHeld
    BY <1>7 DEF FrontHeld, NewWindow
  <1>10. Programmed
    <2>1. written = 0 /\ phase \notin Shows
      BY DEF Init, VgaInit, Shows, Enabled, DriveCalls
    <2>2. \A g \in Groups : \A i \in Registers(g) : ~(First[g] + i < written)
      BY <2>1, OneRegisterEach
    <2>3. First["crtc"] = 6 /\ NofValues = 61
      BY Layout DEF NofValues
    <2> QED BY <2>1, <2>2, <2>3 DEF Programmed
  <1> QED BY <1>1, <1>5, <1>6, <1>8, <1>9, <1>10 DEF IInv

LEMMA IInvStep == IInv /\ [Next]_vars => IInv'
  <1> SUFFICES ASSUME IInv, [Next]_vars PROVE IInv'
    OBVIOUS
  <1>1. /\ TypeOK /\ Walks /\ EachFunctionOnce /\ Provenance /\ EachCardOneDriver
        /\ Early /\ Late /\ Reached /\ AllHeard /\ Shown /\ FrontSeen /\ FrontHeld
        /\ Programmed
    BY DEF IInv
  <1>2. TypeOK' /\ Walks'
    BY <1>1, TypeStep
  <1>3. EachFunctionOnce' /\ Provenance' /\ EachCardOneDriver'
    BY <1>1, FoundStep, ProvenanceStep, CardsStep
  <1>4. Early' /\ Late' /\ Reached' /\ AllHeard'
    BY <1>1, EarlyLateStep, HandlersStep
  <1>5. Shown' /\ FrontSeen' /\ FrontHeld'
    BY <1>1, FrontStep
  <1>6. Programmed'
    BY <1>1, ProgrammedStep
  <1> QED BY <1>2, <1>3, <1>4, <1>5, <1>6 DEF IInv

LEMMA IInvAlways == Spec => []IInv
  BY IInvInit, IInvStep, PTL DEF Spec
-----------------------------------------------------------------------------
(* SegmentDescriptor's constructor: base and limit survive being taken to  *)
(* pieces, for every 32-bit base and limit.                                *)
THEOREM SegmentLimits == Spec => []SegmentsReachTheirLimits
  <1>1. SegmentsReachTheirLimits
    <2>1. \A base_ptr, limit \in Limits : SegmentReachesItsLimit(base_ptr, limit)
      BY Segment, LimitsAssumption
    <2> QED BY <2>1 DEF SegmentsReachTheirLimits
  <1> QED BY <1>1, PTL

(* enumerateDrivers: no function is missed, none is found under two        *)
(* numbers, on every machine built as the bus requires.                    *)
THEOREM WalkFindsEachFunctionOnce == Spec => []EachFunctionOnce
  <1>1. IInv => EachFunctionOnce
    BY DEF IInv
  <1> QED BY <1>1, IInvAlways, PTL

(* getDriver and addDriver: a driver for every card, in the walk's order.  *)
THEOREM EveryCardGetsItsDriver == Spec => []EachCardOneDriver
  <1>1. IInv => EachCardOneDriver
    BY DEF IInv
  <1> QED BY <1>1, IInvAlways, PTL

(* getBaseAddressRegister: whatever kinds of registers a card has, and in  *)
(* whatever order, its driver gets ports of that card.                     *)
THEOREM DriversTalkToTheirCards == Spec => []TalksToItsCard
  <1>1. IInv => TalksToItsCard
    <2> SUFFICES ASSUME IInv, NEW d \in Managed, d.kind = "network",
                        AddressBars(Reply(d.at)) # {}
                 PROVE  \E i \in AddressBars(Reply(d.at)) :
                          Reply(d.at).bars[i] = d.port + 1
      BY DEF TalksToItsCard
    <2>1. d.at \in Cards /\ d.port \in PortBaseNumbers(Reply(d.at)) /\ machine \in Machines
      BY DEF IInv, Provenance, OfPassedCard, TypeOK
    <2>2. IsFunction(Reply(d.at))
      BY <2>1, ExistingAreFunctions DEF Cards
    <2> QED BY <2>1, <2>2, PortsAreNumbers
  <1> QED BY <1>1, IInvAlways, PTL

(* activateAll before interrupt_manager.activate: what interrupts can reach*)
(* is active or had no place, and who lost an entry lost it to a card.     *)
THEOREM RunningHandlersAreActive == Spec => []HandlersAreActive
  <1>1. IInv => HandlersAreActive
    <2> SUFFICES ASSUME IInv, phase \in Enabled PROVE HandlersAreActive
      BY DEF HandlersAreActive, InterruptsEnabled, Enabled
    <2>1. nof_activated = Len(drivers) /\ Reached /\ AllHeard
      BY DEF IInv, Late, AfterActivation
    <2>2. Activated = Managed
      BY <2>1 DEF Activated, Managed
    <2>3. \A n \in DOMAIN interruptHandlers :
            \/ interruptHandlers[n] \in Activated \cup {SystemCalls}
            \/ Len(drivers) = MaxDrivers /\ interruptHandlers[n] \notin Managed
      BY <2>1, <2>2 DEF Reached
    <2>4. ASSUME NEW d \in Managed
          PROVE  /\ Number(d) \in DOMAIN interruptHandlers
                 /\ LET h == interruptHandlers[Number(d)]
                    IN  h = d \/ (h.kind = "network"
                                  /\ (d.kind = "network" => Precedes(d.at, h.at)))
      BY <2>1 DEF AllHeard, Heard
    <2> QED BY <2>3, <2>4 DEF HandlersAreActive
  <1> QED BY <1>1, IInvAlways, PTL

(* setMode and putPixel: whatever registers, locked or not, and whatever   *)
(* half-finished access the firmware leaves the adapter in, the main loop  *)
(* draws to an adapter that is in the mode.                                *)
THEOREM MainLoopDrawsInMode == Spec => []RunsInMode
  <1>1. IInv => RunsInMode
    <2> SUFFICES ASSUME IInv, phase = "running" PROVE InMode(vga)
      BY DEF RunsInMode
    <2>1. Programmed /\ phase \in Shows
      BY DEF IInv, Shows, Enabled
    <2>2. written = 61 /\ vga.index["attr"] = 32
      BY <2>1 DEF Programmed, NofValues
    <2>3. ASSUME NEW g \in Groups, NEW i \in Registers(g)
          PROVE  vga.reg[g][i] = Value(g, i)
      <3>1. First[g] + i \in 0 .. 60
        BY OneRegisterEach
      <3>2. First[g] + i < written
        BY <2>2, <3>1
      <3> QED BY <2>1, <3>2 DEF Programmed
    <2>4. vga.reg["gc"][6] = 5
      <3>1. "gc" \in Groups /\ 6 \in Registers("gc")
        BY Lengths, Layout
      <3> QED BY <2>3, <3>1, ValueType
    <2>5. FrameBuffer(vga) = 655360
      BY <2>4 DEF FrameBuffer
    <2> QED BY <2>2, <2>3, <2>5 DEF InMode
  <1> QED BY <1>1, IInvAlways, PTL

(* Desktop::onMouseMove and the windows: for every desktop, every set of   *)
(* windows and every mouse, the window in front cannot be lost.            *)
THEOREM FrontWindowStaysInReach == Spec => []FrontStaysInReach
  <1>1. IInv => FrontStaysInReach
    BY DEF IInv, FrontSeen, FrontHeld, FrontStaysInReach
  <1> QED BY <1>1, IInvAlways, PTL

(* The window in front implements DragAndDrop.                             *)
THEOREM FrontWindowIsDraggedAndDropped == Spec => DragAndDropHolds
  <1>1. Init => FrontWindow!Init
    <2> SUFFICES ASSUME Init PROVE FrontWindow!Init
      OBVIOUS
    <2>1. Front = NewWindow(Windows[1]) /\ buttons = {}
      BY DEF Init, DesktopInit, Front
    <2>2. cursor \in Screen
      BY TypeInit DEF TypeOK
    <2>3. Windows[1] \in Area
      BY DesktopAssumption
    <2>4. Windows[1] = [x |-> Front.x, y |-> Front.y, width |-> Front.width,
                        height |-> Front.height]
      BY <2>1, <2>3 DEF NewWindow, Area
    <2>5. Front.dragged = FALSE
      BY <2>1 DEF NewWindow
    <2> QED BY <2>1, <2>2, <2>4, <2>5 DEF FrontWindow!Init
  <1>2. IInv /\ [Next]_vars => [FrontWindow!Next]_(FrontWindow!vars)
    <2> SUFFICES ASSUME IInv, [Next]_vars
                 PROVE  FrontWindow!Next \/ UNCHANGED FrontWindow!vars
      OBVIOUS
    <2>0. /\ TypeOK /\ cursor \in Screen /\ childrens \in Seq(Window) /\ FrontHeld
          /\ Deltas \subseteq Int /\ Presses \subseteq SUBSET Buttons
          /\ Len(childrens) \in Nat
      BY DesktopAssumption DEF IInv, TypeOK
    <2>1. ASSUME Front' = Front, cursor' = cursor, buttons' = buttons
          PROVE  UNCHANGED FrontWindow!vars
      BY <2>1 DEF FrontWindow!vars
    <2>2. CASE Adds
      <3>1. Front' = Front
        BY <2>0, <2>2, AddsWindow
      <3> QED BY <2>1, <2>2, <3>1 DEF Adds
    <2>3. CASE Rests
      BY <2>1, <2>3 DEF Rests, Front
    <2>4. CASE Moves
      <3>1. PICK dx \in Deltas, dy \in Deltas, pressed \in Presses : Packet(dx, dy, pressed)
        BY <2>4 DEF Moves
      <3>2. dx \in Int /\ dy \in Int /\ pressed \in SUBSET Buttons /\ Len(childrens) > 0
        BY <2>0, <2>4 DEF Moves, IInv, Shown
      <3>3. /\ cursor' \in Screen /\ buttons' = pressed
            /\ childrens' \in Seq(Window) /\ Len(childrens') = Len(childrens)
        BY <2>0, <3>1, <3>2, PacketType
      <3>4. /\ SamePlace(Front', Dragged(Front, cursor, cursor')) /\ FrontHeld'
            /\ Front'.dragged /\ ~Front.dragged => 1 \notin buttons
            /\ Front.dragged /\ buttons' = buttons => Front'.dragged
        BY <2>0, <3>1, <3>2, PacketFront
      <3>5. Front \in Window /\ Front' \in Window
        BY <2>0, <3>2, <3>3, FrontType DEF Front
      <3>6. Front.dragged \in BOOLEAN /\ Front'.dragged \in BOOLEAN
        BY <3>5 DEF Window
      <3> DEFINE place == [x |-> Front.x, y |-> Front.y, width |-> Front.width,
                           height |-> Front.height]
      <3>7. place' = IF Front.dragged THEN FrontWindow!Carried(place, cursor, cursor')
                     ELSE place
        <4>1. CASE Front.dragged
          <5>1. /\ Front'.x = Front.x + cursor'.x - cursor.x
                /\ Front'.y = Front.y + cursor'.y - cursor.y
                /\ Front'.width = Front.width /\ Front'.height = Front.height
            BY <2>0, <3>3, <3>4, <3>5, <4>1, DraggedType DEF SamePlace
          <5> QED BY <4>1, <5>1 DEF FrontWindow!Carried
        <4>2. CASE ~Front.dragged
          <5>1. Dragged(Front, cursor, cursor') = Front
            BY <4>2 DEF Dragged
          <5>2. /\ Front'.x = Front.x /\ Front'.y = Front.y
                /\ Front'.width = Front.width /\ Front'.height = Front.height
            BY <3>4, <5>1 DEF SamePlace
          <5> QED BY <4>2, <5>2
        <4> QED BY <4>1, <4>2
      <3>8. Front'.dragged => 1 \in buttons' /\ FrontWindow!Covers(place', cursor')
        BY <3>4 DEF FrontHeld, Contains, FrontWindow!Covers
      <3> QED BY <3>2, <3>3, <3>4, <3>6, <3>7, <3>8 DEF FrontWindow!Next
    <2> QED BY <2>0, <2>2, <2>3, <2>4, DesktopSteps
  <1> QED BY <1>1, <1>2, IInvAlways, PTL DEF Spec, DragAndDropHolds, FrontWindow!Spec
-----------------------------------------------------------------------------
(* Every step of kernelMain up to its main loop either leaves its phase for*)
(* the next or goes on with a loop: the walk to a later place, activateAll *)
(* to the next driver, setMode to the next register, and windows.  None of *)
(* these loops can go on for ever.  A step of activateAll is an activate   *)
(* that returns, and one of the calls to the drives a call that returns:   *)
(* of the loops inside them nothing is said.                               *)
NextPhase ==
  { <<"heap", "system calls">>, <<"system calls", "keyboard">>, <<"keyboard", "mouse">>,
    <<"mouse", "enumerate">>, <<"enumerate", "activate">>, <<"activate", "mode">>,
    <<"mode", "windows">>, <<"windows", "enable">>, <<"enable", "identifyMaster">>,
    <<"identifyMaster", "identifySlave">>, <<"identifySlave", "write28">>,
    <<"write28", "flush">>, <<"flush", "read28">>, <<"read28", "running">> }

LoopAdvances ==
  \/ /\ phase = "enumerate" /\ at \in Positions /\ Precedes(at, at')
  \/ /\ phase = "activate" /\ drivers' = drivers
     /\ nof_activated < nof_activated' /\ nof_activated' <= Len(drivers)
  \/ /\ phase = "mode" /\ written < written' /\ written' <= NofValues
  \/ /\ phase = "windows"
     /\ Len(childrens) < Len(childrens') /\ Len(childrens') <= Len(Windows)

BootAdvances ==
  [][Boot => \/ <<phase, phase'>> \in NextPhase
             \/ phase' = phase /\ LoopAdvances]_vars

(* No machine, no set of drivers and no desktop lets kernelMain go around  *)
(* in a loop of its own for ever before its main loop: what can hold it    *)
(* there is a driver's activate or a call to a drive that does not return. *)
THEOREM BootMovesOn == Spec => BootAdvances
  <1>1. IInv /\ IInv' /\ [Next]_vars =>
          [Boot => \/ <<phase, phase'>> \in NextPhase
                   \/ phase' = phase /\ LoopAdvances]_vars
    <2> SUFFICES ASSUME IInv, IInv', Next, Boot
                 PROVE  \/ <<phase, phase'>> \in NextPhase
                        \/ phase' = phase /\ LoopAdvances
      OBVIOUS
    <2>0. TypeOK /\ TypeOK' /\ Walks /\ Programmed'
      BY DEF IInv
    <2>1. CASE AllocateFirst \/ ConstructSystemCallHandler \/ AddKeyboard \/ AddMouse
               \/ EnumerationEnds \/ ActivationEnds \/ ModeIsSet \/ WindowsEnd
               \/ EnableInterrupts \/ CallReturns
      BY <2>1 DEF AllocateFirst, ConstructSystemCallHandler, AddKeyboard, AddMouse,
                  EnumerationEnds, ActivationEnds, ModeIsSet, WindowsEnd,
                  EnableInterrupts, CallReturns, Goes, NextPhase
    <2>2. CASE EnumerateDrivers
      <3>1. phase = "enumerate" /\ phase' = phase /\ Enumerate
        BY <2>2 DEF EnumerateDrivers
      <3>2. machine \in Machines /\ at \in Places /\ chunk \in Nat
        BY <2>0 DEF TypeOK, Places
      <3>3. at \in Positions /\ at' = After(at)
        BY <2>0, <3>1, <3>2, Iteration
      <3>4. Precedes(at, at')
        BY <2>0, <3>2, <3>3, AfterNext
      <3> QED BY <3>1, <3>3, <3>4 DEF LoopAdvances
    <2>3. CASE ActivateAll
      <3>1. /\ phase = "activate" /\ phase' = phase /\ drivers' = drivers
            /\ nof_activated' = nof_activated + 1 /\ nof_activated < Len(drivers)
        BY <2>3 DEF ActivateAll, ActivateNext, ActivatesMore
      <3>2. nof_activated \in Int /\ Len(drivers) \in Int
        BY <2>0 DEF TypeOK
      <3> QED BY <3>1, <3>2 DEF LoopAdvances
    <2>4. CASE SetMode
      <3>1. phase = "mode" /\ phase' = phase /\ written' = written + 1
        BY <2>4 DEF SetMode, WriteNext
      <3>2. written \in Nat /\ written' <= NofValues
        BY <2>0 DEF TypeOK, Programmed
      <3> QED BY <3>1, <3>2 DEF LoopAdvances
    <2>5. CASE AddWindows
      <3>1. phase = "windows" /\ phase' = phase /\ Len(childrens) < Len(Windows)
        BY <2>5 DEF AddWindows
      <3>2. Adds
        BY <2>5, AddingWindow, <2>0
      <3>3. Len(childrens') = Len(childrens) + 1 /\ Len(childrens) \in Nat
            /\ Len(childrens') <= Len(Windows)
        BY <2>0, <3>2, AddsWindow DEF TypeOK
      <3> QED BY <3>1, <3>3 DEF LoopAdvances
    <2> QED BY <2>1, <2>2, <2>3, <2>4, <2>5 DEF Boot, OwnSteps
  <1> QED BY <1>1, IInvAlways, PTL DEF Spec, BootAdvances
=============================================================================
