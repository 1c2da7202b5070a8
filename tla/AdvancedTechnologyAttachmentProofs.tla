----------------- MODULE AdvancedTechnologyAttachmentProofs -----------------
(***************************************************************************)
(* Theorems about AdvancedTechnologyAttachment, for sectors of every size  *)
(* and all data: the types for all callers; the rest for callers that pass *)
(* no negative count, and drives that keep up with writes.                 *)
(***************************************************************************)
EXTENDS AdvancedTechnologyAttachment, TLAPS

Busy == {"BSY"}
Asking == {"RDY", "DRQ"}
Failed == {"RDY", "ERR"}

(* One of the two loops that transfer words is running.                    *)
Moving == pc \in {"transfer", "rest"}

(* What the drive was told, and what it works on.                          *)
Told(w, c) == w.command = c /\ (c \in {"read", "write"} => w.lba = Address(sector))
Source == IF op = "read" THEN cache[drive][Address(sector)] ELSE Identity
Padded == [k \in Offsets |-> IF k < count THEN data[k] ELSE 0]

(* The steps of a call, and its parameters.                                *)
Calls ==
  /\ pc = "probe" => op = "identify"
  /\ pc = "poll" => op \in {"identify", "read", "flush"}
  /\ pc = "transfer" => op \in {"identify", "read", "write"}
  /\ pc \in {"probe", "poll"} => offset = 0 /\ data = Zeros
  /\ op \in {"read", "write"} => sector \in Sectors

(* Between calls, and next to the drive called, there is nothing going on  *)
(* but the storing of the last sector.                                     *)
Resting ==
  \A d \in Present :
    IF pc = "idle"
    THEN device[d].status # Asking /\ (device[d].status = Busy => device[d].command = "store")
    ELSE d # drive => device[d].status \in {Ready, Failed}

(* The drive works on what the call has asked for.                         *)
Polling ==
  pc \in {"probe", "poll"} /\ drive \in Present =>
    LET w == device[drive]
    IN  \/ w.status = Busy /\ Told(w, op)
        \/ w.status = Failed
        \/ w.status = Ready /\ op = "flush" /\ medium[drive] = cache[drive]
        \/ /\ w.status = Asking /\ op # "flush" /\ Told(w, op)
           /\ w.left = SectorBytes /\ w.buffer = Source

(* Driver and drive are at the same word of a sector that is read; what the*)
(* caller has so far is the beginning of the sector.                       *)
Reading ==
  Moving /\ op # "write" /\ drive \in Present =>
    /\ LET w == device[drive]
       IN  IF offset = SectorBytes THEN w.status = Ready
           ELSE /\ w.status = Asking /\ Told(w, op)
                /\ w.left = SectorBytes - offset /\ w.buffer = Source
    /\ op = "read" =>
         data = [k \in Offsets |-> IF k < offset /\ k < count THEN Source[k] ELSE 0]

(* The same for a sector that is written.                                  *)
Writing ==
  Moving /\ op = "write" /\ drive \in Present =>
    LET w == device[drive]
    IN  \/ w.status = Busy /\ Told(w, "write") /\ offset = 0
        \/ /\ w.status = Asking /\ Told(w, "write")
           /\ offset < SectorBytes /\ w.left = SectorBytes - offset
           /\ \A k \in Offsets : k < offset => w.buffer[k] = Padded[k]
        \/ w.status = Busy /\ w.command = "store" /\ offset = SectorBytes
        \/ w.status \in {Ready, Failed}

(* A drive stores the sector of the last call.                             *)
Storing ==
  \A d \in Present :
    device[d].status = Busy /\ device[d].command = "store" =>
      /\ op = "write" /\ drive = d /\ pc \in {"idle", "transfer", "rest"}
      /\ device[d].lba = Address(sector) /\ device[d].buffer = Padded

(* The loops stay at words of the sector; the first ends with the word that*)
(* count ends in, and the second goes on behind it.                        *)
Bounds ==
  /\ Moving => offset \in 0 .. SectorBytes /\ offset % 2 = 0
  /\ op \in {"read", "write"} => count \in Nat
  /\ pc = "transfer" /\ op # "identify" => offset < count + 2
  /\ pc = "rest" => op \in {"read", "write"} /\ count <= offset

(* What the types rest on, whatever counts are passed and whether or not   *)
(* the drives keep up: the work of one drive makes sense, and the first    *)
(* loop goes through words of the sector.                                  *)
Works ==
  [command : {"none", "identify", "read", "write", "store", "flush"},
   status : SUBSET {"BSY", "DRQ", "ERR", "RDY"}, left : 0 .. SectorBytes,
   lba : Addresses \cup {0}, buffer : Contents]
Sound(w) ==
  /\ w \in Works /\ w.status \in {Ready, Busy, Asking, Failed}
  /\ w.status = Busy => w.command # "none"
  /\ w.status = Asking => w.left > 0 /\ w.left % 2 = 0
  /\ w.command = "read" => w.lba \in Addresses
Sane ==
  /\ \A d \in Present : Sound(device[d])
  /\ pc \in {"probe", "poll", "transfer"} => offset \in 0 .. SectorBytes /\ offset % 2 = 0
  /\ op \in {"read", "write"} => count <= SectorBytes

IInv ==
  /\ TypeOK /\ Sane /\ Bounds /\ Calls /\ Resting
  /\ Polling /\ Reading /\ Writing /\ Storing
-----------------------------------------------------------------------------
LEMMA Sizes ==
  /\ SectorBytes \in Nat /\ SectorBytes > 0 /\ SectorBytes % 2 = 0
  /\ Width \in Nat /\ SectorBytes + 1 < Width
  /\ Present \subseteq Drives /\ Counts \subseteq Int
  BY DriveAssumption

(* The second loop starts where the first one ends, behind the word that   *)
(* the last of n bytes is in; n being odd or even.                         *)
LEMMA RestStartsBehind ==
  ASSUME NEW n \in Nat, n <= SectorBytes,
         NEW k \in Nat, k % 2 = 0, n <= k, k < n + 2
  PROVE  RestStart(n) = k /\ k <= SectorBytes
  <1>1. n + (n % 2) = k /\ k <= SectorBytes
    BY Sizes
  <1>2. Remainder(n) = n % 2
    BY DEF Remainder
  <1>3. k % Width = k
    BY <1>1, Sizes
  <1> QED BY <1>1, <1>2, <1>3 DEF RestStart

LEMMA RestStartType == \A n \in Int : RestStart(n) \in 0 .. Width - 1
  <1> TAKE n \in Int
  <1>1. Remainder(n) \in Int
    BY DEF Remainder
  <1> HIDE DEF Remainder
  <1> QED BY <1>1, Sizes DEF RestStart

(* The statuses are different sets.                                        *)
LEMMA StatusSets ==
  /\ "BSY" \in Busy /\ "BSY" \notin Asking /\ "BSY" \notin Failed /\ "BSY" \notin Ready
  /\ "DRQ" \in Asking /\ "DRQ" \notin Busy /\ "DRQ" \notin Failed /\ "DRQ" \notin Ready
  /\ "ERR" \in Failed /\ "ERR" \notin Busy /\ "ERR" \notin Asking /\ "ERR" \notin Ready
  /\ "RDY" \in Asking /\ "RDY" \in Failed /\ "RDY" \in Ready
  /\ {Ready, Busy, Asking, Failed} \subseteq SUBSET {"BSY", "DRQ", "ERR", "RDY"}
  BY DEF Busy, Asking, Failed, Ready

(* Everything that may be in a sector or a buffer.                         *)
LEMMA ContentsType ==
  /\ Zeros \in Contents /\ Identity \in Contents /\ Buffers \subseteq Contents
  /\ 0 \in Bytes /\ Floating \in Bytes
  <1>1. 0 \in Bytes /\ Floating \in Bytes
    BY DEF Bytes
  <1>2. Zeros \in Contents
    BY <1>1 DEF Zeros, Contents
  <1>3. ASSUME NEW b \in Buffers \cup {Identity} PROVE b \in Contents
    <2>1. b \in [Offsets -> 0 .. 255]
      BY DriveAssumption
    <2>2. \A k \in Offsets : b[k] \in {b[j] : j \in Offsets}
      OBVIOUS
    <2>3. {b[j] : j \in Offsets} \in {{c[j] : j \in Offsets} : c \in Buffers \cup {Identity}}
      OBVIOUS
    <2>4. \A k \in Offsets : b[k] \in Bytes
      BY <2>2, <2>3 DEF Bytes
    <2> QED BY <2>1, <2>4 DEF Contents
  <1> QED BY <1>1, <1>2, <1>3
-----------------------------------------------------------------------------
(* A status is known by any of its bits.                                   *)
LEMMA StatusBits ==
  ASSUME Sane, NEW d \in Present
  PROVE  /\ "BSY" \in device[d].status <=> device[d].status = Busy
         /\ "DRQ" \in device[d].status <=> device[d].status = Asking
         /\ "ERR" \in device[d].status <=> device[d].status = Failed
         /\ device[d].status # {}
  <1>1. device[d].status \in {Ready, Busy, Asking, Failed}
    BY DEF Sane, Sound
  <1> QED BY <1>1, StatusSets

(* The command of a call makes the drive it is for busy, and no other.     *)
LEMMA CommandedDrive ==
  ASSUME TypeOK, NEW d \in Drives, NEW c, NEW l,
         device' = Commanded(d, c, l)
  PROVE  \A e \in Present :
           device'[e] = IF e = d /\ device[d].status \cap {"BSY", "DRQ"} = {}
                        THEN [command |-> c, status |-> Busy, left |-> 0,
                              lba |-> l, buffer |-> Zeros]
                        ELSE device[e]
  BY DEF Commanded, TypeOK, Busy

LEMMA IdleSound == Sound(Idle) /\ Idle.status = Ready /\ Idle.command = "none"
  BY StatusSets, Sizes, ContentsType DEF Idle, Sound, Works

LEMMA AddressType == \A s \in Sectors : Address(s) \in Addresses
  BY DEF Addresses

(* The bytes the driver takes from a drive, and those it sends to one.     *)
LEMMA ReadByteType ==
  ASSUME Sane, NEW d \in Drives, NEW k \in {0, 1}
  PROVE  ReadByte(d, k) \in Bytes
  <1>1. CASE Transferring(d, {"read", "identify"})
    <2>1. d \in Present /\ Sound(device[d])
      BY <1>1 DEF Transferring, Sane
    <2>2. device[d].status = Asking
      BY <1>1, <2>1, StatusSets DEF Transferring, Sound
    <2>3. device[d].left \in 0 .. SectorBytes /\ device[d].left > 0 /\ device[d].left % 2 = 0
      BY <2>1, <2>2 DEF Sound, Works
    <2>4. SectorBytes - device[d].left + k \in 0 .. SectorBytes - 1
      BY <2>3, Sizes
    <2>5. device[d].buffer \in [Offsets -> Bytes]
      BY <2>1 DEF Sound, Works, Contents
    <2> QED BY <1>1, <2>4, <2>5 DEF ReadByte, Position, Offsets
  <1>2. CASE ~Transferring(d, {"read", "identify"})
    BY <1>2, ContentsType DEF ReadByte
  <1> QED BY <1>1, <1>2

(* What a transfer of one word makes of the work of a drive.               *)
LEMMA AfterReadSound ==
  ASSUME TypeOK, Sane, NEW d \in Drives, device' = AfterRead(d)
  PROVE  device' \in [Present -> Works] /\ \A e \in Present : Sound(device'[e])
  <1>1. CASE ~Transferring(d, {"read", "identify"})
    BY <1>1 DEF AfterRead, TypeOK, Works, Sane
  <1>2. CASE Transferring(d, {"read", "identify"})
    <2> DEFINE w == device[d]
    <2>1. d \in Present /\ Sound(w)
      BY <1>2 DEF Transferring, Sane
    <2>2. w.status = Asking
      BY <1>2, <2>1, StatusSets DEF Transferring, Sound
    <2>3. CASE w.left > 2
      <3>1. device' = [device EXCEPT ![d] = [w EXCEPT !.left = w.left - 2]]
        BY <1>2, <2>1, <2>3 DEF AfterRead, TypeOK
      <3>2. /\ w.left \in 0 .. SectorBytes /\ w.left % 2 = 0
            /\ w \in Works
        BY <2>1, <2>2 DEF Sound, Works
      <3>3. w.left - 2 \in 0 .. SectorBytes /\ w.left - 2 > 0 /\ (w.left - 2) % 2 = 0
        BY <2>3, <3>2, Sizes
      <3>4. Sound([w EXCEPT !.left = w.left - 2])
        BY <2>1, <2>2, <3>2, <3>3, StatusSets DEF Sound, Works
      <3>5. device \in [Present -> Works]
        BY DEF TypeOK, Works
      <3> QED BY <2>1, <3>1, <3>4, <3>5 DEF Sane, Sound
    <2>4. CASE ~(w.left > 2)
      <3>1. device' = [device EXCEPT ![d] = Idle]
        BY <1>2, <2>4 DEF AfterRead
      <3>5. device \in [Present -> Works]
        BY DEF TypeOK, Works
      <3> QED BY <2>1, <3>1, <3>5, IdleSound DEF Sane, Sound
    <2> QED BY <2>3, <2>4
  <1> QED BY <1>1, <1>2

LEMMA AfterWriteSound ==
  ASSUME TypeOK, Sane, NEW d \in Drives, NEW low \in Bytes, NEW high \in Bytes,
         device' = AfterWrite(d, low, high)
  PROVE  device' \in [Present -> Works] /\ \A e \in Present : Sound(device'[e])
  <1>1. CASE ~Transferring(d, {"write"})
    BY <1>1 DEF AfterWrite, TypeOK, Works, Sane
  <1>2. CASE Transferring(d, {"write"})
    <2> DEFINE w == device[d]
               p == Position(d)
               b == [w.buffer EXCEPT ![p] = low, ![p + 1] = high]
    <2>1. d \in Present /\ Sound(w) /\ w.command = "write"
      BY <1>2 DEF Transferring, Sane
    <2>2. w.status = Asking
      BY <1>2, <2>1, StatusSets DEF Transferring, Sound
    <2>a. w.left \in 0 .. SectorBytes /\ w.left % 2 = 0 /\ w \in Works
      BY <2>1, <2>2 DEF Sound, Works
    <2>b. b \in Contents
      BY <2>a DEF Works, Contents
    <2>c. device \in [Present -> Works]
      BY DEF TypeOK, Works
    <2>3. CASE w.left > 2
      <3> DEFINE v == [w EXCEPT !.left = w.left - 2, !.buffer = b]
      <3>1. device' = [device EXCEPT ![d] = v]
        BY <1>2, <2>1, <2>3, <2>c DEF AfterWrite
      <3>3. w.left - 2 \in 0 .. SectorBytes /\ w.left - 2 > 0 /\ (w.left - 2) % 2 = 0
        BY <2>3, <2>a, Sizes
      <3>4. Sound(v)
        BY <2>1, <2>2, <2>a, <2>b, <3>3, StatusSets DEF Sound, Works
      <3> HIDE DEF v
      <3> QED BY <2>1, <2>c, <3>1, <3>4 DEF Sane, Sound
    <2>4. CASE ~(w.left > 2)
      <3> DEFINE v == [w EXCEPT !.command = "store", !.status = Busy, !.left = 0,
                                !.buffer = b]
      <3>1. device' = [device EXCEPT ![d] = v]
        BY <1>2, <2>1, <2>4, <2>c DEF AfterWrite, Busy
      <3>2. v \in Works
        <4>1. Busy \in SUBSET {"BSY", "DRQ", "ERR", "RDY"} /\ 0 \in 0 .. SectorBytes
          BY StatusSets, Sizes
        <4> HIDE DEF b
        <4> QED BY <2>a, <2>b, <4>1 DEF Works
      <3>3. v.status = Busy /\ v.command = "store"
        BY <2>a DEF Works
      <3>4. Sound(v)
        <4> HIDE DEF v
        <4> QED BY <3>2, <3>3, StatusSets DEF Sound
      <3> HIDE DEF v
      <3> QED BY <2>1, <2>c, <3>1, <3>4 DEF Sane, Sound
    <2> QED BY <2>3, <2>4
  <1> QED BY <1>1, <1>2

(* What a busy drive makes of its own work, of its cache and its medium.   *)
LEMMA DriveWorksSound ==
  ASSUME TypeOK, Sane, NEW d \in Present, DriveWorks(d)
  PROVE  /\ device' \in [Present -> Works] /\ \A e \in Present : Sound(device'[e])
         /\ cache' \in [Present -> [Addresses -> Contents]]
         /\ medium' \in [Present -> [Addresses -> Contents]]
  <1> DEFINE w == device[d]
             Asks(b) == [w EXCEPT !.status = Asking, !.left = SectorBytes, !.buffer = b]
  <1>1. Sound(w) /\ w \in Works
    BY DEF Sane, Sound
  <1>2. w.status = Busy /\ w.command # "none"
    BY <1>1, StatusSets DEF DriveWorks, Sound
  <1>3. /\ device \in [Present -> Works]
        /\ cache \in [Present -> [Addresses -> Contents]]
        /\ medium \in [Present -> [Addresses -> Contents]]
    BY DEF TypeOK, Works
  <1>4. \A b \in Contents : Sound(Asks(b))
    <2> TAKE b \in Contents
    <2>1. Asks(b) \in Works
      <3>1. Asking \in SUBSET {"BSY", "DRQ", "ERR", "RDY"} /\ SectorBytes \in 0 .. SectorBytes
        BY StatusSets, Sizes
      <3> HIDE DEF w
      <3> QED BY <1>1, <3>1 DEF Works
    <2>2. /\ Asks(b).status = Asking /\ Asks(b).left = SectorBytes
          /\ Asks(b).command = w.command /\ Asks(b).lba = w.lba
      BY <1>1 DEF Works
    <2>3. w.command = "read" => w.lba \in Addresses
      BY <1>1 DEF Sound
    <2> HIDE DEF Asks, w
    <2> QED BY <2>1, <2>2, <2>3, StatusSets, Sizes DEF Sound
  <1>5. \A v : Sound(v) /\ device' = [device EXCEPT ![d] = v] =>
          device' \in [Present -> Works] /\ \A e \in Present : Sound(device'[e])
    BY <1>3 DEF Sane, Sound
  <1>6. CASE Fail(d)
    <2> DEFINE v == [Idle EXCEPT !.status = Failed]
    <2>1. Sound(v)
      BY IdleSound, StatusSets DEF Sound, Works
    <2>2. device' = [device EXCEPT ![d] = v]
      BY <1>6 DEF Fail, Failed
    <2> HIDE DEF v
    <2> QED BY <1>3, <1>5, <1>6, <2>1, <2>2 DEF Fail
  <1>7. CASE Finish(d)
    <2>0. w.command \in {"identify", "read", "write", "store", "flush"}
      BY <1>1, <1>2 DEF Works
    <2>1. CASE w.command = "read"
      <3>1. device' = [device EXCEPT ![d] = Asks(cache[d][w.lba])]
        BY <1>3, <1>7, <2>1 DEF Finish, Asking
      <3>2. cache[d][w.lba] \in Contents
        BY <1>1, <1>3, <2>1 DEF Sound
      <3>3. UNCHANGED <<cache, medium>>
        BY <1>7, <2>1 DEF Finish
      <3> HIDE DEF Asks
      <3> QED BY <1>3, <1>4, <1>5, <3>1, <3>2, <3>3
    <2>2. CASE w.command = "identify"
      <3>1. device' = [device EXCEPT ![d] = Asks(Identity)]
        BY <1>3, <1>7, <2>2 DEF Finish, Asking
      <3>3. UNCHANGED <<cache, medium>>
        BY <1>7, <2>2 DEF Finish
      <3> HIDE DEF Asks
      <3> QED BY <1>3, <1>4, <1>5, <3>1, <3>3, ContentsType
    <2>3. CASE w.command = "write"
      <3>1. device' = [device EXCEPT ![d] = Asks(Zeros)]
        BY <1>3, <1>7, <2>3 DEF Finish, Asking
      <3>3. UNCHANGED <<cache, medium>>
        BY <1>7, <2>3 DEF Finish
      <3> HIDE DEF Asks
      <3> QED BY <1>3, <1>4, <1>5, <3>1, <3>3, ContentsType
    <2>4. CASE w.command = "store"
      <3>1. /\ device' = [device EXCEPT ![d] = Idle] /\ UNCHANGED medium
            /\ cache' = [cache EXCEPT ![d][w.lba] = w.buffer]
        BY <1>7, <2>4 DEF Finish
      <3>2. w.buffer \in Contents
        BY <1>1 DEF Works
      <3>3. cache' \in [Present -> [Addresses -> Contents]]
        BY <1>3, <3>1, <3>2
      <3> QED BY <1>3, <1>5, <3>1, <3>3, IdleSound
    <2>5. CASE w.command = "flush"
      <3>1. /\ device' = [device EXCEPT ![d] = Idle] /\ UNCHANGED cache
            /\ medium' = [medium EXCEPT ![d] = cache[d]]
        BY <1>7, <2>5 DEF Finish
      <3> QED BY <1>3, <1>5, <3>1, IdleSound
    <2> QED BY <2>0, <2>1, <2>2, <2>3, <2>4, <2>5
  <1> QED BY <1>6, <1>7 DEF DriveWorks

(* A call, whatever the drives do.                                         *)
LEMMA IssueSound ==
  ASSUME TypeOK, Sane, NEW d \in Drives, NEW o \in {"identify", "read", "write", "flush"},
         NEW s \in Sectors \cup {0}, NEW n \in Counts \cup {0}, NEW b \in Contents,
         o \in {"read", "write"} => s \in Sectors /\ n <= SectorBytes,
         Issue(d, o, s, n, b), pc' \in {"probe", "poll", "transfer"}
  PROVE  TypeOK' /\ Sane'
  <1> DEFINE l == IF o \in {"read", "write"} THEN Address(s) ELSE 0
             v == [command |-> o, status |-> Busy, left |-> 0, lba |-> l, buffer |-> Zeros]
  <1>1. l \in Addresses \cup {0} /\ (o = "read" => l \in Addresses)
    BY AddressType
  <1>2. v \in Works /\ Sound(v)
    <2>1. Busy \in SUBSET {"BSY", "DRQ", "ERR", "RDY"} /\ 0 \in 0 .. SectorBytes
      BY StatusSets, Sizes
    <2> HIDE DEF l
    <2>2. v \in Works
      BY <1>1, <2>1, ContentsType DEF Works
    <2>3. v.status = Busy /\ v.command = o /\ v.lba = l
      OBVIOUS
    <2> HIDE DEF v
    <2> QED BY <1>1, <2>2, <2>3, StatusSets DEF Sound
  <1>3. device' = device \/ (d \in Present /\ device' = [device EXCEPT ![d] = v])
    BY DEF Issue, Commanded, Busy
  <1>4. device \in [Present -> Works]
    BY DEF TypeOK, Works
  <1> HIDE DEF v
  <1>5. device' \in [Present -> Works] /\ \A e \in Present : Sound(device'[e])
    BY <1>2, <1>3, <1>4 DEF Sane
  <1>6. /\ UNCHANGED <<cache, medium>> /\ op' = o /\ drive' = d /\ sector' = s
        /\ count' = n /\ data' = b /\ offset' = 0 /\ failed' = FALSE
    BY DEF Issue
  <1>7. /\ offset' \in 0 .. SectorBytes /\ offset' % 2 = 0 /\ offset' \in 0 .. Width - 1
        /\ op' \in {"read", "write"} => count' <= SectorBytes
    BY <1>6, Sizes
  <1>9. (offset \in 0 .. Width - 1 /\ (pc = "transfer" => offset <= SectorBytes))'
    BY <1>7, Sizes
  <1>8. TypeOK'
    BY <1>5, <1>6, <1>9 DEF TypeOK, Works
  <1> QED BY <1>5, <1>7, <1>8 DEF Sane

LEMMA CallSound == TypeOK /\ Sane /\ Call => TypeOK' /\ Sane'
  <1> SUFFICES ASSUME TypeOK, Sane, NEW d \in Drives,
                      \/ Identify(d) \/ Flush(d)
                      \/ \E s \in Sectors, n \in Counts :
                           Read28(d, s, n) \/ \E b \in Buffers : Write28(d, s, n, b)
               PROVE  TypeOK' /\ Sane'
    BY DEF Call
  <1>1. CASE Identify(d)
    <2>1. Issue(d, "identify", 0, 0, Zeros) /\ pc' = "probe"
      BY <1>1 DEF Identify
    <2> QED BY <2>1, IssueSound, ContentsType
  <1>2. CASE Flush(d)
    <2>1. Issue(d, "flush", 0, 0, Zeros) /\ pc' = "poll"
      BY <1>2 DEF Flush
    <2> QED BY <2>1, IssueSound, ContentsType
  <1>3. ASSUME NEW s \in Sectors, NEW n \in Counts, Read28(d, s, n)
        PROVE  TypeOK' /\ Sane'
    <2>1. Issue(d, "read", s, n, Zeros) /\ pc' = "poll"
      BY <1>3 DEF Read28
    <2>2. n <= SectorBytes
      BY <1>3 DEF Read28, Accepts
    <2> QED BY <2>1, <2>2, IssueSound, ContentsType
  <1>4. ASSUME NEW s \in Sectors, NEW n \in Counts, NEW b \in Buffers, Write28(d, s, n, b)
        PROVE  TypeOK' /\ Sane'
    <2>1. Issue(d, "write", s, n, b) /\ pc' = "transfer"
      BY <1>4 DEF Write28
    <2>2. b \in Contents /\ n <= SectorBytes
      BY <1>4, ContentsType DEF Write28, Accepts
    <2> QED BY <2>1, <2>2, IssueSound
  <1> QED BY <1>1, <1>2, <1>3, <1>4

(* The bytes a word that is written is made of.                            *)
LEMMA SentType ==
  ASSUME TypeOK, offset % 2 = 0, offset < SectorBytes
  PROVE  /\ offset \in Offsets /\ offset + 1 \in Offsets
         /\ offset + 2 \in 0 .. SectorBytes /\ (offset + 2) % 2 = 0
         /\ \A k \in Offsets : (IF BelowCount(k) THEN data[k] ELSE 0) \in Bytes
  <1>1. offset \in 0 .. SectorBytes
    BY Sizes DEF TypeOK
  <1>2. data \in [Offsets -> Bytes]
    BY DEF TypeOK, Contents
  <1>3. offset \in Offsets /\ offset + 1 \in Offsets
    BY <1>1, Sizes DEF Offsets
  <1>4. offset + 2 \in 0 .. SectorBytes /\ (offset + 2) % 2 = 0
    BY <1>1, Sizes
  <1> QED BY <1>2, <1>3, <1>4, ContentsType

LEMMA TransferSound == TypeOK /\ Sane /\ TransferWord => TypeOK' /\ Sane'
  <1> SUFFICES ASSUME TypeOK, Sane, TransferWord PROVE TypeOK' /\ Sane'
    OBVIOUS
  <1>0. offset < SectorBytes /\ offset % 2 = 0
    <2>1. op = "identify" \/ (op \in {"read", "write"} /\ count <= SectorBytes /\ count \in Int)
      BY Sizes DEF TransferWord, ReadWord, WriteWord, Sane, TypeOK
    <2> QED BY <2>1, Sizes DEF TransferWord, Wanted, Sane
  <1>1. offset < SectorBytes /\ offset' = offset + 2
        /\ UNCHANGED <<cache, medium, pc, args, failed>>
    BY <1>0 DEF TransferWord
  <1>2. /\ offset \in Offsets /\ offset + 1 \in Offsets
        /\ offset + 2 \in 0 .. SectorBytes /\ (offset + 2) % 2 = 0
        /\ \A k \in Offsets : (IF BelowCount(k) THEN data[k] ELSE 0) \in Bytes
    BY <1>0, SentType
  <1>3. drive \in Drives /\ data \in [Offsets -> Bytes]
    BY DEF TypeOK, Contents
  <1>4. /\ device' \in [Present -> Works] /\ \A e \in Present : Sound(device'[e])
        /\ data' \in Contents
    <2>1. CASE ReadWord
      <3>1. device' = AfterRead(drive)
        BY <2>1 DEF ReadWord
      <3>2. \A k \in Offsets : k \in {offset, offset + 1} => ReadByte(drive, k - offset) \in Bytes
        <4>1. \A k \in Offsets : k \in {offset, offset + 1} => k - offset \in {0, 1}
          BY <1>2 DEF Offsets
        <4> QED BY <1>3, <4>1, ReadByteType
      <3>3. data' = [k \in Offsets |->
                       IF op = "read" /\ BelowCount(k) /\ k \in {offset, offset + 1}
                       THEN ReadByte(drive, k - offset) ELSE data[k]]
        BY <2>1 DEF ReadWord
      <3>4. data' \in [Offsets -> Bytes]
        BY <1>3, <3>2, <3>3
      <3> QED BY <1>3, <3>1, <3>4, AfterReadSound DEF Contents
    <2>2. CASE WriteWord
      <3> DEFINE Byte(k) == IF BelowCount(k) THEN data[k] ELSE 0
      <3>1. device' = AfterWrite(drive, Byte(offset), Byte(offset + 1)) /\ data' = data
        BY <2>2 DEF WriteWord
      <3>2. Byte(offset) \in Bytes /\ Byte(offset + 1) \in Bytes
        BY <1>2
      <3> HIDE DEF Byte
      <3> QED BY <1>3, <3>1, <3>2, AfterWriteSound DEF TypeOK
    <2> QED BY <2>1, <2>2 DEF TransferWord
  <1>5. offset' \in 0 .. SectorBytes /\ offset' % 2 = 0 /\ offset' \in 0 .. Width - 1
    BY <1>1, <1>2, Sizes
  <1>6. TypeOK'
    BY <1>1, <1>4, <1>5 DEF TypeOK, Works, args
  <1> QED BY <1>1, <1>4, <1>5, <1>6 DEF Sane, args

LEMMA RestSound == TypeOK /\ Sane /\ RestWord => TypeOK' /\ Sane'
  <1> SUFFICES ASSUME TypeOK, Sane, RestWord PROVE TypeOK' /\ Sane'
    OBVIOUS
  <1>1. /\ pc = "rest" /\ offset < SectorBytes /\ offset' = offset + 2
        /\ UNCHANGED <<cache, medium, pc, args, data, failed>>
    BY DEF RestWord
  <1>2. drive \in Drives /\ 0 \in Bytes
    BY ContentsType DEF TypeOK
  <1>3. device' = AfterRead(drive) \/ device' = AfterWrite(drive, 0, 0)
    BY DEF RestWord
  <1>4. device' \in [Present -> Works] /\ \A e \in Present : Sound(device'[e])
    BY <1>2, <1>3, AfterReadSound, AfterWriteSound
  <1>5. offset' \in 0 .. Width - 1
    BY <1>1, Sizes DEF TypeOK
  <1>6. TypeOK'
    BY <1>1, <1>4, <1>5 DEF TypeOK, Works, args
  <1> QED BY <1>1, <1>4, <1>6 DEF Sane, args

THEOREM NextSound == TypeOK /\ Sane /\ [Next]_vars => TypeOK' /\ Sane'
  <1> SUFFICES ASSUME TypeOK, Sane, [Next]_vars PROVE TypeOK' /\ Sane'
    OBVIOUS
  <1>1. CASE Call
    BY <1>1, CallSound
  <1>2. CASE TransferWord
    BY <1>2, TransferSound
  <1>6. CASE RestWord
    BY <1>6, RestSound
  <1>7. CASE EndWanted
    <2>1. /\ UNCHANGED <<drives, args, data, failed>> /\ pc' \in {"idle", "rest"}
          /\ offset' = offset \/ offset' = RestStart(count)
      BY <1>7 DEF EndWanted
    <2>2. count \in Int
      BY Sizes DEF TypeOK
    <2>3. offset' \in 0 .. Width - 1
      BY <2>1, <2>2, RestStartType DEF TypeOK
    <2> QED BY <2>1, <2>3 DEF TypeOK, Sane, drives, args
  <1>3. CASE Probe \/ Poll \/ EndTransfer
    <2>1. UNCHANGED <<drives, args, data, offset>>
      BY <1>3 DEF Probe, Poll, EndTransfer
    <2>3. pc' \in {"poll", "transfer"} => offset' \in 0 .. SectorBytes /\ offset' % 2 = 0
      BY <1>3, <2>1 DEF Probe, Poll, EndTransfer, Sane
    <2>2. pc' \in {"idle", "poll", "transfer"} /\ failed' \in BOOLEAN
      <3>1. CASE Probe
        BY <3>1 DEF Probe, TypeOK
      <3>2. CASE Poll
        <4>1. pc' \in {"idle", "transfer"}
          BY <3>2 DEF Poll
        <4>2. failed' \in BOOLEAN
          BY <3>2 DEF Poll
        <4> QED BY <4>1, <4>2
      <3>3. CASE EndTransfer
        BY <3>3 DEF EndTransfer, TypeOK
      <3> QED BY <1>3, <3>1, <3>2, <3>3
    <2> QED BY <2>1, <2>2, <2>3 DEF TypeOK, Sane, drives, args
  <1>4. ASSUME NEW d \in Present, DriveWorks(d) PROVE TypeOK' /\ Sane'
    <2>1. /\ device' \in [Present -> Works] /\ \A e \in Present : Sound(device'[e])
          /\ cache' \in [Present -> [Addresses -> Contents]]
          /\ medium' \in [Present -> [Addresses -> Contents]]
      BY <1>4, DriveWorksSound
    <2>2. UNCHANGED <<pc, args, data, offset, failed>>
      BY <1>4 DEF DriveWorks
    <2>3. TypeOK'
      BY <2>1, <2>2 DEF TypeOK, args, Works
    <2> QED BY <2>1, <2>2, <2>3 DEF Sane, args
  <1>5. CASE UNCHANGED vars
    BY <1>5 DEF vars, drives, args, TypeOK, Sane
  <1> QED BY <1>1, <1>2, <1>3, <1>4, <1>5, <1>6, <1>7 DEF Next, Proceed

LEMMA InitSound == Init => TypeOK /\ Sane
  <1> SUFFICES ASSUME Init PROVE TypeOK /\ Sane
    OBVIOUS
  <1>1. Idle \in Works
    BY IdleSound DEF Sound
  <1>2. /\ device \in [Present -> Works] /\ \A d \in Present : device[d] = Idle
        /\ cache \in [Present -> [Addresses -> Contents]] /\ medium = cache
    BY <1>1, ContentsType DEF Init
  <1>3. /\ pc = "idle" /\ op = "none" /\ drive \in Drives /\ sector = 0 /\ count = 0
        /\ data \in Contents /\ offset \in 0 .. Width - 1 /\ failed = FALSE
    BY Sizes, ContentsType DEF Init, Drives
  <1>4. TypeOK
    BY <1>2, <1>3 DEF TypeOK, Works
  <1> QED BY <1>2, <1>3, <1>4, IdleSound DEF Sane

(* In every run, whatever counts callers pass and whatever the pace of the *)
(* drives, every variable has its type: no drive counts past the end of a  *)
(* sector, and no loop over the caller's bytes passes the end of one.      *)
THEOREM DriverTypeOK == Spec => []TypeOK
  <1>1. Init => TypeOK /\ Sane
    BY InitSound
  <1>2. (TypeOK /\ Sane) /\ [Next]_vars => (TypeOK /\ Sane)'
    BY NextSound
  <1> QED BY <1>1, <1>2, PTL DEF Spec
-----------------------------------------------------------------------------
(***************************************************************************)
(* From here on, the drives keep up with writes (Prompt), and callers pass *)
(* no negative count.                                                      *)
(***************************************************************************)
Usual == Prompt = TRUE /\ Counts \subseteq Nat

LEMMA InitiallyInv == Init => IInv
  <1> SUFFICES ASSUME Init PROVE IInv
    OBVIOUS
  <1>1. pc = "idle" /\ op = "none" /\ \A d \in Present : device[d] = Idle
    BY DEF Init
  <1>2. Resting /\ Storing
    BY <1>1, IdleSound, StatusSets DEF Resting, Storing
  <1>3. Calls /\ Polling /\ Reading /\ Writing
    BY <1>1 DEF Calls, Polling, Reading, Writing, Moving
  <1>4. Bounds
    BY <1>1 DEF Bounds, Moving
  <1> QED BY <1>2, <1>3, <1>4, InitSound DEF IInv

(* The loops keep to the words of the sector.                              *)
LEMMA BoundsStep == IInv /\ Usual /\ [Next]_vars => Bounds'
  <1> SUFFICES ASSUME IInv, Usual, [Next]_vars PROVE Bounds'
    OBVIOUS
  <1> USE DEF Moving
  <1>1. TypeOK /\ Sane /\ Bounds /\ Calls
    BY DEF IInv
  <1>2. CASE Call
    <2>1. /\ offset' = 0 /\ count' \in Counts \cup {0} /\ pc' \in {"probe", "poll", "transfer"}
          /\ pc' = "transfer" => op' = "write"
      BY <1>2 DEF Call, Identify, Flush, Read28, Write28, Issue
    <2>2. count' \in Nat
      BY <2>1 DEF Usual
    <2>3. 0 \in 0 .. SectorBytes /\ 0 % 2 = 0
      BY Sizes
    <2>4. \A n \in Nat : 0 < n + 2
      OBVIOUS
    <2>5. offset' < count' + 2
      BY <2>1, <2>2, <2>4
    <2> QED BY <2>1, <2>2, <2>3, <2>5 DEF Bounds
  <1>3. CASE Probe \/ Poll \/ EndTransfer
    <2>1. /\ UNCHANGED <<op, count, offset>> /\ pc' \in {"idle", "poll", "transfer"}
          /\ pc' = "transfer" => pc = "poll"
      BY <1>3 DEF Probe, Poll, EndTransfer, args
    <2>2. pc' = "transfer" => offset = 0
      BY <1>1, <2>1 DEF Calls
    <2>3. pc' = "transfer" => op \in {"identify", "read"}
      BY <1>1, <1>3, <2>1 DEF Calls, Probe, Poll, EndTransfer
    <2> QED BY <1>1, <2>1, <2>2, <2>3, Sizes DEF Bounds
  <1>4. CASE TransferWord
    <2>1. /\ pc = "transfer" /\ pc' = pc /\ op' = op /\ count' = count
          /\ offset < Wanted /\ offset' = offset + 2
      BY <1>4 DEF TransferWord, args
    <2>2. offset \in 0 .. SectorBytes /\ offset % 2 = 0
      BY <1>1, <2>1 DEF Bounds
    <2>3. op = "identify" \/ (op \in {"read", "write"} /\ count \in Nat /\ count <= SectorBytes)
      BY <1>1, <1>4 DEF TransferWord, ReadWord, WriteWord, Sane, Bounds
    <2>4. offset + 2 \in 0 .. SectorBytes /\ (offset + 2) % 2 = 0
      BY <2>1, <2>2, <2>3, Sizes DEF Wanted
    <2>5. op # "identify" => offset + 2 < count + 2
      BY <2>1, <2>2, <2>3 DEF Wanted
    <2> QED BY <1>1, <2>1, <2>4, <2>5 DEF Bounds
  <1>5. CASE EndWanted
    <2>1. CASE op = "identify"
      BY <1>1, <1>5, <2>1 DEF EndWanted, Bounds, args
    <2>2. CASE op # "identify"
      <3>1. /\ op \in {"read", "write"} /\ count \in Nat /\ count <= SectorBytes
            /\ offset \in Nat /\ offset % 2 = 0 /\ offset < count + 2 /\ count <= offset
        BY <1>1, <1>5, <2>2, Sizes DEF EndWanted, Wanted, Calls, Bounds, Sane
      <3>2. RestStart(count) = offset /\ offset <= SectorBytes
        BY <3>1, RestStartsBehind
      <3>3. pc' = "rest" /\ offset' = offset /\ op' = op /\ count' = count
        BY <1>5, <2>2, <3>2 DEF EndWanted, args
      <3> QED BY <3>1, <3>2, <3>3 DEF Bounds
    <2> QED BY <2>1, <2>2
  <1>6. CASE RestWord
    <2>1. /\ pc = "rest" /\ pc' = pc /\ op' = op /\ count' = count
          /\ offset < SectorBytes /\ offset' = offset + 2
      BY <1>6 DEF RestWord, args
    <2>2. offset \in 0 .. SectorBytes /\ offset % 2 = 0 /\ count \in Nat /\ count <= offset
      BY <1>1, <2>1 DEF Bounds
    <2>3. offset + 2 \in 0 .. SectorBytes /\ (offset + 2) % 2 = 0 /\ count <= offset + 2
      BY <2>1, <2>2, Sizes
    <2> QED BY <1>1, <2>1, <2>2, <2>3 DEF Bounds
  <1>7. CASE (\E d \in Present : DriveWorks(d)) \/ UNCHANGED vars
    BY <1>1, <1>7 DEF DriveWorks, vars, args, Bounds
  <1> QED BY <1>2, <1>3, <1>4, <1>5, <1>6, <1>7 DEF Next, Proceed

(* A word of the second loop is moved as one of the first would be: there  *)
(* is nothing of the caller's in it.                                       *)
OneWord ==
  /\ Moving /\ offset < SectorBytes /\ DriveKeepsUp
  /\ ReadWord \/ WriteWord
  /\ offset' = offset + 2
  /\ UNCHANGED <<cache, medium, pc, args, failed>>

LEMMA WordsAreAlike == IInv /\ (TransferWord \/ RestWord) => OneWord
  <1> SUFFICES ASSUME IInv, TransferWord \/ RestWord PROVE OneWord
    OBVIOUS
  <1>1. TypeOK /\ Sane /\ Bounds
    BY DEF IInv
  <1>2. CASE TransferWord
    <2>1. op = "identify" \/ (op \in {"read", "write"} /\ count <= SectorBytes /\ count \in Int)
      BY <1>1, <1>2 DEF TransferWord, ReadWord, WriteWord, Sane, Bounds
    <2>2. offset < SectorBytes
      BY <1>1, <1>2, <2>1, Sizes DEF TransferWord, Wanted, Sane
    <2> QED BY <1>2, <2>2 DEF TransferWord, OneWord, Moving
  <1>3. CASE RestWord
    <2>1. /\ op \in {"read", "write"} /\ count \in Nat /\ count <= offset
          /\ offset \in 0 .. SectorBytes /\ offset < SectorBytes /\ data' = data
          /\ data \in [Offsets -> Bytes]
      BY <1>1, <1>3 DEF RestWord, Bounds, TypeOK, Moving, Contents
    <2>2. \A k \in {offset, offset + 1} : ~BelowCount(k)
      BY <2>1, Sizes DEF BelowCount
    <2>3. CASE op = "read"
      <3>1. data' = [k \in Offsets |->
                       IF op = "read" /\ BelowCount(k) /\ k \in {offset, offset + 1}
                       THEN ReadByte(drive, k - offset) ELSE data[k]]
        BY <2>1, <2>2
      <3> QED BY <1>3, <2>3, <3>1 DEF RestWord, ReadWord, OneWord, Moving
    <2>4. CASE op = "write"
      <3>1. device' = AfterWrite(drive, 0, 0)
        BY <1>3, <2>4 DEF RestWord
      <3>2. WriteWord
        BY <2>1, <2>2, <2>4, <3>1 DEF WriteWord
      <3> QED BY <1>3, <3>2 DEF RestWord, OneWord, Moving
    <2> QED BY <2>1, <2>3, <2>4
  <1> QED BY <1>2, <1>3

(* A call finds every drive at rest: it is either done or has failed, and  *)
(* the one the call is for takes the command.                              *)
LEMMA IssueStep ==
  ASSUME IInv, Prompt = TRUE,
         NEW d \in Drives, NEW o \in {"identify", "read", "write", "flush"},
         NEW s, NEW n, NEW b,
         Issue(d, o, s, n, b), TypeOK', Sane', Bounds',
         o \in {"read", "write"} => s \in Sectors, o # "write" => b = Zeros,
         pc' = IF o = "write" THEN "transfer" ELSE IF o = "identify" THEN "probe" ELSE "poll"
  PROVE  IInv'
  <1> DEFINE l == IF o \in {"read", "write"} THEN Address(s) ELSE 0
             v == [command |-> o, status |-> Busy, left |-> 0, lba |-> l, buffer |-> Zeros]
  <1>1. /\ TypeOK /\ Sane /\ Resting /\ pc = "idle" /\ DriveKeepsUp
    BY DEF IInv, Issue
  <1>2. ASSUME NEW e \in Present PROVE device[e].status \in {Ready, Failed}
    <2>1. device[e].status \in {Ready, Busy, Asking, Failed}
      BY <1>1 DEF Sane, Sound
    <2>2. device[e].status # Asking /\ (device[e].status = Busy => device[e].command = "store")
      BY <1>1 DEF Resting
    <2>3. device[e].status = Busy => device[e].command \notin {"write", "store"}
      BY <1>1, StatusSets DEF DriveKeepsUp
    <2> QED BY <2>1, <2>2, <2>3
  <1>3. ASSUME NEW e \in Present PROVE device'[e] = IF e = d THEN v ELSE device[e]
    <2>1. e = d => device[d].status \cap {"BSY", "DRQ"} = {}
      BY <1>2 DEF Ready, Failed
    <2>2. device' = Commanded(d, o, l)
      BY DEF Issue
    <2> QED BY <1>1, <2>1, <2>2, CommandedDrive
  <1>4. /\ op' = o /\ drive' = d /\ sector' = s /\ count' = n /\ data' = b
        /\ offset' = 0 /\ pc' \in {"probe", "poll", "transfer"}
    BY DEF Issue
  <1>5. v.status = Busy /\ v.command = o /\ (o \in {"read", "write"} => v.lba = Address(s))
    OBVIOUS
  <1> HIDE DEF v, l
  <1>6. Calls'
    BY <1>4 DEF Calls
  <1>7. Resting'
    <2> SUFFICES ASSUME NEW e \in Present, e # drive' PROVE (device'[e]).status \in {Ready, Failed}
      BY <1>4 DEF Resting
    <2> QED BY <1>2, <1>3, <1>4
  <1>8. Polling'
    <2> SUFFICES ASSUME pc' \in {"probe", "poll"}, d \in Present
                 PROVE  (device'[d]).status = Busy /\ Told(device[d], o)'
      BY <1>4 DEF Polling
    <2>1. device'[d] = v
      BY <1>3
    <2> QED BY <1>4, <1>5, <2>1 DEF Told
  <1>9. Reading'
    BY <1>4 DEF Reading, Moving
  <1>10. Writing'
    <2> SUFFICES ASSUME op' = "write", d \in Present
                 PROVE  (device'[d]).status = Busy /\ Told(device[d], "write")'
      BY <1>4 DEF Writing
    <2>1. device'[d] = v
      BY <1>3
    <2> QED BY <1>4, <1>5, <2>1 DEF Told
  <1>11. Storing'
    <2> SUFFICES ASSUME NEW e \in Present, (device'[e]).status = Busy,
                        (device'[e]).command = "store"
                 PROVE  FALSE
      BY DEF Storing
    <2> QED BY <1>2, <1>3, <1>5, StatusSets
  <1> QED BY <1>6, <1>7, <1>8, <1>9, <1>10, <1>11 DEF IInv

LEMMA CallStep == IInv /\ Prompt = TRUE /\ Call /\ TypeOK' /\ Sane' /\ Bounds' => IInv'
  <1> SUFFICES ASSUME IInv, Prompt = TRUE, TypeOK', Sane', Bounds', NEW d \in Drives,
                      \/ Identify(d) \/ Flush(d)
                      \/ \E s \in Sectors, n \in Counts :
                           Read28(d, s, n) \/ \E b \in Buffers : Write28(d, s, n, b)
               PROVE  IInv'
    BY DEF Call
  <1>1. CASE Identify(d)
    <2>1. Issue(d, "identify", 0, 0, Zeros) /\ pc' = "probe"
      BY <1>1 DEF Identify
    <2> QED BY <2>1, IssueStep
  <1>2. CASE Flush(d)
    <2>1. Issue(d, "flush", 0, 0, Zeros) /\ pc' = "poll"
      BY <1>2 DEF Flush
    <2> QED BY <2>1, IssueStep
  <1>3. ASSUME NEW s \in Sectors, NEW n \in Counts, Read28(d, s, n) PROVE IInv'
    <2>1. Issue(d, "read", s, n, Zeros) /\ pc' = "poll"
      BY <1>3 DEF Read28
    <2> QED BY <2>1, IssueStep
  <1>4. ASSUME NEW s \in Sectors, NEW n \in Counts, NEW b \in Buffers, Write28(d, s, n, b)
        PROVE  IInv'
    <2>1. Issue(d, "write", s, n, b) /\ pc' = "transfer"
      BY <1>4 DEF Write28
    <2> QED BY <2>1, IssueStep
  <1> QED BY <1>1, <1>2, <1>3, <1>4

(* The status loops leave the drive as it is; they end when it is done.    *)
LEMMA ProbeStep == IInv /\ Probe /\ TypeOK' /\ Sane' /\ Bounds' => IInv'
  <1> SUFFICES ASSUME IInv, Probe, TypeOK', Sane', Bounds' PROVE IInv'
    OBVIOUS
  <1>1. /\ pc = "probe" /\ pc' \in {"idle", "poll"}
        /\ UNCHANGED <<device, cache, medium, op, drive, sector, count, data, offset>>
    BY DEF Probe, drives, args
  <1>2. drive \in Present => pc' = "poll"
    BY StatusBits DEF IInv, Probe, Status
  <1>3. Calls'
    BY <1>1 DEF IInv, Calls
  <1>4. Resting'
    <2> SUFFICES ASSUME NEW e \in Present
                 PROVE  /\ e # drive => device[e].status \in {Ready, Failed}
                        /\ pc' = "idle" => e # drive
      BY <1>1, StatusSets DEF Resting
    <2> QED BY <1>1, <1>2 DEF IInv, Resting
  <1>5. Polling' /\ Reading' /\ Writing'
    BY <1>1 DEF IInv, Polling, Reading, Writing, Told, Source, Moving
  <1>6. Storing'
    BY <1>1 DEF IInv, Storing, Padded
  <1> QED BY <1>3, <1>4, <1>5, <1>6 DEF IInv

LEMMA PollStep == IInv /\ Poll /\ TypeOK' /\ Sane' /\ Bounds' => IInv'
  <1> SUFFICES ASSUME IInv, Poll, TypeOK', Sane', Bounds' PROVE IInv'
    OBVIOUS
  <1>1. /\ pc = "poll" /\ pc' \in {"idle", "transfer"} /\ op \in {"identify", "read", "flush"}
        /\ offset = 0 /\ data = Zeros
        /\ UNCHANGED <<device, cache, medium, op, drive, sector, count, data, offset>>
    BY DEF Poll, drives, args, IInv, Calls
  <1>2. ASSUME drive \in Present
        PROVE  /\ device[drive].status # Busy
               /\ pc' = "transfer" <=> device[drive].status = Asking
    <2>1. Status(drive) = device[drive].status
      BY <1>2 DEF Status
    <2>2. device[drive].status # Busy
      BY <1>2, <2>1, StatusSets DEF Poll, WaitsOver
    <2>3. \/ device[drive].status = Failed
          \/ device[drive].status = Ready /\ op = "flush"
          \/ device[drive].status = Asking /\ op # "flush"
      BY <1>1, <1>2, <2>2 DEF IInv, Polling
    <2>4. pc' = IF "ERR" \in device[drive].status \/ op = "flush" THEN "idle" ELSE "transfer"
      BY <2>1 DEF Poll
    <2>5. CASE device[drive].status = Failed
      BY <2>4, <2>5, StatusSets
    <2>6. CASE device[drive].status = Ready /\ op = "flush"
      BY <2>4, <2>6, StatusSets
    <2>7. CASE device[drive].status = Asking /\ op # "flush"
      BY <2>4, <2>7, StatusSets
    <2> QED BY <2>3, <2>5, <2>6, <2>7
  <1>3. pc' = "transfer" => op # "flush"
    BY DEF Poll
  <1>4. Calls'
    BY <1>1, <1>3 DEF IInv, Calls
  <1>5. Resting'
    <2> SUFFICES ASSUME NEW e \in Present
                 PROVE  /\ e # drive => device[e].status \in {Ready, Failed}
                        /\ pc' = "idle" /\ e = drive => device[e].status \in {Ready, Failed}
      BY <1>1, StatusSets DEF Resting
    <2>1. e # drive => device[e].status \in {Ready, Failed}
      BY <1>1 DEF IInv, Resting
    <2>2. device[e].status \in {Ready, Busy, Asking, Failed}
      BY DEF IInv, Sane, Sound
    <2> QED BY <1>1, <1>2, <2>1, <2>2
  <1>6. Reading'
    <2> SUFFICES ASSUME pc' = "transfer", drive \in Present
                 PROVE  /\ device[drive].status = Asking /\ Told(device[drive], op)
                        /\ device[drive].left = SectorBytes - offset
                        /\ device[drive].buffer = Source
                        /\ data = [k \in Offsets |-> IF k < offset /\ k < count
                                                     THEN Source[k] ELSE 0]
      BY <1>1, Sizes DEF Reading, Told, Source, Moving
    <2>1. device[drive].status = Asking
      BY <1>2
    <2>2. /\ Told(device[drive], op) /\ device[drive].left = SectorBytes
          /\ device[drive].buffer = Source
      BY <1>1, <2>1, StatusSets DEF IInv, Polling
    <2>3. \A k \in Offsets : ~(k < 0)
      BY DEF Offsets
    <2>4. data = [k \in Offsets |-> IF k < offset /\ k < count THEN Source[k] ELSE 0]
      BY <1>1, <2>3 DEF Zeros
    <2>5. SectorBytes = SectorBytes - offset
      BY <1>1, Sizes
    <2> QED BY <2>1, <2>2, <2>4, <2>5
  <1>7. Polling' /\ Writing'
    BY <1>1 DEF Polling, Writing
  <1>8. Storing'
    <2>1. \A e \in Present : ~(device[e].status = Busy /\ device[e].command = "store")
      BY <1>1 DEF IInv, Storing
    <2> QED BY <1>1, <2>1 DEF Storing
  <1> QED BY <1>4, <1>5, <1>6, <1>7, <1>8 DEF IInv

(* A transfer ends where the drive, too, is done with the sector.          *)
LEMMA EndTransferStep == IInv /\ EndTransfer /\ TypeOK' /\ Sane' /\ Bounds' => IInv'
  <1> SUFFICES ASSUME IInv, EndTransfer, TypeOK', Sane', Bounds' PROVE IInv'
    OBVIOUS
  <1>1. /\ pc = "rest" /\ pc' = "idle"
        /\ UNCHANGED <<device, cache, medium, op, drive, sector, count, data, offset>>
    BY DEF EndTransfer, drives, args
  <1>2. offset = SectorBytes
    BY Sizes DEF EndTransfer, IInv, Bounds, Moving
  <1>3. Calls'
    BY <1>1 DEF IInv, Calls
  <1>4. Resting'
    <2> SUFFICES ASSUME NEW e \in Present
                 PROVE  /\ device[e].status # Asking
                        /\ device[e].status = Busy => device[e].command = "store"
      BY <1>1 DEF Resting
    <2>1. CASE e # drive
      BY <1>1, <2>1, StatusSets DEF IInv, Resting
    <2>2. CASE e = drive /\ op # "write"
      BY <1>1, <1>2, <2>2, StatusSets DEF IInv, Reading, Moving
    <2>3. CASE e = drive /\ op = "write"
      <3>1. \/ device[e].status = Busy /\ device[e].command = "store"
            \/ device[e].status \in {Ready, Failed}
        BY <1>1, <1>2, <2>3, Sizes DEF IInv, Writing, Moving
      <3> QED BY <3>1, StatusSets
    <2> QED BY <2>1, <2>2, <2>3
  <1>5. Polling' /\ Reading' /\ Writing'
    BY <1>1 DEF Polling, Reading, Writing, Moving
  <1>6. Storing'
    BY <1>1 DEF IInv, Storing, Padded
  <1> QED BY <1>3, <1>4, <1>5, <1>6 DEF IInv

(* The first loop ends where the second one begins.                        *)
LEMMA EndWantedStep == IInv /\ EndWanted /\ TypeOK' /\ Sane' /\ Bounds' => IInv'
  <1> SUFFICES ASSUME IInv, EndWanted, TypeOK', Sane', Bounds' PROVE IInv'
    OBVIOUS
  <1>0. /\ pc = "transfer" /\ op \in {"identify", "read", "write"}
        /\ UNCHANGED <<device, cache, medium, op, drive, sector, count, data>>
    BY DEF EndWanted, drives, args, IInv, Calls
  <1>1. CASE op = "identify"
    <2>1. pc' = "idle" /\ offset' = offset /\ offset >= SectorBytes
      BY <1>1 DEF EndWanted, Wanted
    <2>2. offset = SectorBytes
      BY <1>0, <2>1, Sizes DEF IInv, Bounds, Moving
    <2>3. Calls'
      BY <1>0, <2>1 DEF IInv, Calls
    <2>4. Resting'
      <3> SUFFICES ASSUME NEW e \in Present PROVE device[e].status \in {Ready, Failed}
        BY <1>0, <2>1, StatusSets DEF Resting
      <3>1. CASE e # drive
        BY <1>0, <3>1 DEF IInv, Resting
      <3>2. CASE e = drive
        BY <1>0, <1>1, <2>2, <3>2 DEF IInv, Reading, Moving
      <3> QED BY <3>1, <3>2
    <2>5. Polling' /\ Reading' /\ Writing'
      BY <2>1 DEF Polling, Reading, Writing, Moving
    <2>6. Storing'
      BY <1>0, <1>1 DEF IInv, Storing
    <2> QED BY <2>3, <2>4, <2>5, <2>6 DEF IInv
  <1>2. CASE op # "identify"
    <2>1. /\ count \in Nat /\ count <= SectorBytes
          /\ offset \in Nat /\ offset % 2 = 0 /\ offset < count + 2 /\ count <= offset
      BY <1>0, <1>2, Sizes DEF EndWanted, Wanted, IInv, Bounds, Sane, Moving
    <2>2. pc' = "rest" /\ offset' = offset
      BY <1>2, <2>1, RestStartsBehind DEF EndWanted
    <2>3. Calls'
      BY <1>0, <2>2 DEF IInv, Calls
    <2>4. Resting'
      BY <1>0, <2>2 DEF IInv, Resting
    <2>5. Polling' /\ Reading'
      BY <1>0, <2>2 DEF IInv, Polling, Reading, Moving, Told, Source
    <2>6. Writing'
      <3>1. Padded' = Padded
        BY <1>0 DEF Padded
      <3> QED BY <1>0, <2>2, <3>1 DEF IInv, Writing, Moving, Told
    <2>7. Storing'
      BY <1>0, <2>2 DEF IInv, Storing, Padded
    <2> QED BY <2>3, <2>4, <2>5, <2>6, <2>7 DEF IInv
  <1> QED BY <1>1, <1>2

(* What a drive that is busy with c makes of its own work.                 *)
LEMMA WorkDone ==
  ASSUME TypeOK, Sane, NEW d \in Present, DriveWorks(d)
  PROVE  /\ device[d].status = Busy
         /\ \A e \in Present : e # d => device'[e] = device[e]
         /\ \/ (device'[d]).status = Failed /\ UNCHANGED <<cache, medium>>
            \/ /\ device[d].command \in {"read", "identify", "write"}
               /\ (device'[d]).status = Asking /\ UNCHANGED <<cache, medium>>
               /\ (device'[d]).command = device[d].command
               /\ (device'[d]).lba = device[d].lba /\ (device'[d]).left = SectorBytes
               /\ (device'[d]).buffer =
                    CASE device[d].command = "read" -> cache[d][device[d].lba]
                      [] device[d].command = "identify" -> Identity
                      [] device[d].command = "write" -> Zeros
            \/ /\ device[d].command = "store" /\ (device'[d]).status = Ready
               /\ cache' = [cache EXCEPT ![d][device[d].lba] = device[d].buffer]
               /\ UNCHANGED medium
            \/ /\ device[d].command = "flush" /\ (device'[d]).status = Ready
               /\ medium' = [medium EXCEPT ![d] = cache[d]]
               /\ UNCHANGED cache
  <1> DEFINE w == device[d]
             Asks(b) == [w EXCEPT !.status = Asking, !.left = SectorBytes, !.buffer = b]
  <1>1. Sound(w) /\ w \in Works
    BY DEF Sane, Sound
  <1>2. w.status = Busy /\ w.command # "none"
    BY <1>1, StatusSets DEF DriveWorks, Sound
  <1>3. device \in [Present -> Works]
    BY DEF TypeOK, Works
  <1>4. \A b : /\ Asks(b).status = Asking /\ Asks(b).command = w.command
               /\ Asks(b).lba = w.lba /\ Asks(b).left = SectorBytes
               /\ Asks(b).buffer = b
    BY <1>1 DEF Works
  <1>5. \A v : device' = [device EXCEPT ![d] = v] =>
          device'[d] = v /\ \A e \in Present : e # d => device'[e] = device[e]
    BY <1>3
  <1>6. CASE Fail(d)
    <2> DEFINE v == [Idle EXCEPT !.status = Failed]
    <2>1. v.status = Failed
      BY DEF Idle
    <2>2. device' = [device EXCEPT ![d] = v]
      BY <1>6 DEF Fail, Failed
    <2> HIDE DEF v
    <2> QED BY <1>2, <1>5, <1>6, <2>1, <2>2 DEF Fail
  <1>7. CASE Finish(d)
    <2>0. w.command \in {"identify", "read", "write", "store", "flush"}
      BY <1>1, <1>2 DEF Works
    <2>1. CASE w.command = "read"
      <3>1. device' = [device EXCEPT ![d] = Asks(cache[d][w.lba])]
        BY <1>3, <1>7, <2>1 DEF Finish, Asking
      <3>2. UNCHANGED <<cache, medium>>
        BY <1>7, <2>1 DEF Finish
      <3> HIDE DEF Asks
      <3> QED BY <1>2, <1>4, <1>5, <2>1, <3>1, <3>2
    <2>2. CASE w.command = "identify"
      <3>1. device' = [device EXCEPT ![d] = Asks(Identity)]
        BY <1>3, <1>7, <2>2 DEF Finish, Asking
      <3>2. UNCHANGED <<cache, medium>>
        BY <1>7, <2>2 DEF Finish
      <3> HIDE DEF Asks
      <3> QED BY <1>2, <1>4, <1>5, <2>2, <3>1, <3>2
    <2>3. CASE w.command = "write"
      <3>1. device' = [device EXCEPT ![d] = Asks(Zeros)]
        BY <1>3, <1>7, <2>3 DEF Finish, Asking
      <3>2. UNCHANGED <<cache, medium>>
        BY <1>7, <2>3 DEF Finish
      <3> HIDE DEF Asks
      <3> QED BY <1>2, <1>4, <1>5, <2>3, <3>1, <3>2
    <2>4. CASE w.command = "store"
      <3>1. /\ device' = [device EXCEPT ![d] = Idle] /\ UNCHANGED medium
            /\ cache' = [cache EXCEPT ![d][w.lba] = w.buffer]
        BY <1>7, <2>4 DEF Finish
      <3> QED BY <1>2, <1>5, <2>4, <3>1, IdleSound
    <2>5. CASE w.command = "flush"
      <3>1. /\ device' = [device EXCEPT ![d] = Idle] /\ UNCHANGED cache
            /\ medium' = [medium EXCEPT ![d] = cache[d]]
        BY <1>7, <2>5 DEF Finish
      <3> QED BY <1>2, <1>5, <2>5, <3>1, IdleSound
    <2> QED BY <2>0, <2>1, <2>2, <2>3, <2>4, <2>5
  <1> QED BY <1>6, <1>7 DEF DriveWorks

LEMMA DriveStep ==
  ASSUME IInv, TypeOK', Sane', Bounds', NEW d \in Present, DriveWorks(d)
  PROVE  IInv'
  <1> USE DEF IInv
  <1>1. /\ device[d].status = Busy /\ pc \in {"idle", "probe", "poll", "transfer", "rest"}
        /\ \A e \in Present : e # d => device'[e] = device[e]
        /\ UNCHANGED <<pc, op, drive, sector, count, data, offset>>
    BY WorkDone DEF DriveWorks, args, TypeOK
  <1>2. \/ (device'[d]).status = Failed /\ UNCHANGED <<cache, medium>>
        \/ /\ device[d].command \in {"read", "identify", "write"}
           /\ (device'[d]).status = Asking /\ UNCHANGED <<cache, medium>>
           /\ (device'[d]).command = device[d].command
           /\ (device'[d]).lba = device[d].lba /\ (device'[d]).left = SectorBytes
           /\ (device'[d]).buffer =
                CASE device[d].command = "read" -> cache[d][device[d].lba]
                  [] device[d].command = "identify" -> Identity
                  [] device[d].command = "write" -> Zeros
        \/ /\ device[d].command = "store" /\ (device'[d]).status = Ready
           /\ cache' = [cache EXCEPT ![d][device[d].lba] = device[d].buffer]
           /\ UNCHANGED medium
        \/ /\ device[d].command = "flush" /\ (device'[d]).status = Ready
           /\ medium' = [medium EXCEPT ![d] = cache[d]]
           /\ UNCHANGED cache
    BY WorkDone
  <1>3. IF pc = "idle" THEN device[d].command = "store" ELSE d = drive
    BY <1>1, StatusSets DEF Resting
  <1>4. Calls'
    BY <1>1 DEF Calls
  <1>5. Resting'
    <2> SUFFICES ASSUME NEW e \in Present
                 PROVE  IF pc = "idle"
                        THEN /\ (device'[e]).status # Asking
                             /\ (device'[e]).status = Busy => (device'[e]).command = "store"
                        ELSE e # drive => (device'[e]).status \in {Ready, Failed}
      BY <1>1 DEF Resting
    <2>1. CASE e # d
      BY <1>1, <2>1 DEF Resting
    <2>2. CASE e = d
      BY <1>2, <1>3, <2>2, StatusSets
    <2> QED BY <2>1, <2>2
  <1>6. Polling'
    <2> SUFFICES ASSUME pc \in {"probe", "poll"}, drive \in Present
                 PROVE  Polling'
      BY <1>1 DEF Polling
    <2>1. d = drive /\ Told(device[d], op) /\ op \in {"identify", "read", "flush"}
          /\ (op = "read" => device[d].lba = Address(sector))
      <3>1. d = drive /\ op \in {"identify", "read", "flush"}
        BY <1>3 DEF Calls
      <3>2. Told(device[d], op)
        BY <1>1, <3>1, StatusSets DEF Polling
      <3> QED BY <3>1, <3>2 DEF Told
    <2>2. device[d].command = op
      BY <2>1 DEF Told
    <2>3. CASE (device'[d]).status = Failed
      BY <1>1, <2>1, <2>3 DEF Polling
    <2>4. CASE op \in {"identify", "read"} /\ (device'[d]).status # Failed
      <3>1. /\ (device'[d]).status = Asking /\ UNCHANGED <<cache, medium>>
            /\ (device'[d]).command = device[d].command
            /\ (device'[d]).lba = device[d].lba /\ (device'[d]).left = SectorBytes
            /\ op = "read" => (device'[d]).buffer = cache[d][device[d].lba]
            /\ op = "identify" => (device'[d]).buffer = Identity
        BY <1>2, <2>2, <2>4
      <3>2. (device'[d]).buffer = Source
        BY <2>1, <2>4, <3>1 DEF Source
      <3>3. Source' = Source
        BY <1>1, <3>1 DEF Source
      <3>4. Told(device[d], op)'
        BY <1>1, <2>1, <3>1 DEF Told
      <3> QED BY <1>1, <2>1, <2>4, <3>1, <3>2, <3>3, <3>4 DEF Polling
    <2>5. CASE op = "flush" /\ (device'[d]).status # Failed
      <3>1. /\ (device'[d]).status = Ready /\ cache' = cache
            /\ medium' = [medium EXCEPT ![d] = cache[d]]
        BY <1>2, <2>2, <2>5
      <3>2. medium'[d] = cache'[d]
        BY <3>1 DEF TypeOK
      <3> QED BY <1>1, <2>1, <2>5, <3>1, <3>2 DEF Polling
    <2> QED BY <2>1, <2>3, <2>4, <2>5
  <1>7. Reading'
    <2>1. ~(Moving /\ op # "write")
      BY <1>1, <1>3, StatusSets DEF Reading, Moving
    <2> QED BY <1>1, <2>1 DEF Reading, Moving
  <1>8. Writing'
    <2> SUFFICES ASSUME Moving, op = "write", drive \in Present PROVE Writing'
      BY <1>1 DEF Writing, Moving
    <2>1. d = drive
      BY <1>3 DEF Moving
    <2>2. CASE (device'[d]).status \in {Ready, Failed}
      BY <1>1, <2>1, <2>2 DEF Writing
    <2>3. CASE device[d].command = "write" /\ (device'[d]).status = Asking
      <3>1. offset = 0 /\ Told(device[d], "write")
        BY <1>1, <2>1, <2>3, StatusSets DEF Writing
      <3>2. /\ (device'[d]).command = device[d].command /\ (device'[d]).lba = device[d].lba
            /\ (device'[d]).left = SectorBytes
        BY <1>2, <2>3, StatusSets
      <3>3. Told(device[d], "write")'
        BY <1>1, <3>1, <3>2 DEF Told
      <3>4. SectorBytes = SectorBytes - offset' /\ offset' < SectorBytes
        BY <1>1, <3>1, Sizes
      <3>5. \A k \in Offsets : ~(k < offset')
        BY <1>1, <3>1 DEF Offsets
      <3> QED BY <1>1, <2>1, <2>3, <3>2, <3>3, <3>4, <3>5 DEF Writing
    <2>4. device[d].command \in {"write", "store"}
      BY <1>1, <2>1, StatusSets DEF Writing, Told
    <2> QED BY <1>2, <2>2, <2>3, <2>4
  <1>9. Storing'
    <2> SUFFICES ASSUME NEW e \in Present, (device'[e]).status = Busy,
                        (device'[e]).command = "store"
                 PROVE  /\ op = "write" /\ drive = e /\ pc \in {"idle", "transfer", "rest"}
                        /\ (device'[e]).lba = Address(sector) /\ (device'[e]).buffer = Padded
      BY <1>1 DEF Storing, Padded
    <2>1. e # d
      BY <1>2, StatusSets
    <2> QED BY <1>1, <2>1 DEF Storing
  <1> QED BY <1>4, <1>5, <1>6, <1>7, <1>8, <1>9

(* One word of a sector that is read.                                      *)
LEMMA ReadStep ==
  ASSUME IInv, OneWord, ReadWord, TypeOK', Sane', Bounds'
  PROVE  IInv'
  <1> USE DEF IInv
  <1>1. /\ Moving /\ op \in {"identify", "read"} /\ offset < SectorBytes
        /\ offset' = offset + 2 /\ device' = AfterRead(drive)
        /\ UNCHANGED <<cache, medium, pc, op, drive, sector, count>>
    BY DEF OneWord, ReadWord, args
  <1>2. /\ offset \in Offsets /\ offset + 2 \in 0 .. SectorBytes /\ offset % 2 = 0
    BY <1>1, SentType DEF Bounds
  <1>3. \A e \in Present : e # drive => device'[e] = device[e]
    BY <1>1 DEF AfterRead, TypeOK
  <1>4. ASSUME drive \in Present
        PROVE  /\ device[drive].status = Asking /\ Told(device[drive], op)
               /\ device[drive].left = SectorBytes - offset
               /\ device[drive].buffer = Source
               /\ Transferring(drive, {"read", "identify"})
    <2>1. /\ device[drive].status = Asking /\ Told(device[drive], op)
          /\ device[drive].left = SectorBytes - offset /\ device[drive].buffer = Source
      BY <1>1, <1>2, <1>4, Sizes DEF Reading
    <2> QED BY <1>1, <1>4, <2>1, StatusSets DEF Transferring, Told
  <1>5. ASSUME drive \in Present
        PROVE  IF offset' = SectorBytes THEN (device'[drive]).status = Ready
               ELSE /\ (device'[drive]).status = Asking
                    /\ (device'[drive]).command = device[drive].command
                    /\ (device'[drive]).lba = device[drive].lba
                    /\ (device'[drive]).left = SectorBytes - offset'
                    /\ (device'[drive]).buffer = device[drive].buffer
    <2> DEFINE w == device[drive]
    <2>1. device \in [Present -> Works] /\ w \in Works
      BY <1>5 DEF TypeOK, Works
    <2>2. w.left = SectorBytes - offset
      BY <1>4, <1>5
    <2>3. CASE w.left > 2
      <3>1. device' = [device EXCEPT ![drive] = [w EXCEPT !.left = w.left - 2]]
        BY <1>1, <1>4, <1>5, <2>1, <2>3 DEF AfterRead
      <3>2. offset' # SectorBytes /\ w.left - 2 = SectorBytes - offset'
        BY <1>1, <1>2, <2>2, <2>3, Sizes DEF Offsets
      <3> QED BY <1>4, <1>5, <2>1, <3>1, <3>2 DEF Works
    <2>4. CASE ~(w.left > 2)
      <3>1. device' = [device EXCEPT ![drive] = Idle]
        BY <1>1, <1>4, <1>5, <2>4 DEF AfterRead
      <3>2. offset' = SectorBytes
        BY <1>1, <1>2, <2>2, <2>4, Sizes DEF Offsets
      <3> QED BY <1>5, <2>1, <3>1, <3>2, IdleSound
    <2> QED BY <2>3, <2>4
  <1>6. Source' = Source
    BY <1>1 DEF Source
  <1>7. Calls'
    BY <1>1 DEF Calls, Moving
  <1>8. Resting'
    BY <1>1, <1>3 DEF Resting, Moving
  <1>9. ASSUME drive \in Present, op = "read"
        PROVE  data' = [k \in Offsets |-> IF k < offset' /\ k < count THEN Source[k] ELSE 0]
    <2>1. data = [k \in Offsets |-> IF k < offset /\ k < count THEN Source[k] ELSE 0]
      BY <1>1, <1>9 DEF Reading
    <2>2. data' = [k \in Offsets |->
                     IF k < count /\ k \in {offset, offset + 1}
                     THEN ReadByte(drive, k - offset) ELSE data[k]]
      BY <1>9 DEF ReadWord, BelowCount
    <2>3. ASSUME NEW k \in Offsets, k \in {offset, offset + 1}
          PROVE  ReadByte(drive, k - offset) = Source[k]
      <3>1. ReadByte(drive, k - offset) = device[drive].buffer[Position(drive) + (k - offset)]
        BY <1>4, <1>9 DEF ReadByte
      <3>2. Position(drive) + (k - offset) = k
        BY <1>2, <1>4, <1>9, <2>3, Sizes DEF Position, Offsets
      <3> QED BY <1>4, <1>9, <3>1, <3>2
    <2>4. \A k \in Offsets : k < offset' <=> k < offset \/ k \in {offset, offset + 1}
      BY <1>1, <1>2, Sizes DEF Offsets
    <2>5. \A k \in Offsets :
            (IF k < count /\ k \in {offset, offset + 1}
             THEN ReadByte(drive, k - offset) ELSE data[k])
            = IF k < offset' /\ k < count THEN Source[k] ELSE 0
      <3> TAKE k \in Offsets
      <3>1. data[k] = IF k < offset /\ k < count THEN Source[k] ELSE 0
        BY <2>1
      <3>2. k < offset' <=> k < offset \/ k \in {offset, offset + 1}
        BY <2>4
      <3>3. CASE k < count /\ k \in {offset, offset + 1}
        BY <2>3, <3>2, <3>3
      <3>4. CASE ~(k < count /\ k \in {offset, offset + 1})
        BY <3>1, <3>2, <3>4
      <3> QED BY <3>3, <3>4
    <2> QED BY <2>2, <2>5
  <1>10. Reading'
    <2> SUFFICES ASSUME drive \in Present PROVE Reading'
      BY <1>1 DEF Reading
    <2>1. offset' # SectorBytes => Told(device[drive], op)'
      BY <1>1, <1>4, <1>5 DEF Told
    <2>2. device'[drive].buffer = device[drive].buffer => device'[drive].buffer = Source'
      BY <1>4, <1>6
    <2>3. op' = "read" =>
            data' = [k \in Offsets |-> IF k < offset' /\ k < count' THEN Source'[k] ELSE 0]
      BY <1>1, <1>6, <1>9
    <2> QED BY <1>1, <1>5, <2>1, <2>2, <2>3 DEF Reading
  <1>11. Polling' /\ Writing'
    BY <1>1 DEF Polling, Writing, Moving
  <1>12. Storing'
    <2>1. \A e \in Present : ~(device[e].status = Busy /\ device[e].command = "store")
      BY <1>1 DEF Storing
    <2>2. drive \in Present => (device'[drive]).status # Busy
      BY <1>5, StatusSets
    <2> QED BY <1>3, <2>1, <2>2 DEF Storing
  <1> QED BY <1>7, <1>8, <1>10, <1>11, <1>12

(* One word of a sector that is written.                                   *)
LEMMA WriteStep ==
  ASSUME IInv, Prompt = TRUE, OneWord, WriteWord, TypeOK', Sane', Bounds'
  PROVE  IInv'
  <1> USE DEF IInv
  <1> DEFINE Byte(k) == IF BelowCount(k) THEN data[k] ELSE 0
  <1>1. /\ Moving /\ op = "write" /\ offset < SectorBytes /\ DriveKeepsUp
        /\ offset' = offset + 2
        /\ device' = AfterWrite(drive, Byte(offset), Byte(offset + 1))
        /\ UNCHANGED <<cache, medium, pc, op, drive, sector, count, data>>
    BY DEF OneWord, WriteWord, args
  <1>2. /\ offset \in Offsets /\ offset + 1 \in Offsets /\ offset + 2 \in 0 .. SectorBytes
        /\ offset % 2 = 0
    BY <1>1, SentType DEF Bounds
  <1>3. \A k \in Offsets : Byte(k) = Padded[k]
    BY DEF Padded, BelowCount
  <1>a. Padded' = Padded
    BY <1>1 DEF Padded
  <1> HIDE DEF Byte
  <1>4. \A e \in Present : e # drive => device'[e] = device[e]
    BY <1>1 DEF AfterWrite, TypeOK
  <1>5. Calls' /\ Polling' /\ Reading'
    BY <1>1 DEF Calls, Polling, Reading
  <1>6. Resting'
    BY <1>1, <1>4 DEF Resting, Moving
  <1>7. CASE ~Transferring(drive, {"write"})
    <2>1. device' = device
      BY <1>1, <1>7 DEF AfterWrite
    <2>2. drive \in Present => device[drive].status \in {Ready, Failed}
      <3> SUFFICES ASSUME drive \in Present PROVE device[drive].status \in {Ready, Failed}
        OBVIOUS
      <3>1. device[drive].status = Busy => device[drive].command \notin {"write", "store"}
        BY <1>1, StatusSets DEF DriveKeepsUp
      <3>2. ~(device[drive].status = Asking /\ device[drive].command = "write")
        BY <1>7, StatusSets DEF Transferring
      <3> QED BY <1>1, <3>1, <3>2 DEF Writing, Told
    <2>3. Writing'
      BY <1>1, <2>1, <2>2 DEF Writing
    <2>4. Storing'
      BY <1>1, <2>1, <1>a DEF Storing
    <2> QED BY <1>5, <1>6, <2>3, <2>4
  <1>8. CASE Transferring(drive, {"write"})
    <2> DEFINE w == device[drive]
               p == Position(drive)
               b == [w.buffer EXCEPT ![p] = Byte(offset), ![p + 1] = Byte(offset + 1)]
    <2>1. drive \in Present /\ device \in [Present -> Works] /\ w \in Works
      BY <1>8 DEF Transferring, TypeOK, Works
    <2>2. w.status = Asking
      BY <1>8, <2>1, StatusBits DEF Transferring
    <2>3. /\ Told(w, "write") /\ w.left = SectorBytes - offset
          /\ \A k \in Offsets : k < offset => w.buffer[k] = Padded[k]
      BY <1>1, <2>1, <2>2, StatusSets DEF Writing
    <2>4. p = offset
      BY <1>2, <2>3, Sizes DEF Position, Offsets
    <2>5. b \in [Offsets -> Bytes] /\ \A k \in Offsets : k < offset + 2 => b[k] = Padded[k]
      <3>1. w.buffer \in [Offsets -> Bytes]
        BY <2>1 DEF Works, Contents
      <3>2. Byte(offset) = Padded[offset] /\ Byte(offset + 1) = Padded[offset + 1]
        BY <1>2, <1>3
      <3>3. Byte(offset) \in Bytes /\ Byte(offset + 1) \in Bytes
        BY <1>1, <1>2, SentType DEF Byte
      <3>4. b \in [Offsets -> Bytes]
        BY <3>1, <3>3
      <3>5. b[offset] = Byte(offset) /\ b[offset + 1] = Byte(offset + 1)
        <4>1. offset # offset + 1
          BY <1>2 DEF Offsets
        <4> QED BY <1>2, <2>4, <3>1, <4>1
      <3>6. \A k \in Offsets : k < offset => b[k] = w.buffer[k]
        <4>1. \A k \in Offsets : k < offset => k # offset /\ k # offset + 1
          BY <1>2 DEF Offsets
        <4> QED BY <2>4, <3>1, <4>1
      <3>7. \A k \in Offsets : k < offset + 2 => k < offset \/ k = offset \/ k = offset + 1
        BY <1>2 DEF Offsets
      <3> HIDE DEF b
      <3> QED BY <2>3, <3>2, <3>4, <3>5, <3>6, <3>7
    <2>6. CASE w.left > 2
      <3> DEFINE v == [w EXCEPT !.left = w.left - 2, !.buffer = b]
      <3>1. device' = [device EXCEPT ![drive] = v]
        BY <1>1, <1>8, <2>1, <2>6 DEF AfterWrite
      <3>2. v.status = Asking /\ v.command = w.command /\ v.lba = w.lba
            /\ v.left = w.left - 2 /\ v.buffer = b
        BY <2>1, <2>2 DEF Works
      <3>3. offset' < SectorBytes /\ w.left - 2 = SectorBytes - offset'
        BY <1>1, <1>2, <2>3, <2>6, Sizes DEF Offsets
      <3> HIDE DEF v, b
      <3>4. device'[drive] = v
        BY <2>1, <3>1
      <3>5. Told(device[drive], "write")'
        BY <1>1, <2>3, <3>2, <3>4 DEF Told
      <3>6. \A k \in Offsets : k < offset' => device'[drive].buffer[k] = Padded'[k]
        BY <1>1, <1>a, <2>5, <3>2, <3>4
      <3>7. device'[drive].left = SectorBytes - offset'
        BY <3>2, <3>3, <3>4
      <3>8. Writing'
        BY <1>1, <3>2, <3>3, <3>4, <3>5, <3>6, <3>7 DEF Writing
      <3>9. Storing'
        <4> SUFFICES ASSUME NEW e \in Present, (device'[e]).status = Busy,
                            (device'[e]).command = "store"
                     PROVE  FALSE
          BY DEF Storing
        <4>1. e # drive
          BY <3>2, <3>4, StatusSets
        <4>2. device[e].status \in {Ready, Failed}
          BY <1>1, <4>1 DEF Resting, Moving
        <4> QED BY <1>4, <4>1, <4>2, StatusSets
      <3> QED BY <1>5, <1>6, <3>8, <3>9
    <2>7. CASE ~(w.left > 2)
      <3> DEFINE v == [w EXCEPT !.command = "store", !.status = Busy, !.left = 0,
                                !.buffer = b]
      <3>1. device' = [device EXCEPT ![drive] = v]
        BY <1>1, <1>8, <2>1, <2>7 DEF AfterWrite, Busy
      <3>2. v.status = Busy /\ v.command = "store" /\ v.lba = w.lba /\ v.buffer = b
        BY <2>1 DEF Works
      <3>3. offset' = SectorBytes
        BY <1>1, <1>2, <2>3, <2>7, Sizes DEF Offsets
      <3>a. b = Padded
        <4>1. \A k \in Offsets : k < offset + 2
          BY <1>1, <3>3, Sizes DEF Offsets
        <4>2. Padded = [k \in Offsets |-> Padded[k]]
          BY DEF Padded
        <4> HIDE DEF b
        <4> QED BY <2>5, <4>1, <4>2
      <3> HIDE DEF v, b
      <3>4. device'[drive] = v
        BY <2>1, <3>1
      <3>8. Writing'
        BY <1>1, <3>2, <3>3, <3>4 DEF Writing
      <3>9. Storing'
        <4> SUFFICES ASSUME NEW e \in Present, (device'[e]).status = Busy,
                            (device'[e]).command = "store"
                     PROVE  /\ op = "write" /\ drive = e /\ Moving
                            /\ (device'[e]).lba = Address(sector)
                            /\ (device'[e]).buffer = Padded
          BY <1>1, <1>a DEF Storing, Moving
        <4>1. CASE e # drive
          <5>1. device[e].status \in {Ready, Failed}
            BY <1>1, <4>1 DEF Resting, Moving
          <5> QED BY <1>4, <4>1, <5>1, StatusSets
        <4>2. CASE e = drive
          BY <1>1, <2>3, <3>2, <3>4, <3>a, <4>2 DEF Told
        <4> QED BY <4>1, <4>2
      <3> QED BY <1>5, <1>6, <3>8, <3>9
    <2> QED BY <2>6, <2>7
  <1> QED BY <1>7, <1>8

THEOREM NextInv == IInv /\ Usual /\ [Next]_vars => IInv'
  <1> SUFFICES ASSUME IInv, Usual, [Next]_vars PROVE IInv'
    OBVIOUS
  <1>0. TypeOK' /\ Sane' /\ Bounds' /\ Prompt = TRUE
    BY NextSound, BoundsStep DEF IInv, Usual
  <1>1. CASE Call
    BY <1>0, <1>1, CallStep
  <1>2. CASE Probe \/ Poll \/ EndWanted \/ EndTransfer
    BY <1>0, <1>2, ProbeStep, PollStep, EndWantedStep, EndTransferStep
  <1>3. CASE TransferWord \/ RestWord
    <2>1. OneWord /\ (ReadWord \/ WriteWord)
      BY <1>3, WordsAreAlike DEF OneWord
    <2> QED BY <1>0, <2>1, ReadStep, WriteStep
  <1>4. ASSUME NEW d \in Present, DriveWorks(d) PROVE IInv'
    BY <1>0, <1>4, DriveStep
  <1>5. CASE UNCHANGED vars
    <2>1. UNCHANGED <<device, cache, medium, pc, op, drive, sector, count, data, offset>>
      BY <1>5 DEF vars, drives, args
    <2>2. Calls' /\ Resting'
      BY <2>1 DEF IInv, Calls, Resting
    <2>3. Polling' /\ Reading'
      BY <2>1 DEF IInv, Polling, Reading, Told, Source, Moving
    <2>4. Writing' /\ Storing'
      BY <2>1 DEF IInv, Writing, Storing, Told, Padded, Moving
    <2> QED BY <1>0, <2>2, <2>3, <2>4 DEF IInv
  <1> QED BY <1>1, <1>2, <1>3, <1>4, <1>5 DEF Next, Proceed

(* With drives that keep up with writes and counts that are not negative,  *)
(* no call leaves a drive asking for words: however many bytes its caller  *)
(* wanted of a sector, an odd number or none, the two loops move all of it.*)
THEOREM DriverLeavesNoTransferOpen ==
  ASSUME Prompt = TRUE, Counts \subseteq Nat
  PROVE  Spec => []NoTransferLeftOpen
  <1>1. IInv => NoTransferLeftOpen
    BY StatusBits DEF IInv, Resting, NoTransferLeftOpen
  <1>2. IInv /\ [Next]_vars => IInv'
    BY NextInv DEF Usual
  <1> QED BY <1>1, <1>2, InitiallyInv, PTL DEF Spec

(* With these, what a drive stores is the whole of one caller's data,      *)
(* followed by zeros, at the address the driver made of his sector.        *)
THEOREM DriverStoresOneWrite ==
  ASSUME Prompt = TRUE, Counts \subseteq Nat
  PROVE  Spec => StoresOneWrite
  <1> DEFINE Stores ==
        \A d \in Present, a \in Addresses :
          cache'[d][a] # cache[d][a] =>
            /\ op = "write" /\ drive = d /\ Address(sector) = a
            /\ cache'[d][a] = [k \in Offsets |-> IF k < count THEN data[k] ELSE 0]
  <1>1. IInv /\ [Next]_vars => [Stores]_vars
    <2> SUFFICES ASSUME IInv, Next, NEW e \in Present, NEW a \in Addresses,
                        cache'[e][a] # cache[e][a]
                 PROVE  /\ op = "write" /\ drive = e /\ Address(sector) = a
                        /\ cache'[e][a] = Padded
      BY DEF Padded
    <2>1. PICK d \in Present : DriveWorks(d)
      <3>1. CASE Call
        BY <3>1 DEF Call, Identify, Flush, Read28, Write28, Issue
      <3>2. CASE Proceed
        BY <3>2 DEF Proceed, Probe, Poll, TransferWord, EndWanted, RestWord, EndTransfer, drives
      <3> QED BY <3>1, <3>2 DEF Next
    <2>2. TypeOK /\ Sane
      BY DEF IInv
    <2>3. /\ device[d].status = Busy /\ device[d].command = "store"
          /\ cache' = [cache EXCEPT ![d][device[d].lba] = device[d].buffer]
      BY <2>1, <2>2, WorkDone
    <2>4. /\ op = "write" /\ drive = d /\ device[d].lba = Address(sector)
          /\ device[d].buffer = Padded
      BY <2>3 DEF IInv, Storing
    <2>5. e = d /\ a = device[d].lba /\ cache'[e][a] = device[d].buffer
      BY <2>2, <2>3 DEF TypeOK
    <2> QED BY <2>4, <2>5
  <1>2. IInv /\ [Next]_vars => IInv'
    BY NextInv DEF Usual
  <1>3. StoresOneWrite <=> [][Stores]_vars
    BY DEF StoresOneWrite
  <1> HIDE DEF Stores
  <1> QED BY <1>1, <1>2, <1>3, InitiallyInv, PTL DEF Spec

(* With these, a call of read28 that ends without "ERROR" has filled       *)
(* the caller's bytes with those of the sector it addressed.               *)
THEOREM DriverReadsTheSector ==
  ASSUME Prompt = TRUE, Counts \subseteq Nat
  PROVE  Spec => ReadsTheSector
  <1> DEFINE Reads ==
        op = "read" /\ pc # "idle" /\ pc' = "idle" /\ ~failed' /\ drive \in Present =>
          \A k \in Offsets :
            data[k] = IF k < count THEN cache[drive][Address(sector)][k] ELSE 0
  <1>1. IInv /\ [Next]_vars => [Reads]_vars
    <2> SUFFICES ASSUME IInv, Next, op = "read", pc # "idle", pc' = "idle", ~failed',
                        drive \in Present, NEW k \in Offsets
                 PROVE  data[k] = IF k < count THEN cache[drive][Address(sector)][k] ELSE 0
      OBVIOUS
    <2>1. EndTransfer
      <3>1. CASE Call
        BY <3>1 DEF Call, Identify, Flush, Read28, Write28, Issue
      <3>2. CASE Proceed
        BY <3>2 DEF Proceed, Probe, Poll, TransferWord, EndWanted, RestWord, IInv, Calls
      <3>3. ~(\E d \in Present : DriveWorks(d))
        BY DEF DriveWorks
      <3> QED BY <3>1, <3>2, <3>3 DEF Next
    <2>2. offset = SectorBytes
      BY <2>1, Sizes DEF EndTransfer, IInv, Bounds, Moving
    <2>3. data = [j \in Offsets |-> IF j < offset /\ j < count THEN Source[j] ELSE 0]
      BY <2>1 DEF IInv, Reading, Moving, EndTransfer
    <2>4. k < offset
      BY <2>2, Sizes DEF Offsets
    <2> QED BY <2>3, <2>4 DEF Source
  <1>2. IInv /\ [Next]_vars => IInv'
    BY NextInv DEF Usual
  <1>3. ReadsTheSector <=> [][Reads]_vars
    BY DEF ReadsTheSector
  <1> HIDE DEF Reads
  <1> QED BY <1>1, <1>2, <1>3, InitiallyInv, PTL DEF Spec

(* With these, after a flush that ends without "ERROR" every sector        *)
(* the drive has taken is on its medium.                                   *)
THEOREM DriverFlushIsDurable ==
  ASSUME Prompt = TRUE, Counts \subseteq Nat
  PROVE  Spec => FlushIsDurable
  <1> DEFINE Durable ==
        op = "flush" /\ pc = "poll" /\ pc' = "idle" /\ ~failed' /\ drive \in Present =>
          medium[drive] = cache[drive]
  <1>1. IInv /\ [Next]_vars => [Durable]_vars
    <2> SUFFICES ASSUME IInv, Next, op = "flush", pc = "poll", pc' = "idle", ~failed',
                        drive \in Present
                 PROVE  medium[drive] = cache[drive]
      OBVIOUS
    <2>1. Poll
      <3>1. CASE Call
        BY <3>1 DEF Call, Identify, Flush, Read28, Write28, Issue
      <3>2. CASE Proceed
        BY <3>2 DEF Proceed, Probe, EndTransfer, EndWanted, RestWord, TransferWord
      <3>3. ~(\E d \in Present : DriveWorks(d))
        BY DEF DriveWorks
      <3> QED BY <3>1, <3>2, <3>3 DEF Next
    <2>2. Status(drive) = device[drive].status
      BY DEF Status
    <2>3. device[drive].status # Busy
      BY <2>1, <2>2, StatusSets DEF Poll, WaitsOver
    <2>4. device[drive].status # Failed
      BY <2>1, <2>2, StatusSets DEF Poll
    <2> QED BY <2>3, <2>4 DEF IInv, Polling
  <1>2. IInv /\ [Next]_vars => IInv'
    BY NextInv DEF Usual
  <1>3. FlushIsDurable <=> [][Durable]_vars
    BY DEF FlushIsDurable
  <1> HIDE DEF Durable
  <1> QED BY <1>1, <1>2, <1>3, InitiallyInv, PTL DEF Spec
=============================================================================
