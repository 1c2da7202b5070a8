-------------------- MODULE AdvancedTechnologyAttachment --------------------
(***************************************************************************)
(* The ATA driver (source/drivers/AdvancedTechnologyAttachment.cpp) and    *)
(* the two drives of one bus, which it talks to through ports, by polling. *)
(*                                                                         *)
(* A call is modelled as the port accesses the drives can tell apart: the  *)
(* registers and the command (one step: the drives do nothing before the   *)
(* command), the status polls, and every word that goes through the data   *)
(* port.  The drives work at their own pace in between.                    *)
(*                                                                         *)
(* The drives are external, and follow the ATA command protocol: a command *)
(* makes the drive busy (BSY); it then fails (ERR), or asks for a sector's *)
(* worth of words to be transferred (DRQ), or is done.  A drive that is    *)
(* busy or in a transfer takes no command, and one that does not ask for   *)
(* words takes none.  A sector received is in the drive's cache until the  *)
(* flush command moves the cache to the medium.                            *)
(***************************************************************************)
EXTENDS Integers, FiniteSets

CONSTANTS
  Present,      (* the drives that are on the bus                          *)
  SectorBytes,  (* bytes_per_sector, 512                                   *)
  Width,        (* the number of values of uint16_t, 2^16                  *)
  Sectors,      (* sector numbers callers pass, 32 bits                    *)
  Counts,       (* byte counts callers pass, of type int                   *)
  Buffers,      (* the contents of callers' buffers                        *)
  Identity,     (* what a drive answers to identify                        *)
  Floating,     (* the byte read from a data port nobody drives            *)
  Prompt        (* are writes done before the driver's next port access?   *)

Drives == {"master", "slave"}
Offsets == 0 .. SectorBytes - 1
Zeros == [k \in Offsets |-> 0]
Bytes == {0, Floating} \cup
           UNION {{b[k] : k \in Offsets} : b \in Buffers \cup {Identity}}
Contents == [Offsets -> Bytes]

ASSUME DriveAssumption ==
  /\ Present \subseteq Drives
  /\ SectorBytes \in Nat \ {0} /\ SectorBytes % 2 = 0
  /\ Width \in Nat /\ Width % 2 = 0 /\ SectorBytes < Width
  /\ Sectors \subseteq Nat /\ Counts \subseteq Int
  /\ Buffers \cup {Identity} \subseteq [Offsets -> 0 .. 255]
  /\ Floating \in 0 .. 255
  /\ Prompt \in BOOLEAN

VARIABLES
  device,       (* drive |-> what it is doing                              *)
  cache,        (* drive |-> sector address |-> what the drive would read  *)
  medium,       (* drive |-> sector address |-> what survives power-off    *)
  pc,           (* "idle", or where in op the driver is                    *)
  op,           (* the member function running                             *)
  drive,        (* the drive it was called for: the member master          *)
  sector, count, data,    (* its parameters, data being the buffer         *)
  offset,       (* its loop variable i, in bytes                           *)
  failed        (* has the last call printed "ERROR"?                      *)

drives == <<device, cache, medium>>
args == <<op, drive, sector, count>>
vars == <<drives, pc, args, data, offset, failed>>
-----------------------------------------------------------------------------
(***************************************************************************)
(* The address                                                             *)
(***************************************************************************)

(* sector && 0x000000FF and the like are 0 or 1, whatever the mask is; the *)
(* shifts of the two upper ports make 0 of it.                             *)
LbaLow(s) == IF s # 0 THEN 1 ELSE 0
LbaMid(s) == 0
LbaHigh(s) == 0
LbaTop(s) == (s \div 2^24) % 16

(* The address a drive makes of the registers.                             *)
Address(s) == LbaTop(s) * 2^24 + LbaHigh(s) * 2^16 + LbaMid(s) * 2^8 + LbaLow(s)

Addresses == {Address(s) : s \in Sectors}

(* Both functions return at once when this does not hold.                  *)
Accepts(s, n) == s < 2^28 /\ n <= SectorBytes
-----------------------------------------------------------------------------
(***************************************************************************)
(* The drives                                                              *)
(***************************************************************************)
Ready == {"RDY"}
Idle == [command |-> "none", status |-> Ready, left |-> 0, lba |-> 0,
         buffer |-> Zeros]
BusFloats == {"BSY", "DRQ", "ERR", "RDY"}     (* 0xFF                      *)

(* The status register of d: 0 when only the other drive is there.         *)
Status(d) ==
  IF d \in Present THEN device[d].status ELSE IF Present = {} THEN BusFloats ELSE {}

Commanded(d, c, l) ==
  IF d \in Present /\ device[d].status \cap {"BSY", "DRQ"} = {}
  THEN [device EXCEPT ![d] = [command |-> c, status |-> {"BSY"}, left |-> 0,
                              lba |-> l, buffer |-> Zeros]]
  ELSE device

(* Drive d is done with what made it busy.                                 *)
Finish(d) ==
  LET w == device[d]
      Asks(b) == [device EXCEPT ![d].status = {"RDY", "DRQ"},
                                ![d].left = SectorBytes, ![d].buffer = b]
      Done == [device EXCEPT ![d] = Idle]
  IN  CASE w.command = "read" ->
             device' = Asks(cache[d][w.lba]) /\ UNCHANGED <<cache, medium>>
        [] w.command = "identify" ->
             device' = Asks(Identity) /\ UNCHANGED <<cache, medium>>
        [] w.command = "write" ->
             device' = Asks(Zeros) /\ UNCHANGED <<cache, medium>>
        [] w.command = "store" ->
             /\ device' = Done
             /\ cache' = [cache EXCEPT ![d][w.lba] = w.buffer]
             /\ UNCHANGED medium
        [] w.command = "flush" ->
             /\ device' = Done
             /\ medium' = [medium EXCEPT ![d] = cache[d]]
             /\ UNCHANGED cache

Fail(d) ==
  /\ device' = [device EXCEPT ![d] = [Idle EXCEPT !.status = {"RDY", "ERR"}]]
  /\ UNCHANGED <<cache, medium>>

DriveWorks(d) ==
  /\ "BSY" \in device[d].status
  /\ Finish(d) \/ Fail(d)
  /\ UNCHANGED <<pc, args, data, offset, failed>>

(* A drive that keeps up is never seen busy over a write.                  *)
DriveKeepsUp ==
  Prompt => \A d \in Present :
              "BSY" \in device[d].status => device[d].command \notin {"write", "store"}

(* One transfer of two bytes through the data port of d; without DRQ the   *)
(* drive takes no part in it.                                              *)
Transferring(d, commands) ==
  d \in Present /\ "DRQ" \in device[d].status /\ device[d].command \in commands

Position(d) == SectorBytes - device[d].left

ReadByte(d, k) ==
  IF Transferring(d, {"read", "identify"}) THEN device[d].buffer[Position(d) + k]
                                           ELSE Floating

AfterRead(d) ==
  IF ~Transferring(d, {"read", "identify"}) THEN device
  ELSE IF device[d].left > 2 THEN [device EXCEPT ![d].left = @ - 2]
  ELSE [device EXCEPT ![d] = Idle]

AfterWrite(d, low, high) ==
  IF ~Transferring(d, {"write"}) THEN device
  ELSE LET p == Position(d)
           b == [device[d].buffer EXCEPT ![p] = low, ![p + 1] = high]
       IN  IF device[d].left > 2
           THEN [device EXCEPT ![d].left = @ - 2, ![d].buffer = b]
           ELSE [device EXCEPT ![d].command = "store", ![d].status = {"BSY"},
                               ![d].left = 0, ![d].buffer = b]
-----------------------------------------------------------------------------
Init ==
  /\ device = [d \in Present |-> Idle]
  /\ cache = [d \in Present |-> [a \in Addresses |-> Zeros]]
  /\ medium = cache
  /\ pc = "idle" /\ op = "none" /\ drive = "master"
  /\ sector = 0 /\ count = 0 /\ data = Zeros /\ offset = 0 /\ failed = FALSE

(***************************************************************************)
(* The driver                                                              *)
(***************************************************************************)

(* A call: the registers and the command.                                  *)
Issue(d, o, s, n, b) ==
  /\ pc = "idle" /\ DriveKeepsUp
  /\ device' = Commanded(d, o, IF o \in {"read", "write"} THEN Address(s) ELSE 0)
  /\ op' = o /\ drive' = d /\ sector' = s /\ count' = n /\ data' = b
  /\ offset' = 0 /\ failed' = FALSE
  /\ UNCHANGED <<cache, medium>>

(* identify asks the master first, whichever drive it is called for.       *)
Identify(d) ==
  /\ Status("master") # BusFloats
  /\ Issue(d, "identify", 0, 0, Zeros) /\ pc' = "probe"

Read28(d, s, n) ==
  /\ Accepts(s, n)
  /\ Issue(d, "read", s, n, Zeros) /\ pc' = "poll"

Write28(d, s, n, b) ==
  /\ Accepts(s, n)
  /\ Issue(d, "write", s, n, b) /\ pc' = "transfer"

Flush(d) == Issue(d, "flush", 0, 0, Zeros) /\ pc' = "poll"

(* identify's first look at the status: 0 means that there is no device.   *)
Probe ==
  /\ pc = "probe"
  /\ pc' = IF Status(drive) = {} THEN "idle" ELSE "poll"
  /\ UNCHANGED <<drives, args, data, offset, failed>>

(* Mutants: the loop waits for data; it looks at the status once only.     *)
WaitsOverForData(s) == "DRQ" \in s
WaitsOverAtOnce(s) == TRUE

(* The loops that wait end when this is so.                                *)
WaitsOver(s) == "BSY" \notin s \/ "ERR" \in s

Poll ==
  /\ pc = "poll" /\ WaitsOver(Status(drive))
  /\ failed' = ("ERR" \in Status(drive))
  /\ pc' = IF "ERR" \in Status(drive) \/ op = "flush" THEN "idle" ELSE "transfer"
  /\ UNCHANGED <<drives, args, data, offset>>

(* Mutant: the byte behind an odd count is stored, and sent, as well.      *)
BelowCountRounded(k) == k < count + (count % 2)

(* Does byte k of the sector come from, or go to, the caller's buffer?     *)
BelowCount(k) == k < count

ReadWord ==
  /\ op \in {"identify", "read"}
  /\ device' = AfterRead(drive)
  /\ data' = [k \in Offsets |->
                IF op = "read" /\ BelowCount(k) /\ k \in {offset, offset + 1}
                THEN ReadByte(drive, k - offset) ELSE data[k]]

WriteWord ==
  LET Byte(k) == IF BelowCount(k) THEN data[k] ELSE 0
  IN  /\ op = "write"
      /\ device' = AfterWrite(drive, Byte(offset), Byte(offset + 1))
      /\ UNCHANGED data

(* Mutants: the first loop goes on to the byte behind count; it leaves the *)
(* last word of an odd count out.                                          *)
WantedThrough == IF op = "identify" THEN SectorBytes ELSE count + 1
WantedDown == IF op = "identify" THEN SectorBytes ELSE count - (count % 2)

(* The bytes the first loop goes through: identify wants the whole sector. *)
Wanted == IF op = "identify" THEN SectorBytes ELSE count

TransferWord ==
  /\ pc = "transfer" /\ offset < Wanted /\ DriveKeepsUp
  /\ ReadWord \/ WriteWord
  /\ offset' = offset + 2
  /\ UNCHANGED <<cache, medium, pc, args, failed>>

(* count % 2, which C++ gives the sign of count.                           *)
Remainder(n) == IF n >= 0 THEN n % 2 ELSE -((-n) % 2)

(* Mutant: the second loop starts a word late.                             *)
RestStartLate(n) == (n + 2) % Width

(* Where the second loop starts: uint16_t i = count + (count % 2).         *)
RestStart(n) == (n + Remainder(n)) % Width

EndWanted ==
  /\ pc = "transfer" /\ offset >= Wanted
  /\ IF op = "identify" THEN pc' = "idle" /\ UNCHANGED offset
                        ELSE pc' = "rest" /\ offset' = RestStart(count)
  /\ UNCHANGED <<drives, args, data, failed>>

(* A word behind count: read and dropped, or written as zeros.             *)
RestWord ==
  /\ pc = "rest" /\ offset < SectorBytes /\ DriveKeepsUp
  /\ device' = IF op = "read" THEN AfterRead(drive) ELSE AfterWrite(drive, 0, 0)
  /\ offset' = offset + 2
  /\ UNCHANGED <<cache, medium, pc, args, data, failed>>

EndTransfer ==
  /\ pc = "rest" /\ offset >= SectorBytes
  /\ pc' = "idle"
  /\ UNCHANGED <<drives, args, data, offset, failed>>

Call ==
  \E d \in Drives :
    \/ Identify(d) \/ Flush(d)
    \/ \E s \in Sectors, n \in Counts :
         \/ Read28(d, s, n)
         \/ \E b \in Buffers : Write28(d, s, n, b)

Proceed ==
  Probe \/ Poll \/ TransferWord \/ EndWanted \/ RestWord \/ EndTransfer

Next == Call \/ Proceed \/ \E d \in Present : DriveWorks(d)

Spec == Init /\ [][Next]_vars

(* A call that was made goes on, and no drive stays busy for ever.         *)
FairSpec ==
  Spec /\ WF_vars(Proceed) /\ \A d \in Present : WF_vars(DriveWorks(d))
-----------------------------------------------------------------------------
(***************************************************************************)
(* Properties.                                                             *)
(***************************************************************************)

(* Every variable has its type; a drive counts down the words it asked for;*)
(* and the loop that works on the caller's bytes stays in the sector.      *)
TypeOK ==
  /\ device \in [Present ->
       [command : {"none", "identify", "read", "write", "store", "flush"},
        status : SUBSET {"BSY", "DRQ", "ERR", "RDY"}, left : 0 .. SectorBytes,
        lba : Addresses \cup {0}, buffer : Contents]]
  /\ cache \in [Present -> [Addresses -> Contents]]
  /\ medium \in [Present -> [Addresses -> Contents]]
  /\ pc \in {"idle", "probe", "poll", "transfer", "rest"}
  /\ op \in {"none", "identify", "read", "write", "flush"}
  /\ drive \in Drives
  /\ sector \in Sectors \cup {0} /\ count \in Counts \cup {0}
  /\ data \in Contents
  /\ offset \in 0 .. Width - 1 /\ (pc = "transfer" => offset <= SectorBytes)
  /\ failed \in BOOLEAN

(* No call leaves a drive in the middle of a transfer, which would make it *)
(* deaf to the next command.  read28 and write28 need to always read, and  *)
(* write, the whole sector, as their comments say: the two loops together  *)
(* have to move all the words the drive asks for, whatever part of the     *)
(* sector the caller wanted.                                               *)
NoTransferLeftOpen ==
  pc = "idle" => \A d \in Present : "DRQ" \notin device[d].status

(* What a drive stores is the whole of one caller's data, followed by      *)
(* zeros: never words of two calls, never a byte from behind the buffer.   *)
StoresOneWrite ==
  [][\A d \in Present, a \in Addresses :
       cache'[d][a] # cache[d][a] =>
         /\ op = "write" /\ drive = d /\ Address(sector) = a
         /\ cache'[d][a] = [k \in Offsets |-> IF k < count THEN data[k] ELSE 0]]_vars

(* A call of read28 that does not print "ERROR" has filled the caller's    *)
(* bytes, and no byte behind them, with those of the sector it addresses.  *)
ReadsTheSector ==
  [][op = "read" /\ pc # "idle" /\ pc' = "idle" /\ ~failed' /\ drive \in Present =>
       \A k \in Offsets :
         data[k] = IF k < count THEN cache[drive][Address(sector)][k] ELSE 0]_vars

(* After a flush that does not print "ERROR", every sector the drive has   *)
(* taken is on the medium.                                                 *)
FlushIsDurable ==
  [][op = "flush" /\ pc = "poll" /\ pc' = "idle" /\ ~failed' /\ drive \in Present =>
       medium[drive] = cache[drive]]_vars

(* Every call returns, whether or not the drive exists or fails.           *)
CallsReturn == pc # "idle" ~> pc = "idle"
=============================================================================
