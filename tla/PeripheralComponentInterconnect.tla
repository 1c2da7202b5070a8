------------------ MODULE PeripheralComponentInterconnect ------------------
(***************************************************************************)
(* PeripheralComponentInterconnectController                               *)
(* (source/hardware_communication/pci.cpp): the walk over buses, devices   *)
(* and functions that reads each function's configuration registers and    *)
(* creates a driver, on the heap, for every network card it knows.         *)
(*                                                                         *)
(* A device is the set of functions it has and whether its header announces*)
(* several (multi).  One that does not looks at no function number: it     *)
(* answers for all of them.  Where nothing answers all bits read as ones.  *)
(***************************************************************************)
EXTENDS DriverManager

CONSTANTS
  NofBuses, NofDevices, NofFunctions,  (* 8, 32 and 8                      *)
  Machines,      (* the machines the kernel may be started on              *)
  Ports,         (* what an uninitialised port_base_number may hold        *)
  ChunkHeader,   (* sizeof(MemoryChunk)                                    *)
  DriverSize     (* sizeof(AMD_am79c973)                                   *)

VARIABLES
  machine,       (* [bus, device |-> Device]: set up once and for all      *)
  at,            (* loop variables bus_nmbr, device_nmbr, function_nmbr    *)
  found,         (* history: the functions whose line was printed          *)
  chunk          (* payload of the heap's one free chunk; 0 if it is taken *)

pciVars == <<machine, at, found, chunk>>

AMD == 4130             (* 0x1022 *)
am79c973 == 8192        (* 0x2000 *)
AllOnes == 65535

Positions ==
  (0 .. NofBuses - 1) \X (0 .. NofDevices - 1) \X (0 .. NofFunctions - 1)

(* What configuration space tells about a function.                        *)
IsFunction(f) ==
  /\ f.vendor_id \in 1 .. AllOnes - 1 /\ f.device_id \in 0 .. AllOnes
  /\ f.interrupt_line \in 0 .. 255
  /\ f.headertype \in 0 .. 2 /\ f.bars \in [0 .. 5 -> Nat]
  /\ \A i \in 0 .. 5 : f.bars[i] % 2 = 1 => f.bars[i] % 4 = 1

IsDevice(d) ==
  /\ d.multi \in BOOLEAN
  /\ DOMAIN d.functions \subseteq 0 .. NofFunctions - 1
  /\ \A f \in DOMAIN d.functions : IsFunction(d.functions[f])
  /\ ~d.multi => DOMAIN d.functions \subseteq {0}

(* Every device is built as the bus requires.                              *)
ASSUME PciAssumption ==
  /\ NofBuses \in Nat /\ NofDevices \in Nat \ {0} /\ NofFunctions \in Nat \ {0}
  /\ \A m \in Machines :
       \A b \in 0 .. NofBuses - 1, d \in 0 .. NofDevices - 1 :
         IsDevice(m[<<b, d>>])
  /\ Ports \subseteq Nat
  /\ ChunkHeader \in Nat /\ DriverSize \in Nat

Nothing == [vendor_id |-> AllOnes]

DeviceAt(p) == machine[<<p[1], p[2]>>]

Existing == {p \in Positions : p[3] \in DOMAIN DeviceAt(p).functions}

(* What read returns for the registers of function p.                      *)
Reply(p) ==
  LET d == DeviceAt(p)
  IN  CASE p \in Existing                          -> d.functions[p[3]]
        [] p \notin Existing /\ ~d.multi /\ 0 \in DOMAIN d.functions
                                                   -> d.functions[0]
        [] OTHER                                   -> Nothing

(* Bit 7 of the header type of function 0, all ones if there is none.      *)
hasDeviceFunctions(p) == 0 \in DOMAIN DeviceAt(p).functions => DeviceAt(p).multi

(* Mutant: every device is asked for all functions.                        *)
NofFunctionsAlways(p) == NofFunctions

NofFunctionsOf(p) == IF hasDeviceFunctions(p) THEN NofFunctions ELSE 1

(* Mutant: the walk starts over with the devices of the same bus.          *)
AfterSameBus(p) ==
  CASE p[3] + 1 < NofFunctionsOf(p)   -> <<p[1], p[2], p[3] + 1>>
    [] p[3] + 1 >= NofFunctionsOf(p) /\ p[2] + 1 < NofDevices
                                      -> <<p[1], p[2] + 1, 0>>
    [] OTHER                          -> <<p[1], 0, 0>>

(* The three loops' next iteration.                                        *)
After(p) ==
  CASE p[3] + 1 < NofFunctionsOf(p)   -> <<p[1], p[2], p[3] + 1>>
    [] p[3] + 1 >= NofFunctionsOf(p) /\ p[2] + 1 < NofDevices
                                      -> <<p[1], p[2] + 1, 0>>
    [] OTHER                          -> <<p[1] + 1, 0, 0>>

InputOutput(bar_value) == bar_value % 2 = 1

(* Mutant: the type bits stay in the address.                              *)
AddressWithType(bar_value) == bar_value

Address(bar_value) == bar_value - (bar_value % 4)

(* The base registers that give an address: getBaseAddressRegister looks at*)
(* 6, 2 or, behind a bridge to cards, none of them.                        *)
AddressBars(f) ==
  {i \in 0 .. 5 : /\ i < 6 - 4 * f.headertype
                  /\ InputOutput(f.bars[i]) /\ Address(f.bars[i]) # 0}

(* port_base_number: set by the last of them, and by nothing else.         *)
PortBaseNumbers(f) ==
  {Address(f.bars[i]) : i \in {j \in AddressBars(f) : \A k \in AddressBars(f) : k <= j}}
  \cup (IF AddressBars(f) = {} THEN Ports ELSE {})

(* malloc on a heap from which nothing is ever freed.                      *)
Allocates(n) == chunk > n
Left(n) == IF chunk >= n + ChunkHeader + 1 THEN chunk - n - ChunkHeader ELSE 0

(* A driver object: which card it was made for and where its ports begin.  *)
NetworkDriver(p, base) == [kind |-> "network", at |-> p, port |-> base]

(* AMD_am79c973's handler number: uint8_t of interrupt_number + 0x20.      *)
NetworkNumber(f) == (f.interrupt_line + 32) % 256

(* getDriver: is it a card there is a driver for?                          *)
Supported(f) == f.vendor_id = AMD /\ f.device_id = am79c973

(* Driver for function p, constructed if malloc finds memory for it.       *)
CreateDriver(p) ==
  IF Allocates(DriverSize)
  THEN /\ chunk' = Left(DriverSize)
       /\ \E base \in PortBaseNumbers(Reply(p)) :
            /\ Register(NetworkNumber(Reply(p)), NetworkDriver(p, base))
            /\ AddDriver(NetworkDriver(p, base))
  ELSE UNCHANGED <<chunk, drivers, interruptHandlers>>

(* One iteration of the loops of enumerateDrivers.                         *)
Enumerate ==
  /\ at[1] < NofBuses
  /\ at' = After(at)
  /\ IF Reply(at).vendor_id \in {0, AllOnes}
     THEN UNCHANGED <<found, chunk, drivers, interruptHandlers>>
     ELSE /\ found' = found \cup {at}
          /\ IF Supported(Reply(at)) THEN CreateDriver(at)
             ELSE UNCHANGED <<chunk, drivers, interruptHandlers>>
  /\ UNCHANGED <<machine, nof_activated>>
-----------------------------------------------------------------------------
(* In the order of the loops.                                              *)
Precedes(p, q) ==
  \/ p[1] < q[1]
  \/ p[1] = q[1] /\ p[2] < q[2]
  \/ p[1] = q[1] /\ p[2] = q[2] /\ p[3] < q[3]

(* The walk finds every function there is (pci.cpp:62), and none twice: a  *)
(* device that answers for eight functions and has one is found once.      *)
EachFunctionOnce == found = {p \in Existing : Precedes(p, at)}

Cards == {p \in Existing : Supported(Reply(p))}

(* A card the walk has passed has one driver (pci.cpp:82), added in the    *)
(* order of the walk, unless the memory or the array was used up.          *)
EachCardOneDriver ==
  /\ \A p \in Cards : Precedes(p, at) =>
       \/ \E d \in Managed : d.kind = "network" /\ d.at = p
       \/ chunk <= DriverSize \/ Len(drivers) = MaxDrivers
  /\ \A i, j \in 1 .. Len(drivers) :
       i < j /\ drivers[i].kind = "network" /\ drivers[j].kind = "network"
         => Precedes(drivers[i].at, drivers[j].at)

(* The driver of a card that has ports works with that card's ports.       *)
TalksToItsCard ==
  \A d \in Managed :
    d.kind = "network" =>
      LET f == Reply(d.at)
      IN  AddressBars(f) # {} => \E i \in AddressBars(f) : f.bars[i] = d.port + 1
=============================================================================
