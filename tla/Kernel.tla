------------------------------- MODULE Kernel -------------------------------
(***************************************************************************)
(* kernelMain (source/kernel.cpp) in graphics mode, from the first malloc  *)
(* to the main loop: which objects are built in which order, which handlers*)
(* they register, which drivers are activated before interrupts are let in,*)
(* the calls to the drives that come then, and what packets of the mouse do*)
(* to the desktop from there on.                                           *)
(*                                                                         *)
(* The composition of the PCI walk, the driver manager, the descriptor     *)
(* table, the video adapter and the desktop.  Nothing interrupts kernelMain*)
(* before interrupt_manager.activate().                                    *)
(***************************************************************************)
EXTENDS PeripheralComponentInterconnect, GlobalDescriptorTable,
        VideoGraphicsArray, Desktop

CONSTANTS
  HeapSizes,    (* the sizes of the heap's first chunk                     *)
  FirstRequest  (* 1024, what kernelMain mallocs and never frees           *)

ASSUME KernelAssumption == HeapSizes \subseteq Nat /\ FirstRequest \in Nat

VARIABLE phase  (* where kernelMain is                                     *)

vars == <<driverVars, pciVars, vgaVars, desktopVars, phase>>

Phases == {"heap", "system calls", "keyboard", "mouse", "enumerate",
           "activate", "mode", "windows", "enable", "identifyMaster",
           "identifySlave", "write28", "flush", "read28", "running"}

(* Where kernelMain waits for an answer of a drive.                        *)
DriveCalls == {"identifyMaster", "identifySlave", "write28", "flush", "read28"}

InterruptsEnabled == phase \in DriveCalls \cup {"running"}

SystemCalls == [kind |-> "system calls"]
Keyboard == [kind |-> "keyboard"]
Mouse == [kind |-> "mouse"]

SystemCallNumber == 160    (* 0x80 + IRQ_BASE *)
KeyboardNumber == 33       (* 0x01 + IRQ_BASE *)
MouseNumber == 44          (* 0x0C + IRQ_BASE *)

Init ==
  /\ machine \in Machines /\ at = <<0, 0, 0>> /\ found = {}
  /\ chunk \in HeapSizes
  /\ DriverManagerInit /\ VgaInit /\ DesktopInit
  /\ phase = "heap"

Goes(from, to) == phase = from /\ phase' = to

(* The first malloc: its result is printed and otherwise forgotten.        *)
AllocateFirst ==
  /\ Goes("heap", "system calls")
  /\ chunk' = IF Allocates(FirstRequest) THEN Left(FirstRequest) ELSE chunk
  /\ UNCHANGED <<driverVars, machine, at, found, vgaVars, desktopVars>>

ConstructSystemCallHandler ==
  /\ Goes("system calls", "keyboard")
  /\ Register(SystemCallNumber, SystemCalls)
  /\ UNCHANGED <<drivers, nof_activated, pciVars, vgaVars, desktopVars>>

(* The constructor registers the driver, kernelMain adds it.               *)
AddKeyboard ==
  /\ Goes("keyboard", "mouse")
  /\ Register(KeyboardNumber, Keyboard) /\ AddDriver(Keyboard)
  /\ UNCHANGED <<nof_activated, pciVars, vgaVars, desktopVars>>

AddMouse ==
  /\ Goes("mouse", "enumerate")
  /\ Register(MouseNumber, Mouse) /\ AddDriver(Mouse)
  /\ UNCHANGED <<nof_activated, pciVars, vgaVars, desktopVars>>

EnumerateDrivers ==
  /\ phase = "enumerate" /\ Enumerate
  /\ UNCHANGED <<vgaVars, desktopVars, phase>>

EnumerationEnds ==
  /\ Goes("enumerate", "activate") /\ at[1] >= NofBuses
  /\ UNCHANGED <<driverVars, pciVars, vgaVars, desktopVars>>

(* The activate of the next driver returns.                                *)
ActivateAll ==
  /\ phase = "activate" /\ ActivateNext
  /\ UNCHANGED <<pciVars, vgaVars, desktopVars, phase>>

ActivationEnds ==
  /\ Goes("activate", "mode") /\ ~ActivatesMore
  /\ UNCHANGED <<driverVars, pciVars, vgaVars, desktopVars>>

SetMode ==
  /\ phase = "mode" /\ WriteNext
  /\ UNCHANGED <<driverVars, pciVars, desktopVars, phase>>

ModeIsSet ==
  /\ Goes("mode", "windows") /\ ShowPicture
  /\ UNCHANGED <<driverVars, pciVars, desktopVars>>

AddWindows ==
  /\ phase = "windows" /\ Len(childrens) < Len(Windows)
  /\ AddChild(Windows[Len(childrens) + 1])
  /\ UNCHANGED <<driverVars, pciVars, vgaVars, cursor, buttons, phase>>

WindowsEnd ==
  /\ Goes("windows", "enable") /\ Len(childrens) = Len(Windows)
  /\ UNCHANGED <<driverVars, pciVars, vgaVars, desktopVars>>

(* interrupt_manager.activate()                                            *)
EnableInterrupts ==
  /\ Goes("enable", "identifyMaster")
  /\ UNCHANGED <<driverVars, pciVars, vgaVars, desktopVars>>

(* A call to a drive returns.  What it does is AdvancedTechnologyAttachment*)
(* to tell; it touches nothing of what is modelled here.                   *)
CallReturns ==
  /\ \/ Goes("identifyMaster", "identifySlave")
     \/ Goes("identifySlave", "write28")
     \/ Goes("write28", "flush")
     \/ Goes("flush", "read28")
     \/ Goes("read28", "running")
  /\ UNCHANGED <<driverVars, pciVars, vgaVars, desktopVars>>

(* The third byte of a packet: handleInterruptMember calls what is in the  *)
(* table, which is the mouse driver or whoever took its place.             *)
MouseInterrupt ==
  /\ InterruptsEnabled
  /\ MouseNumber \in DOMAIN interruptHandlers
  /\ interruptHandlers[MouseNumber] = Mouse
  /\ \E dx, dy \in Deltas, pressed \in Presses : Packet(dx, dy, pressed)
  /\ UNCHANGED <<driverVars, pciVars, vgaVars, phase>>

(* The main loop draws: pixels, and the register that finds their page.    *)
MainLoop ==
  /\ phase = "running" /\ DrawPixels
  /\ UNCHANGED <<driverVars, pciVars, desktopVars, phase>>

(* What kernelMain does by itself, and what it waits for.                  *)
OwnSteps ==
  \/ AllocateFirst \/ ConstructSystemCallHandler \/ AddKeyboard \/ AddMouse
  \/ EnumerateDrivers \/ EnumerationEnds \/ ActivationEnds
  \/ SetMode \/ ModeIsSet \/ AddWindows \/ WindowsEnd \/ EnableInterrupts

Boot == OwnSteps \/ ActivateAll \/ CallReturns

Next == Boot \/ MouseInterrupt \/ MainLoop

Spec == Init /\ [][Next]_vars

(* kernelMain goes on wherever it waits for no device: it is not stopped   *)
(* before it enables interrupts, and returns to its place from a handler.  *)
(* Nothing is supposed of the loops inside a driver's activate and inside  *)
(* the calls to a drive.                                                   *)
FairSpec == Spec /\ WF_vars(OwnSteps)
-----------------------------------------------------------------------------
NetworkDrivers == [kind : {"network"}, at : Cards, port : Nat]
Drivers == {Keyboard, Mouse} \cup NetworkDrivers

(* Every variable has its C++ type; drivers and handlers are objects that  *)
(* were constructed, a network driver's for a card that is there; the      *)
(* cursor is on the desktop.                                               *)
TypeOK ==
  /\ machine \in Machines /\ found \subseteq Positions /\ chunk \in Nat
  /\ at \in (0 .. NofBuses) \X (0 .. NofDevices - 1) \X (0 .. NofFunctions - 1)
  /\ drivers \in Seq(Drivers) /\ Len(drivers) <= MaxDrivers
  /\ nof_activated \in 0 .. Len(drivers)
  /\ DOMAIN interruptHandlers \subseteq 0 .. 255
  /\ \A n \in DOMAIN interruptHandlers :
       interruptHandlers[n] \in Drivers \cup {SystemCalls}
  /\ cursor \in Screen /\ buttons \subseteq Buttons
  /\ childrens \in Seq(Window) /\ Len(childrens) <= Len(Windows)
  /\ IsAdapter(vga) /\ written \in Nat
  /\ phase \in Phases

Number(d) ==
  CASE d.kind = "keyboard" -> KeyboardNumber
    [] d.kind = "mouse"    -> MouseNumber
    [] d.kind = "network"  -> NetworkNumber(Reply(d.at))

(* Whatever the segments of the descriptor table, which kernelMain builds  *)
(* before anything else, the processor sees the base that was asked for and*)
(* a limit at most a page short of it.                                     *)
SegmentsReachTheirLimits ==
  phase = "heap" =>
    \A base_ptr, limit \in Limits : SegmentReachesItsLimit(base_ptr, limit)

(* Once interrupts are let in, a handler they can reach is that of a driver*)
(* that was activated, or of one that found the array full and is called   *)
(* without ever having been; and a managed driver hears its interrupts     *)
(* unless a network card on the same line was found after it.              *)
HandlersAreActive ==
  InterruptsEnabled =>
    /\ \A n \in DOMAIN interruptHandlers :
         \/ interruptHandlers[n] \in Activated \cup {SystemCalls}
         \/ Len(drivers) = MaxDrivers /\ interruptHandlers[n] \notin Managed
    /\ \A d \in Managed :
         /\ Number(d) \in DOMAIN interruptHandlers
         /\ LET h == interruptHandlers[Number(d)]
            IN  h = d \/ (h.kind = "network"
                          /\ (d.kind = "network" => Precedes(d.at, h.at)))

(* The main loop draws to an adapter in the mode the code asked for.       *)
RunsInMode == phase = "running" => InMode(vga)

(* On every machine kernelMain gets to its main loop, if it does not wait  *)
(* for ever in the activate of a driver or in one call to a drive: no loop *)
(* of its own holds it.                                                    *)
OnlyDevicesHoldTheBoot ==
  \/ <>(phase = "running")
  \/ <>[](phase = "activate" /\ ActivatesMore)
  \/ \E call \in DriveCalls : <>[](phase = call)
=============================================================================
