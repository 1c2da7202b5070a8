-------------------------- MODULE InterruptManager --------------------------
(***************************************************************************)
(* InterruptManager (source/hardware_communication/InterruptManager.cpp),  *)
(* the assembler stubs (interruptstubs.s) and SystemCallHandler            *)
(* (source/system_calls.cpp) on one processor with the two cascaded 8259   *)
(* interrupt controllers the constructor programs.                         *)
(*                                                                         *)
(* A context executes instructions until the processor takes an interrupt; *)
(* the handler then runs through the values of phase:                      *)
(*   "run"     instructions of a context                                   *)
(*   "handle"  the stub has saved the registers: handleInterrupt           *)
(*   "master"  the end-of-interrupt command to the master controller       *)
(*   "slave"   and to the slave                                            *)
(*   "return"  the stub takes the registers back and executes iret         *)
(* An interrupt gate clears the interrupt flag, so only devices, which     *)
(* raise lines at any time, interleave with a handler.  The handlers of    *)
(* device drivers are modelled with their devices; none changes the state  *)
(* of this module.                                                         *)
(***************************************************************************)
EXTENDS TaskManager, Sequences, FiniteSets

CONSTANTS
  Lines,        (* interrupt lines some device is wired to; 0 is the timer *)
  FirstBoot,    (* the registers kernelMain starts with                    *)
  Successors,   (* registers |-> what one instruction may make of them     *)
  AtInt,        (* the registers whose next instruction is int $0x80       *)
  AfterInt,     (* registers |-> the same with eip behind that instruction *)
  Write,        (* the value of eax that asks for a text to be printed, 4  *)
  Gone          (* stands for registers nobody will ever see again         *)

(* The contents of the registers.                                          *)
Files ==
  [eax : Word, ebx : Word, ecx : Word, edx : Word, esi : Word, edi : Word,
   ebp : Word, eip : Word, cs : Word, eflags : {0, IF_FLAG}, esp : Pointers]

Owner(f) == f.esp[1]           (* the context whose stack f runs on        *)

(* An instruction other than int, cli, sti and iret stays on its context's *)
(* stack and leaves the interrupt flag alone.                              *)
ASSUME ProgramAssumption ==
  /\ Lines \subseteq 0 .. 15
  /\ FirstBoot \in Files /\ FirstBoot.eflags = 0 /\ Owner(FirstBoot) = Boot
  /\ AtInt \subseteq Files
  /\ Write \in Word
  /\ \A f \in DOMAIN Successors : \A g \in Successors[f] :
       g \in Files /\ Owner(g) = Owner(f) /\ g.eflags = f.eflags
  /\ \A f \in AtInt :
       /\ AfterInt[f] \in Files
       /\ AfterInt[f] = [f EXCEPT !.eip = AfterInt[f].eip]

VARIABLES
  regs,         (* the registers, while a context executes                 *)
  phase,        (* see above                                               *)
  esp,          (* the frame the running handler was given or will return  *)
  interruptnumber,        (* the number its stub has stored                *)
  activeInterruptManager, (* is there one?                                 *)
  irr,          (* the lines raised and not yet taken                      *)
  master,       (* the lines in service at the master controller           *)
  slave,        (* the lines in service at the slave                       *)
  start,        (* how far kernelMain is through activate and deactivate   *)
  printed       (* the last text printed by a system call                  *)

pic == <<irr, master, slave>>
taskVars == <<tasks, nof_tasks, current_task_index, cpu_state>>
vars == <<taskVars, stack, regs, phase, esp, interruptnumber,
          activeInterruptManager, pic, start, printed>>

IRQ_BASE == 32                 (* 0x20                                     *)
CascadeLine == 2               (* the master's line the slave is wired to  *)
SystemCallNumber == (128 + IRQ_BASE) % 256
-----------------------------------------------------------------------------
Init ==
  /\ TaskInit
  /\ regs = FirstBoot /\ phase = "run" /\ esp = FirstBoot.esp
  /\ interruptnumber = 0
  /\ activeInterruptManager = FALSE
  /\ irr = {} /\ master = {} /\ slave = {}
  /\ start = "inactive" /\ printed = 0

(***************************************************************************)
(* The processor and the interrupt controllers                             *)
(***************************************************************************)

(* The frame an interrupt leaves on the stack: what the processor pushes,  *)
(* the 0 the stub pushes for the error code, and int_bottom's registers,   *)
(* the last one pushed first.                                              *)
Saved(f) ==
  <<f.eax, f.ebx, f.ecx, f.edx, f.esi, f.edi, f.ebp, 0, f.eip, f.cs, f.eflags>>

(* Mutant: esi and edi are popped in the order they were pushed.           *)
RestoredSwapped(p) ==
  [eax |-> stack[p][1], ebx |-> stack[p][2], ecx |-> stack[p][3],
   edx |-> stack[p][4], esi |-> stack[p][6], edi |-> stack[p][5],
   ebp |-> stack[p][7], eip |-> stack[p][9], cs |-> stack[p][10],
   eflags |-> stack[p][11], esp |-> p]

(* The registers after int_bottom has popped the frame at p: eax to ebp,   *)
(* add $4 past the error code, and iret.                                   *)
Restored(p) ==
  [eax |-> stack[p][1], ebx |-> stack[p][2], ecx |-> stack[p][3],
   edx |-> stack[p][4], esi |-> stack[p][5], edi |-> stack[p][6],
   ebp |-> stack[p][7], eip |-> stack[p][9], cs |-> stack[p][10],
   eflags |-> stack[p][11], esp |-> p]

(* The slave's lines go through the master's cascade line: their urgency   *)
(* lies between that of the master's lines 1 and 3.                        *)
Urgency(l) == IF l < 8 THEN 8 * l ELSE 8 * CascadeLine + l - 8

(* May line l interrupt what is in service?                                *)
Passes(l) ==
  IF l < 8 THEN \A s \in master : l < s
           ELSE (\A s \in master : CascadeLine < s) /\ (\A s \in slave : l < s)

(* The controllers put through the most urgent of the lines that may.      *)
Delivers(l) ==
  /\ l \in irr /\ Passes(l)
  /\ \A k \in irr : Passes(k) => Urgency(l) <= Urgency(k)

InterruptPending == regs.eflags = IF_FLAG /\ \E l \in irr : Passes(l)

(* A device raises its line; one that is raised already stays raised.      *)
Raise(l) ==
  /\ l \notin irr /\ irr' = irr \cup {l}
  /\ UNCHANGED <<taskVars, stack, regs, phase, esp, interruptnumber,
                 activeInterruptManager, master, slave, start, printed>>

(* Control goes to a stub, which saves f and stores number n.              *)
EnterStub(f, n) ==
  /\ stack' = [stack EXCEPT ![f.esp] = Saved(f)]
  /\ esp' = f.esp /\ interruptnumber' = n /\ phase' = "handle"

(* Between two instructions the processor takes the interrupt of line l.   *)
Interrupt(l) ==
  /\ phase = "run" /\ regs.eflags = IF_FLAG /\ Delivers(l)
  /\ irr' = irr \ {l}
  /\ master' = master \cup {IF l < 8 THEN l ELSE CascadeLine}
  /\ slave' = IF l < 8 THEN slave ELSE slave \cup {l}
  /\ EnterStub(regs, l + IRQ_BASE)
  /\ UNCHANGED <<taskVars, regs, activeInterruptManager, start, printed>>

(* It executes an instruction only when no interrupt is waiting.           *)
Execute ==
  /\ phase = "run" /\ ~InterruptPending
  /\ regs \in DOMAIN Successors /\ regs \notin AtInt
  /\ regs' \in Successors[regs]
  /\ UNCHANGED <<taskVars, stack, phase, esp, interruptnumber,
                 activeInterruptManager, pic, start, printed>>

(* int $0x80: the gate of vector 0x80 leads to the stub that stores 0xA0.  *)
SystemCall ==
  /\ phase = "run" /\ ~InterruptPending /\ regs \in AtInt
  /\ EnterStub(AfterInt[regs], SystemCallNumber)
  /\ UNCHANGED <<taskVars, regs, activeInterruptManager, pic, start, printed>>

(***************************************************************************)
(* handleInterrupt                                                         *)
(***************************************************************************)

(* SystemCallHandler::handleInterrupt: fields eax and ebx of the CPUstate. *)
HandleSystemCall ==
  printed' = IF stack[esp][1] = Write THEN stack[esp][2] ELSE printed

Hardware(n) == n \in IRQ_BASE .. IRQ_BASE + 15

(* Mutant: the slave's interrupts are acknowledged to the slave only.      *)
NextPhaseSkipsMaster(n) ==
  IF ~Hardware(n) THEN "return" ELSE IF n >= 40 THEN "slave" ELSE "master"

(* Where handleInterruptMember goes after the handlers.                    *)
NextPhase(n) == IF Hardware(n) THEN "master" ELSE "return"

(* handleInterrupt without an active manager returns at once; with one it  *)
(* calls the registered handler, and schedule when this is the timer.      *)
Handle ==
  /\ phase = "handle"
  /\ IF activeInterruptManager
     THEN /\ IF interruptnumber = SystemCallNumber THEN HandleSystemCall
                                                   ELSE UNCHANGED printed
          /\ IF interruptnumber = IRQ_BASE
             THEN \E r \in Pointers : Schedule(esp, r) /\ esp' = r
             ELSE UNCHANGED <<taskVars, stack, esp>>
          /\ phase' = NextPhase(interruptnumber)
     ELSE /\ phase' = "return"
          /\ UNCHANGED <<taskVars, stack, esp, printed>>
  /\ UNCHANGED <<regs, interruptnumber, activeInterruptManager, pic, start>>

(* A non-specific end of interrupt ends the most urgent line in service.   *)
Ended(isr) == {l \in isr : \E s \in isr : s < l}

AcknowledgeMaster ==
  /\ phase = "master"
  /\ master' = Ended(master)
  /\ phase' = IF interruptnumber >= IRQ_BASE + 8 THEN "slave" ELSE "return"
  /\ UNCHANGED <<taskVars, stack, regs, esp, interruptnumber,
                 activeInterruptManager, irr, slave, start, printed>>

AcknowledgeSlave ==
  /\ phase = "slave"
  /\ slave' = Ended(slave)
  /\ phase' = "return"
  /\ UNCHANGED <<taskVars, stack, regs, esp, interruptnumber,
                 activeInterruptManager, irr, master, start, printed>>

(* What lies below the stack pointer is nobody's any more.                 *)
Return ==
  /\ phase = "return"
  /\ regs' = Restored(esp) /\ phase' = "run"
  /\ stack' = [stack EXCEPT ![esp] = Unused]
  /\ interruptnumber' = 0
  /\ UNCHANGED <<taskVars, esp, activeInterruptManager, pic, start, printed>>
-----------------------------------------------------------------------------
(***************************************************************************)
(* kernelMain: tasks are added first, then the manager is activated.       *)
(***************************************************************************)
InKernelMain == phase = "run" /\ Owner(regs) = Boot /\ ~InterruptPending

BootAddsTask(t) ==
  /\ InKernelMain /\ start = "inactive"
  /\ AddTask(t)
  /\ UNCHANGED <<regs, phase, esp, interruptnumber, activeInterruptManager,
                 pic, start, printed>>

(* activate, up to sti.                                                    *)
Activate ==
  /\ InKernelMain /\ start = "inactive"
  /\ activeInterruptManager' = TRUE /\ start' = "published"
  /\ UNCHANGED <<taskVars, stack, regs, phase, esp, interruptnumber, pic, printed>>

EnableInterrupts ==
  /\ InKernelMain /\ start = "published"
  /\ regs' = [regs EXCEPT !.eflags = IF_FLAG] /\ start' = "active"
  /\ UNCHANGED <<taskVars, stack, phase, esp, interruptnumber,
                 activeInterruptManager, pic, printed>>

Processor ==
  \/ \E l \in Lines : Interrupt(l)
  \/ Execute \/ SystemCall
  \/ Handle \/ AcknowledgeMaster \/ AcknowledgeSlave \/ Return
  \/ \E t \in Tasks : BootAddsTask(t)
  \/ Activate \/ EnableInterrupts

Next == Processor \/ \E l \in Lines : Raise(l)

Spec == Init /\ [][Next]_vars

(* The processor never stops, the timer never stops ticking, and kernelMain*)
(* reaches the end of activate.                                            *)
FairSpec ==
  /\ Spec /\ WF_vars(Processor) /\ WF_vars(Raise(0))
  /\ WF_vars(Activate) /\ WF_vars(EnableInterrupts)
-----------------------------------------------------------------------------
(* deactivate, which activate calls when a manager is active already: it   *)
(* takes the pointer away first, and stops interrupts after that.          *)
Deactivate ==
  /\ InKernelMain /\ start = "active"
  /\ activeInterruptManager' = FALSE /\ start' = "withdrawn"
  /\ UNCHANGED <<taskVars, stack, regs, phase, esp, interruptnumber, pic, printed>>

DisableInterrupts ==
  /\ InKernelMain /\ start = "withdrawn"
  /\ regs' = [regs EXCEPT !.eflags = 0] /\ start' = "inactive"
  /\ UNCHANGED <<taskVars, stack, phase, esp, interruptnumber,
                 activeInterruptManager, pic, printed>>

(* A kernel that activates a manager when one is active already.           *)
ReactivateSpec == Init /\ [][Next \/ Deactivate \/ DisableInterrupts]_vars
-----------------------------------------------------------------------------
(***************************************************************************)
(* Properties.                                                             *)
(***************************************************************************)

(* Every variable has its C++ type; the task table holds tasks up to       *)
(* nof_tasks, and the current index is that of one of them.                *)
TypeOK ==
  /\ nof_tasks \in 0 .. MaxTasks
  /\ tasks \in [Slots -> Tasks \cup {NoTask}]
  /\ \A i \in 0 .. nof_tasks - 1 : tasks[i] \in Tasks
  /\ current_task_index \in -1 .. nof_tasks - 1
  /\ cpu_state \in [Tasks -> Pointers]
  /\ stack \in [Pointers -> Frames]
  /\ regs \in Files
  /\ phase \in {"run", "handle", "master", "slave", "return"}
  /\ esp \in Pointers
  /\ interruptnumber \in 0 .. 255
  /\ activeInterruptManager \in BOOLEAN
  /\ irr \subseteq Lines /\ master \subseteq 0 .. 7 /\ slave \subseteq 8 .. 15
  /\ start \in {"inactive", "published", "active", "withdrawn"}
  /\ printed \in Word

(* When a context executes, no line is in service at either controller:    *)
(* every hardware interrupt was acknowledged to the controllers it came    *)
(* through before its handler returned, also when the handler returns to   *)
(* another task than the one it interrupted.                               *)
AllAcknowledged == phase = "run" => master = {} /\ slave = {}

(* schedule saves nothing for kernelMain: once a task has run, no return   *)
(* from an interrupt ever continues kernelMain.                            *)
KernelMainIsAbandoned ==
  [][Owner(regs) # Boot => Owner(regs') # Boot]_vars

(* Every task that was added gets the processor again and again.           *)
EveryTaskRuns ==
  \A t \in Tasks :
    (\E i \in 0 .. nof_tasks - 1 : tasks[i] = t)
      ~> (phase = "run" /\ Owner(regs) = t)

(* The registers a context sees, the order of the turns and the texts      *)
(* printed are those of RoundRobin: no interrupt, and no other task, ever  *)
(* shows in the registers of a context, and a task starts at its entry     *)
(* point with every general register 0 and interrupts enabled.             *)
Running == IF phase = "run" THEN Owner(regs) ELSE esp[1]

FileOf(c) ==
  IF c = Running THEN (IF phase = "run" THEN regs ELSE Restored(esp))
  ELSE IF c \in Tasks THEN Restored(cpu_state[c])
  ELSE Gone

Started(c) ==
  IF c = Boot THEN FirstBoot
  ELSE [eax |-> 0, ebx |-> 0, ecx |-> 0, edx |-> 0, esi |-> 0, edi |-> 0,
        ebp |-> 0, eip |-> Entry[c], cs |-> CodeSegment, eflags |-> IF_FLAG,
        esp |-> <<c, 0>>]

Turns ==
  INSTANCE RoundRobin WITH
    First <- [c \in Contexts |-> Started(c)],
    file <- [c \in Contexts |-> FileOf(c)],
    turn <- Running,
    served <- activeInterruptManager,
    queue <- [i \in 1 .. nof_tasks |->
                tasks[(current_task_index + i) % nof_tasks]],
    calling <- phase = "handle" /\ interruptnumber = SystemCallNumber
RoundRobinHolds == Turns!Spec
=============================================================================
