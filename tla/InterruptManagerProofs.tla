----------------------- MODULE InterruptManagerProofs -----------------------
(***************************************************************************)
(* Theorems about InterruptManager for every program, every number of tasks*)
(* and every set of interrupt lines: types, and that each interrupt is     *)
(* acknowledged to the controllers it came through.                        *)
(***************************************************************************)
EXTENDS InterruptManager, TLAPS

(* What is in service follows from how far the handler has come.           *)
InService ==
  /\ phase \in {"run", "return"} => master = {} /\ slave = {}
  /\ phase \in {"handle", "master", "slave"} =>
       IF ~Hardware(interruptnumber)
       THEN phase = "handle" /\ master = {} /\ slave = {}
       ELSE /\ master = IF phase = "slave" THEN {}
                        ELSE IF interruptnumber < IRQ_BASE + 8
                             THEN {interruptnumber - IRQ_BASE} ELSE {CascadeLine}
            /\ slave = IF interruptnumber < IRQ_BASE + 8
                       THEN {} ELSE {interruptnumber - IRQ_BASE}
            /\ phase = "slave" => interruptnumber >= IRQ_BASE + 8

(* Until a manager is active the processor takes no hardware interrupt.    *)
QuietUntilActive ==
  ~activeInterruptManager =>
    IF phase = "run" THEN regs.eflags = 0
    ELSE /\ phase \in {"handle", "return"}
         /\ phase = "handle" => ~Hardware(interruptnumber)
         /\ stack[esp][11] = 0

(* A manager is active from the moment activate has published it, which is *)
(* before sti.                                                             *)
StartsActive == activeInterruptManager <=> start # "inactive"

IInv == TypeOK /\ InService /\ QuietUntilActive /\ StartsActive
-----------------------------------------------------------------------------
(* A frame that is saved has the type of frames.                           *)
LEMMA SavedType == \A f \in Files : Saved(f) \in Frames /\ Saved(f)[11] = f.eflags
  <1> SUFFICES ASSUME NEW f \in Files
               PROVE  Saved(f) \in Frames /\ Saved(f)[11] = f.eflags
    OBVIOUS
  <1>1. /\ f.eax \in Word /\ f.ebx \in Word /\ f.ecx \in Word /\ f.edx \in Word
        /\ f.esi \in Word /\ f.edi \in Word /\ f.ebp \in Word /\ f.eip \in Word
        /\ f.cs \in Word /\ f.eflags \in {0, IF_FLAG} /\ f.eflags \in Word
        /\ 0 \in Word
    BY TaskAssumption DEF Files
  <1>2. Saved(f) \in [1 .. 11 -> Word]
    BY <1>1 DEF Saved
  <1>3. Saved(f)[11] = f.eflags
    BY DEF Saved
  <1> QED BY <1>1, <1>2, <1>3 DEF Frames

(* What is restored from a frame is a set of registers.                    *)
LEMMA RestoredType ==
  ASSUME stack \in [Pointers -> Frames], NEW p \in Pointers
  PROVE  /\ Restored(p) \in Files /\ Restored(p).esp = p
         /\ Restored(p).eflags = stack[p][11]
  <1>1. stack[p] \in [1 .. 11 -> Word] /\ stack[p][11] \in {0, IF_FLAG}
    BY DEF Frames
  <1> QED BY <1>1 DEF Restored, Files

LEMMA UnusedType == Unused \in Frames
  BY TaskAssumption DEF Unused, Frames

LEMMA InitInv == Init => IInv
  <1> SUFFICES ASSUME Init PROVE IInv
    OBVIOUS
  <1>1. FirstBoot \in Files /\ FirstBoot.esp \in Pointers /\ FirstBoot.eflags = 0
    BY ProgramAssumption DEF Files
  <1>2. \A t \in Tasks : FirstFrame(t) \in Frames
    <2> SUFFICES ASSUME NEW t \in Tasks PROVE FirstFrame(t) \in Frames
      OBVIOUS
    <2>1. Entry[t] \in Word /\ CodeSegment \in Word /\ IF_FLAG \in Word /\ 0 \in Word
      BY TaskAssumption
    <2> QED BY <2>1 DEF FirstFrame, Frames
  <1>3. stack \in [Pointers -> Frames]
    BY <1>2, UnusedType DEF Init, TaskInit
  <1>4. cpu_state \in [Tasks -> Pointers]
    BY TaskAssumption DEF Init, TaskInit, Pointers, Contexts
  <1>5. /\ nof_tasks = 0 /\ current_task_index = -1
        /\ tasks \in [Slots -> Tasks \cup {NoTask}]
    BY DEF Init, TaskInit
  <1>6. 0 \in Word
    BY TaskAssumption
  <1>7. /\ regs = FirstBoot /\ phase = "run" /\ esp = FirstBoot.esp
        /\ interruptnumber = 0 /\ activeInterruptManager = FALSE
        /\ irr = {} /\ master = {} /\ slave = {}
        /\ start = "inactive" /\ printed = 0
    BY DEF Init
  <1>8. nof_tasks \in 0 .. MaxTasks /\ current_task_index \in -1 .. nof_tasks - 1
    BY <1>5, TaskAssumption
  <1>9. \A i \in 0 .. nof_tasks - 1 : tasks[i] \in Tasks
    BY <1>5
  <1>10. TypeOK
    <2>1. regs \in Files /\ esp \in Pointers /\ interruptnumber \in 0 .. 255
      BY <1>1, <1>7
    <2>2. irr \subseteq Lines /\ master \subseteq 0 .. 7 /\ slave \subseteq 8 .. 15
      BY <1>7
    <2>3. /\ activeInterruptManager \in BOOLEAN /\ printed \in Word
          /\ phase \in {"run", "handle", "master", "slave", "return"}
          /\ start \in {"inactive", "published", "active", "withdrawn"}
      BY <1>6, <1>7
    <2> QED BY <1>3, <1>4, <1>5, <1>8, <1>9, <2>1, <2>2, <2>3 DEF TypeOK
  <1> QED BY <1>1, <1>7, <1>10 DEF IInv, StartsActive, InService, QuietUntilActive

(* The part of the type invariant about TaskManager.                       *)
TasksOK ==
  /\ nof_tasks \in 0 .. MaxTasks
  /\ tasks \in [Slots -> Tasks \cup {NoTask}]
  /\ \A i \in 0 .. nof_tasks - 1 : tasks[i] \in Tasks
  /\ current_task_index \in -1 .. nof_tasks - 1
  /\ cpu_state \in [Tasks -> Pointers]

(* schedule keeps it, and returns a frame pointer.                         *)
LEMMA ScheduleType ==
  ASSUME TasksOK, NEW p \in Pointers, NEW r, Schedule(p, r)
  PROVE  TasksOK' /\ r \in Pointers /\ stack' = stack
  <1>1. CASE nof_tasks = 0
    BY <1>1 DEF Schedule, TasksOK
  <1>2. CASE nof_tasks # 0
    <2>1. nof_tasks \in Nat \ {0} /\ current_task_index \in Int
      BY <1>2, TaskAssumption DEF TasksOK
    <2>2. NextIndex \in 0 .. nof_tasks - 1
      BY <2>1 DEF NextIndex
    <2>3. tasks[NextIndex] \in Tasks
      BY <2>2 DEF TasksOK
    <2>4. Keep(p) \in [Tasks -> Pointers]
      BY DEF Keep, TasksOK
    <2>5. /\ cpu_state' = Keep(p) /\ current_task_index' = NextIndex
          /\ r = Keep(p)[tasks[NextIndex]] /\ UNCHANGED <<tasks, nof_tasks, stack>>
      BY <1>2 DEF Schedule
    <2> HIDE DEF NextIndex, Keep
    <2>6. current_task_index' \in -1 .. nof_tasks' - 1
      BY <2>1, <2>2, <2>5
    <2> QED BY <2>3, <2>4, <2>5, <2>6 DEF TasksOK
  <1> QED BY <1>1, <1>2

(* The invariant is kept by the processor taking a hardware interrupt.     *)
LEMMA InterruptInv ==
  ASSUME IInv, NEW l \in Lines, Interrupt(l)
  PROVE  IInv'
  <1>1. /\ phase = "run" /\ regs.eflags = IF_FLAG /\ l \in 0 .. 15
        /\ irr' = irr \ {l}
        /\ master' = master \cup {IF l < 8 THEN l ELSE CascadeLine}
        /\ slave' = IF l < 8 THEN slave ELSE slave \cup {l}
        /\ stack' = [stack EXCEPT ![regs.esp] = Saved(regs)]
        /\ esp' = regs.esp /\ interruptnumber' = l + IRQ_BASE /\ phase' = "handle"
        /\ UNCHANGED <<taskVars, regs, activeInterruptManager, start, printed>>
    BY ProgramAssumption DEF Interrupt, EnterStub
  <1>2. master = {} /\ slave = {} /\ activeInterruptManager
    BY <1>1, TaskAssumption DEF IInv, InService, QuietUntilActive, TypeOK
  <1>3. regs \in Files /\ regs.esp \in Pointers /\ Saved(regs) \in Frames
    BY SavedType DEF IInv, TypeOK, Files
  <1>4. TypeOK'
    <2>1. stack' \in [Pointers -> Frames]
      BY <1>1, <1>3 DEF IInv, TypeOK
    <2>2. interruptnumber' \in 0 .. 255
      BY <1>1 DEF IRQ_BASE
    <2>3. irr' \subseteq Lines /\ master' \subseteq 0 .. 7 /\ slave' \subseteq 8 .. 15
      BY <1>1, <1>2 DEF IInv, TypeOK, CascadeLine
    <2> QED BY <1>1, <1>3, <2>1, <2>2, <2>3 DEF IInv, TypeOK, taskVars
  <1>5. InService'
    BY <1>1, <1>2 DEF InService, Hardware, IRQ_BASE, CascadeLine
  <1>6. QuietUntilActive'
    BY <1>1, <1>2 DEF QuietUntilActive
  <1> QED BY <1>1, <1>4, <1>5, <1>6 DEF IInv, StartsActive

(* By handleInterrupt.                                                     *)
LEMMA HandleInv ==
  ASSUME IInv, Handle
  PROVE  IInv'
  <1>1. /\ phase = "handle"
        /\ UNCHANGED <<regs, interruptnumber, activeInterruptManager, pic, start>>
        /\ esp \in Pointers /\ TasksOK
    BY DEF Handle, IInv, TypeOK, TasksOK
  <1>2. CASE activeInterruptManager
    <2>1. TasksOK' /\ esp' \in Pointers /\ stack' = stack
      <3>1. CASE interruptnumber = IRQ_BASE
        <4>1. PICK r \in Pointers : Schedule(esp, r) /\ esp' = r
          BY <1>2, <3>1 DEF Handle
        <4> QED BY <1>1, <4>1, ScheduleType
      <3>2. CASE interruptnumber # IRQ_BASE
        BY <1>1, <1>2, <3>2 DEF Handle, TasksOK, taskVars
      <3> QED BY <3>1, <3>2
    <2>2. phase' = NextPhase(interruptnumber)
      BY <1>2 DEF Handle
    <2>3. printed' \in Word
      <3>1. stack[esp][2] \in Word /\ printed \in Word
        BY <1>1 DEF IInv, TypeOK, Frames
      <3> QED BY <1>2, <3>1 DEF Handle, HandleSystemCall
    <2>4. TypeOK'
      BY <1>1, <2>1, <2>2, <2>3 DEF IInv, TypeOK, TasksOK, NextPhase, pic
    <2>5. InService'
      BY <1>1, <2>2 DEF IInv, InService, NextPhase, pic
    <2> QED BY <1>1, <1>2, <2>4, <2>5 DEF IInv, StartsActive, QuietUntilActive
  <1>3. CASE ~activeInterruptManager
    <2>1. phase' = "return" /\ UNCHANGED <<taskVars, stack, esp, printed>>
      BY <1>3 DEF Handle
    <2>2. ~Hardware(interruptnumber) /\ stack[esp][11] = 0
      BY <1>1, <1>3 DEF IInv, QuietUntilActive
    <2>3. TypeOK'
      BY <1>1, <2>1 DEF IInv, TypeOK, taskVars, pic
    <2>4. InService'
      BY <1>1, <2>1, <2>2 DEF IInv, InService, pic
    <2> QED BY <1>1, <2>1, <2>2, <2>3, <2>4 DEF IInv, StartsActive, QuietUntilActive
  <1> QED BY <1>2, <1>3

(* By the end-of-interrupt commands.                                       *)
LEMMA AcknowledgeInv ==
  ASSUME IInv, AcknowledgeMaster \/ AcknowledgeSlave
  PROVE  IInv'
  <1>1. /\ UNCHANGED <<taskVars, stack, regs, esp, interruptnumber,
                       activeInterruptManager, irr, start, printed>>
        /\ phase \in {"master", "slave"} /\ activeInterruptManager
    BY DEF AcknowledgeMaster, AcknowledgeSlave, IInv, QuietUntilActive, TypeOK
  <1>2. interruptnumber \in 0 .. 255 /\ Hardware(interruptnumber)
    BY <1>1 DEF IInv, TypeOK, InService
  <1>3. \A x \in Int : Ended({x}) = {}
    <2> SUFFICES ASSUME NEW x \in Int, NEW y \in Ended({x}) PROVE FALSE
      OBVIOUS
    <2> QED BY DEF Ended
  <1>4. CASE AcknowledgeMaster
    <2>1. /\ master' = Ended(master) /\ slave' = slave /\ phase = "master"
          /\ phase' = IF interruptnumber >= IRQ_BASE + 8 THEN "slave" ELSE "return"
      BY <1>4 DEF AcknowledgeMaster
    <2>2. \E x \in Int : master = {x}
      BY <1>2, <2>1 DEF IInv, InService, IRQ_BASE, CascadeLine
    <2>3. master' = {}
      BY <1>3, <2>1, <2>2
    <2>4. TypeOK'
      BY <1>1, <2>1, <2>3 DEF IInv, TypeOK, taskVars
    <2>5. InService'
      BY <1>1, <1>2, <2>1, <2>3 DEF IInv, InService, IRQ_BASE
    <2> QED BY <1>1, <2>4, <2>5 DEF IInv, StartsActive, QuietUntilActive
  <1>5. CASE AcknowledgeSlave
    <2>1. /\ slave' = Ended(slave) /\ master' = master /\ phase = "slave"
          /\ phase' = "return"
      BY <1>5 DEF AcknowledgeSlave
    <2>2. master = {} /\ \E x \in Int : slave = {x}
      <3>1. interruptnumber >= 40 /\ interruptnumber \in Int
        BY <1>2, <2>1 DEF IInv, InService, IRQ_BASE
      <3>2. slave = {interruptnumber - IRQ_BASE} /\ master = {}
        BY <1>2, <2>1, <3>1 DEF IInv, InService, IRQ_BASE
      <3> QED BY <3>1, <3>2 DEF IRQ_BASE
    <2>3. slave' = {}
      BY <1>3, <2>1, <2>2
    <2>4. TypeOK'
      BY <1>1, <2>1, <2>2, <2>3 DEF IInv, TypeOK, taskVars
    <2>5. InService'
      BY <2>1, <2>2, <2>3 DEF InService
    <2> QED BY <1>1, <2>4, <2>5 DEF IInv, StartsActive, QuietUntilActive
  <1> QED BY <1>4, <1>5

(* By iret.                                                                *)
LEMMA ReturnInv ==
  ASSUME IInv, Return
  PROVE  IInv'
  <1>1. /\ phase = "return" /\ phase' = "run" /\ regs' = Restored(esp)
        /\ stack' = [stack EXCEPT ![esp] = Unused] /\ interruptnumber' = 0
        /\ UNCHANGED <<taskVars, esp, activeInterruptManager, pic, start, printed>>
    BY DEF Return
  <1>2. Restored(esp) \in Files /\ Restored(esp).eflags = stack[esp][11]
    BY RestoredType DEF IInv, TypeOK
  <1>3. TypeOK'
    <2>1. stack' \in [Pointers -> Frames]
      BY <1>1, UnusedType DEF IInv, TypeOK
    <2> QED BY <1>1, <1>2, <2>1 DEF IInv, TypeOK, taskVars, pic
  <1>4. InService'
    BY <1>1 DEF IInv, InService, pic
  <1>5. QuietUntilActive'
    BY <1>1, <1>2 DEF IInv, QuietUntilActive
  <1> QED BY <1>1, <1>3, <1>4, <1>5 DEF IInv, StartsActive

(* By int $0x80.                                                           *)
LEMMA SystemCallInv ==
  ASSUME IInv, SystemCall
  PROVE  IInv'
  <1> DEFINE f == AfterInt[regs]
  <1>1. /\ phase = "run" /\ phase' = "handle" /\ regs \in AtInt
        /\ stack' = [stack EXCEPT ![f.esp] = Saved(f)]
        /\ esp' = f.esp /\ interruptnumber' = SystemCallNumber
        /\ UNCHANGED <<taskVars, regs, activeInterruptManager, pic, start, printed>>
    BY DEF SystemCall, EnterStub
  <1>2. f \in Files /\ f.eflags = regs.eflags
    <2>1. f \in Files /\ f = [regs EXCEPT !.eip = f.eip] /\ regs \in Files
      BY <1>1, ProgramAssumption DEF IInv, TypeOK
    <2> QED BY <2>1 DEF Files
  <1> HIDE DEF f
  <1>3. Saved(f) \in Frames /\ Saved(f)[11] = regs.eflags /\ f.esp \in Pointers
    BY <1>2, SavedType DEF Files
  <1>4. SystemCallNumber = 160 /\ ~Hardware(SystemCallNumber)
    BY DEF SystemCallNumber, Hardware, IRQ_BASE
  <1>5. TypeOK'
    <2>1. stack' \in [Pointers -> Frames]
      BY <1>1, <1>3 DEF IInv, TypeOK
    <2> QED BY <1>1, <1>3, <1>4, <2>1 DEF IInv, TypeOK, taskVars, pic
  <1>6. InService'
    BY <1>1, <1>4 DEF IInv, InService, pic
  <1>7. QuietUntilActive'
    <2>1. stack'[esp'][11] = regs.eflags
      BY <1>1, <1>3 DEF IInv, TypeOK
    <2> QED BY <1>1, <1>4, <2>1 DEF IInv, QuietUntilActive
  <1> QED BY <1>1, <1>5, <1>6, <1>7 DEF IInv, StartsActive

(* By instructions of a context, kernelMain's calls included.              *)
LEMMA RunInv ==
  ASSUME IInv,
         \/ Execute \/ Activate \/ EnableInterrupts
         \/ \E t \in Tasks : BootAddsTask(t)
  PROVE  IInv'
  <1>1. /\ phase = "run" /\ phase' = "run" /\ UNCHANGED <<stack, esp, interruptnumber>>
        /\ UNCHANGED <<irr, master, slave, printed>>
    BY DEF Execute, Activate, EnableInterrupts, BootAddsTask, AddTask, InKernelMain, pic
  <1>2. InService'
    BY <1>1 DEF IInv, InService
  <1>3. CASE Execute
    <2>1. regs' \in Files /\ regs'.eflags = regs.eflags
      BY <1>3, ProgramAssumption DEF Execute
    <2>2. TypeOK'
      BY <1>1, <1>3, <2>1 DEF Execute, IInv, TypeOK, taskVars
    <2>3. QuietUntilActive'
      BY <1>1, <1>3, <2>1 DEF Execute, IInv, QuietUntilActive
    <2> QED BY <1>2, <1>3, <2>2, <2>3 DEF Execute, IInv, StartsActive
  <1>4. CASE Activate
    <2>1. TypeOK'
      BY <1>1, <1>4 DEF Activate, IInv, TypeOK, taskVars
    <2> QED BY <1>2, <1>4, <2>1 DEF Activate, IInv, StartsActive, QuietUntilActive
  <1>5. CASE EnableInterrupts
    <2>1. regs' \in Files
      <3>1. regs \in Files /\ regs' = [regs EXCEPT !.eflags = IF_FLAG]
        BY <1>5 DEF EnableInterrupts, IInv, TypeOK
      <3> QED BY <3>1 DEF Files
    <2>2. TypeOK'
      BY <1>1, <1>5, <2>1 DEF EnableInterrupts, IInv, TypeOK, taskVars
    <2>3. activeInterruptManager'
      BY <1>5 DEF EnableInterrupts, IInv, StartsActive
    <2> QED BY <1>2, <1>5, <2>2, <2>3 DEF EnableInterrupts, IInv, StartsActive, QuietUntilActive
  <1>6. ASSUME NEW t \in Tasks, BootAddsTask(t) PROVE IInv'
    <2>1. /\ nof_tasks < MaxTasks /\ tasks' = [tasks EXCEPT ![nof_tasks] = t]
          /\ nof_tasks' = nof_tasks + 1
          /\ UNCHANGED <<current_task_index, cpu_state, stack, regs, phase, esp,
                         interruptnumber, activeInterruptManager, pic, start, printed>>
      BY <1>6 DEF BootAddsTask, AddTask, HasRoom
    <2>2. nof_tasks \in Nat /\ MaxTasks \in Nat /\ nof_tasks \in Slots
      BY <2>1, TaskAssumption DEF IInv, TypeOK, Slots
    <2>3. nof_tasks' \in 0 .. MaxTasks /\ current_task_index' \in -1 .. nof_tasks' - 1
      BY <2>1, <2>2 DEF IInv, TypeOK
    <2>4. tasks' \in [Slots -> Tasks \cup {NoTask}]
      BY <2>1 DEF IInv, TypeOK
    <2>5. \A i \in 0 .. nof_tasks' - 1 : tasks'[i] \in Tasks
      BY <2>1, <2>2 DEF IInv, TypeOK, Slots
    <2>6. TypeOK'
      BY <2>1, <2>3, <2>4, <2>5 DEF IInv, TypeOK, pic
    <2> QED BY <1>2, <2>1, <2>6 DEF IInv, StartsActive, QuietUntilActive
  <1> QED BY <1>3, <1>4, <1>5, <1>6

(* IInv is inductive.                                                      *)
LEMMA StepInv == IInv /\ [Next]_vars => IInv'
  <1> SUFFICES ASSUME IInv, [Next]_vars PROVE IInv'
    OBVIOUS
  <1>1. ASSUME NEW l \in Lines, Raise(l) PROVE IInv'
    BY <1>1 DEF Raise, IInv, StartsActive, TypeOK, InService, QuietUntilActive, taskVars
  <1>2. CASE UNCHANGED vars
    BY <1>2 DEF vars, IInv, StartsActive, TypeOK, InService, QuietUntilActive, taskVars, pic
  <1> QED BY <1>1, <1>2, InterruptInv, HandleInv, AcknowledgeInv, ReturnInv,
             SystemCallInv, RunInv DEF Next, Processor

(* The inductive invariant holds in every reachable state.                 *)
THEOREM Invariance == Spec => []IInv
  BY InitInv, StepInv, PTL DEF Spec
-----------------------------------------------------------------------------
(* Whatever programs run and however interrupts arrive, the state keeps its*)
(* type: no index leaves the task table, and every frame that schedule     *)
(* returns or the stubs restore lies on the stack of a context.            *)
THEOREM TypeCorrect == Spec => []TypeOK
  <1>1. IInv => TypeOK
    BY DEF IInv
  <1> QED BY <1>1, Invariance, PTL

(* Whenever a context executes, every hardware interrupt taken before has  *)
(* been acknowledged to each controller it came through.                   *)
THEOREM EverythingAcknowledged == Spec => []AllAcknowledged
  <1>1. IInv => AllAcknowledged
    BY DEF IInv, InService, AllAcknowledged
  <1> QED BY <1>1, Invariance, PTL
-----------------------------------------------------------------------------
(* A task's frame lies on the task's own stack, and the context that has   *)
(* the processor is kernelMain until the first turn, then the current task.*)
Turn ==
  /\ \A t \in Tasks : cpu_state[t][1] = t
  /\ Running = IF current_task_index < 0 THEN Boot ELSE tasks[current_task_index]
  /\ Owner(regs) # Boot => current_task_index >= 0

(* schedule passes the turn to a task, or leaves it where it is.           *)
LEMMA ScheduleTurn ==
  ASSUME TasksOK, \A t \in Tasks : cpu_state[t][1] = t,
         NEW p \in Pointers, NEW r, Schedule(p, r),
         p[1] = IF current_task_index < 0 THEN Boot ELSE tasks[current_task_index]
  PROVE  /\ \A t \in Tasks : cpu_state'[t][1] = t
         /\ r[1] = IF current_task_index' < 0 THEN Boot ELSE tasks'[current_task_index']
         /\ current_task_index' >= current_task_index \/ current_task_index' >= 0
  <1>1. CASE nof_tasks = 0
    BY <1>1 DEF Schedule, TasksOK
  <1>2. CASE nof_tasks # 0
    <2>1. nof_tasks \in Nat \ {0} /\ current_task_index \in Int
      BY <1>2, TaskAssumption DEF TasksOK
    <2>2. NextIndex \in 0 .. nof_tasks - 1
      BY <2>1 DEF NextIndex
    <2>3. tasks[NextIndex] \in Tasks
      BY <2>2 DEF TasksOK
    <2>4. Keep(p) \in [Tasks -> Pointers]
      BY DEF Keep, TasksOK
    <2>5. /\ cpu_state' = Keep(p) /\ current_task_index' = NextIndex
          /\ r = Keep(p)[tasks[NextIndex]] /\ UNCHANGED tasks
      BY <1>2 DEF Schedule
    <2>6. \A t \in Tasks : Keep(p)[t][1] = t
      <3>1. CASE current_task_index >= 0
        <4>1. tasks[current_task_index] \in Tasks
              /\ p[1] = tasks[current_task_index]
          BY <2>1, <3>1 DEF TasksOK
        <4> QED BY <3>1, <4>1 DEF Keep, TasksOK
      <3>2. CASE ~(current_task_index >= 0)
        BY <3>2 DEF Keep
      <3> QED BY <3>1, <3>2
    <2> HIDE DEF NextIndex, Keep
    <2> QED BY <2>1, <2>2, <2>3, <2>5, <2>6
  <1> QED BY <1>1, <1>2

LEMMA TurnInit == Init => Turn
  <1> SUFFICES ASSUME Init PROVE Turn
    OBVIOUS
  <1>1. cpu_state = [t \in Tasks |-> <<t, 0>>] /\ current_task_index = -1
    BY DEF Init, TaskInit
  <1>2. regs = FirstBoot /\ phase = "run" /\ Owner(FirstBoot) = Boot
    BY ProgramAssumption DEF Init
  <1> QED BY <1>1, <1>2 DEF Turn, Running

LEMMA TurnStep == TypeOK /\ Turn /\ [Next]_vars => Turn'
  <1> SUFFICES ASSUME TypeOK, Turn, [Next]_vars PROVE Turn'
    OBVIOUS
  <1>1. ASSUME NEW l \in Lines, Interrupt(l) PROVE Turn'
    BY <1>1 DEF Interrupt, EnterStub, Turn, Running, Owner, taskVars
  <1>2. CASE Execute
    <2>1. Owner(regs') = Owner(regs)
      BY <1>2, ProgramAssumption DEF Execute
    <2> QED BY <1>2, <2>1 DEF Execute, Turn, Running, taskVars
  <1>3. CASE SystemCall
    <2>1. AfterInt[regs].esp = regs.esp
      <3>1. regs \in Files /\ AfterInt[regs] = [regs EXCEPT !.eip = AfterInt[regs].eip]
        BY <1>3, ProgramAssumption DEF SystemCall, TypeOK
      <3> QED BY <3>1 DEF Files
    <2> QED BY <1>3, <2>1 DEF SystemCall, EnterStub, Turn, Running, Owner, taskVars
  <1>4. CASE Handle
    <2>1. phase = "handle" /\ phase' # "run" /\ UNCHANGED regs /\ TasksOK
          /\ esp \in Pointers
      BY <1>4 DEF Handle, NextPhase, TypeOK, TasksOK
    <2>2. esp[1] = IF current_task_index < 0 THEN Boot ELSE tasks[current_task_index]
      BY <2>1 DEF Turn, Running
    <2>3. CASE UNCHANGED <<taskVars, esp>>
      BY <2>1, <2>2, <2>3 DEF Turn, Running, taskVars
    <2>4. ASSUME NEW r \in Pointers, Schedule(esp, r), esp' = r PROVE Turn'
      <3>1. /\ \A t \in Tasks : cpu_state'[t][1] = t
            /\ r[1] = IF current_task_index' < 0 THEN Boot
                      ELSE tasks'[current_task_index']
            /\ current_task_index' >= current_task_index \/ current_task_index' >= 0
        BY <2>1, <2>2, <2>4, ScheduleTurn DEF Turn
      <3>2. current_task_index \in Int /\ current_task_index' \in Int
        BY <2>1, <2>4, ScheduleType DEF TasksOK
      <3> QED BY <2>1, <2>4, <3>1, <3>2 DEF Turn, Running
    <2> QED BY <1>4, <2>3, <2>4 DEF Handle
  <1>5. CASE AcknowledgeMaster \/ AcknowledgeSlave
    BY <1>5 DEF AcknowledgeMaster, AcknowledgeSlave, Turn, Running, taskVars
  <1>6. CASE Return
    <2>1. Restored(esp).esp = esp
      BY DEF Restored
    <2>2. current_task_index \in Int /\ current_task_index < 0 => esp[1] = Boot
      BY <1>6 DEF Return, Turn, Running, TypeOK
    <2>3. phase' = "run" /\ regs' = Restored(esp) /\ UNCHANGED taskVars /\ phase = "return"
      BY <1>6 DEF Return
    <2> QED BY <2>1, <2>2, <2>3 DEF Turn, Running, Owner, taskVars, TypeOK
  <1>7. ASSUME NEW t \in Tasks, BootAddsTask(t) PROVE Turn'
    <2>1. /\ tasks' = [tasks EXCEPT ![nof_tasks] = t]
          /\ UNCHANGED <<current_task_index, cpu_state, regs, phase, esp>>
      BY <1>7 DEF BootAddsTask, AddTask
    <2>2. current_task_index < nof_tasks /\ current_task_index \in Int
          /\ nof_tasks \in Nat
      BY TaskAssumption DEF TypeOK
    <2>3. current_task_index >= 0 => tasks'[current_task_index] = tasks[current_task_index]
      BY <2>1, <2>2, TaskAssumption DEF TypeOK, Slots
    <2> QED BY <2>1, <2>2, <2>3 DEF Turn, Running
  <1>8. CASE Activate
    BY <1>8 DEF Activate, Turn, Running, taskVars
  <1>9. CASE EnableInterrupts
    <2>1. regs' = [regs EXCEPT !.eflags = IF_FLAG] /\ regs \in Files
          /\ UNCHANGED <<taskVars, phase, esp>>
      BY <1>9 DEF EnableInterrupts, TypeOK
    <2>2. regs'.esp = regs.esp
      BY <2>1 DEF Files
    <2> QED BY <2>1, <2>2 DEF Turn, Running, Owner, taskVars
  <1>10. ASSUME NEW l \in Lines, Raise(l) PROVE Turn'
    BY <1>10 DEF Raise, Turn, Running, taskVars
  <1>11. CASE UNCHANGED vars
    BY <1>11 DEF vars, Turn, Running, taskVars
  <1> QED BY <1>1, <1>2, <1>3, <1>4, <1>5, <1>6, <1>7, <1>8, <1>9, <1>10, <1>11
          DEF Next, Processor

(* The turn is always that of the current task, or kernelMain's before the *)
(* first one.                                                              *)
THEOREM TurnInvariant == Spec => []Turn
  BY TypeCorrect, TurnInit, TurnStep, PTL DEF Spec

(* Once a task has run, no return from an interrupt continues kernelMain.  *)
THEOREM KernelMainNeverReturns == Spec => KernelMainIsAbandoned
  <1>1. Turn /\ Turn' /\ TypeOK' /\ [Next]_vars =>
          [Owner(regs) # Boot => Owner(regs') # Boot]_vars
    <2> SUFFICES ASSUME Turn, Turn', TypeOK', Next, Owner(regs) # Boot
                 PROVE  Owner(regs') # Boot
      OBVIOUS
    <2>1. CASE Execute
      BY <2>1, ProgramAssumption DEF Execute
    <2>2. CASE EnableInterrupts
      BY <2>2 DEF EnableInterrupts, InKernelMain
    <2>3. CASE Return
      <3>1. /\ phase' = "run" /\ UNCHANGED <<tasks, nof_tasks, current_task_index>>
            /\ current_task_index >= 0
        BY <2>3 DEF Return, Turn, taskVars
      <3>2. current_task_index \in Int /\ current_task_index <= nof_tasks' - 1
            /\ nof_tasks' \in Int
        BY <3>1, TaskAssumption DEF TypeOK
      <3>3. tasks'[current_task_index'] \in Tasks
        BY <3>1, <3>2 DEF TypeOK
      <3>4. Owner(regs') = tasks'[current_task_index']
        BY <3>1, <3>2 DEF Turn, Running
      <3> QED BY <3>3, <3>4, TaskAssumption
    <2>4. CASE regs' = regs
      BY <2>4
    <2> QED BY <2>1, <2>2, <2>3, <2>4
            DEF Next, Processor, Raise, Interrupt, SystemCall, Handle,
                AcknowledgeMaster, AcknowledgeSlave, BootAddsTask, Activate
  <1> QED BY <1>1, TurnInvariant, TypeCorrect, PTL DEF Spec, KernelMainIsAbandoned
-----------------------------------------------------------------------------
(* What a stub takes back from the frame it saved is what it saved.        *)
LEMMA RestoredSaved ==
  ASSUME stack \in [Pointers -> Frames], NEW f \in Files, stack' = [stack EXCEPT ![f.esp] = Saved(f)]
  PROVE  Restored(f.esp)' = f
  <1>1. f.esp \in Pointers
    BY DEF Files
  <1>2. stack'[f.esp] = Saved(f)
    BY <1>1
  <1>3. /\ Restored(f.esp)' =
             [eax |-> f.eax, ebx |-> f.ebx, ecx |-> f.ecx, edx |-> f.edx,
              esi |-> f.esi, edi |-> f.edi, ebp |-> f.ebp, eip |-> f.eip,
              cs |-> f.cs, eflags |-> f.eflags, esp |-> f.esp]
    BY <1>2 DEF Restored, Saved
  <1> QED BY <1>3 DEF Files

(* Where a frame of a task lies says whose it is.                          *)
LEMMA TaskFrames ==
  ASSUME TypeOK, Turn
  PROVE  /\ \A t \in Tasks : cpu_state[t] \in Pointers /\ cpu_state[t][1] = t
         /\ Running \in Contexts
         /\ Running = Boot <=> current_task_index = -1
         /\ current_task_index # -1 =>
              /\ current_task_index \in 0 .. nof_tasks - 1
              /\ Running = tasks[current_task_index] /\ Running \in Tasks
  <1>1. nof_tasks \in Nat /\ current_task_index \in -1 .. nof_tasks - 1
    BY TaskAssumption DEF TypeOK
  <1>2. CASE current_task_index = -1
    BY <1>1, <1>2 DEF TypeOK, Turn, Contexts
  <1>3. CASE current_task_index # -1
    <2>1. current_task_index \in 0 .. nof_tasks - 1
      BY <1>1, <1>3
    <2>2. tasks[current_task_index] \in Tasks /\ ~(current_task_index < 0)
      BY <2>1 DEF TypeOK
    <2> QED BY <1>3, <2>1, <2>2, TaskAssumption DEF TypeOK, Turn, Contexts
  <1> QED BY <1>2, <1>3

(* A step that leaves the saved frames of the tasks that do not run alone, *)
(* and the turn where it is, changes at most the running context's file.   *)
LEMMA OwnFile ==
  ASSUME TypeOK, Turn, Running' = Running, UNCHANGED cpu_state,
         \A p \in Pointers : p[1] # Running => stack'[p] = stack[p]
  PROVE  /\ \A c \in Contexts : c # Running => FileOf(c)' = FileOf(c)
         /\ [c \in Contexts |-> FileOf(c)]' =
              [[c \in Contexts |-> FileOf(c)] EXCEPT ![Running] = FileOf(Running)']
  <1>1. \A c \in Contexts : c # Running => FileOf(c)' = FileOf(c)
    <2> SUFFICES ASSUME NEW c \in Contexts, c # Running PROVE FileOf(c)' = FileOf(c)
      OBVIOUS
    <2>1. CASE c \in Tasks
      <3>1. cpu_state[c] \in Pointers /\ cpu_state[c][1] = c
        BY <2>1, TaskFrames
      <3>2. stack'[cpu_state[c]] = stack[cpu_state[c]]
        BY <3>1
      <3>3. Restored(cpu_state[c])' = Restored(cpu_state[c])
        BY <3>2 DEF Restored
      <3> QED BY <2>1, <3>3 DEF FileOf
    <2>2. CASE c \notin Tasks
      BY <2>2 DEF FileOf
    <2> QED BY <2>1, <2>2
  <1> HIDE DEF FileOf, Running
  <1>2. Running' = Running
    OBVIOUS
  <1>3. \A c \in Contexts : FileOf(c)' = IF c = Running THEN FileOf(Running)' ELSE FileOf(c)
    BY <1>1, <1>2
  <1> QED BY <1>1, <1>3

(* The variables of RoundRobin, as Turns reads them from this state.       *)
Registers == [c \in Contexts |-> FileOf(c)]
Queue == [i \in 1 .. nof_tasks |-> tasks[(current_task_index + i) % nof_tasks]]
Calling == phase = "handle" /\ interruptnumber = SystemCallNumber

LEMMA Mapped ==
  /\ Turns!vars = <<Registers, Running, Queue, Calling, activeInterruptManager, printed>>
  /\ Turns!vars' = <<Registers, Running, Queue, Calling, activeInterruptManager, printed>>'
  BY DEF Turns!vars, Registers, Queue, Calling

(* The file of the context that has the processor.                         *)
LEMMA RunningFile ==
  ASSUME TypeOK, Turn
  PROVE  Registers[Running] = IF phase = "run" THEN regs ELSE Restored(esp)
  BY TaskFrames DEF Registers, FileOf

(* The interrupt of a device does not show in anybody's registers.         *)
LEMMA InterruptTurns ==
  ASSUME IInv, Turn, NEW l \in Lines, Interrupt(l)
  PROVE  UNCHANGED Turns!vars
  <1>1. /\ phase = "run" /\ phase' = "handle" /\ esp' = regs.esp /\ l \in 0 .. 15
        /\ stack' = [stack EXCEPT ![regs.esp] = Saved(regs)]
        /\ interruptnumber' = l + IRQ_BASE
        /\ UNCHANGED <<taskVars, regs, activeInterruptManager, printed>>
    BY ProgramAssumption DEF Interrupt, EnterStub
  <1>2. regs \in Files /\ stack \in [Pointers -> Frames] /\ regs.esp \in Pointers /\ TypeOK
    BY DEF IInv, TypeOK, Files
  <1>3. Running = regs.esp[1] /\ Running' = Running
    BY <1>1 DEF Running, Owner
  <1>4. \A p \in Pointers : p[1] # Running => stack'[p] = stack[p]
    BY <1>1, <1>2, <1>3
  <1>5. FileOf(Running)' = FileOf(Running)
    <2>1. Restored(regs.esp)' = regs
      BY <1>1, <1>2, RestoredSaved
    <2>2. Restored(esp)' = regs
      BY <1>1, <2>1 DEF Restored
    <2> QED BY <1>1, <2>2 DEF FileOf
  <1>6. Registers' = Registers
    BY <1>1, <1>2, <1>3, <1>4, <1>5, OwnFile, TaskFrames DEF Registers, taskVars
  <1>7. ~Calling /\ ~Calling'
    BY <1>1 DEF Calling, SystemCallNumber, IRQ_BASE
  <1>8. Queue' = Queue /\ Calling' = Calling
    BY <1>1, <1>7 DEF Queue, Calling, taskVars
  <1> QED BY <1>1, <1>3, <1>6, <1>8, Mapped

(* An instruction changes the registers of the context that executes it.   *)
LEMMA ExecuteTurns ==
  ASSUME IInv, Turn, Execute
  PROVE  Turns!Execute
  <1>1. /\ phase = "run" /\ phase' = "run" /\ regs \notin AtInt /\ regs \in DOMAIN Successors
        /\ regs' \in Successors[regs]
        /\ UNCHANGED <<taskVars, stack, interruptnumber, activeInterruptManager, printed>>
    BY DEF Execute
  <1>2. Running' = Running
    BY <1>1, ProgramAssumption DEF Running
  <1>3. Registers[Running] = regs /\ FileOf(Running)' = regs'
    BY <1>1, RunningFile DEF IInv, FileOf
  <1>4. Registers' = [Registers EXCEPT ![Running] = regs']
    BY <1>1, <1>2, <1>3, OwnFile DEF Registers, IInv, taskVars
  <1>5. ~Calling /\ ~Calling' /\ Queue' = Queue
    BY <1>1 DEF Calling, Queue, taskVars
  <1> HIDE DEF Registers, Running, Queue, Calling
  <1> QED BY <1>1, <1>2, <1>3, <1>4, <1>5
          DEF Turns!Execute, Turns!Own, Registers, Queue, Calling

(* int $0x80: the caller's registers move behind the instruction.          *)
LEMMA SystemCallTurns ==
  ASSUME IInv, Turn, SystemCall
  PROVE  Turns!SystemCall
  <1>0. PICK f \in Files : f = AfterInt[regs] /\ f.esp = regs.esp
    <2>1. AfterInt[regs] \in Files /\ regs \in Files
          /\ AfterInt[regs] = [regs EXCEPT !.eip = AfterInt[regs].eip]
      BY ProgramAssumption DEF SystemCall, IInv, TypeOK
    <2>2. AfterInt[regs].esp = regs.esp
      BY <2>1 DEF Files
    <2> QED BY <2>1, <2>2
  <1>1. /\ phase = "run" /\ phase' = "handle" /\ regs \in AtInt
        /\ stack' = [stack EXCEPT ![f.esp] = Saved(f)]
        /\ esp' = f.esp /\ interruptnumber' = SystemCallNumber
        /\ UNCHANGED <<taskVars, regs, activeInterruptManager, printed>>
    BY <1>0 DEF SystemCall, EnterStub
  <1>2. f \in Files /\ f.esp = regs.esp
    BY <1>0
  <1>3. Running = f.esp[1] /\ Running' = Running /\ f.esp \in Pointers
    BY <1>1, <1>2 DEF Running, Owner, Files
  <1>4. \A p \in Pointers : p[1] # Running => stack'[p] = stack[p]
    BY <1>1, <1>3 DEF IInv, TypeOK
  <1>5. FileOf(Running)' = f
    <2>1. Restored(f.esp)' = f
      BY <1>1, <1>2, RestoredSaved DEF IInv, TypeOK
    <2>2. Restored(esp)' = f
      BY <1>1, <2>1 DEF Restored
    <2> QED BY <1>1, <2>2 DEF FileOf
  <1>6. Registers' = [Registers EXCEPT ![Running] = f]
    BY <1>1, <1>3, <1>4, <1>5, OwnFile DEF Registers, IInv, taskVars
  <1>7. ~Calling /\ Calling' /\ Queue' = Queue /\ Registers[Running] = regs
    BY <1>1, RunningFile DEF Calling, Queue, taskVars, IInv
  <1> HIDE DEF Registers, Running, Queue, Calling
  <1> QED BY <1>0, <1>1, <1>3, <1>6, <1>7
          DEF Turns!SystemCall, Turns!Own, Registers, Queue, Calling

(* Steps of the handler that change neither the turn nor the frames.       *)
LEMMA SilentTurns ==
  ASSUME TypeOK, Turn, UNCHANGED <<taskVars, stack, regs, esp, activeInterruptManager, printed>>,
         phase # "run", phase' # "run"
  PROVE  /\ UNCHANGED <<Registers, Running, Queue>>
         /\ ~Calling /\ ~Calling' => UNCHANGED Turns!vars
  <1>1. Running' = Running
    BY DEF Running
  <1>2. FileOf(Running)' = FileOf(Running)
    BY <1>1 DEF FileOf, Restored
  <1>3. Registers' = Registers
    BY <1>1, <1>2, OwnFile, TaskFrames DEF Registers, taskVars
  <1>4. Queue' = Queue
    BY DEF Queue, taskVars
  <1>5. ~Calling /\ ~Calling' => Calling' = Calling
    BY DEF Calling
  <1> QED BY <1>1, <1>3, <1>4, <1>5, Mapped

(* Going once round a table of n slots.                                    *)
LEMMA Round ==
  ASSUME NEW n \in Nat \ {0}
  PROVE  /\ \A a \in 0 .. n - 1 : a % n = a
         /\ \A a \in n .. 2 * n - 1 : a % n = a - n
         /\ (2 * n) % n = 0
  OBVIOUS

LEMMA RoundAgain ==
  ASSUME NEW n \in Nat \ {0}, NEW c \in -1 .. n - 1
  PROVE  /\ (c + 1) % n = IF c = n - 1 THEN 0 ELSE c + 1
         /\ \A i \in 1 .. n - 1 : (((c + 1) % n) + i) % n = (c + (i + 1)) % n
         /\ (((c + 1) % n) + n) % n = (c + 1) % n
  <1> DEFINE next == IF c = n - 1 THEN 0 ELSE c + 1
  <1>1. (c + 1) % n = next
    BY Round
  <1>2. next \in 0 .. n - 1
    OBVIOUS
  <1>3. ASSUME NEW i \in 1 .. n - 1 PROVE (next + i) % n = (c + (i + 1)) % n
    <2>1. CASE c = n - 1
      <3>1. (next + i) % n = i /\ (n + i) % n = i /\ c + (i + 1) = n + i
        BY <2>1, Round
      <3> QED BY <3>1
    <2>2. CASE c # n - 1
      <3>1. next + i = c + (i + 1)
        BY <2>2
      <3> QED BY <3>1
    <2> QED BY <2>1, <2>2
  <1>4. (next + n) % n = next
    <2>1. next + n \in n .. 2 * n - 1
      BY <1>2
    <2>2. (next + n) % n = (next + n) - n
      BY <2>1, Round
    <2> QED BY <1>2, <2>2
  <1> HIDE DEF next
  <1>5. (c + 1) % n = next /\ next \in Int
    BY <1>1, <1>2
  <1>6. \A i \in 1 .. n - 1 : (((c + 1) % n) + i) % n = (c + (i + 1)) % n
    BY <1>3, <1>5
  <1>7. (((c + 1) % n) + n) % n = (c + 1) % n
    BY <1>4, <1>5
  <1> QED BY <1>1, <1>6, <1>7 DEF next

(* schedule takes the head of the queue and puts it at the end.            *)
LEMMA ScheduleQueue ==
  ASSUME TypeOK, nof_tasks # 0, NEW p \in Pointers, NEW r, Schedule(p, r)
  PROVE  /\ Queue # <<>> /\ tasks[NextIndex] = Head(Queue)
         /\ Queue' = Append(Tail(Queue), Head(Queue))
  <1> DEFINE n == nof_tasks
             c == current_task_index
  <1>1. n \in Nat \ {0} /\ c \in -1 .. n - 1
    BY TaskAssumption DEF TypeOK
  <1>2. current_task_index' = (c + 1) % n /\ UNCHANGED <<tasks, nof_tasks>>
    BY DEF Schedule, NextIndex
  <1>3. Queue \in Seq(Tasks) /\ Len(Queue) = n
    <2>1. \A i \in 1 .. n : (c + i) % n \in 0 .. n - 1
      BY <1>1
    <2>2. \A i \in 1 .. n : tasks[(c + i) % n] \in Tasks
      BY <2>1 DEF TypeOK
    <2> QED BY <1>1, <2>2 DEF Queue
  <1>4. \A i \in 1 .. n : Queue[i] = tasks[(c + i) % n]
    BY DEF Queue
  <1>5. Queue # <<>> /\ Head(Queue) = tasks[(c + 1) % n]
    BY <1>1, <1>3, <1>4
  <1>6. Queue' = [i \in 1 .. n |-> tasks[(((c + 1) % n) + i) % n]]
    BY <1>2 DEF Queue
  <1>7. \A i \in 1 .. n - 1 : Queue'[i] = Queue[i + 1]
    <2> SUFFICES ASSUME NEW i \in 1 .. n - 1 PROVE Queue'[i] = Queue[i + 1]
      OBVIOUS
    <2>1. i \in 1 .. n /\ i + 1 \in 1 .. n
      BY <1>1
    <2>2. Queue'[i] = tasks[(((c + 1) % n) + i) % n]
      BY <1>6, <2>1
    <2>3. Queue[i + 1] = tasks[(c + (i + 1)) % n]
      BY <1>4, <2>1
    <2>4. (((c + 1) % n) + i) % n = (c + (i + 1)) % n
      BY <1>1, RoundAgain
    <2> QED BY <2>2, <2>3, <2>4
  <1>8. Queue'[n] = Head(Queue)
    <2>1. Queue'[n] = tasks[(((c + 1) % n) + n) % n]
      BY <1>1, <1>6
    <2>2. (((c + 1) % n) + n) % n = (c + 1) % n
      BY <1>1, RoundAgain
    <2> QED BY <1>5, <2>1, <2>2
  <1>9. Queue' = Append(Tail(Queue), Head(Queue))
    <2> DEFINE A == Append(Tail(Queue), Head(Queue))
    <2>1. A \in Seq(Tasks) /\ Len(A) = n /\ A[n] = Head(Queue)
          /\ \A i \in 1 .. n - 1 : A[i] = Queue[i + 1]
      BY <1>1, <1>3, <1>5
    <2>2. Queue' \in [1 .. n -> Tasks]
      <3>1. Queue' = [i \in 1 .. n |-> Queue'[i]]
        BY <1>6
      <3>2. \A i \in 1 .. n : Queue'[i] \in Tasks
        BY <1>1, <1>3, <1>5, <1>7, <1>8
      <3> HIDE DEF Queue
      <3> QED BY <3>1, <3>2
    <2> HIDE DEF A
    <2>3. A = [i \in 1 .. n |-> A[i]]
      BY <1>1, <2>1
    <2>4. \A i \in 1 .. n : Queue'[i] = A[i]
      BY <1>1, <1>7, <1>8, <2>1
    <2>5. Queue' = A
      BY <2>2, <2>3, <2>4
    <2> QED BY <2>5 DEF A
  <1> QED BY <1>5, <1>9 DEF NextIndex

(* The turn of the timer: what the interrupted task had in its registers   *)
(* is kept for it, the next task gets what was kept for it, and the        *)
(* registers of kernelMain are gone.                                       *)
LEMMA TimerTurns ==
  ASSUME TypeOK, Turn, phase = "handle", phase' = "master", activeInterruptManager,
         interruptnumber # SystemCallNumber, nof_tasks # 0,
         Schedule(esp, esp'), esp' \in Pointers,
         UNCHANGED <<activeInterruptManager, printed>>
  PROVE  Turns!Preempt
  <1> DEFINE next == tasks[NextIndex]
  <1>1. /\ UNCHANGED <<tasks, nof_tasks, stack>> /\ cpu_state' = Keep(esp)
        /\ esp' = Keep(esp)[next] /\ esp \in Pointers
    BY DEF Schedule, TypeOK
  <1>2. next = Head(Queue) /\ Queue # <<>> /\ Queue' = Append(Tail(Queue), Head(Queue))
    BY <1>1, ScheduleQueue
  <1>3. next \in Tasks
    <2>1. nof_tasks \in Nat \ {0} /\ current_task_index \in Int
      BY TaskAssumption DEF TypeOK
    <2>2. NextIndex \in 0 .. nof_tasks - 1
      BY <2>1 DEF NextIndex
    <2> QED BY <2>2 DEF TypeOK
  <1> HIDE DEF next
  <1>4. /\ \A t \in Tasks : cpu_state[t] \in Pointers /\ cpu_state[t][1] = t
        /\ cpu_state \in [Tasks -> Pointers]
        /\ Running = esp[1] /\ Running \in Contexts
    BY TaskFrames DEF Running, TypeOK
  <1>5. \A t \in Tasks : Keep(esp)[t] = IF t = Running THEN esp ELSE cpu_state[t]
    <2>1. CASE current_task_index = -1
      <3>1. Running = Boot /\ Keep(esp) = cpu_state
        BY <2>1, TaskFrames DEF Keep
      <3> QED BY <3>1, TaskAssumption
    <2>2. CASE current_task_index # -1
      <3>1. /\ current_task_index \in 0 .. nof_tasks - 1
            /\ Running = tasks[current_task_index] /\ Running \in Tasks
        BY <2>2, TaskFrames
      <3>2. Keep(esp) = [cpu_state EXCEPT ![Running] = esp]
        BY <3>1 DEF Keep, TypeOK
      <3> QED BY <1>4, <3>1, <3>2
    <2> QED BY <2>1, <2>2
  <1> HIDE DEF Keep
  <1>6. Running' = next
    BY <1>1, <1>3, <1>4, <1>5 DEF Running
  <1>7. \A p \in Pointers : Restored(p)' = Restored(p)
    BY <1>1 DEF Restored
  <1>8. \A t \in Tasks : FileOf(t)' = FileOf(t)
    <2> SUFFICES ASSUME NEW t \in Tasks PROVE FileOf(t)' = FileOf(t)
      OBVIOUS
    <2>1. PICK q \in Pointers : q = Keep(esp)[t]
      BY <1>1, <1>4, <1>5
    <2>2. FileOf(t) = Restored(q)
      BY <1>5, <2>1 DEF FileOf
    <2>3. cpu_state'[t] = q /\ (t = next => esp' = q)
      BY <1>1, <2>1
    <2>4. FileOf(t)' = Restored(q)'
      <3>1. phase' # "run" /\ t \in Tasks
        OBVIOUS
      <3>2. FileOf(t)' = IF t = Running' THEN Restored(esp)' ELSE Restored(cpu_state[t])'
        BY <3>1 DEF FileOf
      <3> QED BY <1>6, <2>3, <3>2 DEF Restored
    <2> QED BY <1>7, <2>2, <2>4
  <1>9. Boot \notin Tasks /\ FileOf(Boot)' = Gone
    BY <1>3, <1>6, TaskAssumption DEF FileOf
  <1>10. Registers' = [Registers EXCEPT ![Boot] = Gone]
    <2> HIDE DEF FileOf
    <2>1. \A c \in Contexts : FileOf(c)' = IF c = Boot THEN Gone ELSE FileOf(c)
      BY <1>8, <1>9 DEF Contexts
    <2> QED BY <2>1 DEF Registers
  <1>11. ~Calling /\ ~Calling'
    BY DEF Calling
  <1>12. Calling' = Calling
    BY <1>11 DEF Calling
  <1> HIDE DEF Registers, Running, Queue, Calling
  <1> QED BY <1>2, <1>6, <1>10, <1>11, <1>12
          DEF Turns!Preempt, Registers, Queue, Calling

(* handleInterrupt answers a system call, passes the turn on, or changes   *)
(* nothing a context could see.                                            *)
LEMMA HandleTurns ==
  ASSUME IInv, Turn, Handle
  PROVE  Turns!Answer \/ Turns!Preempt \/ UNCHANGED Turns!vars
  <1>1. /\ phase = "handle" /\ phase' \in {"master", "return"} /\ TypeOK
        /\ UNCHANGED <<regs, interruptnumber, activeInterruptManager>>
    BY DEF Handle, IInv, NextPhase, pic
  <1>2. SystemCallNumber = 160 /\ IRQ_BASE = 32
    BY DEF SystemCallNumber, IRQ_BASE
  <1>3. ~Calling'
    BY <1>1 DEF Calling
  <1>4. CASE interruptnumber = SystemCallNumber
    <2>1. /\ UNCHANGED <<taskVars, stack, esp>>
          /\ printed' = IF activeInterruptManager /\ stack[esp][1] = Write
                        THEN stack[esp][2] ELSE printed
      BY <1>2, <1>4 DEF Handle, HandleSystemCall
    <2>2. Registers[Running].eax = stack[esp][1] /\ Registers[Running].ebx = stack[esp][2]
      BY <1>1, RunningFile DEF Restored
    <2>3. /\ Registers' = Registers /\ Running' = Running /\ Queue' = Queue
      <3>1. Running' = Running
        BY <1>1, <2>1 DEF Running
      <3>2. FileOf(Running)' = FileOf(Running)
        BY <1>1, <2>1, <3>1 DEF FileOf, Restored
      <3>3. Registers' = Registers
        BY <1>1, <2>1, <3>1, <3>2, OwnFile, TaskFrames DEF Registers, taskVars
      <3> QED BY <2>1, <3>1, <3>3 DEF Queue, taskVars
    <2>4. Calling
      BY <1>1, <1>4 DEF Calling
    <2> HIDE DEF Registers, Running, Queue, Calling
    <2>5. Turns!Answer
      BY <1>1, <1>3, <2>1, <2>2, <2>3, <2>4
         DEF Turns!Answer, Registers, Queue, Calling
    <2> QED BY <2>5
  <1>5. CASE interruptnumber = IRQ_BASE /\ activeInterruptManager
    <2>1. /\ printed' = printed /\ Schedule(esp, esp') /\ esp' \in Pointers
          /\ interruptnumber # SystemCallNumber /\ phase' = "master"
      BY <1>2, <1>5 DEF Handle, NextPhase, Hardware
    <2>2. CASE nof_tasks # 0
      BY <1>1, <1>5, <2>1, <2>2, TimerTurns DEF IInv
    <2>3. CASE nof_tasks = 0
      <3>1. UNCHANGED <<taskVars, stack, esp>>
        BY <2>1, <2>3 DEF Schedule, taskVars
      <3>2. ~Calling
        BY <2>1 DEF Calling
      <3> QED BY <1>1, <1>3, <2>1, <3>1, <3>2, SilentTurns
    <2> QED BY <2>2, <2>3
  <1>6. CASE interruptnumber # SystemCallNumber
             /\ ~(interruptnumber = IRQ_BASE /\ activeInterruptManager)
    <2>1. UNCHANGED <<taskVars, stack, esp, printed>>
      BY <1>6 DEF Handle
    <2>2. ~Calling
      BY <1>6 DEF Calling
    <2> QED BY <1>1, <1>3, <2>1, <2>2, SilentTurns
  <1> QED BY <1>2, <1>4, <1>5, <1>6

(* The end-of-interrupt commands show in nobody's registers.               *)
LEMMA AcknowledgeTurns ==
  ASSUME IInv, Turn, AcknowledgeMaster \/ AcknowledgeSlave
  PROVE  UNCHANGED Turns!vars
  <1>1. /\ UNCHANGED <<taskVars, stack, regs, esp, activeInterruptManager, printed>>
        /\ phase \in {"master", "slave"} /\ phase' \in {"slave", "return"} /\ TypeOK
    BY DEF AcknowledgeMaster, AcknowledgeSlave, IInv
  <1>2. ~Calling /\ ~Calling'
    BY <1>1 DEF Calling
  <1> QED BY <1>1, <1>2, SilentTurns

(* iret gives the context that has the turn the registers kept for it.     *)
LEMMA ReturnTurns ==
  ASSUME IInv, Turn, Return
  PROVE  UNCHANGED Turns!vars
  <1>1. /\ phase = "return" /\ phase' = "run" /\ regs' = Restored(esp)
        /\ stack' = [stack EXCEPT ![esp] = Unused]
        /\ UNCHANGED <<taskVars, esp, activeInterruptManager, printed>> /\ TypeOK
    BY DEF Return, IInv
  <1>2. Running = esp[1] /\ Running' = Running
    BY <1>1 DEF Running, Owner, Restored
  <1>3. FileOf(Running)' = FileOf(Running)
    BY <1>1, <1>2 DEF FileOf
  <1>4. \A p \in Pointers : p[1] # Running => stack'[p] = stack[p]
    BY <1>1, <1>2 DEF TypeOK
  <1>5. Registers' = Registers
    BY <1>1, <1>2, <1>3, <1>4, OwnFile, TaskFrames DEF Registers, taskVars
  <1>6. Queue' = Queue /\ Calling' = Calling
    BY <1>1 DEF Queue, Calling, taskVars
  <1> QED BY <1>1, <1>2, <1>5, <1>6, Mapped

(* kernelMain: a task goes to the end of the queue.                        *)
LEMMA AddTaskTurns ==
  ASSUME IInv, Turn, NEW t \in Tasks, BootAddsTask(t)
  PROVE  Turns!AddTask(t)
  <1>1. /\ phase = "run" /\ Owner(regs) = Boot /\ nof_tasks < MaxTasks
        /\ tasks' = [tasks EXCEPT ![nof_tasks] = t] /\ nof_tasks' = nof_tasks + 1
        /\ UNCHANGED <<current_task_index, cpu_state, stack, regs, phase, esp,
                       interruptnumber, activeInterruptManager, printed>> /\ TypeOK
    BY DEF BootAddsTask, AddTask, HasRoom, InKernelMain, IInv
  <1>2. Running = Boot /\ Running' = Running /\ current_task_index = -1
    BY <1>1, TaskFrames DEF Running
  <1>3. Registers' = Registers
    <2>1. FileOf(Running)' = FileOf(Running)
      BY <1>1, <1>2 DEF FileOf
    <2> QED BY <1>1, <1>2, <2>1, OwnFile, TaskFrames DEF Registers
  <1>4. Calling' = Calling
    BY <1>1 DEF Calling
  <1>5. nof_tasks \in Nat /\ MaxTasks \in Nat /\ \A i \in 0 .. nof_tasks - 1 : tasks[i] \in Tasks
    BY TaskAssumption DEF TypeOK, IInv
  <1>6. Queue = [i \in 1 .. nof_tasks |-> tasks[i - 1]]
    <2>1. \A i \in 1 .. nof_tasks : (-1 + i) % nof_tasks = i - 1
      BY <1>5, Round
    <2> QED BY <1>2, <2>1 DEF Queue
  <1>7. Queue' = [i \in 1 .. nof_tasks + 1 |-> tasks'[i - 1]]
    <2>1. \A i \in 1 .. nof_tasks + 1 : (-1 + i) % (nof_tasks + 1) = i - 1
      BY <1>5, Round
    <2> QED BY <1>1, <1>2, <2>1 DEF Queue
  <1>8. \A i \in 1 .. nof_tasks + 1 :
          tasks'[i - 1] = IF i = nof_tasks + 1 THEN t ELSE tasks[i - 1]
    BY <1>1, <1>5 DEF TypeOK, Slots
  <1> HIDE DEF Queue
  <1>9. Queue \in Seq(Tasks) /\ Len(Queue) = nof_tasks
    BY <1>5, <1>6
  <1>10. Queue' = Append(Queue, t)
    <2>1. Queue' = [i \in 1 .. nof_tasks + 1 |->
                      IF i = nof_tasks + 1 THEN t ELSE tasks[i - 1]]
      BY <1>7, <1>8
    <2>2. Append(Queue, t) = [i \in 1 .. nof_tasks + 1 |->
                                IF i = nof_tasks + 1 THEN t ELSE tasks[i - 1]]
      BY <1>5, <1>6, <1>9
    <2> QED BY <2>1, <2>2
  <1> HIDE DEF Registers, Running, Calling
  <1> QED BY <1>1, <1>2, <1>3, <1>4, <1>9, <1>10
          DEF Turns!AddTask, Registers, Queue, Calling

(* kernelMain: activate publishes the manager, and sti enables interrupts. *)
LEMMA ActivateTurns ==
  ASSUME IInv, Turn, Activate \/ EnableInterrupts
  PROVE  Turns!Serve \/ Turns!EnableInterrupts
  <1>1. /\ phase = "run" /\ Owner(regs) = Boot /\ TypeOK
        /\ UNCHANGED <<taskVars, stack, phase, esp, interruptnumber, printed>>
    BY DEF Activate, EnableInterrupts, InKernelMain, IInv
  <1>2. Running = Boot
    BY <1>1 DEF Running
  <1>3. ~Calling /\ ~Calling' /\ Calling' = Calling /\ Queue' = Queue
    BY <1>1 DEF Calling, Queue, taskVars
  <1>4. Registers[Running] = regs
    BY <1>1, RunningFile
  <1>5. CASE Activate
    <2>1. activeInterruptManager' = TRUE /\ regs' = regs /\ start = "inactive"
      BY <1>5 DEF Activate
    <2>2. Running' = Running
      BY <1>1, <2>1 DEF Running
    <2>3. FileOf(Running)' = FileOf(Running)
      BY <1>1, <2>1, <2>2 DEF FileOf
    <2>4. Registers' = Registers
      BY <1>1, <2>2, <2>3, OwnFile, TaskFrames DEF Registers, taskVars
    <2>5. ~activeInterruptManager
      BY <2>1 DEF IInv, StartsActive
    <2> HIDE DEF Registers, Running, Queue, Calling
    <2> QED BY <1>1, <1>2, <1>3, <2>1, <2>2, <2>4, <2>5
            DEF Turns!Serve, Registers, Queue, Calling
  <1>6. CASE EnableInterrupts
    <2>1. /\ regs' = [regs EXCEPT !.eflags = IF_FLAG] /\ start = "published"
          /\ activeInterruptManager' = activeInterruptManager /\ activeInterruptManager
      BY <1>6 DEF EnableInterrupts, IInv, StartsActive
    <2>2. Running' = Running
      <3>1. regs'.esp = regs.esp
        BY <1>1, <2>1 DEF TypeOK, Files
      <3> QED BY <1>1, <3>1 DEF Running, Owner
    <2>3. FileOf(Running)' = regs'
      BY <1>1, <2>2 DEF FileOf
    <2>4. Registers' = [Registers EXCEPT ![Running] = regs']
      BY <1>1, <2>2, <2>3, OwnFile DEF Registers, taskVars
    <2> HIDE DEF Registers, Running, Queue, Calling
    <2> QED BY <1>1, <1>2, <1>3, <1>4, <2>1, <2>2, <2>4
            DEF Turns!EnableInterrupts, Turns!Own, Registers, Queue, Calling
  <1> QED BY <1>5, <1>6

(* A device that raises its line changes nobody's registers.               *)
LEMMA RaiseTurns ==
  ASSUME IInv, Turn, UNCHANGED vars \/ \E l \in Lines : Raise(l)
  PROVE  UNCHANGED Turns!vars
  <1>1. /\ UNCHANGED <<taskVars, stack, regs, phase, esp, interruptnumber,
                       activeInterruptManager, printed>> /\ TypeOK
    BY DEF vars, Raise, IInv
  <1>2. Running' = Running
    BY <1>1 DEF Running
  <1>3. FileOf(Running)' = FileOf(Running)
    BY <1>1, <1>2 DEF FileOf, Restored
  <1>4. Registers' = Registers
    BY <1>1, <1>2, <1>3, OwnFile, TaskFrames DEF Registers, taskVars
  <1>5. Queue' = Queue /\ Calling' = Calling
    BY <1>1 DEF Queue, Calling, taskVars
  <1> QED BY <1>1, <1>2, <1>4, <1>5, Mapped

(* kernelMain starts with its registers, and every task with those its     *)
(* constructor put into its first frame.                                   *)
LEMMA TurnsInit == Init => Turns!Init
  <1> SUFFICES ASSUME Init PROVE Turns!Init
    OBVIOUS
  <1>1. /\ regs = FirstBoot /\ phase = "run" /\ Owner(FirstBoot) = Boot
        /\ activeInterruptManager = FALSE /\ nof_tasks = 0
        /\ cpu_state = [t \in Tasks |-> <<t, 0>>]
        /\ stack = [p \in Pointers |->
                      IF p[1] \in Tasks /\ p[2] = 0 THEN FirstFrame(p[1]) ELSE Unused]
    BY ProgramAssumption DEF Init, TaskInit
  <1>2. Running = Boot
    BY <1>1 DEF Running
  <1>3. FileOf(Boot) = Started(Boot)
    BY <1>1, <1>2 DEF FileOf, Started
  <1>4. ASSUME NEW t \in Tasks PROVE FileOf(t) = Started(t)
    <2>1. t # Boot /\ <<t, 0>> \in Pointers /\ cpu_state[t] = <<t, 0>>
      BY <1>1, TaskAssumption DEF Pointers, Contexts
    <2>2. FileOf(t) = Restored(<<t, 0>>)
      BY <1>2, <2>1 DEF FileOf
    <2>3. stack[<<t, 0>>] = FirstFrame(t)
      BY <1>1, <2>1
    <2> QED BY <2>1, <2>2, <2>3 DEF Restored, FirstFrame, Started
  <1>5. Registers = [c \in Contexts |-> Started(c)]
    BY <1>3, <1>4 DEF Registers, Contexts
  <1>6. Queue = <<>>
    <2>1. Queue = [i \in 1 .. 0 |-> tasks[(current_task_index + i) % 0]]
      BY <1>1 DEF Queue
    <2> QED BY <2>1
  <1> HIDE DEF FileOf, Running, Started
  <1> QED BY <1>1, <1>2, <1>5, <1>6 DEF Turns!Init, Registers, Queue

(* Whatever programs run and whenever interrupts come, contexts see what   *)
(* RoundRobin promises them: only their own instructions change their      *)
(* registers, tasks take turns in the order they were added, and a system  *)
(* call prints its caller's text.                                          *)
THEOREM ImplementsRoundRobin == Spec => RoundRobinHolds
  <1>1. IInv /\ Turn /\ [Next]_vars => [Turns!Next]_(Turns!vars)
    <2> SUFFICES ASSUME IInv, Turn, [Next]_vars
                 PROVE  Turns!Next \/ UNCHANGED Turns!vars
      OBVIOUS
    <2>1. ASSUME NEW l \in Lines, Interrupt(l) PROVE UNCHANGED Turns!vars
      BY <2>1, InterruptTurns
    <2>2. CASE Execute
      BY <2>2, ExecuteTurns DEF Turns!Next
    <2>3. CASE SystemCall
      BY <2>3, SystemCallTurns DEF Turns!Next
    <2>4. CASE Handle
      BY <2>4, HandleTurns DEF Turns!Next
    <2>5. CASE AcknowledgeMaster \/ AcknowledgeSlave
      BY <2>5, AcknowledgeTurns
    <2>6. CASE Return
      BY <2>6, ReturnTurns
    <2>7. ASSUME NEW t \in Tasks, BootAddsTask(t) PROVE Turns!Next
      BY <2>7, AddTaskTurns DEF Turns!Next
    <2>8. CASE Activate \/ EnableInterrupts
      BY <2>8, ActivateTurns DEF Turns!Next
    <2>9. CASE UNCHANGED vars \/ \E l \in Lines : Raise(l)
      BY <2>9, RaiseTurns
    <2> QED BY <2>1, <2>2, <2>3, <2>4, <2>5, <2>6, <2>7, <2>8, <2>9
            DEF Next, Processor
  <1> QED BY <1>1, TurnsInit, Invariance, TurnInvariant, PTL
          DEF Spec, RoundRobinHolds, Turns!Spec
=============================================================================
