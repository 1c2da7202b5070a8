---------------------------- MODULE TaskManager ----------------------------
(***************************************************************************)
(* TaskManager and Task (source/multitasking.cpp): the tasks, the stacks   *)
(* they run on, and the frame at which each task's registers were saved    *)
(* when it was last interrupted.  InterruptManager calls schedule.         *)
(*                                                                         *)
(* A stack pointer is a pair <<context, depth>>: whose stack it points     *)
(* into, and how many calls deep.  A CPUstate frame is the sequence of its *)
(* eleven words from the lowest address up, in the order in which struct   *)
(* CPUstate declares them; the fields esp and ss at its end are left out:  *)
(* the processor writes and reads them only on a change of privilege.      *)
(***************************************************************************)
EXTENDS Integers

CONSTANTS
  Tasks,        (* the Task objects of the program                         *)
  Boot,         (* the context of kernelMain                               *)
  NoTask,       (* what an array element holds before it is assigned       *)
  MaxTasks,     (* max_nof_tasks, 256                                      *)
  Depths,       (* how deep a context's calls go: bounds the stacks        *)
  Word,         (* the values of a register                                *)
  Entry,        (* task |-> its entry_point_function                       *)
  CodeSegment,  (* gdt->getCodeSegmentAddressOffset()                      *)
  IF_FLAG       (* 0x202: eflags with interrupts enabled                   *)

ASSUME TaskAssumption ==
  /\ MaxTasks \in Nat \ {0}
  /\ Boot \notin Tasks /\ NoTask \notin Tasks
  /\ 0 \in Depths
  /\ {0, CodeSegment, IF_FLAG} \subseteq Word /\ IF_FLAG # 0
  /\ Entry \in [Tasks -> Word]

VARIABLES
  tasks,               (* TaskManager::tasks                               *)
  nof_tasks,           (* TaskManager::nof_tasks                           *)
  current_task_index,  (* TaskManager::current_task_index                  *)
  cpu_state,           (* task |-> Task::cpu_state                         *)
  stack                (* stack pointer |-> the frame last saved there     *)

Contexts == Tasks \cup {Boot}
Pointers == Contexts \X Depths
Slots == 0 .. MaxTasks - 1
Frames == {m \in [1 .. 11 -> Word] : m[11] \in {0, IF_FLAG}}

(* The frame the constructor of Task builds at the top of the task's stack.*)
(* It leaves error unassigned; nothing reads it.                           *)
FirstFrame(t) == <<0, 0, 0, 0, 0, 0, 0, 0, Entry[t], CodeSegment, IF_FLAG>>

(* Stack memory that holds no frame.                                       *)
Unused == [i \in 1 .. 11 |-> 0]

TaskInit ==
  /\ tasks = [i \in Slots |-> NoTask]
  /\ nof_tasks = 0
  /\ current_task_index = -1
  /\ cpu_state = [t \in Tasks |-> <<t, 0>>]
  /\ stack = [p \in Pointers |->
                IF p[1] \in Tasks /\ p[2] = 0 THEN FirstFrame(p[1]) ELSE Unused]

(* Mutant: the limit is off by one.                                        *)
HasRoomForOneMore == nof_tasks <= MaxTasks

HasRoom == nof_tasks < MaxTasks

(* addTask when it returns true; when it returns false nothing changes.    *)
AddTask(t) ==
  /\ HasRoom
  /\ tasks' = [tasks EXCEPT ![nof_tasks] = t]
  /\ nof_tasks' = nof_tasks + 1
  /\ UNCHANGED <<current_task_index, cpu_state, stack>>

(* Mutant: the last task never gets its turn.                              *)
NextIndexShort ==
  IF nof_tasks = 1 THEN 0 ELSE (current_task_index + 1) % (nof_tasks - 1)

(* The index schedule moves to.                                            *)
NextIndex == (current_task_index + 1) % nof_tasks

(* Mutants: the interrupted task's frame is not kept; the index starts at  *)
(* 0, so that the frame of kernelMain is kept for the first task.          *)
KeepNothing(p) == cpu_state
KeepFromZero(p) ==
  [cpu_state EXCEPT
     ![tasks[IF current_task_index >= 0 THEN current_task_index ELSE 0]] = p]

(* Every task's cpu_state once frame p of the one interrupted is kept; the *)
(* context of kernelMain has no task, and its frame is kept nowhere.       *)
Keep(p) ==
  IF current_task_index >= 0
  THEN [cpu_state EXCEPT ![tasks[current_task_index]] = p]
  ELSE cpu_state

(* schedule(p), and the frame r it returns.                                *)
Schedule(p, r) ==
  /\ IF nof_tasks = 0
     THEN r = p /\ UNCHANGED <<current_task_index, cpu_state>>
     ELSE /\ cpu_state' = Keep(p)
          /\ current_task_index' = NextIndex
          /\ r = Keep(p)[tasks[NextIndex]]
  /\ UNCHANGED <<tasks, nof_tasks, stack>>
=============================================================================
