---------------------------- MODULE RoundRobin ----------------------------
(***************************************************************************)
(* What the kernel promises the code it runs, with no word about stacks,   *)
(* interrupts or saved frames: every context has registers of its own,     *)
(* which only its own instructions change; a task starts at its entry      *)
(* point; the tasks take the processor in turns, in the order they were    *)
(* added; a system call prints the text its caller named; and what         *)
(* kernelMain was doing is dropped for good when the first task takes over.*)
(* Until kernelMain has the kernel serve interrupts, nobody is preempted,  *)
(* and a system call prints nothing.                                       *)
(* InterruptManager implements this module.                                *)
(***************************************************************************)
EXTENDS Sequences, Integers

CONSTANTS
  Tasks,       (* the Task objects                                         *)
  Boot,        (* kernelMain, which runs before the first task             *)
  First,       (* context |-> the registers it starts with                 *)
  Gone,        (* the registers of kernelMain once they are dropped        *)
  MaxTasks,    (* max_nof_tasks                                            *)
  IF_FLAG,     (* eflags with interrupts enabled                           *)
  Successors,  (* registers |-> what one instruction may make of them      *)
  AtInt,       (* the registers whose next instruction is int $0x80        *)
  AfterInt,    (* registers |-> the same with eip behind that instruction  *)
  Write        (* the value of eax that asks for a text to be printed      *)

VARIABLES
  file,        (* context |-> its registers                                *)
  turn,        (* the context that has the processor                       *)
  queue,       (* the tasks, in the order in which they get it next        *)
  calling,     (* the running context is in a system call                  *)
  served,      (* the kernel serves interrupts                             *)
  printed      (* the last text a system call has printed                  *)

vars == <<file, turn, queue, calling, served, printed>>

Init ==
  /\ file = First /\ turn = Boot /\ queue = <<>>
  /\ calling = FALSE /\ served = FALSE

AddTask(t) ==
  /\ turn = Boot /\ Len(queue) < MaxTasks
  /\ queue' = Append(queue, t)
  /\ UNCHANGED <<file, turn, calling, served, printed>>

Serve ==
  /\ turn = Boot /\ ~calling /\ ~served
  /\ served' = TRUE
  /\ UNCHANGED <<file, turn, queue, calling, printed>>

Own(f) == file' = [file EXCEPT ![turn] = f]

Execute ==
  /\ ~calling /\ file[turn] \notin AtInt
  /\ \E f \in Successors[file[turn]] : Own(f)
  /\ UNCHANGED <<turn, queue, calling, served, printed>>

EnableInterrupts ==
  /\ turn = Boot /\ served
  /\ Own([file[turn] EXCEPT !.eflags = IF_FLAG])
  /\ UNCHANGED <<turn, queue, calling, served, printed>>

SystemCall ==
  /\ ~calling /\ file[turn] \in AtInt
  /\ Own(AfterInt[file[turn]]) /\ calling' = TRUE
  /\ UNCHANGED <<turn, queue, served, printed>>

Answer ==
  /\ calling /\ calling' = FALSE
  /\ printed' = IF served /\ file[turn].eax = Write THEN file[turn].ebx ELSE printed
  /\ UNCHANGED <<file, turn, queue, served>>

Preempt ==
  /\ served /\ ~calling /\ queue # <<>>
  /\ turn' = Head(queue) /\ queue' = Append(Tail(queue), Head(queue))
  /\ file' = [file EXCEPT ![Boot] = Gone]
  /\ UNCHANGED <<calling, served, printed>>

Next ==
  \/ \E t \in Tasks : AddTask(t)
  \/ Serve \/ Execute \/ EnableInterrupts \/ SystemCall \/ Answer \/ Preempt

Spec == Init /\ [][Next]_vars
=============================================================================
