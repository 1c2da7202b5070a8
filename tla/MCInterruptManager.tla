------------------------- MODULE MCInterruptManager -------------------------
(* Two tasks that loop through a call, a system call and a return, room    *)
(* for two of them in the table, kernelMain, which makes one system call   *)
(* and then spins, and three devices: the timer, one on the master         *)
(* controller and one on the slave.                                        *)
EXTENDS InterruptManager

CONSTANTS A, B

MCTasks == {A, B}

(* Every value is a number: 0, 4 and 514 mean what they mean to the code,  *)
(* the others are made up so that no two registers ever hold the same.     *)
Number(c) == CASE c = A -> 1 [] c = B -> 2 [] OTHER -> 5
Value(c, k, r) == 1000 * Number(c) + 100 * k + r
MCWord == 0 .. 9999
MCEntry == [t \in MCTasks |-> Value(t, 0, 8)]

(* The registers of context c at its instruction k; the values of eax and  *)
(* ebx at instruction 1 are those of a system call that prints.            *)
At(c, k, flags) ==
  [eax |-> IF k = 0 THEN Value(c, 0, 1) ELSE 4,
   ebx |-> Value(c, k, 2), ecx |-> Value(c, k, 3), edx |-> Value(c, k, 4),
   esi |-> Value(c, k, 5), edi |-> Value(c, k, 6), ebp |-> Value(c, k, 7),
   eip |-> Value(c, k, 8), cs |-> 16, eflags |-> flags,
   esp |-> <<c, IF k = 0 THEN 0 ELSE 1>>]
FirstOf(t) ==
  [eax |-> 0, ebx |-> 0, ecx |-> 0, edx |-> 0, esi |-> 0, edi |-> 0, ebp |-> 0,
   eip |-> MCEntry[t], cs |-> 16, eflags |-> 514, esp |-> <<t, 0>>]
MCFirstBoot == At(Boot, 0, 0)

Flags == {0, 514}
MCAtInt == {At(t, 1, 514) : t \in MCTasks} \cup {At(Boot, 1, e) : e \in Flags}
MCAfterInt == [f \in MCAtInt |-> [f EXCEPT !.eip = @ + 1]]
MCSuccessors ==
  [f \in {At(c, 0, e) : c \in MCTasks \cup {Boot}, e \in Flags} \cup
         {FirstOf(t) : t \in MCTasks} \cup
         {MCAfterInt[g] : g \in MCAtInt} |->
     CASE f.esp[2] = 0    -> {At(f.esp[1], 1, f.eflags)}
       [] f.esp[1] = Boot -> {f}
       [] OTHER           -> {At(f.esp[1], 0, f.eflags)}]
=============================================================================
