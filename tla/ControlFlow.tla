------------------------------ MODULE ControlFlow ------------------------------
(***************************************************************************)
(* How control moves on the single hart (os/src/trap, os/src/task/switch.S,*)
(* processor.rs, task/mod.rs): from a program through                      *)
(* __alltraps onto the kernel stack of its task, through __switch to the   *)
(* idle control flow and to other tasks, and back through __restore.       *)
(*                                                                         *)
(* The state is what the assembly moves: the stack pointer, satp, stvec,   *)
(* the registers of the program in the hart or in the trap context of an   *)
(* address space, the task contexts that __switch saves, and on each kernel*)
(* stack the caller that suspend_current_and_run_next returns to.  An      *)
(* action is a stretch of kernel code without __switch.  Which RefMuts of  *)
(* UPSafeCells are alive in a stretch is in TaskSystem.                    *)
(***************************************************************************)
EXTENDS Naturals, Sequences, SequencesExt

CONSTANTS
  Task,       \* task control blocks; a task stands for its pid, its kernel
              \* stack and its address space too
  InitTask,   \* INITPROC
  Idle,       \* the boot stack, and the control flow that runs on it
  None,
  CodeSize    \* bound: instructions of a program, which then starts again

\* What a program computes with: where it is, and the register of answers.
Registers == [sepc : 0 .. CodeSize - 1, a0 : {0, 1}]

\* Who is suspended in suspend_current_and_run_next.
Callers == {"timer", "yield", "read"}

ASSUME IdleAssumption ==
  /\ InitTask \in Task /\ {Idle, None} \cap Task = {} /\ Idle # None
  /\ CodeSize \in Nat \ {0}
  /\ None \notin Registers /\ None \notin Callers

VARIABLES
  pc,           \* where the hart executes
  sp,           \* the stack it is on
  satp,         \* the address space: a task's, or Idle for KERNEL_SPACE
  stvec,        \* the trap entry
  regs,         \* the program's registers while it executes
  cause,        \* scause with the system call number, until it is read
  trap_cx,      \* the trap context of every address space
  task_cx,      \* the task contexts, and idle_task_cx under Idle
  stack,        \* per kernel stack: the caller that is suspended on it
  status, current, ready_queue,
  panic

switchVars == <<pc, sp, task_cx>>
csrVars == <<satp, stvec>>
schedVars == <<status, current, ready_queue>>
vars == <<switchVars, csrVars, schedVars, regs, cause, trap_cx, stack, panic>>

-------------------------------------------------------------------------------
(* Task and trap contexts.                                                 *)

zero_init == [ra |-> "zero", sp |-> None]

goto_trap_return(kstack) == [ra |-> "trap_return", sp |-> kstack]

app_init_context(kernel_sp) == [sepc |-> 0, a0 |-> 0, kernel_sp |-> kernel_sp]

\* __switch(from, to): the callee-saved state goes to `from', the hart goes
\* on with `to'.  Contexts are given as functions so that the dummy of an
\* exiting task can be thrown away.
switch(saved, to) ==
  /\ task_cx' = saved
  /\ pc' = saved[to].ra
  /\ sp' = saved[to].sp

Init ==
  /\ pc = "run_tasks"
  /\ sp = Idle
  /\ satp = Idle
  /\ stvec = "trap_from_kernel"
  /\ regs = None
  /\ cause = None
  /\ trap_cx = [t \in Task |-> IF t = InitTask THEN app_init_context(t) ELSE None]
  /\ task_cx = [t \in Task \cup {Idle} |->
                  IF t = InitTask THEN goto_trap_return(t) ELSE zero_init]
  /\ stack = [t \in Task |-> None]
  /\ status = [t \in Task |-> IF t = InitTask THEN "Ready" ELSE "Free"]
  /\ current = None
  /\ ready_queue = <<InitTask>>
  /\ panic = "none"

-------------------------------------------------------------------------------
(* The idle control flow.                                                  *)

run_tasks ==
  /\ pc = "run_tasks"
  /\ ready_queue # <<>>
  /\ LET next == Head(ready_queue) IN
     /\ ready_queue' = Tail(ready_queue)
     /\ status' = [status EXCEPT ![next] = "Running"]
     /\ current' = next
     /\ switch([task_cx EXCEPT ![Idle] = [ra |-> "run_tasks", sp |-> sp]], next)
  /\ UNCHANGED <<csrVars, regs, cause, trap_cx, stack, panic>>

-------------------------------------------------------------------------------
(* Into and out of user mode.                                              *)

\* Mutant: set_user_trap_entry is left out.
user_trap_entry_Kept == stvec

user_trap_entry == "TRAMPOLINE"

\* trap_return and __restore: the trap context is found at TRAP_CONTEXT in
\* the address space of the current task.
trap_return ==
  /\ pc = "trap_return"
  /\ stvec' = user_trap_entry
  /\ satp' = current
  /\ regs' = [sepc |-> trap_cx[satp'].sepc, a0 |-> trap_cx[satp'].a0]
  /\ pc' = "user"
  /\ sp' = None
  /\ UNCHANGED <<task_cx, schedVars, cause, trap_cx, stack, panic>>

compute ==
  /\ pc = "user"
  /\ \E x \in 0 .. 1 :
       regs' = [sepc |-> (regs.sepc + 1) % CodeSize, a0 |-> x]
  /\ UNCHANGED <<switchVars, csrVars, schedVars, cause, trap_cx, stack, panic>>

Calls == {"fork", "exec", "plain", "waitpid", "yield", "read", "exit"}
Causes == Calls \cup {"timer", "fault"}

\* The hardware jumps to stvec.  __alltraps saves the registers in the trap
\* context of the address space in satp, takes the kernel stack and the
\* kernel's satp from it and goes to trap_handler.
alltraps(c) ==
  /\ pc = "user"
  /\ cause' = c
  /\ panic' = IF stvec = "TRAMPOLINE" THEN panic ELSE "a trap from kernel"
  /\ trap_cx' = [trap_cx EXCEPT ![satp].sepc = regs.sepc, ![satp].a0 = regs.a0]
  /\ regs' = None
  /\ sp' = trap_cx[satp].kernel_sp
  /\ satp' = Idle
  /\ pc' = "trap_handler"
  /\ UNCHANGED <<stvec, task_cx, schedVars, stack>>

-------------------------------------------------------------------------------
(* trap_handler.                                                           *)

handles(c) ==
  /\ pc = "trap_handler"
  /\ cause = c
  /\ cause' = None
  /\ stvec' = "trap_from_kernel"

\* Mutant: the program would make its system call again.
skip_ecall_Not(cx) == cx

\* cx.sepc += 4, before the call is looked at.
skip_ecall(cx) == [cx EXCEPT !.sepc = (@ + 1) % CodeSize]

\* The result (0, or 1 for any other) goes to a0 of the trap context of the
\* current task, taken anew after the call; trap_handler ends in trap_return.
finish(cxs, result) ==
  /\ trap_cx' = [cxs EXCEPT ![current].a0 = result]
  /\ pc' = "trap_return"
  /\ UNCHANGED <<sp, satp, regs>>

called == [trap_cx EXCEPT ![current] = skip_ecall(@)]

\* Mutant: the kernel_sp copied from the parent stays.
child_cx_ParentStack(n) == [called[current] EXCEPT !.a0 = 0]

\* The copied address space brings the copied trap context.
child_cx(n) == [called[current] EXCEPT !.kernel_sp = n, !.a0 = 0]

sys_fork(n) ==
  /\ handles("fork")
  /\ status[n] = "Free"
  /\ status' = [status EXCEPT ![n] = "Ready"]
  /\ ready_queue' = Append(ready_queue, n)
  /\ task_cx' = [task_cx EXCEPT ![n] = goto_trap_return(n)]
  /\ finish([called EXCEPT ![n] = child_cx(n)], 1)
  /\ UNCHANGED <<current, stack, panic>>

sys_exec ==
  /\ handles("exec")
  /\ finish([called EXCEPT ![current] = app_init_context(current)], 0)
  /\ UNCHANGED <<task_cx, schedVars, stack, panic>>

\* The calls that change nothing else: getpid, get_time, write, and exec of
\* a name that is not linked.
sys_plain ==
  /\ handles("plain")
  /\ \E x \in 0 .. 1 : finish(called, x)
  /\ UNCHANGED <<task_cx, schedVars, stack, panic>>

\* A zombie is collected: its kernel stack and task context are gone.  Which
\* zombie a process may collect, if any, is in TaskSystem.
sys_waitpid(z) ==
  /\ handles("waitpid")
  /\ status[z] = "Zombie"
  /\ status' = [status EXCEPT ![z] = "Free"]
  /\ task_cx' = [task_cx EXCEPT ![z] = zero_init]
  /\ finish(called, 1)
  /\ UNCHANGED <<current, ready_queue, stack, panic>>

sys_waitpid_none ==
  /\ handles("waitpid")
  /\ finish(called, 1)
  /\ UNCHANGED <<task_cx, schedVars, stack, panic>>

\* Mutant: the context is saved in the slot of the idle control flow.
saved_context_Idle == [task_cx EXCEPT ![Idle] = [ra |-> "resumed", sp |-> sp]]

saved_context == [task_cx EXCEPT ![current] = [ra |-> "resumed", sp |-> sp]]

\* The task is queued before its context is saved; nobody fetches it in
\* between.
suspend_current_and_run_next(caller) ==
  /\ status' = [status EXCEPT ![current] = "Ready"]
  /\ ready_queue' = Append(ready_queue, current)
  /\ current' = None
  /\ stack' = [stack EXCEPT ![sp] = caller]
  /\ switch(saved_context, Idle)
  /\ UNCHANGED <<satp, regs, panic>>

timer_interrupt ==
  /\ handles("timer")
  /\ suspend_current_and_run_next("timer")
  /\ UNCHANGED trap_cx

sys_yield ==
  /\ handles("yield")
  /\ suspend_current_and_run_next("yield")
  /\ trap_cx' = called

\* sys_read asks the console; without a character it suspends and asks
\* again when it is resumed.
sys_read ==
  /\ handles("read")
  /\ \/ suspend_current_and_run_next("read") /\ trap_cx' = called
     \/ /\ finish(called, 1)
        /\ UNCHANGED <<task_cx, schedVars, stack, panic>>

\* The data pages go, the trap context with them, and the task context is
\* saved in a dummy.  INITPROC's exit panics (TaskSystem).
exit_current_and_run_next ==
  /\ handles("exit") \/ handles("fault")
  /\ IF current = InitTask
     THEN panic' = "INITPROC exits" /\ UNCHANGED <<switchVars, schedVars, trap_cx>>
     ELSE /\ status' = [status EXCEPT ![current] = "Zombie"]
          /\ current' = None
          /\ trap_cx' = [trap_cx EXCEPT ![current] = None]
          /\ switch(task_cx, Idle)
          /\ UNCHANGED <<ready_queue, panic>>
  /\ UNCHANGED <<satp, regs, stack>>

-------------------------------------------------------------------------------
(* Behind the __switch of suspend_current_and_run_next.                    *)

returns_to(caller) ==
  /\ pc = "resumed"
  /\ stack[sp] = caller
  /\ UNCHANGED <<stvec, cause>>

popped == stack' = [stack EXCEPT ![sp] = None]

resume_timer ==
  /\ returns_to("timer")
  /\ popped
  /\ pc' = "trap_return"
  /\ UNCHANGED <<sp, satp, task_cx, schedVars, regs, trap_cx, panic>>

resume_yield ==
  /\ returns_to("yield")
  /\ popped
  /\ finish(trap_cx, 0)
  /\ UNCHANGED <<task_cx, schedVars, panic>>

resume_read ==
  /\ returns_to("read")
  /\ \/ suspend_current_and_run_next("read") /\ UNCHANGED trap_cx
     \/ /\ popped
        /\ finish(trap_cx, 1)
        /\ UNCHANGED <<task_cx, schedVars, panic>>

-------------------------------------------------------------------------------

shutdown == panic # "none" /\ UNCHANGED vars

trap_handler ==
  \/ \E n \in Task : sys_fork(n) \/ sys_waitpid(n)
  \/ sys_exec \/ sys_plain \/ sys_waitpid_none
  \/ timer_interrupt \/ sys_yield \/ sys_read
  \/ exit_current_and_run_next
  \/ resume_timer \/ resume_yield \/ resume_read

\* With every block in use fork has no memory left; it is not tried.
Possible(c) == c = "fork" => \E n \in Task : status[n] = "Free"

Next ==
  \/ /\ panic = "none"
     /\ \/ run_tasks
        \/ trap_return
        \/ compute
        \/ \E c \in Causes : Possible(c) /\ alltraps(c)
        \/ trap_handler
  \/ shutdown

Spec == Init /\ [][Next]_vars

-------------------------------------------------------------------------------
(* Properties.                                                             *)

TypeOK ==
  /\ pc \in {"run_tasks", "trap_return", "user", "trap_handler", "resumed"}
  /\ sp \in Task \cup {Idle, None}
  /\ satp \in Task \cup {Idle}
  /\ stvec \in {"trap_from_kernel", "TRAMPOLINE"}
  /\ regs \in Registers \cup {None}
  /\ cause \in Causes \cup {None}
  /\ stack \in [Task -> Callers \cup {None}]
  /\ status \in [Task -> {"Free", "Ready", "Running", "Zombie"}]
  /\ current \in Task \cup {None}
  /\ ready_queue \in Seq(Task)
  /\ panic \in {"none", "INITPROC exits", "a trap from kernel"}

(* The hart is where its pointers say: kernel code of a task runs in the   *)
(* kernel's address space on the kernel stack of PROCESSOR.current, the    *)
(* idle control flow on the boot stack with no current task, a program in  *)
(* its own address space with the trampoline as trap entry.                *)
HartIsConsistent ==
  /\ TypeOK
  /\ panic = "none" =>
    CASE pc = "user"      -> satp = current /\ current \in Task /\ stvec = "TRAMPOLINE"
      [] pc = "run_tasks" -> sp = Idle /\ satp = Idle /\ current = None
                             /\ stvec = "trap_from_kernel"
      [] OTHER            -> sp = current /\ satp = Idle /\ current \in Task

(* Every context that __switch can load has been saved and not been used   *)
(* since: a Ready task goes on at trap_return at the top of its own kernel *)
(* stack, or behind the __switch that suspended it with its caller still   *)
(* on that stack; while a task runs, the idle context waits.               *)
ContextsAreSaved ==
  /\ \A t \in Task : status[t] = "Ready" =>
       /\ task_cx[t].sp = t
       /\ task_cx[t].ra = IF stack[t] = None THEN "trap_return" ELSE "resumed"
       /\ trap_cx[t].kernel_sp = t
  /\ current # None => task_cx[Idle] = [ra |-> "run_tasks", sp |-> Idle]

(* The trap and switch code gives every program a processor of its own:    *)
(* its registers survive every interrupt and every other process, a system *)
(* call is made once and answered in a0, also for the child of fork, and   *)
(* for a call that waits in the kernel.                                    *)
InCall(t) == stack[t] \in {"yield", "read"}

BeforeCall(t, sepc) == IF InCall(t) THEN (sepc + CodeSize - 1) % CodeSize ELSE sepc

Cpu(t) ==
  IF status[t] \notin {"Ready", "Running"} THEN None
  ELSE IF pc = "user" /\ current = t THEN regs
  ELSE [sepc |-> BeforeCall(t, trap_cx[t].sepc), a0 |-> trap_cx[t].a0]

Virtual == INSTANCE VirtualCpu WITH Off <- None, cpu <- [t \in Task |-> Cpu(t)]

VirtualCpuSpec == Virtual!Spec

-------------------------------------------------------------------------------
(* The inductive invariant.                                                *)

TrapContext == [sepc : 0 .. CodeSize - 1, a0 : {0, 1}, kernel_sp : Task]

\* Contexts have their types, and a program that is not over has a trap
\* context, which leads to its own kernel stack.
ContextsOK ==
  /\ trap_cx \in [Task -> TrapContext \cup {None}]
  /\ task_cx \in [Task \cup {Idle} ->
                    [ra : {"zero", "trap_return", "resumed", "run_tasks"},
                     sp : Task \cup {Idle, None}]]
  /\ \A t \in Task : status[t] \in {"Ready", "Running"} =>
        trap_cx[t] \in TrapContext /\ trap_cx[t].kernel_sp = t

\* The queue holds the Ready tasks, each once; the Running one is current.
QueueOK ==
  /\ IsInjective(ready_queue)
  /\ \A t \in Task : /\ status[t] = "Ready" <=> t \in Range(ready_queue)
                     /\ status[t] = "Running" <=> t = current

\* A caller is on a kernel stack only between the two halves of __switch.
StackOK ==
  \A t \in Task : stack[t] # None => \/ status[t] = "Ready"
                                     \/ t = current /\ pc = "resumed"

\* No trap of a program is taken through the kernel's entry.
NoKernelTrap == panic # "a trap from kernel"

\* What a stretch of code finds besides HartIsConsistent: registers in user
\* mode, a caller behind __switch, and the kernel's trap entry wherever the
\* hart is not about to enter or leave a program.
HartOK ==
  panic = "none" =>
    /\ pc = "user" => regs \in Registers
    /\ pc = "resumed" => stack[current] # None /\ stvec = "trap_from_kernel"

Inv ==
  /\ NoKernelTrap /\ HartIsConsistent /\ ContextsAreSaved
  /\ ContextsOK /\ QueueOK /\ StackOK /\ HartOK

===============================================================================
