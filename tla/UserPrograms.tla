----------------------------- MODULE UserPrograms -----------------------------
(***************************************************************************)
(* The process layer with the two programs the system always runs          *)
(* (user/src/bin/initproc.rs and user_shell.rs on the wrappers of          *)
(* user/src/lib.rs): the initial process forks the shell and then collects *)
(* every orphan; the shell reads a line, forks a child and waits for it.   *)
(* The programs the shell's children execute are arbitrary.                *)
(***************************************************************************)
EXTENDS TaskSystem

CONSTANT ShellApp   \* the application "user_shell"

ASSUME ShellAssumption == ShellApp \in AppNames

VARIABLES
  init_pc,      \* the next system call of initproc
  shell,        \* the task that runs the shell
  shell_pc,     \* the next system call of the shell
  shell_child   \* the pid the shell's fork answered

programVars == <<init_pc, shell, shell_pc, shell_child>>
allVars == <<vars, programVars>>

InitPrograms ==
  /\ Init
  /\ init_pc = "fork"
  /\ shell = None
  /\ shell_pc = "exec"
  /\ shell_child = NoPid

-------------------------------------------------------------------------------

\* initproc: fork the shell, then wait for any child for ever; wait yields
\* when no child has exited yet (-2), main yields when there is none (-1).
initproc_fork ==
  /\ init_pc = "fork"
  /\ \E n \in Tcb : sys_fork(INITPROC, n) /\ shell' = n
  /\ init_pc' = "wait"
  /\ UNCHANGED <<shell_pc, shell_child>>

\* Mutant: initproc stops collecting after its first child.
initproc_wait_Once ==
  /\ init_pc = "wait"
  /\ sys_waitpid(INITPROC, -1)
  /\ init_pc' = IF ret'.val < 0 THEN "yield" ELSE "done"
  /\ UNCHANGED <<shell, shell_pc, shell_child>>

initproc_wait ==
  /\ init_pc = "wait"
  /\ sys_waitpid(INITPROC, -1)
  /\ init_pc' = IF ret'.val < 0 THEN "yield" ELSE "wait"
  /\ UNCHANGED <<shell, shell_pc, shell_child>>

initproc_yield ==
  /\ init_pc = "yield"
  /\ sys_yield(INITPROC)
  /\ init_pc' = "wait"
  /\ UNCHANGED <<shell, shell_pc, shell_child>>

initproc == initproc_fork \/ initproc_wait \/ initproc_yield

-------------------------------------------------------------------------------

\* The child that INITPROC forked executes the shell.
shell_exec ==
  /\ shell_pc = "exec"
  /\ sys_exec(shell, ShellApp)
  /\ shell_pc' = "read"
  /\ UNCHANGED <<init_pc, shell, shell_child>>

\* getchar: a character is added to the line or taken from it, or it ends a
\* line that is not empty.
shell_read ==
  /\ shell_pc = "read"
  /\ sys_read(shell)
  /\ shell_pc' \in IF resume'[shell] = "user" THEN {"read", "fork"} ELSE {"read"}
  /\ UNCHANGED <<init_pc, shell, shell_child>>

shell_fork ==
  /\ shell_pc = "fork"
  /\ \E n \in Tcb : sys_fork(shell, n)
  /\ shell_child' = ret'.val
  /\ shell_pc' = "wait"
  /\ UNCHANGED <<init_pc, shell>>

\* Mutant: the wrapper gives the -2 of the kernel to the shell.
shell_waitpid_NoLoop ==
  /\ shell_pc = "wait"
  /\ sys_waitpid(shell, shell_child)
  /\ shell_pc' = IF ret'.val = shell_child THEN "read" ELSE "assertion failed"
  /\ UNCHANGED <<init_pc, shell, shell_child>>

\* waitpid yields and asks again while the child runs; the shell asserts that
\* the answer is the child's pid.
shell_waitpid ==
  /\ shell_pc = "wait"
  /\ sys_waitpid(shell, shell_child)
  /\ shell_pc' = CASE ret'.val = -2          -> "yield"
                   [] ret'.val = shell_child -> "read"
                   [] OTHER                  -> "assertion failed"
  /\ UNCHANGED <<init_pc, shell, shell_child>>

\* Mutant: the system call is outside of the wrapper's loop.
shell_yield_NoRetry ==
  /\ shell_pc = "yield"
  /\ sys_yield(shell)
  /\ UNCHANGED programVars

shell_yield ==
  /\ shell_pc = "yield"
  /\ sys_yield(shell)
  /\ shell_pc' = "wait"
  /\ UNCHANGED <<init_pc, shell, shell_child>>

user_shell ==
  shell_exec \/ shell_read \/ shell_fork \/ shell_waitpid \/ shell_yield

-------------------------------------------------------------------------------

\* What the kernel does by itself: a resumed task goes on, the timer stops a
\* program.
kernel ==
  /\ \/ run_tasks
     \/ \E c \in Tcb : trap_return(c)
     \/ timer_interrupt(INITPROC)
     \/ shell # None /\ timer_interrupt(shell)
  /\ UNCHANGED programVars

others ==
  /\ \E c \in Tcb \ {INITPROC, shell} : trap_handler(c)
  /\ UNCHANGED programVars

running == panic = "none"

NextPrograms ==
  \/ running /\ (kernel \/ initproc \/ (shell # None /\ user_shell) \/ others)
  \/ shutdown /\ UNCHANGED programVars

\* The kernel goes on by itself, and the timer keeps firing.  A program that
\* is given the processor again and again makes its next system call: a time
\* slice is 10 ms, and the few instructions between two system calls of
\* these programs do not exhaust it every time.
FairPrograms ==
  /\ WF_allVars(running /\ run_tasks /\ UNCHANGED programVars)
  /\ WF_allVars(running /\ (\E c \in Tcb : trap_return(c)) /\ UNCHANGED programVars)
  /\ WF_allVars(running /\ (\E c \in Tcb : timer_interrupt(c)) /\ UNCHANGED programVars)
  /\ WF_allVars(running /\ (\E c \in Tcb \ {shell} : resume[c] = "sys_read" /\ sys_read(c))
                /\ UNCHANGED programVars)
  /\ WF_allVars(running /\ shell # None /\ resume[shell] = "sys_read" /\ shell_read)
  /\ SF_allVars(running /\ initproc)
  /\ SF_allVars(running /\ shell # None /\ (shell_waitpid \/ shell_yield))

SpecPrograms == InitPrograms /\ [][NextPrograms]_allVars /\ FairPrograms

-------------------------------------------------------------------------------
(* Properties.                                                             *)

(* The shell's assert_eq!(pid, exit_pid) holds: nobody else can collect    *)
(* its child, and the pid cannot belong to another process before the      *)
(* shell has collected it.                                                 *)
ShellAssertHolds == shell_pc # "assertion failed"

\* No action tells the blocks other than INITPROC apart: fork takes any that
\* is free.  What holds of one of them in every behaviour holds of all.
AnyBlock == CHOOSE t \in Tcb \ {INITPROC} : TRUE

(* FIFO scheduling with a timer: a task in the ready queue eventually runs,*)
(* whatever the programs before it do (manager.rs 18-25, trap/mod.rs 86).  *)
ReadyEventuallyRuns ==
  \A t \in {INITPROC, AnyBlock} : status[t] = "Ready" ~> (status[t] = "Running" \/ ~running)

(* Every zombie that INITPROC is the parent of, adopted or not, is         *)
(* collected.                                                              *)
OrphansAreReaped ==
  status[AnyBlock] = "Zombie" /\ parent[AnyBlock] = INITPROC
    ~> status[AnyBlock] # "Zombie" \/ ~running

(* When the child the shell waits for has exited, the shell comes back to  *)
(* its prompt.                                                             *)
ShellComesBack ==
  (/\ shell_pc \in {"wait", "yield"}
   /\ \E t \in Tcb : status[t] = "Zombie" /\ pid[t] = shell_child)
  ~> shell_pc = "read" \/ ~running
===============================================================================
