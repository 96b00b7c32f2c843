------------------------------- MODULE UserTests -------------------------------
(***************************************************************************)
(* The test programs of user/src/bin, run by the process layer.  A program *)
(* is the sequence of its system calls with the conditions its assertions  *)
(* put on the answers; the wrappers of user/src/lib.rs (wait and waitpid   *)
(* with their loop, sleep, _start) are what an instruction does.  Printing *)
(* and computing are left out: the timer may stop a program anywhere.      *)
(* INITPROC starts one of the programs in the place of the shell.          *)
(***************************************************************************)
EXTENDS TaskSystem

CONSTANTS
  NUM,      \* bound: children of a test (MAX_CHILD, NUM: 30 in the code)
  YIELDS,   \* bound: rounds of a loop (7 and 5 in the code)
  DEPTH,    \* bound: depth of forktree (4 in the code)
  TESTS     \* the programs usertests runs, in this order

VARIABLES
  test,     \* the program INITPROC starts
  ip,       \* per task: the next instruction of its program
  child,    \* per task: the answer of its last fork
  xstate,   \* per task: the variable it passes to wait and waitpid
  polling,  \* per task: a wrapper got -2 and is about to yield
  failed    \* per task: an assertion failed; the program loops for ever

testVars == <<test, ip, child, xstate, polling, failed>>
allVars  == <<vars, testVars>>

-------------------------------------------------------------------------------
(* Instructions.                                                           *)

Positive == Nat \ {0}
Negative == Int \ Nat
NonPositive == Int \ Positive

\* The child goes on at `to'; what the parent asserts of the answer.
fork(to) == [op |-> "fork", to |-> to, vals |-> Int]
fork_checked(to) == [fork(to) EXCEPT !.vals = Positive]
exec(app) == [op |-> "exec", app |-> app]
yield_ == [op |-> "yield"]
sleep == [op |-> "sleep"]
exit(code) == [op |-> "exit", code |-> code]
fault_ == [op |-> "fault"]
reap == [op |-> "reap"]

\* wait and waitpid(pid of the last fork); what the program asserts of the
\* answer and of its variable afterwards.
wait(vals, codes) ==
  [op |-> "wait", any |-> TRUE, mine |-> FALSE, vals |-> vals, codes |-> codes]
waitpid(vals, codes) ==
  [op |-> "wait", any |-> FALSE, mine |-> FALSE, vals |-> vals, codes |-> codes]
mine(w) == [w EXCEPT !.mine = TRUE]

Times(n, i) == [k \in 1 .. n |-> i]

-------------------------------------------------------------------------------
(* The programs.  A child starts at the instruction its fork names.        *)

forktest ==
  Times(NUM, fork_checked(2 * NUM + 3)) \o Times(NUM, wait(Positive, Int))
  \o <<wait(NonPositive, Int), exit(0)>>
  \o <<exit(0)>>

forktest2 ==
  Times(NUM, fork(2 * NUM + 3)) \o Times(NUM, wait(Positive, {0}))
  \o <<wait(Negative, Int), exit(0)>>
  \o <<sleep, exit(0)>>

matrix ==
  Times(NUM, fork(2 * NUM + 3)) \o Times(NUM, wait(Nat, Int))
  \o <<wait(Negative, Int), exit(0)>>
  \o <<yield_, exit(0)>>

forktest_simple ==
  <<wait({-1}, Int), fork(5), mine(wait(Int, {100})), exit(0)>>
  \o <<exit(100)>>

MAGIC == -66436

exit_test ==
  <<fork(6), mine(waitpid(Int, {MAGIC})), waitpid(Negative, Int),
    wait(NonPositive, Int), exit(0)>>
  \o Times(YIELDS, yield_) \o <<exit(MAGIC)>>

sleep_test ==
  <<fork(4), mine(waitpid(Int, {0})), exit(0)>>
  \o Times(YIELDS, sleep) \o <<exit(0)>>

sleep_simple == <<sleep, exit(0)>>

\* A program that only prints.
hello_world == <<exit(0)>>

yield_test == Times(YIELDS, yield_) \o <<exit(0)>>

stack_overflow == <<fault_>>

\* A node of the tree at depth d: fork_child twice, unless the depth is
\* reached; the root sleeps and returns, the others yield and exit.
tree_node(d) ==
  IF d = 0 THEN <<fork(5), fork(5), sleep, exit(0)>>
  ELSE IF d < DEPTH THEN Times(2, fork(5 + 4 * d)) \o <<yield_, exit(0)>>
  ELSE <<yield_, exit(0)>>

forktree == FlattenSeq([d \in 1 .. DEPTH + 1 |-> tree_node(d - 1)])

\* Each test is forked, executed by the child and waited for by pid.
usertests ==
  FlattenSeq([k \in DOMAIN TESTS |->
                <<fork(2 * Len(TESTS) + 1 + k), mine(waitpid(Int, Int))>>])
  \o <<exit(0)>>
  \o [k \in DOMAIN TESTS |-> exec(TESTS[k])]

Programs ==
  [forktest |-> forktest, forktest2 |-> forktest2, matrix |-> matrix,
   forktest_simple |-> forktest_simple, exit |-> exit_test, sleep |-> sleep_test,
   yield |-> yield_test, stack_overflow |-> stack_overflow, forktree |-> forktree,
   sleep_simple |-> sleep_simple, hello_world |-> hello_world, usertests |-> usertests]

Tests == DOMAIN Programs

\* initproc: fork, then collect orphans for ever; its child executes the
\* test in the place of the shell.
initproc == <<fork(3), reap, exec(test)>>

Instr(t) == IF image[t] = InitApp THEN initproc[ip[t]] ELSE Programs[image[t]][ip[t]]

-------------------------------------------------------------------------------
(* What an instruction does.                                               *)

InitTests ==
  /\ Init
  /\ test \in Tests
  /\ ip = [t \in Tcb |-> 1]
  /\ child = [t \in Tcb |-> NoPid]
  /\ xstate = [t \in Tcb |-> 0]
  /\ polling = [t \in Tcb |-> FALSE]
  /\ failed = [t \in Tcb |-> FALSE]

at(t, op) == InUser(t) /\ ~failed[t] /\ ~polling[t] /\ Instr(t).op = op

step(t) == ip' = [ip EXCEPT ![t] = @ + 1]

\* The blocks are interchangeable; a new task gets any free one.
NewBlock == CHOOSE n \in Tcb : n \notin Live

do_fork(t) ==
  /\ at(t, "fork")
  /\ Live # Tcb
  /\ sys_fork(t, NewBlock)
  /\ ip' = [ip EXCEPT ![t] = @ + 1, ![NewBlock] = Instr(t).to]
  /\ child' = [child EXCEPT ![t] = ret'.val, ![NewBlock] = NoPid]
  /\ xstate' = [xstate EXCEPT ![NewBlock] = xstate[t]]
  /\ failed' = [failed EXCEPT ![t] = ret'.val \notin Instr(t).vals]
  /\ UNCHANGED <<test, polling>>

do_exec(t) ==
  /\ at(t, "exec")
  /\ sys_exec(t, Instr(t).app)
  /\ ip' = [ip EXCEPT ![t] = 1]
  /\ xstate' = [xstate EXCEPT ![t] = 0]
  /\ UNCHANGED <<test, child, polling, failed>>

\* The task ends; its block keeps no program state.
ends(t) ==
  /\ ip' = [ip EXCEPT ![t] = 1]
  /\ child' = [child EXCEPT ![t] = NoPid]
  /\ xstate' = [xstate EXCEPT ![t] = 0]
  /\ UNCHANGED <<test, polling, failed>>

do_exit(t) == at(t, "exit") /\ sys_exit(t, Instr(t).code) /\ ends(t)

do_fault(t) == at(t, "fault") /\ fault(t) /\ ends(t)

Accepted(i, t, val, code) ==
  /\ val \in i.vals
  /\ code \in i.codes
  /\ i.mine => val = child[t]

\* The program's variable after a call that answered r: the kernel writes to
\* it when it collects a child, and only then.
stored(t, r) == IF r.val >= 0 THEN r.code ELSE xstate[t]

\* Mutant: the wrapper hands the -2 of the kernel to the program.
do_wait_NoLoop(t) ==
  /\ at(t, "wait")
  /\ sys_waitpid(t, IF Instr(t).any THEN -1 ELSE child[t])
  /\ xstate' = [xstate EXCEPT ![t] = stored(t, ret')]
  /\ IF Accepted(Instr(t), t, ret'.val, xstate'[t])
     THEN step(t) /\ UNCHANGED failed
     ELSE failed' = [failed EXCEPT ![t] = TRUE] /\ UNCHANGED ip
  /\ UNCHANGED <<test, child, polling>>

\* wait and waitpid: -2 makes the wrapper yield and ask again, any other
\* answer goes to the program and its assertion.
do_wait(t) ==
  /\ at(t, "wait")
  /\ sys_waitpid(t, IF Instr(t).any THEN -1 ELSE child[t])
  /\ xstate' = [xstate EXCEPT ![t] = stored(t, ret')]
  /\ polling' = [polling EXCEPT ![t] = ret'.val = -2]
  /\ IF ret'.val = -2 THEN UNCHANGED <<ip, failed>>
     ELSE IF Accepted(Instr(t), t, ret'.val, xstate'[t])
     THEN step(t) /\ UNCHANGED failed
     ELSE failed' = [failed EXCEPT ![t] = TRUE] /\ UNCHANGED ip
  /\ UNCHANGED <<test, child>>

\* initproc's loop: it yields inside wait on -2, and itself on -1.  Its exit
\* code is only printed.
do_reap(t) ==
  /\ at(t, "reap")
  /\ sys_waitpid(t, -1)
  /\ polling' = [polling EXCEPT ![t] = ret'.val < 0]
  /\ UNCHANGED <<test, ip, child, xstate, failed>>

poll(t) ==
  /\ InUser(t) /\ polling[t]
  /\ sys_yield(t)
  /\ polling' = [polling EXCEPT ![t] = FALSE]
  /\ UNCHANGED <<test, ip, child, xstate, failed>>

do_yield(t) ==
  /\ at(t, "yield")
  /\ sys_yield(t)
  /\ step(t)
  /\ UNCHANGED <<test, child, xstate, polling, failed>>

\* sleep: get_time is compared with the end; before it, the loop yields.
do_sleep(t) ==
  /\ at(t, "sleep")
  /\ sys_yield(t)
  /\ UNCHANGED testVars

\* Mutant: the comparison in the loop of sleep is never false.
wake_Never(t) == at(t, "sleep") /\ UNCHANGED allVars

wake(t) ==
  /\ at(t, "sleep")
  /\ step(t)
  /\ UNCHANGED <<vars, test, child, xstate, polling, failed>>

program(t) ==
  \/ do_fork(t) \/ do_exec(t) \/ do_exit(t) \/ do_fault(t)
  \/ do_wait(t) \/ do_reap(t) \/ poll(t) \/ do_yield(t)

kernel(t) == trap_return(t) \/ timer_interrupt(t)

running == panic = "none"

NextTests ==
  /\ running
  /\ \/ run_tasks /\ UNCHANGED testVars
     \/ \E t \in Tcb : kernel(t) /\ UNCHANGED testVars
     \/ \E t \in Tcb : program(t) \/ do_sleep(t) \/ wake(t)

\* The kernel goes on by itself and the timer keeps firing; a program that
\* gets the processor again and again makes its next call within one of its
\* time slices; time passes, so that a sleep ends.
FairTests ==
  /\ WF_allVars(run_tasks /\ UNCHANGED testVars)
  /\ WF_allVars((\E t \in Tcb : trap_return(t)) /\ UNCHANGED testVars)
  /\ WF_allVars((\E t \in Tcb : timer_interrupt(t)) /\ UNCHANGED testVars)
  /\ \A t \in Tcb : SF_allVars(program(t) \/ wake(t))

SpecTests == InitTests /\ [][NextTests]_allVars /\ FairTests

-------------------------------------------------------------------------------
(* Properties.                                                             *)

(* The assertions of the test programs hold wherever the timer stops them: *)
(* fork answers the parent with a pid, wait finds every child once and no  *)
(* more, the exit code of the child whose pid wait answers is in the       *)
(* program's variable, a pid that was waited for is gone.                  *)
TestsPass == \A t \in Tcb : ~failed[t]

(* Every test comes to its end and leaves nothing behind: in the end all   *)
(* its processes, orphans and killed ones included, have been collected    *)
(* and only INITPROC is left.                                              *)
TestsFinish == <>[](Live = {INITPROC})

================================================================================
