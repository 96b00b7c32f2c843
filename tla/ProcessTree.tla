----------------------------- MODULE ProcessTree ------------------------------
(***************************************************************************)
(* What the process system calls promise a user program, without control   *)
(* blocks, reference counts, queues or a processor.  A process is live     *)
(* until it exits, then dead until its parent collects it with waitpid;    *)
(* the children of a process that exits pass to the initial process.  The  *)
(* answers of waitpid are those its doc comment lists.                     *)
(***************************************************************************)
EXTENDS Integers

CONSTANTS
  Pid,        \* process identifiers
  ExitCode,   \* exit codes
  NoRet       \* nothing has been returned to a user program since the
              \* last change of the running process

InitPid == 0  \* the initial process

VARIABLES
  state,      \* "absent", "live" or "dead"
  parent,     \* the process that may collect it, -1 if there is none
  code,       \* the exit code of a dead process, 0 before
  ret         \* the last answer of fork or waitpid

vars == <<state, parent, code, ret>>

Answer(p, call, arg, val, xcode) ==
  [by |-> p, call |-> call, arg |-> arg, val |-> val, code |-> xcode]

Init ==
  /\ state = [p \in Pid |-> IF p = InitPid THEN "live" ELSE "absent"]
  /\ parent = [p \in Pid |-> -1]
  /\ code = [p \in Pid |-> 0]
  /\ ret = NoRet

\* The process p of the operations below is live.
Fork(p, q) ==
  /\ ret' = Answer(p, "fork", 0, q, 0)
  /\ state[q] = "absent"
  /\ state' = [state EXCEPT ![q] = "live"]
  /\ parent' = [parent EXCEPT ![q] = p]
  /\ UNCHANGED code

Exit(p, c) ==
  /\ ret' = NoRet
  /\ p # InitPid
  /\ state' = [state EXCEPT ![p] = "dead"]
  /\ code' = [code EXCEPT ![p] = c]
  /\ parent' = [q \in Pid |-> IF parent[q] = p THEN InitPid ELSE parent[q]]

\* The children of p that waitpid(arg) is about.
Matching(p, arg) == {q \in Pid : parent[q] = p /\ arg \in {-1, q}}

\* -1: there is no child process whose pid is the given one.
WaitNoChild(p, arg) ==
  /\ ret' = Answer(p, "waitpid", arg, -1, 0)
  /\ Matching(p, arg) = {}
  /\ UNCHANGED <<state, parent, code>>

\* -2: there is such a child but it is still running.
WaitRunning(p, arg) ==
  /\ ret' = Answer(p, "waitpid", arg, -2, 0)
  /\ Matching(p, arg) # {}
  /\ \A q \in Matching(p, arg) : state[q] = "live"
  /\ UNCHANGED <<state, parent, code>>

\* A dead child is collected with its own exit code and is gone.
Collect(p, arg, q) ==
  /\ ret' = Answer(p, "waitpid", arg, q, code[q])
  /\ q \in Matching(p, arg)
  /\ state[q] = "dead"
  /\ state' = [state EXCEPT ![q] = "absent"]
  /\ parent' = [parent EXCEPT ![q] = -1]
  /\ code' = [code EXCEPT ![q] = 0]

\* Scheduling and the other calls change none of this.
Other == ret' = NoRet /\ UNCHANGED <<state, parent, code>>

Live == {p \in Pid : state[p] = "live"}

Next ==
  \/ Other
  \/ \E p \in Live :
        \/ \E q \in Pid : Fork(p, q)
        \/ \E c \in ExitCode : Exit(p, c)
        \/ \E arg \in Pid \cup {-1} :
              \/ WaitNoChild(p, arg)
              \/ WaitRunning(p, arg)
              \/ \E q \in Pid : Collect(p, arg, q)

Spec == Init /\ [][Next]_vars
===============================================================================
