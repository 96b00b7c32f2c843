------------------------------ MODULE VirtualCpu ------------------------------
(***************************************************************************)
(* What the trap and switch code promises to a program: a processor of its *)
(* own.  The registers of a process change only when the process computes  *)
(* or makes a system call; interrupts and other processes are invisible.   *)
(* A call goes on behind its instruction with the answer in a0.            *)
(***************************************************************************)
EXTENDS Naturals

CONSTANTS Task, InitTask, Off, CodeSize

VARIABLE cpu     \* [Task -> registers of a running program, or Off]

Reset == [sepc |-> 0, a0 |-> 0]
Behind(r, answer) == [sepc |-> (r.sepc + 1) % CodeSize, a0 |-> answer]

Init == cpu = [t \in Task |-> IF t = InitTask THEN Reset ELSE Off]

\* An instruction, or a call that answers x; an answer is 0 or, for all
\* others, 1.
compute(t) == \E x \in 0 .. 1 : cpu' = [cpu EXCEPT ![t] = Behind(@, x)]

fork(t, n) ==
  /\ cpu[n] = Off
  /\ cpu' = [cpu EXCEPT ![t] = Behind(@, 1), ![n] = Behind(cpu[t], 0)]

exec(t) == cpu' = [cpu EXCEPT ![t] = Reset]

stop(t) == cpu' = [cpu EXCEPT ![t] = Off]

Next ==
  \E t \in Task :
    /\ cpu[t] # Off
    /\ compute(t) \/ exec(t) \/ stop(t) \/ \E n \in Task : fork(t, n)

Spec == Init /\ [][Next]_cpu

===============================================================================
