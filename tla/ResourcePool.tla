----------------------------- MODULE ResourcePool -----------------------------
(***************************************************************************)
(* What an allocator of numbered resources promises its callers, whatever  *)
(* order it recycles the numbers in: a number belongs to at most one       *)
(* handle at a time, and it becomes available again only when that handle  *)
(* gives it back.  The stack allocators of the kernel (physical frames,    *)
(* process identifiers) are shown to implement it.                         *)
(***************************************************************************)
CONSTANTS
  Handle,     \* the owners: live RAII objects
  Ids,        \* the numbers that may be handed out
  Nothing     \* what a handle that owns nothing holds

VARIABLE owns \* the number each handle owns

Init == owns = [h \in Handle |-> Nothing]

Acquire(h, i) ==
  /\ owns[h] = Nothing
  /\ \A g \in Handle : owns[g] # i
  /\ owns' = [owns EXCEPT ![h] = i]

Release(h) ==
  /\ owns[h] # Nothing
  /\ owns' = [owns EXCEPT ![h] = Nothing]

Next == \E h \in Handle : Release(h) \/ \E i \in Ids : Acquire(h, i)

Spec == Init /\ [][Next]_owns
===============================================================================
