---------------------------- MODULE PrivateMemory -----------------------------
(***************************************************************************)
(* What address spaces promise to processes: each has a memory of its own. *)
(* A page changes only when its process writes it, or calls the kernel to  *)
(* write it, or replaces its program; fork gives the child equal pages,    *)
(* apart from the context page that says which kernel stack it traps to; a *)
(* fresh program sees the pages of its image and zeros, whatever the frames*)
(* held before.                                                            *)
(***************************************************************************)
CONSTANTS
  Pid, Page, App, Data,
  Unmapped,       \* the content of a page that is not there
  ContextPage,
  Image(_, _),    \* Image(app, p): the fresh memory of app in process p
  Own(_, _),      \* Own(cx, p): context cx with the kernel stack of p
  Written(_)      \* Written(x): the page after the program wrote x

VARIABLE memory   \* memory[p][v]: what process p sees at page v

Nothing == [v \in Page |-> Unmapped]
Exists(p) == memory[p] # Nothing

Init == memory = [p \in Pid |-> Nothing]

\* A process starts a program: the first process, or exec.
Load(p, app) == memory' = [memory EXCEPT ![p] = Image(app, p)]

Boot(p, app) ==
  /\ memory = [q \in Pid |-> Nothing]
  /\ Load(p, app)

Exec(p, app) == Exists(p) /\ Load(p, app)

Fork(p, n) ==
  /\ Exists(p)
  /\ ~Exists(n)
  /\ memory' = [memory EXCEPT ![n] = [memory[p] EXCEPT ![ContextPage] = Own(@, n)]]

Write(p, v, x) ==
  /\ Exists(p)
  /\ memory[p][v] # Unmapped
  /\ memory' = [memory EXCEPT ![p][v] = Written(x)]

Exit(p) ==
  /\ Exists(p)
  /\ memory' = [memory EXCEPT ![p] = Nothing]

Next ==
  \E p \in Pid :
     \/ \E app \in App : Boot(p, app) \/ Exec(p, app)
     \/ \E n \in Pid : Fork(p, n)
     \/ \E v \in Page, x \in Data : Write(p, v, x)
     \/ Exit(p)

Spec == Init /\ [][Next]_memory
===============================================================================
