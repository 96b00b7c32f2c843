-------------------------- MODULE TranslationCache ----------------------------
(***************************************************************************)
(* The caches of the hart and the fences that keep them honest: writes of  *)
(* satp and sfence.vma in trap.S, fence.i in trap_return (trap/mod.rs      *)
(* 101-129), against page tables that fork, exec and waitpid change.       *)
(*                                                                         *)
(* PageTable::token leaves the ASID 0 for every space, so a translation    *)
(* cached under one satp answers under the next; page TRAP_CONTEXT of a    *)
(* user space and the top page of pid 0's kernel stack have the same       *)
(* number.  The hart may walk the active table and fetch at any time, and  *)
(* may remember that a page is not mapped.                                 *)
(*                                                                         *)
(* Which frames are handed out is MemorySet's subject: here any frame may  *)
(* be, so that old and new translation of a page are the same or not.      *)
(* Where a task continues when it is switched to is ControlFlow's.         *)
(***************************************************************************)
EXTENDS Integers, FiniteSets

CONSTANTS
  MaxPid,     \* pids are 0 .. MaxPid; 0 is initproc
  Frame,
  Program,    \* contents of a code page
  KERNEL_STACK_PAGES,
  NoFrame

ASSUME CacheAssumption ==
  MaxPid \in Nat /\ KERNEL_STACK_PAGES \in Nat \ {0} /\ NoFrame \notin Frame

Pid == 0 .. MaxPid
Kernel == MaxPid + 1
Space == Pid \cup {Kernel}
Idle == MaxPid + 1     \* nobody: the hart is in the idle control flow

\* Pages are numbered from the top: the trampoline is 0.
TRAP_CONTEXT == 1

\* kernel_stack_position: the top page of a stack.
stack_page(p) == 1 + p * (KERNEL_STACK_PAGES + 1)
Code == 2 + (MaxPid + 1) * (KERNEL_STACK_PAGES + 1)
Page == {TRAP_CONTEXT, Code} \cup {stack_page(p) : p \in Pid}

VARIABLES
  table,     \* the page table of every space
  code,      \* what a frame holds, as code
  proc,      \* "none", "live" or "zombie"
  where,     \* a live process: "user", "trap" (in its system call),
             \* "waiting" (suspended in it) or "leaving" (in trap_return)
  current,   \* PROCESSOR.current
  satp,
  flushed,   \* sfence.vma has followed the last write of satp
  tlb,       \* cached translations
  icache     \* cached instructions, by frame

processes == <<table, code, proc, where>>
caches == <<tlb, icache>>
vars == <<processes, current, satp, flushed, caches>>

Empty == [n \in {} |-> NoFrame]
Put(f, n, x) == [m \in DOMAIN f \cup {n} |-> IF m = n THEN x ELSE f[m]]

Unmapped == [n \in Page |-> NoFrame]
UserSpace(tc, c) == [Unmapped EXCEPT ![TRAP_CONTEXT] = tc, ![Code] = c]

\* initproc has just been restored for the first time.
Init ==
  /\ \E s, tc, c \in Frame :
        table = [sp \in Space |-> IF sp = 0 THEN UserSpace(tc, c)
                                  ELSE IF sp = Kernel THEN [Unmapped EXCEPT ![stack_page(0)] = s]
                                  ELSE Unmapped]
  /\ code \in [Frame -> Program]
  /\ proc = [p \in Pid |-> IF p = 0 THEN "live" ELSE "none"]
  /\ where = [p \in Pid |-> "user"]
  /\ current = 0
  /\ satp = 0
  /\ flushed = TRUE
  /\ tlb = Empty
  /\ icache = Empty

-------------------------------------------------------------------------------
(* The hart.                                                               *)

\* What an access to page n meets: the cached translation if there is one.
Translation(n) == IF n \in DOMAIN tlb THEN tlb[n] ELSE table[satp][n]
Instructions(f) == IF f \in DOMAIN icache THEN icache[f] ELSE code[f]

walk(n) ==
  /\ n \notin DOMAIN tlb
  /\ tlb' = Put(tlb, n, table[satp][n])
  /\ UNCHANGED <<processes, current, satp, flushed, icache>>

fetch(f) ==
  /\ f \notin DOMAIN icache
  /\ icache' = Put(icache, f, code[f])
  /\ UNCHANGED <<processes, current, satp, flushed, tlb>>

In(p, w) == current = p /\ flushed /\ where[p] = w

-------------------------------------------------------------------------------
(* trap.S.                                                                 *)

\* Mutant: no sfence.vma.
sfence_vma_None == tlb

sfence_vma == Empty

\* __alltraps: the registers are saved through TRAP_CONTEXT, then csrw satp.
alltraps ==
  \E p \in Pid :
    /\ In(p, "user")
    /\ satp' = Kernel
    /\ flushed' = FALSE
    /\ where' = [where EXCEPT ![p] = "trap"]
    /\ UNCHANGED <<table, code, proc, current, caches>>

\* sfence.vma after csrw satp, in __alltraps and in __restore.
fence ==
  /\ ~flushed
  /\ flushed' = TRUE
  /\ tlb' = sfence_vma
  /\ UNCHANGED <<processes, current, satp, icache>>

\* Mutant: no fence.i.
fence_i_None == icache

fence_i == Empty

\* current_user_token: the space the process has now.
user_satp(p) == p

\* trap_return with the token of the current space, and the first
\* instruction of __restore.
trap_return ==
  \E p \in Pid :
    /\ current = p /\ flushed /\ where[p] # "user"
    /\ icache' = fence_i
    /\ satp' = user_satp(p)
    /\ flushed' = FALSE
    /\ where' = [where EXCEPT ![p] = "user"]
    /\ UNCHANGED <<table, code, proc, current, tlb>>

-------------------------------------------------------------------------------
(* System calls that change a page table, and the scheduler.               *)

\* exec: a new space with the program in a frame; __restore is to come.
sys_exec ==
  \E p \in Pid, tc, c \in Frame, x \in Program :
    /\ In(p, "trap")
    /\ table' = [table EXCEPT ![p] = UserSpace(tc, c)]
    /\ code' = [code EXCEPT ![c] = x]
    /\ where' = [where EXCEPT ![p] = "leaving"]
    /\ UNCHANGED <<proc, current, satp, flushed, caches>>

\* Mutant: the parent lets the child run first.
after_fork_Yield == "waiting"

\* The parent goes back to user mode before anything is scheduled.
after_fork == "leaving"

\* fork: a copied space, and a kernel stack that KernelStack::new inserts
\* into the active table without a fence.
sys_fork ==
  \E p, q \in Pid, s, tc, c \in Frame :
    /\ In(p, "trap") /\ proc[q] = "none"
    /\ table' = [table EXCEPT ![q] = UserSpace(tc, c), ![Kernel][stack_page(q)] = s]
    /\ code' = [code EXCEPT ![c] = code[table[p][Code]]]
    /\ proc' = [proc EXCEPT ![q] = "live"]
    /\ where' = [where EXCEPT ![p] = after_fork, ![q] = "leaving"]
    /\ UNCHANGED <<current, satp, flushed, caches>>

\* waitpid drops the block of a zombie: KernelStack::drop removes its stack
\* from the active table without a fence, and the page table is freed.
sys_waitpid ==
  \E p, q \in Pid :
    /\ In(p, "trap") /\ proc[q] = "zombie"
    /\ table' = [table EXCEPT ![q] = Unmapped, ![Kernel][stack_page(q)] = NoFrame]
    /\ proc' = [proc EXCEPT ![q] = "none"]
    /\ where' = [where EXCEPT ![p] = "leaving"]
    /\ UNCHANGED <<code, current, satp, flushed, caches>>

\* suspend_current_and_run_next: __switch to the idle control flow.  A call
\* that waits in the kernel is suspended again and again.
suspend ==
  \E p \in Pid :
    /\ current = p /\ flushed /\ where[p] \in {"trap", "waiting"}
    /\ where' = [where EXCEPT ![p] = "waiting"]
    /\ current' = Idle
    /\ UNCHANGED <<table, code, proc, satp, flushed, caches>>

\* exit_current_and_run_next.  The kernel stack stays until the parent has
\* called waitpid.
exit ==
  \E p \in Pid \ {0} :
    /\ In(p, "trap")
    /\ proc' = [proc EXCEPT ![p] = "zombie"]
    /\ current' = Idle
    /\ UNCHANGED <<table, code, where, satp, flushed, caches>>

\* run_tasks: __switch onto the task's kernel stack, in the same space.
run_tasks ==
  \E p \in Pid :
    /\ current = Idle /\ proc[p] = "live"
    /\ current' = p
    /\ UNCHANGED <<processes, satp, flushed, caches>>

kernel ==
  \/ alltraps
  \/ fence
  \/ trap_return
  \/ sys_exec
  \/ sys_fork
  \/ sys_waitpid
  \/ suspend
  \/ exit
  \/ run_tasks

Next ==
  \/ kernel
  \/ \E n \in Page : walk(n)
  \/ \E f \in Frame : fetch(f)

Spec == Init /\ [][Next]_vars

-------------------------------------------------------------------------------
(* Properties.                                                             *)

\* The caches hold frames of the machine, and a process in user mode runs in
\* its own space.
TypeOK ==
  /\ tlb \in UNION {[D -> Frame \cup {NoFrame}] : D \in SUBSET Page}
  /\ icache \in UNION {[D -> Program] : D \in SUBSET Frame}
  /\ proc \in [Pid -> {"none", "live", "zombie"}]
  /\ where \in [Pid -> {"user", "trap", "waiting", "leaving"}]
  /\ satp \in Space
  /\ current # Idle /\ where[current] = "user" => satp = current

\* The pages the hart uses next: the kernel stack of the current process, or
\* in its user space the trap context and its own code.  The trampoline is
\* the same page in every space and the idle stack is never remapped.
Used ==
  IF current = Idle \/ ~flushed THEN {}
  ELSE IF where[current] = "user" THEN {TRAP_CONTEXT, Code}
  ELSE {stack_page(current)}

\* Every translation that is used is that of the table in satp, and of a
\* mapped page, although page tables change without a fence and the spaces
\* share ASID 0 (trap.S 41-42 and 49-50, pid.rs 75 and 107, page_table.rs
\* 186).
UsedTranslationsAreCurrent ==
  /\ TypeOK
  /\ \A n \in Used : Translation(n) # NoFrame /\ Translation(n) = table[satp][n]

\* A process fetches the instructions that are in its code page, although
\* the kernel has just written them as data (trap/mod.rs 113-121).
InstructionsAreCurrent ==
  current # Idle /\ flushed /\ where[current] = "user" =>
    Instructions(Translation(Code)) = code[table[current][Code]]

-------------------------------------------------------------------------------
(* The inductive invariant.                                                *)

\* The page tables and what the frames hold have their types too.
TablesOK ==
  /\ table \in [Space -> [Page -> Frame \cup {NoFrame}]]
  /\ code \in [Frame -> Program]
  /\ current \in Pid \cup {Idle}
  /\ flushed \in BOOLEAN

\* A block that exists has its kernel stack in KERNEL_SPACE and, at the pages
\* the hart will use, a space of its own.
PagesMapped ==
  \A p \in Pid : proc[p] # "none" =>
     /\ table[Kernel][stack_page(p)] # NoFrame
     /\ table[p][TRAP_CONTEXT] # NoFrame
     /\ table[p][Code] # NoFrame

\* Which control flow the hart is in, and in which space.  Only the current
\* process can be in user mode, and the idle control flow writes no satp.
HartWhere ==
  /\ \A p \in Pid : proc[p] = "live" /\ p # current => where[p] \in {"waiting", "leaving"}
  /\ IF current = Idle THEN satp = Kernel /\ flushed
     ELSE /\ proc[current] = "live"
          /\ satp = IF where[current] = "user" THEN current ELSE Kernel
          /\ ~flushed => where[current] \in {"user", "trap"}

\* Behind the fence of __alltraps or __restore every cached translation is
\* that of the active table, until the current process maps or unmaps a
\* kernel stack: it is then leaving for user mode, and only the page of
\* somebody else's stack may be wrong.
CachesClean ==
  /\ flushed =>
       \A n \in DOMAIN tlb :
          tlb[n] = table[satp][n]
          \/ /\ current # Idle /\ where[current] = "leaving"
             /\ n # stack_page(current)
  /\ current # Idle /\ where[current] = "user" =>
       \A f \in DOMAIN icache : icache[f] = code[f]

Inv == TypeOK /\ TablesOK /\ PagesMapped /\ HartWhere /\ CachesClean
===============================================================================
