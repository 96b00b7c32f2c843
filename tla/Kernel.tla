-------------------------------- MODULE Kernel --------------------------------
(***************************************************************************)
(* The process layer and the address spaces together.  A task control      *)
(* block owns a MemorySet, a PidHandle and a KernelStack, so each system   *)
(* call that TaskSystem and MemorySet model on their own is one step of    *)
(* both: fork (task.rs 138-177), exec (112-136), exit (task/mod.rs 41-73)  *)
(* and the drop of a reaped block (process.rs 70-84).                      *)
(*                                                                         *)
(* MemorySet lets any process call anything and any unused pid be the next *)
(* one; here pids come from PID_ALLOCATOR, frames run out in the middle of *)
(* a call, and a block is dropped when its last Arc is.  sys_read and      *)
(* waitpid store through pointers that programs give them.                 *)
(***************************************************************************)
EXTENDS TaskSystem, FiniteSets

CONSTANTS
  Frame, MaxPid, Segments, Data, PAGE_SIZE, USER_STACK_SIZE, KERNEL_STACK_SIZE,
  TRAMPOLINE, NoFrame, TrampolineFrame, frames_for(_, _)

VARIABLES mem, free, areas, data_frames, table, trap_cx_ppn, proc, mm_panic

memoryVars == <<mem, free, areas, data_frames, table, trap_cx_ppn, proc, mm_panic>>

M == INSTANCE MemorySet WITH App <- AppNames, panic <- mm_panic

ASSUME MemoryAssumption ==
  M!LayoutAssumption /\ M!FrameAssumption /\ M!FramesForAssumption

\* MemorySet's part of a call, where it succeeds and where it panics.
Succeeds == mm_panic' = "none"
Fails    == mm_panic' # "none"

-------------------------------------------------------------------------------

\* add_initproc: TaskControlBlock::new.
add_initproc ==
  /\ proc[0] = "none" /\ mm_panic = "none"
  /\ M!new(InitApp)
  /\ UNCHANGED vars

\* The calls that have no part in memory.
schedule ==
  /\ \/ run_tasks
     \/ \E c \in Tcb :
          \/ trap_return(c)
          \/ timer_interrupt(c)
          \/ sys_yield(c)
          \/ sys_read_wait(c)
          \/ \E arg \in {-1} \cup (0 .. pid_current) : InUser(c) /\ waitpid_none(c, arg)
          \/ \E path \in Path \ AppNames : sys_exec(c, path)
  /\ UNCHANGED memoryVars

fork(c, n) ==
  /\ NextPid \in M!Pid       \* bound: the pids there is room for
  /\ \/ sys_fork(c, n) /\ M!fork(pid[c], NextPid) /\ Succeeds
     \/ InUser(c) /\ unsupported(c) /\ M!fork(pid[c], NextPid) /\ Fails

exec(c, path) ==
  \/ sys_exec(c, path) /\ M!exec(pid[c], path) /\ Succeeds
  \/ InUser(c) /\ unsupported(c) /\ M!exec(pid[c], path) /\ Fails

\* The program runs and stores.
store(c) ==
  /\ InUser(c)
  /\ \E v \in M!Page, x \in Data : M!user_write(pid[c], v, x)
  /\ UNCHANGED vars

\* A call that stores at an address of the program panics if nothing is mapped
\* there; else it ends as it should, even if the store spoilt a trap context.
StoreFails == mm_panic' = "bad_pointer"

\* sys_read has the character.
read(c) ==
  /\ current = c /\ resume[c] \in {"user", "sys_read"}
  /\ \E v \in M!Page, x \in Data : M!sys_read(pid[c], v, x)
  /\ \/ StoreFails /\ unsupported(c)
     \/ ~StoreFails /\ sys_read_done(c)

\* Mutant: the data pages stay until the block is dropped.
release_on_exit_Late(p) ==
  /\ proc' = [proc EXCEPT ![p] = "zombie"]
  /\ UNCHANGED <<mem, free, areas, data_frames, table, trap_cx_ppn, mm_panic>>

\* exit_current_and_run_next frees the data pages of the zombie.
release_on_exit(p) == M!recycle_data_pages(p)

exit(c) ==
  /\ c # INITPROC
  /\ fault(c) \/ \E code \in UserCode : sys_exit(c, code)
  /\ release_on_exit(pid[c])

\* INITPROC's exit panics before anything is freed.
exit_initproc ==
  /\ fault(INITPROC) \/ \E code \in UserCode : sys_exit(INITPROC, code)
  /\ UNCHANGED memoryVars

\* Mutant: the block goes and its kernel stack stays mapped.
release_on_drop_StackKept(p, z, v, x) ==
  /\ proc' = [proc EXCEPT ![z] = "none"]
  /\ UNCHANGED <<mem, free, areas, data_frames, table, trap_cx_ppn, mm_panic>>

\* The exit code is stored for the caller, then the last Arc goes, and with it
\* kernel stack and page table.
release_on_drop(p, z, v, x) == M!waitpid(p, z, v, x)

reap(c, arg) ==
  /\ InUser(c)
  /\ \E i \in Reapable(c, arg), v \in M!Page, x \in Data :
        /\ release_on_drop(pid[c], pid[children[c][i]], v, x)
        /\ \/ StoreFails /\ unsupported(c)
           \/ ~StoreFails /\ waitpid_reap(c, arg, i)

booted == proc[0] # "none"

\* After a panic of either layer the machine is off; after a store into a trap
\* context it does what no code says.
off == panic # "none" \/ mm_panic # "none"

KNext ==
  \/ add_initproc
  \/ /\ booted /\ ~off
     /\ \/ schedule
        \/ \E c \in Tcb : store(c) \/ read(c)
        \/ \E c, n \in Tcb : fork(c, n)
        \/ \E c \in Tcb, path \in AppNames : exec(c, path)
        \/ \E c \in Tcb : exit(c)
        \/ exit_initproc
        \/ \E c \in Tcb, arg \in {-1} \cup (0 .. pid_current) : reap(c, arg)
  \/ off /\ UNCHANGED <<vars, memoryVars>>

KInit == Init /\ M!Init

KSpec == KInit /\ [][KNext]_<<vars, memoryVars>>

-------------------------------------------------------------------------------
(* Properties.                                                             *)

\* A block and its memory are in the same state of life, the stacks the pid
\* allocator counts are the ones mapped in KERNEL_SPACE, and the next pid
\* has no memory yet: no call finds MemorySet unwilling, and no page is ever
\* mapped twice.
MemoryFollowsTasks ==
  /\ mm_panic # "vpn is mapped before mapping"
  /\ booted /\ panic = "none" =>
    /\ {p \in M!Pid : proc[p] = "live"} = {pid[t] : t \in Runnable}
    /\ {p \in M!Pid : proc[p] = "zombie"} = {pid[t] : t \in Live \ Runnable}
    /\ areas[M!Kernel] = {M!KernelStack(p) : p \in kstacks}
    /\ NextPid \in M!Pid => proc[NextPid] = "none"

\* The pages that need a frame: those of every image that runs, and those of
\* the kernel stack of every block, a zombie's too.
StackPages == KERNEL_STACK_SIZE \div PAGE_SIZE

PagesInUse ==
  (UNION {{<<"image", t>>} \X M!PagesOf(M!from_elf(image[t])) : t \in Runnable})
  \cup ({<<"stack", t>> : t \in Live} \X (1 .. StackPages))

\* As many frames are in use as these pages need: exit gives the image back
\* at once, waitpid the stack, and no sequence of calls leaks a frame.
NoFrameLeaks ==
  booted /\ panic = "none" => Cardinality(Frame \ free) = Cardinality(PagesInUse)

\* A process is restored from the context of the program it last executed
\* and traps onto its own stack, whoever had its pid before; a call that has
\* the kernel store into a trap context spoils the caller's and no other.
ContextIsOfTheProgram ==
  booted /\ panic = "none" =>
    \A t \in Runnable :
       \/ mem[table[pid[t]][M!TRAP_CONTEXT]] = M!TrapContext(image[t], M!get_top(pid[t]))
       \/ t = current /\ mm_panic = "overwritten"
===============================================================================
