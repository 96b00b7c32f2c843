------------------------------ MODULE TaskSystem ------------------------------
(***************************************************************************)
(* The process layer of the kernel (os/src/task, os/src/syscall,           *)
(* os/src/trap/mod.rs): task control blocks shared through Arc pointers,   *)
(* the FIFO ready queue, the single processor with its idle control flow,  *)
(* the pid allocator and the kernel stacks it places.                      *)
(*                                                                         *)
(* Kernel code is never interrupted (supervisor interrupts stay masked) and*)
(* there is one hart, so a trap handler runs to its end or to a __switch;  *)
(* each action below is one such stretch.  The user programs are arbitrary:*)
(* in user mode a process may make any system call, fault, or be stopped   *)
(* by the timer.                                                           *)
(*                                                                         *)
(* An Arc is modelled by the strong count of what it points to: `strong'   *)
(* moves exactly where the code clones or drops an Arc, and a block whose  *)
(* last Arc is dropped becomes "Free".                                     *)
(***************************************************************************)
EXTENDS Integers, SequencesExt

CONSTANTS
  Tcb,        \* the memory blocks task control blocks can live in (a bound
              \* on the number of processes, live and zombie, at a time)
  INITPROC,   \* the control block of the initial process
  None,       \* no task
  Path,       \* the names a program may pass to exec
  AppNames,   \* the names of the linked applications (APP_NAMES)
  InitApp,    \* the application "initproc"
  UserSp,     \* the top of the user stack from_elf computes, per application
  UserCode,   \* the exit codes programs pass to exit
  NoRet       \* see ProcessTree

ASSUME TaskAssumption ==
  /\ IsFiniteSet(Tcb) /\ INITPROC \in Tcb
  /\ None \notin Tcb \cup Path
  /\ InitApp \in AppNames
  /\ AppNames \subseteq Path
  /\ UserSp \in [AppNames -> Nat]
  /\ UserCode \subseteq Int

VARIABLES
  status,        \* task_status, "Free" for a block that holds no task
  strong,        \* Arc strong count of the block
  pid,           \* the PidHandle
  parent,        \* the Weak pointer to the parent
  children,      \* the Vec of Arcs to the children
  exit_code,
  image,         \* the application in memory_set; None once its areas are gone
  base_size,
  resume,        \* where the saved TaskContext continues; "user" in user mode
  ready_queue,   \* TASK_MANAGER.ready_queue
  current,       \* PROCESSOR.current
  pid_current, pid_recycled,   \* PID_ALLOCATOR
  kstacks,       \* the pids whose kernel stack is an area of KERNEL_SPACE
  ret,           \* the last answer of fork or waitpid to the current program
  panic          \* why the kernel panicked and shut down, or "none"

tcbVars   == <<status, strong, pid, parent, children, exit_code, image,
               base_size, resume>>
schedVars == <<ready_queue, current>>
pidVars   == <<pid_current, pid_recycled, kstacks>>
vars      == <<tcbVars, schedVars, pidVars, ret, panic>>

NoPid == -1
Live     == {t \in Tcb : status[t] # "Free"}
Runnable == {t \in Tcb : status[t] \in {"Ready", "Running"}}

\* Task c is executing its user program.
InUser(c) == current = c /\ resume[c] = "user"

\* A panic prints a message and shuts the machine down (lang_items.rs); what
\* the handler had changed until then is not seen any more and is left out.
Panic(why) ==
  /\ panic' = why
  /\ UNCHANGED <<tcbVars, schedVars, pidVars, ret>>

-------------------------------------------------------------------------------
(* UPSafeCell: exclusive_access panics while another RefMut of the cell is *)
(* alive.  For each stretch of kernel code, the calls of exclusive_access  *)
(* it makes, each with the cells whose RefMut is alive at that point.      *)
(* __switch leaves the stretch with all its locals, and any cell may be    *)
(* borrowed on the other side.                                             *)

PROCESSOR       == <<"PROCESSOR", None>>
TASK_MANAGER    == <<"TASK_MANAGER", None>>
PID_ALLOCATOR   == <<"PID_ALLOCATOR", None>>
KERNEL_SPACE    == <<"KERNEL_SPACE", None>>
FRAME_ALLOCATOR == <<"FRAME_ALLOCATOR", None>>
Inner(t)        == <<"inner", t>>
AnyCell         == <<"any cell", None>>

exclusive_access(cells, alive) == {[cell |-> x, alive |-> alive] : x \in cells}

switch_away(alive) == exclusive_access({AnyCell}, alive)

AlreadyBorrowed(b) == IF b.cell = AnyCell THEN b.alive # {} ELSE b.cell \in b.alive

schedule_borrows == exclusive_access({PROCESSOR}, {}) \cup switch_away({})

run_tasks_borrows(next) ==
  exclusive_access({PROCESSOR}, {})
  \cup exclusive_access({TASK_MANAGER, Inner(next)}, {PROCESSOR})
  \cup switch_away({})

\* Mutant: drop(task_inner) is forgotten.
suspend_borrows_Kept(c) ==
  exclusive_access({PROCESSOR, Inner(c)}, {})
  \cup exclusive_access({TASK_MANAGER, PROCESSOR}, {Inner(c)})
  \cup switch_away({Inner(c)})

suspend_borrows(c) ==
  exclusive_access({PROCESSOR, Inner(c), TASK_MANAGER}, {}) \cup schedule_borrows

\* current_trap_cx and current_user_token.
current_task_borrows(c) == exclusive_access({PROCESSOR, Inner(c)}, {})

\* KernelStack::new and its Drop: KERNEL_SPACE maps or unmaps the frames.
kernel_stack_borrows(alive) ==
  exclusive_access({KERNEL_SPACE}, alive)
  \cup exclusive_access({FRAME_ALLOCATOR}, alive \cup {KERNEL_SPACE})

\* TaskControlBlock::fork holds parent_inner to its end.
fork_borrows(c, n) ==
  exclusive_access({PROCESSOR, Inner(c), Inner(n), TASK_MANAGER}, {})
  \cup exclusive_access({FRAME_ALLOCATOR, PID_ALLOCATOR, Inner(n)}, {Inner(c)})
  \cup kernel_stack_borrows({Inner(c)})

\* The new space is built before inner is borrowed, the old one is dropped
\* while it is.
exec_borrows(c) ==
  exclusive_access({PROCESSOR, Inner(c), FRAME_ALLOCATOR}, {})
  \cup exclusive_access({FRAME_ALLOCATOR, KERNEL_SPACE}, {Inner(c)})

exit_borrows(c) ==
  exclusive_access({PROCESSOR, Inner(c)}, {})
  \cup exclusive_access({Inner(INITPROC), FRAME_ALLOCATOR}, {Inner(c)})
  \cup exclusive_access({Inner(t) : t \in Range(children[c])}, {Inner(c), Inner(INITPROC)})
  \cup schedule_borrows

\* The children are asked, and the block of the collected one is dropped
\* (PidHandle, KernelStack, MemorySet), while inner is alive.
waitpid_borrows(c) ==
  exclusive_access({PROCESSOR, Inner(c)}, {})
  \cup exclusive_access({Inner(t) : t \in Range(children[c])}, {Inner(c)})
  \cup exclusive_access({PID_ALLOCATOR, FRAME_ALLOCATOR}, {Inner(c)})
  \cup kernel_stack_borrows({Inner(c)})

-------------------------------------------------------------------------------
(* Boot: rust_main creates INITPROC with TaskControlBlock::new and queues  *)
(* it.  Two Arcs point to it: the static INITPROC and the queue entry.     *)

Init ==
  /\ status = [t \in Tcb |-> IF t = INITPROC THEN "Ready" ELSE "Free"]
  /\ strong = [t \in Tcb |-> IF t = INITPROC THEN 2 ELSE 0]
  /\ pid = [t \in Tcb |-> IF t = INITPROC THEN 0 ELSE NoPid]
  /\ parent = [t \in Tcb |-> None]
  /\ children = [t \in Tcb |-> <<>>]
  /\ exit_code = [t \in Tcb |-> 0]
  /\ image = [t \in Tcb |-> IF t = INITPROC THEN InitApp ELSE None]
  /\ base_size = [t \in Tcb |-> IF t = INITPROC THEN UserSp[InitApp] ELSE 0]
  /\ resume = [t \in Tcb |-> IF t = INITPROC THEN "trap_return" ELSE "none"]
  /\ ready_queue = <<INITPROC>>
  /\ current = None
  /\ pid_current = 1
  /\ pid_recycled = <<>>
  /\ kstacks = {0}
  /\ ret = NoRet
  /\ panic = "none"

-------------------------------------------------------------------------------
(* Scheduling.                                                             *)

\* Mutant: the fetched task is not removed from the queue.
run_tasks_NoPop ==
  /\ current = None
  /\ ready_queue # <<>>
  /\ current' = Head(ready_queue)
  /\ status' = [status EXCEPT ![Head(ready_queue)] = "Running"]
  /\ UNCHANGED <<strong, pid, parent, children, exit_code, image, base_size,
                 resume, ready_queue, pidVars, ret, panic>>

\* The idle control flow fetches the head of the queue and switches to it.
run_tasks ==
  /\ current = None
  /\ ready_queue # <<>>
  /\ ready_queue' = Tail(ready_queue)
  /\ current' = Head(ready_queue)
  /\ status' = [status EXCEPT ![Head(ready_queue)] = "Running"]
  /\ UNCHANGED <<strong, pid, parent, children, exit_code, image, base_size,
                 resume, pidVars, ret, panic>>

\* Mutants: the task is queued at the wrong end; it is not queued.
add_task_Front(t) == ready_queue' = <<t>> \o ready_queue
add_task_Lost(t) == t \in Tcb /\ UNCHANGED ready_queue

\* TaskManager::add.
add_task(t) == ready_queue' = Append(ready_queue, t)

\* The task c gives up the processor and will continue at `where'.
suspend_current_and_run_next(c, where) ==
  /\ current' = None
  /\ status' = [status EXCEPT ![c] = "Ready"]
  /\ add_task(c)
  /\ resume' = [resume EXCEPT ![c] = where]
  /\ ret' = NoRet
  /\ UNCHANGED <<strong, pid, parent, children, exit_code, image, base_size,
                 pidVars, panic>>

\* A task that was switched to finishes its trap handler (a new task has
\* none) and goes to user mode.
trap_return(c) ==
  /\ current = c
  /\ resume[c] \in {"trap_return", "timer", "sys_yield"}
  /\ resume' = [resume EXCEPT ![c] = "user"]
  /\ UNCHANGED <<status, strong, pid, parent, children, exit_code, image,
                 base_size, schedVars, pidVars, ret, panic>>

\* Interrupt::SupervisorTimer, taken only in user mode.
timer_interrupt(c) ==
  /\ InUser(c)
  /\ suspend_current_and_run_next(c, "timer")

sys_yield(c) ==
  /\ InUser(c)
  /\ suspend_current_and_run_next(c, "sys_yield")

\* sys_read polls the console and yields inside the kernel until a character
\* arrives, on its first turn and on every later one.
sys_read_wait(c) ==
  /\ current = c
  /\ resume[c] \in {"user", "sys_read"}
  /\ suspend_current_and_run_next(c, "sys_read")

sys_read_done(c) ==
  /\ current = c
  /\ resume[c] \in {"user", "sys_read"}
  /\ resume' = [resume EXCEPT ![c] = "user"]
  /\ ret' = NoRet
  /\ UNCHANGED <<status, strong, pid, parent, children, exit_code, image,
                 base_size, schedVars, pidVars, panic>>

sys_read(c) == sys_read_wait(c) \/ sys_read_done(c)

-------------------------------------------------------------------------------
(* fork.                                                                   *)

\* PidAllocator::alloc: the last pid given back, else a new one.
NextPid == IF pid_recycled # <<>> THEN Last(pid_recycled) ELSE pid_current

\* Mutant: the recycled pid is read and not popped.
pid_alloc_NoPop ==
  /\ pid_current' = IF pid_recycled # <<>> THEN pid_current
                                           ELSE pid_current + 1
  /\ UNCHANGED pid_recycled

pid_alloc ==
  /\ pid_recycled' = IF pid_recycled # <<>> THEN Front(pid_recycled)
                                            ELSE pid_recycled
  /\ pid_current' = IF pid_recycled # <<>> THEN pid_current
                                           ELSE pid_current + 1

\* sys_fork with TaskControlBlock::fork: the new block n copies the address
\* space of c, gets a pid and the kernel stack that belongs to the pid, and
\* is reachable from the children of c and from the ready queue.  Mapping a
\* kernel stack over one that still exists panics in PageTable::map.
sys_fork(c, n) ==
  /\ InUser(c)
  /\ n \notin Live
  /\ pid_alloc
  /\ kstacks' = kstacks \cup {NextPid}
  /\ panic' = IF NextPid \in kstacks THEN "vpn is mapped before mapping"
                                     ELSE panic
  /\ status' = [status EXCEPT ![n] = "Ready"]
  /\ strong' = [strong EXCEPT ![n] = 2]
  /\ pid' = [pid EXCEPT ![n] = NextPid]
  /\ parent' = [parent EXCEPT ![n] = c]
  /\ children' = [children EXCEPT ![c] = Append(@, n), ![n] = <<>>]
  /\ exit_code' = [exit_code EXCEPT ![n] = 0]
  /\ image' = [image EXCEPT ![n] = image[c]]
  /\ base_size' = [base_size EXCEPT ![n] = base_size[c]]
  /\ resume' = [resume EXCEPT ![n] = "trap_return"]
  /\ add_task(n)
  /\ ret' = [by |-> pid[c], call |-> "fork", arg |-> 0,
             val |-> NextPid, code |-> 0]
  /\ UNCHANGED current

-------------------------------------------------------------------------------
(* exec.                                                                   *)

\* TaskControlBlock::exec replaces the address space (and with it the trap
\* context); pid, kernel stack, children and base_size stay.  A name that is
\* not linked makes the call answer -1 and changes nothing.
sys_exec(c, path) ==
  /\ InUser(c)
  /\ image' = IF path \in AppNames THEN [image EXCEPT ![c] = path] ELSE image
  /\ ret' = NoRet
  /\ UNCHANGED <<status, strong, pid, parent, children, exit_code, base_size,
                 resume, schedVars, pidVars, panic>>

-------------------------------------------------------------------------------
(* exit.                                                                   *)

\* Mutant: INITPROC gets the children, they keep their old parent pointer.
initproc_adopts_StaleParent(c) ==
  /\ children' = [children EXCEPT ![INITPROC] = @ \o children[c],
                                  ![c] = <<>>]
  /\ UNCHANGED parent

\* INITPROC becomes the parent of c's children: each of their Arcs is cloned
\* into its vector and the vector of c is cleared, so that their strong
\* counts end where they were.
initproc_adopts(c) ==
  /\ parent' = [t \in Tcb |-> IF t \in Range(children[c]) THEN INITPROC
                                                          ELSE parent[t]]
  /\ children' = [children EXCEPT ![INITPROC] = @ \o children[c],
                                  ![c] = <<>>]

\* Mutant: the Arc stays on the kernel stack that is never returned to.
drop_task_Forgotten(c) == c \in Tcb /\ UNCHANGED <<strong, panic>>

\* The Arc taken from PROCESSOR is dropped before the final switch.  If it
\* were the last one, the kernel stack the code runs on would be unmapped.
drop_task(c) ==
  /\ strong' = [strong EXCEPT ![c] = @ - 1]
  /\ panic' = IF strong[c] = 1 THEN "kernel stack freed in use" ELSE panic

\* c becomes a zombie, its children are adopted and its data pages freed,
\* unless INITPROC's inner or that of a child is borrowed already.
exit_current_and_run_next(c, code) ==
  \/ (\E b \in exit_borrows(c) : AlreadyBorrowed(b)) /\ Panic("already borrowed")
  \/ /\ \A b \in exit_borrows(c) : ~AlreadyBorrowed(b)
     /\ current' = None
     /\ status' = [status EXCEPT ![c] = "Zombie"]
     /\ exit_code' = [exit_code EXCEPT ![c] = code]
     /\ initproc_adopts(c)
     /\ image' = [image EXCEPT ![c] = None]
     /\ drop_task(c)
     /\ resume' = [resume EXCEPT ![c] = "none"]
     /\ ret' = NoRet
     /\ UNCHANGED <<pid, base_size, ready_queue, pidVars>>

sys_exit(c, code) == InUser(c) /\ exit_current_and_run_next(c, code)

\* The exceptions trap_handler kills the application for.
PageFault == -2
IllegalInstruction == -3

fault(c) ==
  /\ InUser(c)
  /\ \E code \in {PageFault, IllegalInstruction} :
        exit_current_and_run_next(c, code)

-------------------------------------------------------------------------------
(* waitpid.                                                                *)

\* The children vector positions that waitpid(arg) is about, and those of
\* them that hold a zombie.
Matching(c, arg) ==
  {i \in DOMAIN children[c] : arg = -1 \/ arg = pid[children[c][i]]}

\* Mutant: a child is collected whether it has exited or not.
Reapable_AnyState(c, arg) == Matching(c, arg)

Reapable(c, arg) ==
  {i \in Matching(c, arg) : status[children[c][i]] = "Zombie"}

WaitAnswer(c, arg, val, code) ==
  [by |-> pid[c], call |-> "waitpid", arg |-> arg, val |-> val, code |-> code]

waitpid_none(c, arg) ==
  /\ \/ Matching(c, arg) = {} /\ ret' = WaitAnswer(c, arg, -1, 0)
     \/ /\ Matching(c, arg) # {}
        /\ Reapable(c, arg) = {}
        /\ ret' = WaitAnswer(c, arg, -2, 0)
  /\ UNCHANGED <<tcbVars, schedVars, pidVars, panic>>

\* PidAllocator::dealloc's assertions.
PidNotAllocated(p) == p >= pid_current \/ p \in Range(pid_recycled)

\* The first zombie that matches leaves the vector; the local Arc must be the
\* only one.  It is dropped at the end of the block, and with it the
\* PidHandle, the kernel stack and the rest of the address space.
waitpid_reap(c, arg, i) ==
  LET z == children[c][i] IN
  /\ \A j \in Reapable(c, arg) : i =< j
  /\ panic' = IF strong[z] # 1 THEN "strong count is not 1"
              ELSE IF PidNotAllocated(pid[z]) THEN "pid has been deallocated"
              ELSE panic
  /\ ret' = WaitAnswer(c, arg, pid[z], exit_code[z])
  /\ pid_recycled' = Append(pid_recycled, pid[z])
  /\ kstacks' = kstacks \ {pid[z]}
  /\ children' = [children EXCEPT ![c] = RemoveAt(@, i)]
  /\ status' = [status EXCEPT ![z] = "Free"]
  /\ strong' = [strong EXCEPT ![z] = 0]
  /\ pid' = [pid EXCEPT ![z] = NoPid]
  /\ parent' = [parent EXCEPT ![z] = None]
  /\ exit_code' = [exit_code EXCEPT ![z] = 0]
  /\ base_size' = [base_size EXCEPT ![z] = 0]
  /\ UNCHANGED <<image, resume, schedVars, pid_current>>

sys_waitpid(c, arg) ==
  /\ InUser(c)
  /\ \/ waitpid_none(c, arg)
     \/ \E i \in Reapable(c, arg) : waitpid_reap(c, arg, i)

-------------------------------------------------------------------------------

\* A trap cause, system call, descriptor, length or user pointer the kernel
\* does not accept, or fork or exec finding no free frame.  The pointer of
\* sys_read is looked at when the character is there.
unsupported(c) ==
  /\ current = c
  /\ resume[c] \in {"user", "sys_read"}
  /\ Panic("unsupported")

\* After a panic the machine is off.
shutdown == panic # "none" /\ UNCHANGED vars

trap_handler(c) ==
  \/ timer_interrupt(c)
  \/ sys_yield(c)
  \/ sys_read(c)
  \/ \E n \in Tcb : sys_fork(c, n)
  \/ \E path \in Path : sys_exec(c, path)
  \/ \E code \in UserCode : sys_exit(c, code)
  \/ \E arg \in {-1} \cup (0 .. pid_current) : sys_waitpid(c, arg)
  \/ fault(c)
  \/ unsupported(c)

Next ==
  \/ /\ panic = "none"
     /\ \/ run_tasks
        \/ \E c \in Tcb : trap_return(c) \/ trap_handler(c)
  \/ shutdown

Spec == Init /\ [][Next]_vars

-------------------------------------------------------------------------------
(* Properties.                                                             *)

Resumes == {"none", "user", "trap_return", "timer", "sys_yield", "sys_read"}
UserPanics == {"unsupported", "already borrowed"}
Panics == UserPanics \cup
          {"none", "vpn is mapped before mapping", "kernel stack freed in use",
           "strong count is not 1", "pid has been deallocated"}

TypeOK ==
  /\ status \in [Tcb -> {"Free", "Ready", "Running", "Zombie"}]
  /\ strong \in [Tcb -> Nat]
  /\ pid \in [Tcb -> Nat \cup {NoPid}]
  /\ parent \in [Tcb -> Tcb \cup {None}]
  /\ children \in [Tcb -> Seq(Tcb)]
  /\ exit_code \in [Tcb -> Int]
  /\ image \in [Tcb -> AppNames \cup {None}]
  /\ base_size \in [Tcb -> Nat]
  /\ resume \in [Tcb -> Resumes]
  /\ ready_queue \in Seq(Tcb)
  /\ current \in Tcb \cup {None}
  /\ pid_current \in Nat
  /\ pid_recycled \in Seq(Nat)
  /\ kstacks \subseteq Nat
  /\ ret \in [by : Nat, call : {"fork", "waitpid"}, arg : Int, val : Int,
              code : Int] \cup {NoRet}
  /\ panic \in Panics

(* Every task that can run is in exactly one place the scheduler looks at: *)
(* a Ready task stands once in the ready queue, the Running task is        *)
(* PROCESSOR.current, a zombie or a dropped block is in neither.           *)
ScheduledExactlyOnce ==
  /\ IsInjective(ready_queue)
  /\ \A t \in Tcb : status[t] = "Ready" <=> t \in Range(ready_queue)
  /\ \A t \in Tcb : status[t] = "Running" <=> current = t

(* The children vectors and the parent pointers describe one tree: a live  *)
(* task other than INITPROC stands exactly once in exactly one children    *)
(* vector, that of the task its parent pointer names, and that task has    *)
(* not exited.  So every zombie has somebody who can still collect it.     *)
OwnedOnce == \A p \in Tcb : IsInjective(children[p])

OwnerIsParent ==
  /\ \A t \in Live \ {INITPROC} : parent[t] \in Runnable
  /\ \A p, t \in Tcb : t \in Range(children[p]) <=>
                         t \in Live \ {INITPROC} /\ parent[t] = p

ParentsMatchChildren == OwnedOnce /\ OwnerIsParent

(* No set of processes is cut off from INITPROC: every set of live tasks   *)
(* without INITPROC has a member whose parent is outside the set, so the   *)
(* parent pointers of a process lead to INITPROC and never round a cycle   *)
(* of Arcs that would keep itself alive.                                   *)
TreeIsRooted ==
  \A S \in SUBSET (Live \ {INITPROC}) :
     S # {} => \E t \in S : parent[t] \notin S

(* The Arcs of a task: its owner (a children vector, or the static for     *)
(* INITPROC) holds one for as long as the block lives, the scheduler holds *)
(* a second one exactly while the task can run.                            *)
StrongCountExact ==
  \A t \in Tcb :
     strong[t] = IF t \in Runnable THEN 2 ELSE IF t \in Live THEN 1 ELSE 0

(* Every pid ever handed out belongs to one live block or is recycled,     *)
(* never both and never twice, and exactly the live blocks have a kernel   *)
(* stack in KERNEL_SPACE.                                                  *)
PidsExact ==
  /\ \A t, u \in Live : pid[t] = pid[u] => t = u
  /\ {pid[t] : t \in Live} \cap Range(pid_recycled) = {}
  /\ {pid[t] : t \in Live} \cup Range(pid_recycled) = 0 .. pid_current - 1
  /\ IsInjective(pid_recycled)
  /\ kstacks = {pid[t] : t \in Live}

(* No assertion or unwrap of the process layer fails: the kernel panics    *)
(* only when a program asks for something unsupported, memory is exhausted *)
(* or INITPROC exits.                                                      *)
NoInternalPanic == panic \in UserPanics \cup {"none"}

(* The idle loop always finds a task: the machine never spins with an      *)
(* empty ready queue.                                                      *)
IdleFindsATask == panic = "none" /\ current = None => ready_queue # <<>>

(* No RefCell is borrowed while a RefMut of it is alive, and none is alive *)
(* at a __switch: whatever the tree looks like, the task a stretch works   *)
(* on, its children, the next task, the new block and INITPROC are         *)
(* different blocks where their inners are borrowed together.  The one     *)
(* exception is the exit of INITPROC, which borrows its inner twice.       *)
StretchBorrows ==
  IF current = None
  THEN UNION {run_tasks_borrows(t) : t \in Range(ready_queue)}
  ELSE current_task_borrows(current) \cup suspend_borrows(current)
       \cup exec_borrows(current) \cup waitpid_borrows(current)
       \cup (UNION {fork_borrows(current, n) : n \in Tcb \ Live})
       \cup (IF current = INITPROC THEN {} ELSE exit_borrows(current))

NeverBorrowedTwice ==
  /\ panic = "already borrowed" => current = INITPROC
  /\ \A b \in StretchBorrows : ~AlreadyBorrowed(b)

(* INITPROC is there from boot to the panic that ends everything.          *)
InitProcRunnable == INITPROC \in Runnable

(* The inductive invariant of the process layer.                           *)
Inv ==
  /\ TypeOK
  /\ ScheduledExactlyOnce
  /\ ParentsMatchChildren
  /\ TreeIsRooted
  /\ StrongCountExact
  /\ PidsExact
  /\ NoInternalPanic
  /\ InitProcRunnable

(* The doc comment of base_size: it is the highest address of the          *)
(* application's address space.                                            *)
BaseSizeIsTopOfImage ==
  \A t \in Runnable : base_size[t] = UserSp[image[t]]

(* The process layer implements the abstract process tree: fork, exit and  *)
(* waitpid do what they promise, whatever the scheduler does.              *)
HasTask(p) == \E t \in Tcb : pid[t] = p
TaskOf(p) == CHOOSE t \in Tcb : pid[t] = p

AbstractState(p) ==
  IF ~HasTask(p) THEN "absent"
  ELSE IF status[TaskOf(p)] = "Zombie" THEN "dead" ELSE "live"

AbstractParent(p) ==
  IF ~HasTask(p) \/ p = 0 THEN -1 ELSE pid[parent[TaskOf(p)]]

AbstractCode(p) == IF HasTask(p) THEN exit_code[TaskOf(p)] ELSE 0

\* A pid is used again before a new one is made, so there are never more
\* pids than blocks; the last member stands for the pids of nobody.
Pid == 0 .. Cardinality(Tcb)

Tree == INSTANCE ProcessTree WITH
  ExitCode <- UserCode \cup {PageFault, IllegalInstruction},
  state    <- [p \in Pid |-> AbstractState(p)],
  parent   <- [p \in Pid |-> AbstractParent(p)],
  code     <- [p \in Pid |-> AbstractCode(p)]

TreeSpec == Tree!Spec

\* What the mapping rests on besides Inv: INITPROC has pid 0, a block without
\* a task has no pid, and there are never more pids than blocks.
PidsOfBlocks ==
  /\ pid[INITPROC] = 0
  /\ \A t \in Tcb \ Live : pid[t] = NoPid
  /\ pid_current =< Cardinality(Tcb)
===============================================================================
