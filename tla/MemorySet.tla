------------------------------ MODULE MemorySet -------------------------------
(***************************************************************************)
(* Address spaces (os/src/mm/memory_set.rs) and what the process layer does*)
(* with them (task.rs new/exec/fork, pid.rs KernelStack, exit and reaping):*)
(* logical segments own frames of the one pool, the page table of a space  *)
(* says where its pages are, the trap context of a process is reached both *)
(* through its page table (trap.S) and through the cached trap_cx_ppn.     *)
(*                                                                         *)
(* The page table is the partial map that PageTable is shown to be, and the*)
(* frames of its nodes are left out.  The content of a page is a tuple that*)
(* begins with its kind.  The identity-mapped sections of KERNEL_SPACE own *)
(* no frame and are left out; its kernel stacks are here.                  *)
(***************************************************************************)
EXTENDS Naturals, Sequences, Functions, FiniteSets

CONSTANTS
  Frame,          \* the physical frames of the pool
  MaxPid,         \* pids are 0 .. MaxPid (a bound on the processes at a time)
  App,            \* the linked applications
  Segments,       \* App -> the LOAD segments, in the order of the headers
  Data,           \* what programs write into their pages
  PAGE_SIZE,
  USER_STACK_SIZE, KERNEL_STACK_SIZE,    \* in bytes
  TRAMPOLINE,     \* the number of the highest page
  NoFrame,        \* an entry that is not valid
  TrampolineFrame,  \* the frame of the trampoline code, not in the pool
  frames_for(_, _)  \* frames_for(V, S): the ways frame_alloc can serve the
                    \* pages V, one by one, when the frames S are free

VARIABLES
  mem,            \* the content of each frame
  free,           \* the frames FRAME_ALLOCATOR has
  areas,          \* per space, the page ranges of its MapAreas
  data_frames,    \* per space, the frame an area owns for a page
  table,          \* per space, the page table
  trap_cx_ppn,    \* per process, the cached frame of the trap context
  proc,           \* per process, "none", "live" or "zombie"
  panic

spaceVars == <<areas, data_frames, table>>
vars == <<mem, free, spaceVars, trap_cx_ppn, proc, panic>>

Pid == 0 .. MaxPid
Page == 0 .. TRAMPOLINE
TRAP_CONTEXT == TRAMPOLINE - 1

\* The user spaces have the numbers of their processes, KERNEL_SPACE the next.
Kernel == MaxPid + 1
Space == Pid \cup {Kernel}

-------------------------------------------------------------------------------
(* Layout.                                                                 *)

floor(va) == va \div PAGE_SIZE
ceil(va) == (va + PAGE_SIZE - 1) \div PAGE_SIZE

\* MapArea::new: the pages that the bytes from start to end touch.
MapArea(start, end, writable) ==
  [l |-> floor(start), r |-> ceil(end), w |-> writable]

Pages(a) == a.l .. a.r - 1
PagesOf(A) == UNION {Pages(a) : a \in A}

Segment(s) == MapArea(s.va, s.va + s.mem_size, s.writable)

\* The user stack stands one guard page above the last segment.
user_stack(app) ==
  LET max_end_vpn == Segment(Segments[app][Len(Segments[app])]).r
      bottom == max_end_vpn * PAGE_SIZE + PAGE_SIZE
  IN MapArea(bottom, bottom + USER_STACK_SIZE, TRUE)

\* The areas of a fresh user space.  The trap context is written by the
\* kernel only.
from_elf(app) ==
  {Segment(Segments[app][i]) : i \in DOMAIN Segments[app]}
  \cup {user_stack(app),
        MapArea(TRAP_CONTEXT * PAGE_SIZE, TRAMPOLINE * PAGE_SIZE, FALSE)}

\* Mutant: no guard page between two kernel stacks.
kernel_stack_position_NoGuard(p) ==
  LET top == TRAMPOLINE * PAGE_SIZE - p * KERNEL_STACK_SIZE
  IN <<top - KERNEL_STACK_SIZE, top>>

kernel_stack_position(p) ==
  LET top == TRAMPOLINE * PAGE_SIZE - p * (KERNEL_STACK_SIZE + PAGE_SIZE)
  IN <<top - KERNEL_STACK_SIZE, top>>

KernelStack(p) ==
  MapArea(kernel_stack_position(p)[1], kernel_stack_position(p)[2], TRUE)

\* push maps area after area; a page of two areas makes PageTable::map panic.
Overlaps(A) ==
  \/ TRAMPOLINE \in PagesOf(A)
  \/ \E a, b \in A : a # b /\ Pages(a) \cap Pages(b) # {}

\* linker.ld orders the segments and begins each on a page of its own, below
\* the stack, the trap context and the trampoline; the kernel stacks of all
\* pids, with their guard pages, fit below the trampoline.
ASSUME LayoutAssumption ==
  /\ PAGE_SIZE \in Nat \ {0} /\ TRAMPOLINE \in Nat /\ MaxPid \in Nat
  /\ \A size \in {USER_STACK_SIZE, KERNEL_STACK_SIZE} :
        size \in Nat \ {0} /\ size % PAGE_SIZE = 0
  /\ \A app \in App :
        /\ Segments[app] # <<>>
        /\ Segments[app] \in Seq([va : Nat, mem_size : Nat, file_size : Nat,
                                 writable : BOOLEAN])
        /\ \A i \in DOMAIN Segments[app] :
              /\ Segments[app][i].va % PAGE_SIZE = 0
              /\ Segments[app][i].file_size =< Segments[app][i].mem_size
              /\ Segment(Segments[app][i]).r =< Segment(Segments[app][Len(Segments[app])]).r
        /\ PagesOf(from_elf(app)) \subseteq Page
        /\ ~Overlaps(from_elf(app))
  /\ (MaxPid + 1) * (KERNEL_STACK_SIZE + PAGE_SIZE) =< TRAMPOLINE * PAGE_SIZE

ASSUME FrameAssumption ==
  NoFrame \notin Frame /\ TrampolineFrame \notin Frame /\ TrampolineFrame # NoFrame

\* Frames are handed out once, and refused only when there are too few.
ASSUME FramesForAssumption ==
  \A V \in {PagesOf(from_elf(app)) : app \in App} \cup {Pages(KernelStack(p)) : p \in Pid},
     S \in SUBSET Frame :
        /\ frames_for(V, S) \subseteq Injection(V, S)
        /\ frames_for(V, S) = {} <=> Cardinality(S) < Cardinality(V)

-------------------------------------------------------------------------------
(* Content of pages.                                                       *)

Zero == <<"zero">>
Untouched == <<"untouched">>   \* in an image: nothing is written to the page
Garbage == <<"garbage">>    \* whatever the kernel or a former owner left
Written(x) == <<"data", x>>
TrapContext(app, kernel_sp) == <<"trap", app, kernel_sp>>

\* Mutant: the frame is handed out as it is.
FrameTracker_new_Dirty(old) == old

\* FrameTracker::new clears the frame.
FrameTracker_new(old) == Zero

get_top(p) == kernel_stack_position(p)[2]

\* copy_data fills the pages that the segment's part of the file reaches.
copy_data(app, v) ==
  IF \E i \in DOMAIN Segments[app] :
        LET s == Segments[app][i] IN
        v \in floor(s.va) .. floor(s.va) + ceil(s.file_size) - 1
  THEN <<"file", app, v>>
  ELSE Untouched

\* What the kernel writes into the pages of a fresh program of process p.
elf_image(app, p) ==
  [v \in PagesOf(from_elf(app)) |->
     IF v = TRAP_CONTEXT THEN TrapContext(app, get_top(p)) ELSE copy_data(app, v)]

\* Mutant: the child keeps the kernel stack in its copy of the context.
set_kernel_sp_Kept(cx, p) == cx

\* fork: trap_cx.kernel_sp = kernel_stack_top.
set_kernel_sp(cx, p) == TrapContext(cx[2], get_top(p))

-------------------------------------------------------------------------------

Nowhere == [v \in Page |-> NoFrame]

Init ==
  /\ mem = [f \in Frame |-> Garbage]
  /\ free = Frame
  /\ areas = [s \in Space |-> {}]
  /\ data_frames = [s \in Space |-> Nowhere]
  /\ table = [s \in Space |-> [Nowhere EXCEPT ![TRAMPOLINE] = TrampolineFrame]]
  /\ trap_cx_ppn = [p \in Pid |-> NoFrame]
  /\ proc = [p \in Pid |-> "none"]
  /\ panic = "none"

Panic(why) ==
  /\ panic' = why
  /\ UNCHANGED <<mem, free, spaceVars, trap_cx_ppn, proc>>

\* The frames for the pages V and then W, taken from the pool one by one.
allocations(V, W) ==
  UNION {{<<g, h>> : h \in frames_for(W, free \ Range(g))} : g \in frames_for(V, free)}

\* The map m with the pages of g where g has them.
Mapped(m, g) == [v \in Page |-> IF v \in DOMAIN g THEN g[v] ELSE m[v]]

\* new_bare and map_trampoline, then the areas: table and frames of a space.
fresh_table(g) == Mapped([Nowhere EXCEPT ![TRAMPOLINE] = TrampolineFrame], g)

PageIn(g, f) == CHOOSE v \in DOMAIN g : g[v] = f

Owned(s) == Range(data_frames[s]) \ {NoFrame}

\* PageTable::map panics if an entry is valid already.
Conflict(t, V) == \E v \in V : t[v] # NoFrame

\* What frame f holds when the image has been written to the frames of g.
filled(image, g, f) ==
  LET content == image[PageIn(g, f)]
  IN IF content = Untouched THEN FrameTracker_new(mem[f]) ELSE content

\* A process p with the areas A and the given image: the address space, then
\* the kernel stack of p, then the block with the frame of the trap context.
create(p, A, image) ==
  LET S == KernelStack(p)
      choices == allocations(PagesOf(A), Pages(S))
  IN IF Overlaps(A) \/ Conflict(table[Kernel], Pages(S))
     THEN Panic("vpn is mapped before mapping")
     ELSE IF choices = {} THEN Panic("out of frames")
     ELSE \E c \in choices :
        /\ free' = free \ (Range(c[1]) \cup Range(c[2]))
        /\ mem' = [f \in Frame |->
              IF f \in Range(c[1]) THEN filled(image, c[1], f)
              ELSE IF f \in Range(c[2]) THEN Garbage ELSE mem[f]]
        /\ areas' = [areas EXCEPT ![p] = A, ![Kernel] = @ \cup {S}]
        /\ data_frames' = [data_frames EXCEPT ![p] = Mapped(Nowhere, c[1]),
                                              ![Kernel] = Mapped(@, c[2])]
        /\ table' = [table EXCEPT ![p] = fresh_table(c[1]),
                                  ![Kernel] = Mapped(@, c[2])]
        /\ trap_cx_ppn' = [trap_cx_ppn EXCEPT ![p] = c[1][TRAP_CONTEXT]]
        /\ proc' = [proc EXCEPT ![p] = "live"]
        /\ UNCHANGED panic

\* TaskControlBlock::new, called for INITPROC only, at boot.
new(app) ==
  /\ \A p \in Pid : proc[p] = "none"
  /\ create(0, from_elf(app), elf_image(app, 0))

\* from_existed_user copies every page through the two page tables; fork then
\* gives the child's context the child's kernel stack.
copied_image(p, n) ==
  [v \in PagesOf(areas[p]) |->
     LET content == mem[table[p][v]]
     IN IF v = TRAP_CONTEXT THEN set_kernel_sp(content, n) ELSE content]

\* TaskControlBlock::fork.
fork(p, n) ==
  /\ proc[p] = "live"
  /\ proc[n] = "none"
  /\ create(n, areas[p], copied_image(p, n))

\* Mutants: the cached frame is not updated; the frames of the old space are
\* leaked.
cache_trap_cx_Stale(p, ppn) == p \in Pid /\ UNCHANGED trap_cx_ppn
released_Leaked(s) == {}

cache_trap_cx(p, ppn) == trap_cx_ppn' = [trap_cx_ppn EXCEPT ![p] = ppn]

\* The frames that come back when the areas of space s are dropped.
released(s) == Owned(s)

\* TaskControlBlock::exec: the new space is complete before the assignment to
\* memory_set drops the old one; trap_cx_ppn is set before the new trap context
\* is written to that frame.
exec(p, app) ==
  /\ proc[p] = "live"
  /\ LET A == from_elf(app)
         choices == frames_for(PagesOf(A), free)
     IN IF Overlaps(A) THEN Panic("vpn is mapped before mapping")
        ELSE IF choices = {} THEN Panic("out of frames")
        ELSE \E g \in choices :
           /\ free' = (free \ Range(g)) \cup released(p)
           /\ mem' = [f \in Frame |->
                 IF f \in Range(g) THEN filled(elf_image(app, p), g, f)
                 ELSE IF f \in released(p) THEN Garbage ELSE mem[f]]
           /\ areas' = [areas EXCEPT ![p] = A]
           /\ data_frames' = [data_frames EXCEPT ![p] = Mapped(Nowhere, g)]
           /\ table' = [table EXCEPT ![p] = fresh_table(g)]
           /\ cache_trap_cx(p, g[TRAP_CONTEXT])
           /\ UNCHANGED <<proc, panic>>

\* A store of the program itself: the MMU lets it through to the pages that
\* are mapped writable for the user.
user_write(p, v, x) ==
  /\ proc[p] = "live"
  /\ \E a \in areas[p] : a.w /\ v \in Pages(a)
  /\ mem' = [mem EXCEPT ![table[p][v]] = Written(x)]
  /\ UNCHANGED <<free, spaceVars, trap_cx_ppn, proc, panic>>

\* A store of the kernel at page v of process p, through the frame that
\* PageTable::translate finds: no flag of the entry is looked at, so read-only
\* pages are written too, and the page of the trap context.  There it hits the
\* registers the program will get back, or what the kernel needs at the next
\* trap: what the machine does from then on no code says, and the model stops.
kernel_store(p, v, x) ==
  \/ /\ mem' = [mem EXCEPT ![table[p][v]] = Written(x)]
     /\ panic' = IF v = TRAP_CONTEXT THEN "overwritten" ELSE panic
  \/ v = TRAP_CONTEXT /\ UNCHANGED <<mem, panic>>

\* A pointer into a page that is not mapped, or into the trampoline: unwrap of
\* None, or a store the kernel's own page table refuses.
bad_pointer(p, v) ==
  /\ table[p][v] \notin Frame
  /\ Panic("bad_pointer")

\* sys_read stores the character at any address it is given.
sys_read(p, v, x) ==
  /\ proc[p] = "live"
  /\ \/ /\ table[p][v] \in Frame
        /\ kernel_store(p, v, x)
        /\ UNCHANGED <<free, spaceVars, trap_cx_ppn, proc>>
     \/ bad_pointer(p, v)

\* exit: the areas are cleared and their frames freed; the page table and
\* trap_cx_ppn keep pointing to them.  (INITPROC's exit panics earlier.)
recycle_data_pages(p) ==
  /\ p # 0
  /\ proc[p] = "live"
  /\ free' = free \cup released(p)
  /\ areas' = [areas EXCEPT ![p] = {}]
  /\ data_frames' = [data_frames EXCEPT ![p] = Nowhere]
  /\ mem' = [f \in Frame |-> IF f \in released(p) THEN Garbage ELSE mem[f]]
  /\ proc' = [proc EXCEPT ![p] = "zombie"]
  /\ UNCHANGED <<table, trap_cx_ppn, panic>>

Without(m, V) == [v \in Page |-> IF v \in V THEN NoFrame ELSE m[v]]

\* Mutant: the area leaves the vector and its entries stay in the table.
unmap_Forgotten(t, V) == t

\* PageTable::unmap for the pages V.
unmap(t, V) == Without(t, V)

\* The last Arc of a zombie is dropped, and with it the kernel stack
\* (remove_area_with_start_vpn) and the page table.  No frame is written.
drop(p) ==
  LET A == {a \in areas[Kernel] : a.l = floor(kernel_stack_position(p)[1])}
      V == PagesOf(A)
  IN /\ proc[p] = "zombie"
     /\ free' = free \cup {data_frames[Kernel][v] : v \in V}
     /\ areas' = [areas EXCEPT ![Kernel] = @ \ A]
     /\ data_frames' = [data_frames EXCEPT ![Kernel] = Without(@, V)]
     /\ table' = [table EXCEPT ![Kernel] = unmap(@, V), ![p] = fresh_table(<<>>)]
     /\ trap_cx_ppn' = [trap_cx_ppn EXCEPT ![p] = NoFrame]
     /\ proc' = [proc EXCEPT ![p] = "none"]

\* sys_waitpid of p finds the zombie z: the exit code is stored at any address
\* that was given, then z goes out of scope.  The pointer is that of an i32 and
\* aligned, as the reference translated_refmut makes of it has to be, so that
\* the i32 lies in one page.
waitpid(p, z, v, x) ==
  /\ proc[p] = "live" /\ proc[z] = "zombie"
  /\ \/ table[p][v] \in Frame /\ kernel_store(p, v, x) /\ drop(z)
     \/ bad_pointer(p, v)

shutdown == panic # "none" /\ UNCHANGED vars

Next ==
  \/ /\ panic = "none"
     /\ \/ \E app \in App : new(app)
        \/ \E p, n \in Pid : fork(p, n)
        \/ \E p \in Pid, app \in App : exec(p, app)
        \/ \E p \in Pid, v \in Page, x \in Data :
              \/ user_write(p, v, x)
              \/ sys_read(p, v, x)
              \/ \E z \in Pid : waitpid(p, z, v, x)
        \/ \E p \in Pid : recycle_data_pages(p)
  \/ shutdown

Spec == Init /\ [][Next]_vars

-------------------------------------------------------------------------------
(* Properties.                                                             *)

Content ==
  {Zero, Garbage} \cup {Written(x) : x \in Data}
  \cup {TrapContext(app, get_top(p)) : app \in App, p \in Pid}
  \cup {<<"file", app, v>> : app \in App, v \in Page}

Live == {p \in Pid : proc[p] = "live"}

TypeOK ==
  /\ mem \in [Frame -> Content]
  /\ free \subseteq Frame
  /\ data_frames \in [Space -> [Page -> Frame \cup {NoFrame}]]
  /\ table \in [Space -> [Page -> Frame \cup {NoFrame, TrampolineFrame}]]
  /\ trap_cx_ppn \in [Pid -> Frame \cup {NoFrame}]
  /\ proc \in [Pid -> {"none", "live", "zombie"}]
  /\ panic \in {"none", "out of frames", "vpn is mapped before mapping",
                "bad_pointer", "overwritten"}

(* A frame is free or belongs to one page of one space, never two of these *)
(* and never none of them: areas share no frame and lose none, through     *)
(* fork, exec, exit and reaping.                                           *)
FramesOwnedOnce ==
  /\ TypeOK
  /\ \A s, t \in Space : \A v, w \in Page :
        data_frames[s][v] = data_frames[t][w] /\ data_frames[s][v] # NoFrame
           => s = t /\ v = w
  /\ UNION {Owned(s) : s \in Space} = Frame \ free

(* The page table of every space that is in use says what its areas own:   *)
(* no entry leads to a frame that was given back.  (A zombie's table still *)
(* does; nothing may use it.)  So mapping never meets a valid entry, not   *)
(* even when the pages of a reaped process's kernel stack are mapped again *)
(* for the next owner of its pid.                                          *)
TablesMatchAreas ==
  /\ panic # "vpn is mapped before mapping"
  /\ \A s \in Live \cup {Kernel} :
     /\ table[s] = [data_frames[s] EXCEPT ![TRAMPOLINE] = TrampolineFrame]
     /\ {v \in Page : data_frames[s][v] # NoFrame} = PagesOf(areas[s])

\* The context of p names a program and the kernel stack of p.
ContextIntact(p) ==
  \E app \in App : mem[trap_cx_ppn[p]] = TrapContext(app, get_top(p))

(* The cached frame of the trap context is the one the page table leads to,*)
(* it holds a context, and the context names the kernel stack of its own   *)
(* process, which is mapped.  So trap entry and trap_handler meet.  The one*)
(* thing that can spoil a context is a call of its own process that makes  *)
(* the kernel store into it (translated_refmut and translated_byte_buffer  *)
(* check no flag); the contexts of all others are intact even then.        *)
TrapContextIsCurrent ==
  \A p \in Live :
     /\ trap_cx_ppn[p] = table[p][TRAP_CONTEXT]
     /\ KernelStack(p) \in areas[Kernel]
     /\ \/ ContextIntact(p)
        \/ /\ panic = "overwritten"
           /\ \A q \in Live \ {p} : ContextIntact(q)

(* Below every stack, of a program or of the kernel, is a page that is not *)
(* mapped.                                                                 *)
GuardPagesUnmapped ==
  /\ \A a \in areas[Kernel] : table[Kernel][a.l - 1] = NoFrame
  /\ \A p \in Live : \E app \in App :
        /\ areas[p] = from_elf(app)
        /\ table[p][user_stack(app).l - 1] = NoFrame

(* Every process has a memory of its own.                                  *)
Visible(p, v) ==
  IF proc[p] = "live" /\ table[p][v] \in Frame THEN mem[table[p][v]] ELSE <<"unmapped">>

FreshImage(app, p) ==
  [v \in Page |->
     IF v \notin PagesOf(from_elf(app)) THEN <<"unmapped">>
     ELSE IF elf_image(app, p)[v] = Untouched THEN Zero ELSE elf_image(app, p)[v]]

OwnContext(cx, p) == TrapContext(cx[2], get_top(p))

Memory == INSTANCE PrivateMemory WITH
  Unmapped    <- <<"unmapped">>,
  ContextPage <- TRAP_CONTEXT,
  Image       <- FreshImage,
  Own         <- OwnContext,
  memory      <- [p \in Pid |-> [v \in Page |-> Visible(p, v)]]

PrivateMemorySpec == Memory!Spec

-------------------------------------------------------------------------------
(* The inductive invariant.                                                *)

\* The areas of a live process are those of the program whose trap context it
\* has, if nobody has overwritten that; nobody else has any; KERNEL_SPACE has
\* the kernel stacks of the pids in use.
AreasOK ==
  /\ areas \in [Space -> SUBSET ({KernelStack(p) : p \in Pid}
                                \cup UNION {from_elf(app) : app \in App})]
  /\ areas[Kernel] = {KernelStack(p) : p \in {q \in Pid : proc[q] # "none"}}
  /\ \A p \in Pid :
        IF proc[p] = "live"
        THEN \E app \in App : /\ areas[p] = from_elf(app)
                              /\ panic # "overwritten" =>
                                   mem[trap_cx_ppn[p]] = TrapContext(app, get_top(p))
        ELSE areas[p] = {} /\ data_frames[p] = Nowhere

Inv == FramesOwnedOnce /\ TablesMatchAreas /\ TrapContextIsCurrent /\ AreasOK
===============================================================================
