------------------------------ MODULE ElfLoader -------------------------------
(***************************************************************************)
(* MemorySet::from_elf (os/src/mm/memory_set.rs 191-272) byte by byte: the *)
(* loop over the program headers, MapArea::new, push, map, map_one and     *)
(* copy_data, then the user stack and the page of the trap context.        *)
(* MemorySet takes the areas and the content that come out of it as one    *)
(* step; this module is about how they come about.                         *)
(*                                                                         *)
(* A byte of the file is its offset, so that a byte that is copied from or *)
(* to a wrong place shows.  Frames come one after the other from a pool    *)
(* that former owners have written to, and can run out on any page and on  *)
(* any node of the page table.  Which nodes there are follows from the     *)
(* pages that are mapped; what is in them is `table', as PageTable shows.  *)
(***************************************************************************)
EXTENDS Integers, Sequences, FiniteSets

CONSTANTS
  Image,            \* the program headers of each file, in their order
  PAGE_SIZE,
  VA_SIZE,          \* 2^VA_WIDTH_SV39
  ENTRIES,          \* entries of a node of the page table (512)
  USER_STACK_SIZE,  \* in bytes
  Frames            \* the pool is the frames 1 .. n for some n in this set

Page == 0 .. (VA_SIZE \div PAGE_SIZE) - 1
TRAMPOLINE == VA_SIZE - PAGE_SIZE
TRAP_CONTEXT == TRAMPOLINE - PAGE_SIZE
LastByte == PAGE_SIZE - 1

\* Bytes that are not of the file: cleared, and left by a former owner.
Zero == -1
Old == -2

Headers(image) == {image[i] : i \in DOMAIN image}
Load(image) == {h \in Headers(image) : h.type = "Load"}

\* config.rs: whole pages, a stack that is not empty and smaller than the
\* address space.
ASSUME SizeAssumption ==
  /\ PAGE_SIZE \in Nat \ {0} /\ VA_SIZE \in Nat /\ USER_STACK_SIZE \in Nat \ {0}
  /\ VA_SIZE % PAGE_SIZE = 0 /\ USER_STACK_SIZE % PAGE_SIZE = 0
  /\ 2 * PAGE_SIZE =< VA_SIZE /\ USER_STACK_SIZE < VA_SIZE
  /\ ENTRIES \in Nat \ {0} /\ Frames \subseteq Nat

\* What user/src/linker.ld makes of a program: LOAD segments in ascending
\* order, each beginning on a page of its own, none of them empty, all below
\* the wrap of the address width.  Other headers stand anywhere between.
ASSUME LinkerAssumption ==
  \A image \in Image :
       /\ Len(image) \in Nat /\ DOMAIN image = 1 .. Len(image)
       /\ \A h \in Load(image) :
             /\ h.va \in Nat /\ h.mem_size \in Nat /\ h.offset \in Nat /\ h.file_size \in Nat
             /\ h.va % PAGE_SIZE = 0
             /\ h.mem_size > 0 /\ h.file_size =< h.mem_size
             /\ h.va + h.mem_size < TRAP_CONTEXT
       /\ \A i, j \in DOMAIN image :
             /\ i < j /\ image[i].type = "Load" /\ image[j].type = "Load"
             => image[i].va + image[i].mem_size =< image[j].va

VARIABLES
  image,        \* elf_data: its program headers
  pool,         \* the frames 1 .. pool exist
  current,      \* FRAME_ALLOCATOR.current
  mem,          \* the bytes of every frame
  table,        \* the page table: [ppn, perm] of every mapped page
  areas,        \* memory_set.areas
  max_end_vpn,
  i,            \* the header the loop is at
  area,         \* the area being pushed, with its data
  vpn,          \* the page map is at, then current_vpn of copy_data
  start,        \* `start' of copy_data
  user_stack_top,
  at            \* where from_elf is

vars == <<image, pool, current, mem, table, areas, max_end_vpn, i, area, vpn,
          start, user_stack_top, at>>

Stopped == at \in {"done", "panic"}

-------------------------------------------------------------------------------
(* Addresses and areas.                                                    *)

VirtAddr_from(a) == a % VA_SIZE
floor(va) == va \div PAGE_SIZE

\* Mutant: an end inside a page loses that page.
ceil_Down(va) == va \div PAGE_SIZE

ceil(va) == (va + PAGE_SIZE - 1) \div PAGE_SIZE

\* The part of the file a segment is filled from; NoData for stack and trap
\* context, which are pushed with None.
NoData == [offset |-> 0, len |-> -1]
DataOf(h) == [offset |-> h.offset, len |-> h.file_size]

MapArea(start_va, end_va, perm, data) ==
  [l |-> floor(start_va), r |-> ceil(end_va), perm |-> perm, data |-> data]

map_perm(h) == {"U"} \cup h.flags

Smaller(a, b) == IF a < b THEN a ELSE b

\* FrameTracker::new clears the frame.
FrameTracker_new == [o \in 0 .. LastByte |-> Zero]

\* The memory m after frame_alloc has handed out the frames of F.
frame_alloc(m, F) == [f \in DOMAIN m |-> IF f \in F THEN FrameTracker_new ELSE m[f]]

\* map_trampoline; the code of the trampoline is in no frame of the pool.
map_trampoline ==
  [n \in {floor(TRAMPOLINE)} |-> [ppn |-> 0, perm |-> {"R", "X"}]]

\* new_bare and map_trampoline are done: the root node and two nodes below it
\* are taken, or there were fewer frames than that.
Init ==
  /\ image \in Image
  /\ pool \in Frames
  /\ current = Smaller(4, pool + 1)
  /\ mem = frame_alloc([f \in 1 .. pool |-> [o \in 0 .. LastByte |-> Old]], 1 .. 3)
  /\ table = map_trampoline
  /\ areas = <<>>
  /\ max_end_vpn = 0
  /\ i = 1
  /\ area = [l |-> 0, r |-> 0, perm |-> {}, data |-> NoData]
  /\ vpn = 0
  /\ start = 0
  /\ user_stack_top = 0
  /\ at = IF pool < 3 THEN "panic" ELSE "headers"

panic ==
  /\ at' = "panic"
  /\ UNCHANGED <<image, pool, current, mem, table, areas, max_end_vpn, i, area,
                 vpn, start, user_stack_top>>

\* MapArea::new, where SimpleRange::new asserts that the area does not end
\* before it begins, then MemorySet::push, which begins with the loop of
\* MapArea::map.
push(a) ==
  /\ area' = a
  /\ vpn' = a.l
  /\ at' = IF a.l =< a.r THEN "map" ELSE "panic"

-------------------------------------------------------------------------------
(* The program headers.                                                    *)

SegmentArea(h) ==
  MapArea(VirtAddr_from(h.va), VirtAddr_from(h.va + h.mem_size), map_perm(h), DataOf(h))

\* Mutant: every header counts, the ones that are not loaded too.
end_after_EveryHeader(h) == SegmentArea(h).r

\* max_end_vpn after a header: only a LOAD header assigns it.
end_after(h) == IF h.type = "Load" THEN SegmentArea(h).r ELSE max_end_vpn

program_header ==
  /\ at = "headers" /\ i =< Len(image)
  /\ max_end_vpn' = end_after(image[i])
  /\ \/ /\ image[i].type = "Load"
        /\ push(SegmentArea(image[i]))
        /\ UNCHANGED i
     \/ /\ image[i].type # "Load"
        /\ i' = i + 1
        /\ UNCHANGED <<area, vpn, at>>
  /\ UNCHANGED <<image, pool, current, mem, table, areas, start, user_stack_top>>

-------------------------------------------------------------------------------
(* MemorySet::push.                                                        *)

\* find_pte_create adds a node for page n where none of the pages mapped so
\* far goes through it: a last-level node covers ENTRIES pages, one above it
\* ENTRIES times as many.
missing(n, span) == IF \E m \in DOMAIN table : m \div span = n \div span THEN 0 ELSE 1
new_nodes(n) == missing(n, ENTRIES) + missing(n, ENTRIES * ENTRIES)

\* MapArea::map_one for a framed area: a frame for the page, then the nodes
\* on the way to its entry.
map_one ==
  /\ at = "map" /\ vpn # area.r
  /\ current' = Smaller(current + 1 + new_nodes(vpn), pool + 1)
  /\ mem' = frame_alloc(mem, current .. current' - 1)
  /\ IF vpn \in DOMAIN table \/ current + new_nodes(vpn) > pool
     THEN at' = "panic" /\ UNCHANGED <<table, vpn>>
     ELSE /\ table' = [n \in DOMAIN table \cup {vpn} |->
                         IF n = vpn THEN [ppn |-> current, perm |-> area.perm]
                                    ELSE table[n]]
          /\ vpn' = vpn + 1
          /\ UNCHANGED at
  /\ UNCHANGED <<image, pool, areas, max_end_vpn, i, area, start, user_stack_top>>

\* All pages of the area are mapped: copy_data if there is data.
mapped ==
  /\ at = "map" /\ vpn = area.r
  /\ at' = IF area.data = NoData THEN "pushed" ELSE "copy"
  /\ vpn' = area.l
  /\ start' = 0
  /\ UNCHANGED <<image, pool, current, mem, table, areas, max_end_vpn, i, area,
                 user_stack_top>>

\* Mutant: every round copies the first page of the data again.
src_First(k) == area.data.offset + k

\* The byte of the file that goes to place k of the page.
src(k) == area.data.offset + start + k

\* One round of the loop of copy_data.
copy_data ==
  /\ at = "copy"
  /\ LET n == Smaller(area.data.len, start + PAGE_SIZE) - start
     IN IF vpn \notin DOMAIN table
        THEN panic
        ELSE /\ mem' = [mem EXCEPT ![table[vpn].ppn] =
                          [o \in 0 .. LastByte |-> IF o < n THEN src(o) ELSE @[o]]]
             /\ start' = start + PAGE_SIZE
             /\ IF start' >= area.data.len
                THEN at' = "pushed" /\ UNCHANGED vpn
                ELSE vpn' = vpn + 1 /\ UNCHANGED at
             /\ UNCHANGED <<image, pool, current, table, areas, max_end_vpn, i,
                            area, user_stack_top>>

TrapContextArea == MapArea(TRAP_CONTEXT, TRAMPOLINE, {"R", "W"}, NoData)

\* The area is kept, and from_elf goes on with what follows: the next header,
\* the trap context after the stack, or its end.
pushed ==
  /\ at = "pushed"
  /\ areas' = Append(areas, area)
  /\ \/ /\ i =< Len(image)
        /\ i' = i + 1
        /\ at' = "headers"
        /\ UNCHANGED <<area, vpn>>
     \/ /\ i > Len(image) /\ area # TrapContextArea
        /\ push(TrapContextArea)
        /\ UNCHANGED i
     \/ /\ i > Len(image) /\ area = TrapContextArea
        /\ at' = "done"
        /\ UNCHANGED <<i, area, vpn>>
  /\ UNCHANGED <<image, pool, current, mem, table, max_end_vpn, start, user_stack_top>>

-------------------------------------------------------------------------------
(* The user stack.                                                         *)

user_stack_bottom == max_end_vpn * PAGE_SIZE + PAGE_SIZE

user_stack ==
  /\ at = "headers" /\ i > Len(image)
  /\ user_stack_top' = user_stack_bottom + USER_STACK_SIZE
  /\ push(MapArea(VirtAddr_from(user_stack_bottom), VirtAddr_from(user_stack_top'),
                  {"R", "W", "U"}, NoData))
  /\ UNCHANGED <<image, pool, current, mem, table, areas, max_end_vpn, i, start>>

from_elf ==
  \/ program_header
  \/ map_one
  \/ mapped
  \/ copy_data
  \/ pushed
  \/ user_stack

\* The caller has the space, or the kernel has shut the machine down.
returned == Stopped /\ UNCHANGED vars

Next == from_elf \/ returned

\* from_elf runs with interrupts disabled: nothing takes the processor away.
Spec == Init /\ [][Next]_vars

-------------------------------------------------------------------------------
(* Properties.                                                             *)

\* Frames, pages and positions stay in their ranges, the copy included.
TypeOK ==
  /\ current \in 1 .. pool + 1
  /\ DOMAIN table \subseteq Page
  /\ \A n \in DOMAIN table : table[n].ppn \in 0 .. pool
  /\ vpn \in Page \cup {area.r}
  /\ i \in 1 .. Len(image) + 1
  /\ start >= 0 /\ (at = "copy" => start =< area.data.len)
  /\ at \in {"headers", "map", "copy", "pushed", "done", "panic"}

\* The byte the program finds at va.
Byte(va) == mem[table[floor(va)].ppn][va % PAGE_SIZE]

\* What the ELF format asks for: the file's bytes at their addresses, zeros
\* up to the size in memory (.bss), on pages with the header's permissions.
ImageAt(h, k) == IF k < h.file_size THEN h.offset + k ELSE Zero

\* When from_elf returns, every byte of every LOAD segment is the one the
\* file says, whatever its frames held before, and what the program may do
\* with it is what the header says (memory_set.rs 210-238, 413-440).
SegmentsAreLoaded ==
  \A h \in Load(image) : \A k \in 0 .. h.mem_size - 1 :
     /\ floor(h.va + k) \in DOMAIN table
     /\ Byte(h.va + k) = ImageAt(h, k)
     /\ table[floor(h.va + k)].perm = map_perm(h)

\* The kernel's pages of a user space are out of the program's reach, and
\* everything else it can reach is zeroed or its own file's: no byte of a
\* former owner of a frame is left (frame_allocator.rs 13-22).
NothingOldIsVisible ==
  /\ \A n \in DOMAIN table : "U" \in table[n].perm <=> n < floor(TRAP_CONTEXT)
  /\ \A n \in DOMAIN table \ {floor(TRAMPOLINE)} :
        \A o \in 0 .. LastByte : mem[table[n].ppn][o] # Old

\* from_elf builds the space the program file describes: its segments, and
\* nothing besides that the program may reach.
ImageIsLoaded ==
  /\ TypeOK
  /\ at = "done" => SegmentsAreLoaded /\ NothingOldIsVisible

\* The user stack lies above every segment, although max_end_vpn is only the
\* end of the last one; the page below it is not mapped, so that a stack
\* that overflows faults (memory_set.rs 230, 242-259).
StackAboveEverySegment ==
  at = "done" =>
    LET Stack == floor(user_stack_top - USER_STACK_SIZE) .. floor(user_stack_top) - 1
    IN /\ \A n \in Stack : n \in DOMAIN table /\ table[n].perm = {"R", "W", "U"}
       /\ \A h \in Load(image) : ceil(h.va + h.mem_size) < floor(user_stack_top - USER_STACK_SIZE)
       /\ floor(user_stack_top - USER_STACK_SIZE) - 1 \notin DOMAIN table

\* from_elf fails only for lack of frames or because image and stack do not
\* fit below the trap context: no page is mapped twice and copy_data never
\* leaves its area (memory_set.rs 376, 428, page_table.rs 158).
FailsOnlyForLackOfRoom ==
  at = "panic" => current > pool \/ user_stack_top > TRAP_CONTEXT

===============================================================================
