---------------------------- MODULE ElfLoaderProofs ----------------------------
(***************************************************************************)
(* Proof that from_elf builds the address space its file describes, for    *)
(* any page size, any number of frames and any file the linker makes.      *)
(***************************************************************************)
EXTENDS ElfLoader, TLAPS

-------------------------------------------------------------------------------
(* Addresses and page numbers.                                             *)

\* The top page, that of the trampoline, and the pages of a user stack.
TopPage == floor(TRAMPOLINE)
StackPages == USER_STACK_SIZE \div PAGE_SIZE

(* Division by the page size.                                              *)
LEMMA Division ==
  ASSUME NEW a \in Nat
  PROVE  /\ a \div PAGE_SIZE \in Nat /\ a % PAGE_SIZE \in 0 .. PAGE_SIZE - 1
         /\ a = (a \div PAGE_SIZE) * PAGE_SIZE + (a % PAGE_SIZE)
<1>1. PAGE_SIZE \in Nat \ {0}
  BY SizeAssumption
<1> QED BY <1>1

(* Division has one result.                                                *)
LEMMA Quotient ==
  ASSUME NEW n \in Nat, NEW o \in 0 .. PAGE_SIZE - 1
  PROVE  (n * PAGE_SIZE + o) \div PAGE_SIZE = n /\ (n * PAGE_SIZE + o) % PAGE_SIZE = o
<1>1. PAGE_SIZE \in Nat \ {0}
  BY SizeAssumption
<1> QED BY <1>1

(* Multiples of the page size are a page apart.                            *)
LEMMA Multiples ==
  ASSUME NEW m \in Int, NEW n \in Int
  PROVE  /\ m * PAGE_SIZE \in Int
         /\ m < n <=> m * PAGE_SIZE < n * PAGE_SIZE
         /\ m < n => m * PAGE_SIZE + PAGE_SIZE =< n * PAGE_SIZE
         /\ (m + n) * PAGE_SIZE = m * PAGE_SIZE + n * PAGE_SIZE
         /\ (m - n) * PAGE_SIZE = m * PAGE_SIZE - n * PAGE_SIZE
<1>1. PAGE_SIZE \in Nat \ {0}
  BY SizeAssumption
<1>2. m < n => (n - m) * PAGE_SIZE >= PAGE_SIZE
  BY <1>1
<1>3. m >= n => (m - n) * PAGE_SIZE >= 0
  BY <1>1
<1>4. /\ (n - m) * PAGE_SIZE = n * PAGE_SIZE - m * PAGE_SIZE
      /\ (m - n) * PAGE_SIZE = m * PAGE_SIZE - n * PAGE_SIZE
      /\ (m + n) * PAGE_SIZE = m * PAGE_SIZE + n * PAGE_SIZE
      /\ m * PAGE_SIZE \in Int /\ n * PAGE_SIZE \in Int
  BY <1>1
<1> QED BY <1>1, <1>2, <1>3, <1>4

(* Pages are in the order of their addresses.                              *)
LEMMA Order ==
  ASSUME NEW m \in Int, NEW n \in Int
  PROVE  m < n <=> m * PAGE_SIZE < n * PAGE_SIZE
BY Multiples

(* What begins before an address lies before the page above it.            *)
LEMMA Below ==
  ASSUME NEW m \in Nat, NEW n \in Nat, NEW a \in Nat,
         (m - 1) * PAGE_SIZE < a, a =< n * PAGE_SIZE
  PROVE  m =< n
<1>1. (m - 1) * PAGE_SIZE \in Int /\ n * PAGE_SIZE \in Int
  BY Multiples
<1>2. (m - 1) * PAGE_SIZE < n * PAGE_SIZE
  BY <1>1
<1> QED BY <1>2, Multiples

(* The fixed addresses of a user space in pages.                           *)
LEMMA Layout ==
  /\ PAGE_SIZE \in Nat \ {0} /\ TopPage \in Nat \ {0} /\ StackPages \in 1 .. TopPage
  /\ VA_SIZE = TopPage * PAGE_SIZE + PAGE_SIZE
  /\ TRAMPOLINE = TopPage * PAGE_SIZE
  /\ TRAP_CONTEXT = (TopPage - 1) * PAGE_SIZE
  /\ floor(TRAP_CONTEXT) = TopPage - 1
  /\ Page = 0 .. TopPage
  /\ USER_STACK_SIZE = StackPages * PAGE_SIZE
<1> DEFINE N == VA_SIZE \div PAGE_SIZE
<1>1. /\ PAGE_SIZE \in Nat \ {0} /\ VA_SIZE \in Nat /\ USER_STACK_SIZE \in Nat \ {0}
      /\ VA_SIZE % PAGE_SIZE = 0 /\ USER_STACK_SIZE % PAGE_SIZE = 0
      /\ 2 * PAGE_SIZE =< VA_SIZE /\ USER_STACK_SIZE < VA_SIZE
  BY SizeAssumption
<1>2. N \in Nat /\ VA_SIZE = N * PAGE_SIZE
  BY <1>1, Division
<1>3. StackPages \in Nat /\ USER_STACK_SIZE = StackPages * PAGE_SIZE
  BY <1>1, Division DEF StackPages
<1> HIDE DEF N
<1>4. N >= 2
  BY <1>1, <1>2, Multiples
<1>5. StackPages < N /\ StackPages # 0
  BY <1>1, <1>2, <1>3, Multiples
<1>6. TRAMPOLINE = (N - 1) * PAGE_SIZE /\ TRAP_CONTEXT = (N - 2) * PAGE_SIZE
  BY <1>1, <1>2, <1>4, Multiples DEF TRAMPOLINE, TRAP_CONTEXT
<1>7. TopPage = N - 1 /\ floor(TRAP_CONTEXT) = N - 2
  <2>1. \A n \in Nat : (n * PAGE_SIZE) \div PAGE_SIZE = n
    BY <1>1
  <2>2. N - 1 \in Nat /\ N - 2 \in Nat
    BY <1>2, <1>4
  <2> QED BY <1>6, <2>1, <2>2 DEF TopPage, floor
<1>8. Page = 0 .. N - 1
  BY DEF Page, N
<1> QED BY <1>1, <1>2, <1>3, <1>4, <1>5, <1>6, <1>7, <1>8, Multiples

(* The page behind an address.                                             *)
LEMMA Ceiling ==
  ASSUME NEW a \in Nat \ {0}
  PROVE  /\ ceil(a) \in Nat \ {0}
         /\ (ceil(a) - 1) * PAGE_SIZE < a /\ a =< ceil(a) * PAGE_SIZE
<1>1. PAGE_SIZE \in Nat \ {0}
  BY SizeAssumption
<1> DEFINE b == a + PAGE_SIZE - 1
           c == b \div PAGE_SIZE
<1>2. b \in Nat
  BY <1>1
<1>3. c \in Nat /\ b % PAGE_SIZE \in 0 .. PAGE_SIZE - 1 /\ b = c * PAGE_SIZE + (b % PAGE_SIZE)
  BY <1>2, Division
<1>4. c = ceil(a)
  BY DEF ceil
<1> HIDE DEF c
<1>5. c * PAGE_SIZE \in Nat /\ (c - 1) * PAGE_SIZE = c * PAGE_SIZE - PAGE_SIZE
  BY <1>1, <1>3
<1>6. c # 0
  BY <1>1, <1>3
<1>7. \A x, y \in Nat : /\ a + PAGE_SIZE - 1 = x + y /\ y \in 0 .. PAGE_SIZE - 1
                       => x - PAGE_SIZE < a /\ a =< x
  BY <1>1
<1>8. c * PAGE_SIZE - PAGE_SIZE < a /\ a =< c * PAGE_SIZE
  BY <1>1, <1>2, <1>3, <1>5, <1>7
<1> QED BY <1>3, <1>4, <1>5, <1>6, <1>8

(* A whole page has itself behind it.                                      *)
LEMMA CeilingOfPage ==
  ASSUME NEW n \in Nat
  PROVE  ceil(n * PAGE_SIZE) = n /\ floor(n * PAGE_SIZE) = n
<1>1. PAGE_SIZE \in Nat \ {0}
  BY SizeAssumption
<1>2. n * PAGE_SIZE + PAGE_SIZE - 1 = n * PAGE_SIZE + (PAGE_SIZE - 1)
  BY <1>1
<1>3. n * PAGE_SIZE = n * PAGE_SIZE + 0
  BY <1>1
<1> QED BY <1>1, <1>2, <1>3, Quotient DEF ceil, floor

-------------------------------------------------------------------------------
(* Areas.                                                                  *)

\* A LOAD header of a file of Image.
IsSegment(h) ==
  /\ h.va \in Nat /\ h.mem_size \in Nat /\ h.offset \in Nat /\ h.file_size \in Nat
  /\ h.va % PAGE_SIZE = 0
  /\ h.mem_size > 0 /\ h.file_size =< h.mem_size
  /\ h.va + h.mem_size < TRAP_CONTEXT

(* The masks leave the addresses of a segment alone: its area begins at    *)
(* its first page and ends behind its last byte, below the trap context.   *)
LEMMA SegmentPages ==
  ASSUME NEW h, IsSegment(h)
  PROVE  /\ SegmentArea(h).l \in Nat /\ SegmentArea(h).r \in Nat
         /\ SegmentArea(h).l < SegmentArea(h).r
         /\ SegmentArea(h).r =< TopPage - 1
         /\ h.va = SegmentArea(h).l * PAGE_SIZE
         /\ SegmentArea(h).r = ceil(h.va + h.mem_size)
         /\ h.va + h.mem_size =< SegmentArea(h).r * PAGE_SIZE
         /\ SegmentArea(h).perm = map_perm(h)
         /\ SegmentArea(h).data = DataOf(h)
<1> DEFINE b == h.va + h.mem_size
           l == h.va \div PAGE_SIZE
           r == ceil(b)
<1>1. /\ h.va \in Nat /\ b \in Nat \ {0} /\ h.va % PAGE_SIZE = 0
      /\ h.va < b /\ b < TRAP_CONTEXT
  BY DEF IsSegment
<1>2. TRAP_CONTEXT < VA_SIZE /\ VA_SIZE \in Nat \ {0} /\ TRAP_CONTEXT \in Int
  BY Layout, Multiples
<1>3. VirtAddr_from(h.va) = h.va /\ VirtAddr_from(b) = b
  BY <1>1, <1>2 DEF VirtAddr_from
<1>4. l \in Nat /\ h.va = l * PAGE_SIZE
  <2>1. l \in Nat /\ h.va = l * PAGE_SIZE + (h.va % PAGE_SIZE)
    BY <1>1, Division
  <2> QED BY <1>1, <2>1, Multiples
<1>5. SegmentArea(h) = [l |-> l, r |-> r, perm |-> map_perm(h), data |-> DataOf(h)]
  BY <1>3 DEF SegmentArea, MapArea, floor
<1>6. r \in Nat \ {0} /\ (r - 1) * PAGE_SIZE < b /\ b =< r * PAGE_SIZE
  BY <1>1, Ceiling
<1> HIDE DEF l, r, b
<1>7. (r - 1) * PAGE_SIZE < (TopPage - 1) * PAGE_SIZE /\ l * PAGE_SIZE < r * PAGE_SIZE
  BY <1>1, <1>4, <1>6, Layout, Multiples
<1>8. r =< TopPage - 1 /\ l < r
  BY <1>4, <1>6, <1>7, Layout, Multiples
<1> QED BY <1>4, <1>5, <1>6, <1>8 DEF b, r

(* What the linker promises of one header.                                 *)
LEMMA Segments ==
  ASSUME NEW im \in Image
  PROVE  /\ Len(im) \in Nat
         /\ \A j \in 1 .. Len(im) : im[j].type = "Load" => IsSegment(im[j])
         /\ \A h \in Load(im) : \E j \in 1 .. Len(im) : h = im[j] /\ im[j].type = "Load"
<1>1. Len(im) \in Nat /\ DOMAIN im = 1 .. Len(im)
  BY LinkerAssumption
<1>2. \A h \in Load(im) : IsSegment(h)
  BY LinkerAssumption DEF IsSegment
<1>3. \A j \in 1 .. Len(im) : im[j].type = "Load" => im[j] \in Load(im)
  BY <1>1 DEF Load, Headers
<1>4. \A h \in Load(im) : \E j \in 1 .. Len(im) : h = im[j] /\ im[j].type = "Load"
  BY <1>1 DEF Load, Headers
<1> QED BY <1>1, <1>2, <1>3, <1>4

(* A later segment begins on a page behind the last of an earlier one.     *)
LEMMA Ascending ==
  ASSUME NEW im \in Image, NEW j \in 1 .. Len(im), NEW k \in 1 .. Len(im), j < k,
         im[j].type = "Load", im[k].type = "Load"
  PROVE  SegmentArea(im[j]).r =< SegmentArea(im[k]).l
<1> DEFINE a == im[j].va + im[j].mem_size
           r == SegmentArea(im[j]).r
           l == SegmentArea(im[k]).l
<1>1. IsSegment(im[j]) /\ IsSegment(im[k]) /\ DOMAIN im = 1 .. Len(im)
  BY Segments, LinkerAssumption
<1>2. a =< im[k].va
  BY <1>1, LinkerAssumption
<1>3. a \in Nat \ {0}
  BY <1>1, SMTT(30) DEF IsSegment
<1>4. r = ceil(a) /\ r \in Nat /\ l \in Nat /\ im[k].va = l * PAGE_SIZE
  BY <1>1, SegmentPages
<1>5. (r - 1) * PAGE_SIZE < a
  BY <1>3, <1>4, Ceiling
<1>6. a =< l * PAGE_SIZE
  BY <1>2, <1>4
<1> QED BY <1>3, <1>4, <1>5, <1>6, Below

\* The area of the user stack when the segments end before page n.
StackArea(n) ==
  MapArea(VirtAddr_from(n * PAGE_SIZE + PAGE_SIZE),
          VirtAddr_from(n * PAGE_SIZE + PAGE_SIZE + USER_STACK_SIZE),
          {"R", "W", "U"}, NoData)

(* The stack lies behind a guard page; a stack that would reach into the   *)
(* top page wraps to an area that ends before it begins.                   *)
LEMMA StackLayout ==
  ASSUME NEW n \in 0 .. TopPage - 1
  PROVE  /\ StackArea(n).l = n + 1
         /\ StackArea(n).r \in Nat
         /\ n + 1 + StackPages =< TopPage => StackArea(n).r = n + 1 + StackPages
         /\ n + 1 + StackPages > TopPage => StackArea(n).r < n + 1
         /\ StackArea(n).perm = {"R", "W", "U"} /\ StackArea(n).data = NoData
<1> DEFINE b == n * PAGE_SIZE + PAGE_SIZE
           t == b + USER_STACK_SIZE
           e == n + 1 + StackPages
           P == PAGE_SIZE
           V == VA_SIZE
<1>1. /\ P \in Nat \ {0} /\ TopPage \in Nat \ {0} /\ StackPages \in 1 .. TopPage
      /\ V = TopPage * P + P /\ USER_STACK_SIZE = StackPages * P
  BY Layout
<1>2. V = (TopPage + 1) * P /\ V \in Nat \ {0}
  BY <1>1
<1>3. b = (n + 1) * P /\ n + 1 \in Nat /\ e \in Nat
  BY <1>1
<1>4. t = e * P
  BY <1>1, <1>3, Multiples
<1> HIDE DEF V, P
<1>5. b \in Nat /\ b < V
  BY <1>1, <1>2, <1>3, Multiples DEF P
<1>6. floor(VirtAddr_from(b)) = n + 1
  <2>1. b % V = b
    BY <1>2, <1>5
  <2> QED BY <1>3, <2>1, CeilingOfPage DEF VirtAddr_from, P, V
<1>7. CASE e =< TopPage
  <2>1. t \in Nat /\ t < V
    BY <1>1, <1>2, <1>3, <1>4, <1>7, Multiples DEF P
  <2>2. t % V = t
    BY <1>2, <2>1
  <2>3. ceil(VirtAddr_from(t)) = e
    BY <1>3, <1>4, <2>2, CeilingOfPage DEF VirtAddr_from, P, V
  <2> QED BY <1>1, <1>3, <1>6, <1>7, <2>3 DEF StackArea, MapArea
<1>8. CASE e > TopPage
  <2> DEFINE f == e - (TopPage + 1)
  <2>1. f \in Nat /\ f < n + 1 /\ f < TopPage + 1
    BY <1>1, <1>3, <1>8
  <2>2. t = V + f * P
    <3>1. f * P = e * P - (TopPage + 1) * P /\ e * P \in Int /\ (TopPage + 1) * P \in Int
      BY <1>1, <1>3, Multiples DEF P
    <3> QED BY <1>2, <1>4, <3>1
  <2>3. f * P \in Nat /\ f * P < V
    BY <1>1, <1>2, <2>1, Multiples DEF P
  <2> HIDE DEF f
  <2>4. (V + f * P) % V = f * P
    <3>1. \A x \in Nat : x < V => (V + x) % V = x
      BY <1>2
    <3> QED BY <2>3, <3>1
  <2>5. ceil(VirtAddr_from(t)) = f
    BY <2>1, <2>2, <2>4, CeilingOfPage DEF VirtAddr_from, P, V
  <2> QED BY <1>1, <1>3, <1>6, <1>8, <2>1, <2>5 DEF StackArea, MapArea
<1> QED BY <1>1, <1>3, <1>7, <1>8

(* The trap context has the page below the top one.                        *)
LEMMA TrapContextLayout ==
  /\ TrapContextArea.l = TopPage - 1 /\ TrapContextArea.r = TopPage
  /\ TrapContextArea.perm = {"R", "W"} /\ TrapContextArea.data = NoData
<1>1. TopPage - 1 \in Nat /\ TopPage \in Nat
  BY Layout
<1>2. floor(TRAP_CONTEXT) = TopPage - 1 /\ ceil(TRAMPOLINE) = TopPage
  BY <1>1, Layout, CeilingOfPage
<1> QED BY <1>2 DEF TrapContextArea, MapArea

-------------------------------------------------------------------------------
(* The inductive invariant.                                                *)

Pushing == at \in {"map", "copy", "pushed"}

\* The end of the part of the area that is mapped, and the number of bytes
\* copied into it.
Reached == IF at = "map" THEN vpn ELSE area.r
Copied == IF at = "map" THEN 0 ELSE start

Types ==
  /\ image \in Image /\ pool \in Nat /\ current \in 1 .. pool + 1
  /\ mem \in [1 .. pool -> [0 .. LastByte -> Int]]
  /\ max_end_vpn \in 0 .. TopPage - 1
  /\ i \in 1 .. Len(image) + 1
  /\ vpn \in 0 .. TopPage /\ start \in Nat /\ user_stack_top \in Nat
  /\ at \in {"headers", "map", "copy", "pushed", "done", "panic"}

\* The three kinds of area, and what is known while one of them is pushed.
SegmentPhase ==
  /\ i =< Len(image) /\ image[i].type = "Load" /\ area = SegmentArea(image[i])
  /\ max_end_vpn = area.r /\ user_stack_top = 0

StackIsSet ==
  /\ i > Len(image)
  /\ user_stack_top = max_end_vpn * PAGE_SIZE + PAGE_SIZE + USER_STACK_SIZE
  /\ max_end_vpn + 1 + StackPages =< TopPage

StackPhase == StackIsSet /\ area = StackArea(max_end_vpn)
TrapPhase == StackIsSet /\ area = TrapContextArea

Phases ==
  /\ at = "headers" => user_stack_top = 0
  /\ Pushing => SegmentPhase \/ StackPhase \/ TrapPhase
  /\ at = "done" => StackIsSet

Positions ==
  /\ at = "map" => area.l =< vpn /\ vpn =< area.r
  /\ at = "copy" => /\ area.data # NoData
                    /\ area.l =< vpn /\ vpn < area.r
                    /\ start = (vpn - area.l) * PAGE_SIZE
                    /\ start = 0 \/ start < area.data.len
  /\ at = "pushed" => area.data.len =< start

\* Every page has a frame of its own.
OwnFrames(tb, cur) ==
  /\ DOMAIN tb \subseteq 0 .. TopPage
  /\ TopPage \in DOMAIN tb /\ tb[TopPage].ppn = 0
  /\ \A n \in DOMAIN tb \ {TopPage} : tb[n].ppn \in 1 .. cur - 1
  /\ \A m, n \in DOMAIN tb \ {TopPage} : tb[m].ppn = tb[n].ppn => m = n

\* Frames that were handed out hold nothing of a former owner.
Cleared(mm, cur) == \A f \in 1 .. cur - 1 : \A o \in 0 .. LastByte : mm[f][o] # Old

\* The stack, if it is placed, leaves the page of the trap context free.
Fits == user_stack_top =< TRAP_CONTEXT

AllBelow(tb, e) == \A n \in DOMAIN tb \ {TopPage} : n < e

Extent ==
  /\ at = "headers" => AllBelow(table, max_end_vpn)
  /\ Pushing /\ Fits => AllBelow(table, Reached)
  /\ Pushing /\ area = TrapContextArea /\ ~Fits => at = "map" /\ vpn = area.l
  /\ at = "done" => Fits
  /\ (Pushing \/ at = "done") /\ i > Len(image) => max_end_vpn \notin DOMAIN table

UserPages(tb) == \A n \in DOMAIN tb : "U" \in tb[n].perm <=> n < TopPage - 1

\* What page n of area a holds after the first s bytes of its data are copied.
ByteOf(a, k, s) == IF k < s /\ k < a.data.len THEN a.data.offset + k ELSE Zero

PageIs(tb, mm, n, a, s) ==
  /\ n \in DOMAIN tb /\ tb[n].perm = a.perm
  /\ \A o \in 0 .. LastByte : mm[tb[n].ppn][o] = ByteOf(a, (n - a.l) * PAGE_SIZE + o, s)

Filled(tb, mm, a, e, s) == \A n \in a.l .. e - 1 : PageIs(tb, mm, n, a, s)

SegmentIn(tb, mm, h) == Filled(tb, mm, SegmentArea(h), SegmentArea(h).r, h.file_size)

\* The segments behind the loop, and those before it.
Loaded ==
  \A j \in 1 .. Len(image) : j < i /\ image[j].type = "Load" =>
    SegmentArea(image[j]).r =< max_end_vpn /\ SegmentIn(table, mem, image[j])

Upcoming ==
  at = "headers" => \A j \in i .. Len(image) : image[j].type = "Load" =>
                      max_end_vpn =< SegmentArea(image[j]).l

StackIn(tb, e) ==
  \A n \in e + 1 .. e + StackPages : n \in DOMAIN tb /\ tb[n].perm = {"R", "W", "U"}

Inv ==
  /\ Types
  /\ Phases
  /\ Positions
  /\ OwnFrames(table, current)
  /\ Cleared(mem, current)
  /\ Extent
  /\ Fits => UserPages(table)
  /\ Pushing => Filled(table, mem, area, Reached, Copied)
  /\ Loaded
  /\ Upcoming
  /\ (Pushing /\ area = TrapContextArea) \/ at = "done" => StackIn(table, max_end_vpn)
  /\ FailsOnlyForLackOfRoom

-------------------------------------------------------------------------------
(* What the invariant says of the area being pushed.                       *)

(* The top of the stack in pages.                                          *)
LEMMA StackTop ==
  ASSUME NEW n \in 0 .. TopPage - 1
  PROVE  LET t == n * PAGE_SIZE + PAGE_SIZE + USER_STACK_SIZE
         IN /\ t \in Nat /\ t = (n + 1 + StackPages) * PAGE_SIZE
            /\ t =< TRAP_CONTEXT <=> n + 1 + StackPages =< TopPage - 1
            /\ t - USER_STACK_SIZE = (n + 1) * PAGE_SIZE
<1> DEFINE e == n + 1 + StackPages
           t == n * PAGE_SIZE + PAGE_SIZE + USER_STACK_SIZE
<1>1. /\ PAGE_SIZE \in Nat \ {0} /\ TopPage \in Nat \ {0} /\ StackPages \in 1 .. TopPage
      /\ USER_STACK_SIZE = StackPages * PAGE_SIZE /\ TRAP_CONTEXT = (TopPage - 1) * PAGE_SIZE
  BY Layout
<1>2. e \in Nat /\ n + 1 \in Nat /\ TopPage - 1 \in Nat
  BY <1>1
<1>3. n * PAGE_SIZE + PAGE_SIZE = (n + 1) * PAGE_SIZE
  BY <1>1
<1>4. (n + 1) * PAGE_SIZE + StackPages * PAGE_SIZE = e * PAGE_SIZE
  BY <1>1, <1>2, Multiples
<1>5. t = e * PAGE_SIZE /\ (n + 1) * PAGE_SIZE \in Nat /\ e * PAGE_SIZE \in Nat
  BY <1>1, <1>2, <1>3, <1>4
<1>6. t - USER_STACK_SIZE = (n + 1) * PAGE_SIZE
  BY <1>1, <1>3, <1>5
<1> HIDE DEF e
<1>7. t =< TRAP_CONTEXT <=> e =< TopPage - 1
  <2> DEFINE d == TopPage - 1
  <2>1. d \in Nat /\ d * PAGE_SIZE = TRAP_CONTEXT
    BY <1>1, <1>2
  <2> HIDE DEF d
  <2>2. d < e <=> d * PAGE_SIZE < e * PAGE_SIZE
    <3>1. d \in Int /\ e \in Int
      BY <1>2, <2>1
    <3> QED BY <3>1, Order
  <2>3. t \in Nat /\ TRAP_CONTEXT \in Nat
    BY <1>1, <1>5, <2>1
  <2>4. d < e <=> TRAP_CONTEXT < t
    BY <1>5, <2>1, <2>2
  <2> HIDE DEF t
  <2>5. t =< TRAP_CONTEXT <=> e =< d
    BY <1>2, <2>1, <2>3, <2>4
  <2> QED BY <2>5 DEF d
<1> QED BY <1>5, <1>6, <1>7 DEF e

\* A rigid summary of the area a that is pushed, fit telling whether the
\* stack, if placed, leaves room.
AreaIs(a, fit) ==
  /\ a.l \in Nat /\ a.r \in Nat /\ a.l =< a.r /\ a.r =< TopPage
  /\ a.data.offset \in Nat /\ a.data.len \in Int
  /\ fit => \A n \in a.l .. a.r - 1 : "U" \in a.perm <=> n < TopPage - 1

(* The area being pushed lies below the top page, and reaches the page of  *)
(* the trap context only as the trap context.                              *)
LEMMA AreaFacts ==
  ASSUME Types, Phases, Pushing
  PROVE  /\ AreaIs(area, Fits)
         /\ area.data # NoData => SegmentPhase
<1>1. TopPage \in Nat \ {0} /\ StackPages \in 1 .. TopPage /\ max_end_vpn \in 0 .. TopPage - 1
  BY Layout DEF Types
<1>2. NoData.offset = 0 /\ NoData.len = -1
  BY DEF NoData
<1>3. CASE SegmentPhase
  <2>1. IsSegment(image[i])
    BY <1>3, Segments DEF SegmentPhase, Types
  <2>2. area.perm = map_perm(image[i]) /\ area.data = DataOf(image[i])
    BY <1>3, <2>1, SegmentPages DEF SegmentPhase
  <2>3. "U" \in area.perm /\ area.data.offset \in Nat /\ area.data.len \in Nat
    BY <2>1, <2>2 DEF map_perm, DataOf, IsSegment
  <2>4. /\ area.l \in Nat /\ area.r \in Nat /\ area.l < area.r /\ area.r =< TopPage - 1
    BY <1>3, <2>1, SegmentPages DEF SegmentPhase
  <2> QED BY <1>1, <1>3, <2>3, <2>4 DEF AreaIs
<1>4. CASE StackPhase
  <2>1. /\ area.l = max_end_vpn + 1 /\ area.r = max_end_vpn + 1 + StackPages
        /\ area.r =< TopPage /\ area.perm = {"R", "W", "U"} /\ area.data = NoData
    BY <1>4, StackLayout DEF StackPhase, StackIsSet, Types
  <2>2. Fits => area.r =< TopPage - 1
    BY <1>1, <1>4, <2>1, StackTop DEF StackPhase, StackIsSet, Fits
  <2>3. "U" \in area.perm
    BY <2>1
  <2> QED BY <1>1, <1>2, <2>1, <2>2, <2>3 DEF AreaIs
<1>5. CASE TrapPhase
  <2>1. /\ area.l = TopPage - 1 /\ area.r = TopPage
        /\ area.perm = {"R", "W"} /\ area.data = NoData
    BY <1>5, TrapContextLayout DEF TrapPhase
  <2>2. "U" \notin area.perm
    BY <2>1
  <2> QED BY <1>1, <1>2, <2>1, <2>2 DEF AreaIs
<1> QED BY <1>3, <1>4, <1>5 DEF Phases

-------------------------------------------------------------------------------
(* The steps.                                                              *)

(* from_elf begins with nothing but the trampoline.                        *)
LEMMA InitInv == Init => Inv
<1> SUFFICES ASSUME Init PROVE Inv
  OBVIOUS
<1>1. PAGE_SIZE \in Nat \ {0} /\ TopPage \in Nat \ {0} /\ TRAP_CONTEXT \in Nat /\ pool \in Nat
  BY Layout, SizeAssumption, Multiples DEF Init
<1>2. /\ DOMAIN table = {TopPage} /\ table[TopPage] = [ppn |-> 0, perm |-> {"R", "X"}]
  BY DEF Init, map_trampoline, TopPage
<1>3. at \in {"headers", "panic"} /\ ~Pushing /\ at # "done"
      /\ current \in 1 .. pool + 1 /\ current =< 4 /\ (at = "panic" => current > pool)
  BY <1>1 DEF Init, Pushing, Smaller
<1>4. Len(image) \in Nat /\ \A j \in 1 .. Len(image) : image[j].type = "Load" => IsSegment(image[j])
  BY Segments DEF Init
<1>5. Types
  <2>1. mem \in [1 .. pool -> [0 .. LastByte -> Int]]
    BY DEF Init, frame_alloc, FrameTracker_new, Old, Zero
  <2>2. image \in Image /\ max_end_vpn = 0 /\ i = 1 /\ vpn = 0 /\ start = 0 /\ user_stack_top = 0
    BY DEF Init
  <2> QED BY <1>1, <1>3, <1>4, <2>1, <2>2 DEF Types
<1>6. Phases /\ Positions
  BY <1>3 DEF Init, Phases, Positions
<1>7. OwnFrames(table, current) /\ Cleared(mem, current)
  <2>1. OwnFrames(table, current)
    BY <1>1, <1>2 DEF OwnFrames
  <2>2. ASSUME NEW f \in 1 .. current - 1, NEW o \in 0 .. LastByte PROVE mem[f][o] # Old
    <3>1. f \in 1 .. pool /\ f \in 1 .. 3
      BY <1>1, <1>3
    <3>2. mem[f] = FrameTracker_new
      BY <3>1 DEF Init, frame_alloc
    <3> QED BY <3>2 DEF FrameTracker_new, Zero, Old
  <2> QED BY <2>1, <2>2 DEF Cleared
<1>8. Extent /\ UserPages(table)
  <2>1. "U" \notin table[TopPage].perm
    BY <1>2
  <2>2. Extent
    BY <1>2, <1>3 DEF Extent, AllBelow
  <2> QED BY <1>1, <1>2, <2>1, <2>2 DEF UserPages
<1>9. Loaded
  BY <1>4 DEF Init, Loaded
<1>10. Upcoming
  BY <1>4, SegmentPages DEF Init, Upcoming
<1> QED BY <1>3, <1>5, <1>6, <1>7, <1>8, <1>9, <1>10 DEF Inv, FailsOnlyForLackOfRoom

(* An assertion that fails for lack of room.                               *)
LEMMA PanicInv ==
  ASSUME Inv, panic, current > pool \/ ~Fits
  PROVE  Inv'
<1>1. /\ at' = "panic" /\ image' = image /\ pool' = pool /\ current' = current /\ mem' = mem
      /\ table' = table /\ max_end_vpn' = max_end_vpn /\ i' = i /\ area' = area /\ vpn' = vpn
      /\ start' = start /\ user_stack_top' = user_stack_top
  BY DEF panic
<1>2. ~Pushing' /\ at' # "headers" /\ at' # "done" /\ at' # "map" /\ at' # "copy" /\ at' # "pushed"
  BY <1>1 DEF Pushing
<1>3. Types'
  BY <1>1 DEF Inv, Types
<1>4. Phases' /\ Positions' /\ Extent' /\ Upcoming'
  BY <1>2 DEF Phases, Positions, Extent, Upcoming
<1>5. OwnFrames(table, current)' /\ Cleared(mem, current)' /\ (Fits => UserPages(table))'
  BY <1>1 DEF Inv, Fits
<1>6. Loaded'
  BY <1>1 DEF Inv, Loaded
<1>7. FailsOnlyForLackOfRoom'
  <2>1. user_stack_top \in Nat /\ TRAP_CONTEXT \in Int
    BY Layout, Multiples DEF Inv, Types
  <2> QED BY <1>1, <2>1 DEF FailsOnlyForLackOfRoom, Fits
<1> QED BY <1>2, <1>3, <1>4, <1>5, <1>6, <1>7 DEF Inv

(* A header: a LOAD segment begins behind all that is mapped.              *)
LEMMA program_headerInv ==
  ASSUME Inv, program_header
  PROVE  Inv'
<1> DEFINE h == image[i]
           a == SegmentArea(h)
<1>1. /\ at = "headers" /\ i =< Len(image) /\ max_end_vpn' = end_after(h)
      /\ image' = image /\ pool' = pool /\ current' = current /\ mem' = mem /\ table' = table
      /\ start' = start /\ user_stack_top' = user_stack_top
  BY DEF program_header
<1>2. /\ i \in 1 .. Len(image) /\ image \in Image /\ user_stack_top = 0 /\ Len(image) \in Nat
      /\ TopPage \in Nat \ {0}
  BY <1>1, Segments, Layout DEF Inv, Types, Phases
<1>3. Fits /\ Fits'
  BY <1>1, <1>2, Layout, Multiples DEF Fits
<1>4. /\ OwnFrames(table, current)' /\ Cleared(mem, current)' /\ (Fits => UserPages(table))'
  BY <1>1, <1>3 DEF Inv
<1>5. CASE h.type # "Load"
  <2>1. /\ i' = i + 1 /\ max_end_vpn' = max_end_vpn /\ area' = area /\ vpn' = vpn /\ at' = at
    BY <1>1, <1>5 DEF program_header, end_after
  <2>2. ~Pushing' /\ at' = "headers"
    BY <1>1, <2>1 DEF Pushing
  <2>3. Types'
    BY <1>1, <1>2, <2>1 DEF Inv, Types
  <2>4. Phases' /\ Positions' /\ Extent'
    BY <1>1, <1>2, <2>1, <2>2 DEF Inv, Phases, Positions, Extent
  <2>5. Loaded'
    BY <1>1, <1>2, <1>5, <2>1 DEF Inv, Loaded
  <2>6. Upcoming'
    BY <1>1, <1>2, <2>1 DEF Inv, Upcoming
  <2> QED BY <1>4, <2>2, <2>3, <2>4, <2>5, <2>6 DEF Inv, FailsOnlyForLackOfRoom
<1>6. CASE h.type = "Load"
  <2>1. IsSegment(h)
    BY <1>2, <1>6, Segments
  <2>2. /\ a.l \in Nat /\ a.r \in Nat /\ a.l < a.r /\ a.r =< TopPage - 1
    BY <2>1, SegmentPages
  <2>3. /\ i' = i /\ max_end_vpn' = a.r /\ area' = a /\ vpn' = a.l /\ at' = "map"
    BY <1>1, <1>6, <2>2 DEF program_header, end_after, push
  <2>4. Pushing' /\ Reached' = a.l /\ Copied' = 0 /\ max_end_vpn =< a.l
    BY <1>1, <1>2, <1>6, <2>3 DEF Inv, Pushing, Reached, Copied, Upcoming
  <2>5. Types'
    BY <1>1, <1>2, <2>2, <2>3 DEF Inv, Types
  <2>6. Phases'
    BY <1>1, <1>2, <1>6, <2>3 DEF Phases, SegmentPhase
  <2>7. Positions'
    BY <2>2, <2>3 DEF Positions
  <2>8. Extent'
    <3>1. AllBelow(table, a.l)
      <4>1. \A n \in DOMAIN table : n \in 0 .. TopPage
        BY DEF Inv, OwnFrames
      <4>2. max_end_vpn \in Nat
        BY DEF Inv, Types
      <4> QED BY <1>1, <2>2, <2>4, <4>1, <4>2 DEF Inv, Extent, AllBelow
    <3>2. ~(area' = TrapContextArea /\ ~Fits')
      BY <1>3
    <3> QED BY <1>1, <1>2, <1>3, <2>3, <2>4, <3>1, <3>2 DEF Extent
  <2>9. Filled(table, mem, area, Reached, Copied)'
    BY <2>2, <2>3, <2>4 DEF Filled
  <2>10. Loaded'
    <3> SUFFICES ASSUME NEW j \in 1 .. Len(image), j < i, image[j].type = "Load"
                 PROVE  SegmentArea(image[j]).r =< a.r /\ SegmentIn(table, mem, image[j])
      BY <1>1, <2>3 DEF Loaded
    <3>1. SegmentArea(image[j]).r =< a.l /\ SegmentArea(image[j]).r \in Nat
      BY <1>2, <1>6, Ascending, Segments, SegmentPages
    <3> QED BY <2>2, <3>1 DEF Inv, Loaded
  <2>11. Upcoming' /\ FailsOnlyForLackOfRoom' /\ at' # "done"
    BY <2>3 DEF Upcoming, FailsOnlyForLackOfRoom
  <2>12. area' # TrapContextArea
    <3>1. a.r # TrapContextArea.r
      BY <1>2, <2>2, TrapContextLayout
    <3> QED BY <2>3, <3>1
  <2> QED BY <1>4, <2>5, <2>6, <2>7, <2>8, <2>9, <2>10, <2>11, <2>12 DEF Inv
<1> QED BY <1>5, <1>6

(* Every header is behind: the stack lies above a page that stays free, or *)
(* there is no room for it.                                                *)
LEMMA user_stackInv ==
  ASSUME Inv, user_stack
  PROVE  Inv'
<1> DEFINE M == max_end_vpn
           a == StackArea(M)
<1>1. /\ at = "headers" /\ i > Len(image) /\ user_stack_top' = M * PAGE_SIZE + PAGE_SIZE + USER_STACK_SIZE
      /\ area' = a /\ vpn' = a.l /\ at' = IF a.l =< a.r THEN "map" ELSE "panic"
      /\ image' = image /\ pool' = pool /\ current' = current /\ mem' = mem /\ table' = table
      /\ max_end_vpn' = M /\ i' = i /\ start' = start
  BY DEF user_stack, user_stack_bottom, push, StackArea
<1>2. /\ M \in 0 .. TopPage - 1 /\ TopPage \in Nat \ {0} /\ StackPages \in 1 .. TopPage
      /\ image \in Image /\ Len(image) \in Nat /\ user_stack_top = 0
  BY <1>1, Segments, Layout DEF Inv, Types, Phases
<1>3. /\ user_stack_top' \in Nat
      /\ Fits' <=> M + 1 + StackPages =< TopPage - 1
  BY <1>1, <1>2, StackTop DEF Fits
<1>4. Fits
  BY <1>2, Layout, Multiples DEF Fits
<1>5. a.l = M + 1 /\ a.r \in Nat /\ (a.l =< a.r <=> M + 1 + StackPages =< TopPage)
  BY <1>2, StackLayout
<1>6. Types'
  BY <1>1, <1>2, <1>3, <1>5 DEF Inv, Types
<1>7. /\ OwnFrames(table, current)' /\ Cleared(mem, current)' /\ (Fits => UserPages(table))'
  BY <1>1, <1>4 DEF Inv
<1>8. Loaded'
  BY <1>1 DEF Inv, Loaded
<1>9. at' # "headers" /\ at' # "copy" /\ at' # "pushed" /\ at' # "done" /\ (Pushing' <=> a.l =< a.r)
  BY <1>1 DEF Pushing
<1>10. FailsOnlyForLackOfRoom'
  <2>1. TRAP_CONTEXT \in Int
    BY Layout, Multiples
  <2> QED BY <1>1, <1>2, <1>3, <1>5, <2>1 DEF FailsOnlyForLackOfRoom, Fits
<1>11. area' # TrapContextArea
  <2>1. a.perm = {"R", "W", "U"} /\ TrapContextArea.perm = {"R", "W"}
    BY <1>2, StackLayout, TrapContextLayout
  <2>2. "U" \in a.perm /\ "U" \notin TrapContextArea.perm
    BY <2>1
  <2> QED BY <1>1, <2>2
<1>12. Phases' /\ Upcoming' /\ Positions'
  <2>1. Pushing' => StackPhase'
    BY <1>1, <1>5, <1>9 DEF StackPhase, StackIsSet
  <2>2. Positions'
    BY <1>1, <1>2, <1>5, <1>9 DEF Positions
  <2> QED BY <1>9, <2>1, <2>2 DEF Phases, Upcoming
<1>13. Extent'
  <2>1. \A n \in DOMAIN table : n \in 0 .. TopPage
    BY DEF Inv, OwnFrames
  <2>2. AllBelow(table, M)
    BY <1>1 DEF Inv, Extent
  <2>3. AllBelow(table, M + 1) /\ M \notin DOMAIN table
    BY <1>2, <2>1, <2>2 DEF AllBelow
  <2>4. Pushing' => Reached' = M + 1
    BY <1>1, <1>5, <1>9 DEF Reached
  <2> QED BY <1>1, <1>9, <1>11, <2>3, <2>4 DEF Extent
<1>14. Pushing' => Filled(table, mem, area, Reached, Copied)'
  <2>1. Pushing' => Reached' = a.l
    BY <1>1, <1>9 DEF Reached
  <2>2. a.l .. a.l - 1 = {}
    BY <1>2, <1>5
  <2> QED BY <1>1, <2>1, <2>2 DEF Filled
<1> QED BY <1>6, <1>7, <1>8, <1>9, <1>10, <1>11, <1>12, <1>13, <1>14 DEF Inv

(* All pages of the area are mapped.                                       *)
LEMMA mappedInv ==
  ASSUME Inv, mapped
  PROVE  Inv'
<1>1. /\ at = "map" /\ vpn = area.r /\ at' = (IF area.data = NoData THEN "pushed" ELSE "copy")
      /\ vpn' = area.l /\ start' = 0
      /\ image' = image /\ pool' = pool /\ current' = current /\ mem' = mem /\ table' = table
      /\ max_end_vpn' = max_end_vpn /\ i' = i /\ area' = area /\ user_stack_top' = user_stack_top
  BY DEF mapped
<1>2. Pushing /\ Pushing' /\ at' # "headers" /\ at' # "done" /\ at' # "panic" /\ at' # "map"
  BY <1>1 DEF Pushing
<1>3. AreaIs(area, Fits) /\ (area.data # NoData => SegmentPhase)
  BY <1>2, AreaFacts DEF Inv
<1>4. Reached = area.r /\ Reached' = area.r /\ Copied = 0 /\ Copied' = 0
  BY <1>1, <1>2 DEF Reached, Copied
<1>5. Types'
  BY <1>1, <1>2, <1>3, Layout DEF Inv, Types, AreaIs
<1>6. Phases'
  BY <1>1, <1>2 DEF Inv, Phases, SegmentPhase, StackPhase, TrapPhase, StackIsSet
<1>7. Positions'
  <2>1. CASE area.data = NoData
    <3>1. area.data.len =< 0
      BY <2>1 DEF NoData
    <3> QED BY <1>1, <2>1, <3>1 DEF Positions
  <2>2. CASE area.data # NoData
    <3>1. area.l \in Nat /\ area.l < area.r
      <4>1. IsSegment(image[i]) /\ area = SegmentArea(image[i])
        BY <1>3, <2>2, Segments DEF SegmentPhase, Inv, Types
      <4> QED BY <4>1, SegmentPages
    <3>2. (area.l - area.l) * PAGE_SIZE = 0
      BY <3>1, Layout
    <3>3. vpn' = area.l /\ start' = 0 /\ area' = area /\ at' = "copy"
      BY <1>1, <2>2
    <3> QED BY <2>2, <3>1, <3>2, <3>3 DEF Positions
  <2> QED BY <2>1, <2>2
<1>8. Extent'
  <2>1. ~(area = TrapContextArea /\ ~Fits)
    BY <1>1, <1>2, Layout, TrapContextLayout DEF Inv, Extent
  <2>2. Fits' = Fits
    BY <1>1 DEF Fits
  <2> QED BY <1>1, <1>2, <1>4, <2>1, <2>2 DEF Inv, Extent
<1>9. /\ OwnFrames(table, current)' /\ Cleared(mem, current)' /\ (Fits => UserPages(table))'
  BY <1>1 DEF Inv, Fits
<1>10. Filled(table, mem, area, Reached, Copied)'
  BY <1>1, <1>2, <1>4 DEF Inv
<1>11. Loaded'
  BY <1>1 DEF Inv, Loaded
<1>12. Upcoming' /\ FailsOnlyForLackOfRoom'
  BY <1>2 DEF Upcoming, FailsOnlyForLackOfRoom
<1>13. area' = TrapContextArea => StackIn(table, max_end_vpn)'
  BY <1>1, <1>2 DEF Inv
<1> QED BY <1>2, <1>5, <1>6, <1>7, <1>8, <1>9, <1>10, <1>11, <1>12, <1>13 DEF Inv

(* A page stays as it is where neither its entry nor its frame changes.    *)
LEMMA SamePage ==
  ASSUME NEW tb, NEW mm, NEW tb2, NEW mm2, NEW n, NEW a, NEW s,
         PageIs(tb, mm, n, a, s), n \in DOMAIN tb2, tb2[n] = tb[n],
         mm2[tb[n].ppn] = mm[tb[n].ppn]
  PROVE  PageIs(tb2, mm2, n, a, s)
BY DEF PageIs

\* One page more, in a frame that was cleared.
Mapping(tb, mm, tb2, mm2, v, f, perm) ==
  /\ v \notin DOMAIN tb /\ DOMAIN tb2 = DOMAIN tb \cup {v}
  /\ tb2[v] = [ppn |-> f, perm |-> perm]
  /\ \A n \in DOMAIN tb : tb2[n] = tb[n]
  /\ \A o \in 0 .. LastByte : mm2[f][o] = Zero
  /\ \A g \in 1 .. f - 1 : mm2[g] = mm[g]

(* Mapping a page leaves the pages that were there as they were.           *)
LEMMA MappingKeeps ==
  ASSUME NEW tb, NEW mm, NEW tb2, NEW mm2, NEW v, NEW f, NEW perm,
         Mapping(tb, mm, tb2, mm2, v, f, perm), OwnFrames(tb, f),
         NEW n, n # TopPage, NEW a, NEW s, PageIs(tb, mm, n, a, s)
  PROVE  PageIs(tb2, mm2, n, a, s)
<1>1. n \in DOMAIN tb /\ n \in DOMAIN tb2 /\ tb2[n] = tb[n]
  BY DEF PageIs, Mapping
<1>2. tb[n].ppn \in 1 .. f - 1
  BY <1>1 DEF OwnFrames
<1>3. mm2[tb[n].ppn] = mm[tb[n].ppn]
  BY <1>2 DEF Mapping
<1> QED BY <1>1, <1>3, SamePage

(* The new page has a frame of its own, of which nothing old is left.      *)
LEMMA MappingFrames ==
  ASSUME NEW tb, NEW mm, NEW tb2, NEW mm2, NEW v \in 0 .. TopPage, NEW f \in Nat \ {0}, NEW perm,
         NEW c \in Nat, f < c, \A g \in f .. c - 1 : \A o \in 0 .. LastByte : mm2[g][o] = Zero,
         Mapping(tb, mm, tb2, mm2, v, f, perm), OwnFrames(tb, f), Cleared(mm, f)
  PROVE  OwnFrames(tb2, c) /\ Cleared(mm2, c)
<1>1. /\ v # TopPage /\ v \notin DOMAIN tb /\ DOMAIN tb2 = DOMAIN tb \cup {v}
      /\ tb2[v].ppn = f /\ \A n \in DOMAIN tb : tb2[n] = tb[n]
  BY DEF Mapping, OwnFrames
<1>2. \A n \in DOMAIN tb \ {TopPage} : tb[n].ppn \in 1 .. f - 1
  BY DEF OwnFrames
<1>3. DOMAIN tb2 \subseteq 0 .. TopPage /\ TopPage \in DOMAIN tb2 /\ tb2[TopPage].ppn = 0
  BY <1>1 DEF OwnFrames
<1>4. \A n \in DOMAIN tb2 \ {TopPage} : tb2[n].ppn \in 1 .. c - 1
  BY <1>1, <1>2
<1>5. \A m, n \in DOMAIN tb2 \ {TopPage} : tb2[m].ppn = tb2[n].ppn => m = n
  <2> SUFFICES ASSUME NEW m \in DOMAIN tb2 \ {TopPage}, NEW n \in DOMAIN tb2 \ {TopPage},
                      tb2[m].ppn = tb2[n].ppn
               PROVE  m = n
    OBVIOUS
  <2>1. CASE m = v \/ n = v
    BY <1>1, <1>2, <2>1
  <2>2. CASE m # v /\ n # v
    <3>1. tb[m].ppn = tb[n].ppn /\ m \in DOMAIN tb \ {TopPage} /\ n \in DOMAIN tb \ {TopPage}
      BY <1>1, <2>2
    <3> QED BY <3>1 DEF OwnFrames
  <2> QED BY <2>1, <2>2
<1>6. Cleared(mm2, c)
  <2> SUFFICES ASSUME NEW g \in 1 .. c - 1, NEW o \in 0 .. LastByte
               PROVE  mm2[g][o] # Old
    BY DEF Cleared
  <2>1. CASE g \in f .. c - 1
    <3>1. mm2[g][o] = Zero
      BY <2>1
    <3> QED BY <3>1 DEF Zero, Old
  <2>2. CASE g \notin f .. c - 1
    <3>1. g \in 1 .. f - 1
      BY <2>2
    <3> QED BY <3>1 DEF Mapping, Cleared
  <2> QED BY <2>1, <2>2
<1> QED BY <1>3, <1>4, <1>5, <1>6 DEF OwnFrames

(* A cleared page is a page of its area of which nothing is copied yet.    *)
LEMMA NewPage ==
  ASSUME NEW tb, NEW mm, NEW tb2, NEW mm2, NEW v \in Nat, NEW f, NEW a, a.l \in Nat, a.l =< v,
         Mapping(tb, mm, tb2, mm2, v, f, a.perm)
  PROVE  PageIs(tb2, mm2, v, a, 0)
<1>1. v \in DOMAIN tb2 /\ tb2[v].perm = a.perm /\ tb2[v].ppn = f
  BY DEF Mapping
<1>2. ASSUME NEW o \in 0 .. LastByte
      PROVE  mm2[f][o] = ByteOf(a, (v - a.l) * PAGE_SIZE + o, 0)
  <2>1. (v - a.l) * PAGE_SIZE \in Nat
    BY Layout
  <2>2. o \in Nat
    BY Layout DEF LastByte
  <2>3. ~((v - a.l) * PAGE_SIZE + o < 0)
    BY <2>1, <2>2
  <2> QED BY <2>3 DEF Mapping, ByteOf
<1> QED BY <1>1, <1>2 DEF PageIs

(* The segments loaded so far stay loaded where their pages stay.          *)
LEMMA StillLoaded ==
  ASSUME Types, Loaded, image' = image, i' = i, max_end_vpn' = max_end_vpn,
         \A n \in 0 .. max_end_vpn - 1 : \A a, s :
            PageIs(table, mem, n, a, s) /\ (i =< Len(image) => n < SegmentArea(image[i]).l)
            => PageIs(table', mem', n, a, s),
         i =< Len(image) => image[i].type = "Load"
  PROVE  Loaded'
<1> SUFFICES ASSUME NEW j \in 1 .. Len(image), j < i, image[j].type = "Load"
             PROVE  /\ SegmentArea(image[j]).r =< max_end_vpn
                    /\ SegmentIn(table', mem', image[j])
  BY DEF Loaded
<1> DEFINE b == SegmentArea(image[j])
<1>1. b.r =< max_end_vpn /\ SegmentIn(table, mem, image[j])
  BY DEF Loaded
<1>2. b.l \in Nat /\ b.r \in Nat /\ max_end_vpn \in Nat
  BY Segments, SegmentPages DEF Types
<1>3. i =< Len(image) => b.r =< SegmentArea(image[i]).l /\ SegmentArea(image[i]).l \in Nat
  BY Ascending, Segments, SegmentPages DEF Types
<1> HIDE DEF b
<1>4. ASSUME NEW n \in b.l .. b.r - 1
      PROVE  PageIs(table', mem', n, b, image[j].file_size)
  <2>1. PageIs(table, mem, n, b, image[j].file_size)
    BY <1>1 DEF SegmentIn, Filled, b
  <2>2. n \in 0 .. max_end_vpn - 1 /\ (i =< Len(image) => n < SegmentArea(image[i]).l)
    BY <1>1, <1>2, <1>3
  <2> QED BY <2>1, <2>2
<1> QED BY <1>1, <1>4 DEF SegmentIn, Filled, b

(* The frames run out, or the page is taken: frames that nothing used may  *)
(* have been handed out before.                                            *)
LEMMA NoRoomInv ==
  ASSUME Inv, at = "map", at' = "panic", current' > pool \/ ~Fits,
         current \in Nat, current' \in current .. pool + 1,
         mem' \in [1 .. pool -> [0 .. LastByte -> Int]],
         \A g \in 1 .. current - 1 : mem'[g] = mem[g],
         \A g \in current .. current' - 1 : \A o \in 0 .. LastByte : mem'[g][o] = Zero,
         image' = image, pool' = pool, table' = table, max_end_vpn' = max_end_vpn, i' = i,
         area' = area, vpn' = vpn, start' = start, user_stack_top' = user_stack_top
  PROVE  Inv'
<1>1. ~Pushing' /\ at' # "headers" /\ at' # "done" /\ at' # "map" /\ at' # "copy" /\ at' # "pushed"
  BY DEF Pushing
<1>2. Types'
  <2>1. current' \in 1 .. pool' + 1
    BY DEF Inv, Types
  <2> QED BY <2>1 DEF Inv, Types
<1>3. Phases' /\ Positions' /\ Extent' /\ Upcoming' /\ (Fits => UserPages(table))'
  BY <1>1 DEF Inv, Phases, Positions, Extent, Upcoming, Fits
<1>4. OwnFrames(table, current)' /\ Cleared(mem, current)'
  <2>1. \A f \in 1 .. current - 1 : f \in 1 .. current' - 1
    <3>1. pool \in Nat
      BY DEF Inv, Types
    <3>2. current' \in Int /\ current =< current'
      BY <3>1
    <3> QED BY <3>2
  <2>2. OwnFrames(table, current)'
    BY <2>1 DEF Inv, OwnFrames
  <2>3. ASSUME NEW g \in 1 .. current' - 1, NEW o \in 0 .. LastByte PROVE mem'[g][o] # Old
    <3>1. CASE g \in 1 .. current - 1
      BY <3>1 DEF Inv, Cleared
    <3>2. CASE g \in current .. current' - 1
      <4>1. mem'[g][o] = Zero
        BY <3>2
      <4> QED BY <4>1 DEF Zero, Old
    <3>3. pool \in Nat
      BY DEF Inv, Types
    <3> QED BY <3>1, <3>2, <3>3
  <2> QED BY <2>2, <2>3 DEF Cleared
<1>5. Loaded'
  <2>1. \A n, a, s : n # TopPage /\ PageIs(table, mem, n, a, s) => PageIs(table', mem', n, a, s)
    BY SamePage DEF Inv, OwnFrames, PageIs
  <2>2. i =< Len(image) => image[i].type = "Load"
    <3>1. i \in Nat /\ Len(image) \in Nat /\ Pushing
      BY Segments DEF Inv, Types, Pushing
    <3> QED BY <3>1 DEF Inv, Phases, SegmentPhase, StackPhase, TrapPhase, StackIsSet
  <2>3. \A n \in 0 .. max_end_vpn - 1 : n # TopPage
    BY Layout DEF Inv, Types
  <2> QED BY <2>1, <2>2, <2>3, StillLoaded DEF Inv
<1>6. FailsOnlyForLackOfRoom'
  <2>1. user_stack_top \in Nat /\ TRAP_CONTEXT \in Int
    BY Layout, Multiples DEF Inv, Types
  <2> QED BY <2>1 DEF FailsOnlyForLackOfRoom, Fits
<1> QED BY <1>1, <1>2, <1>3, <1>4, <1>5, <1>6 DEF Inv

(* A page is mapped, or there is no room.                                  *)
LEMMA map_oneInv ==
  ASSUME Inv, map_one
  PROVE  Inv'
<1>1. at = "map" /\ vpn # area.r /\ Pushing /\ Reached = vpn /\ Copied = 0
  BY DEF map_one, Pushing, Reached, Copied
<1>2. AreaIs(area, Fits)
  BY <1>1, AreaFacts DEF Inv
<1>3. /\ area.l \in Nat /\ area.r \in Nat /\ vpn \in Nat /\ area.l =< vpn /\ vpn < area.r
      /\ area.r =< TopPage /\ TopPage \in Nat \ {0} /\ StackPages \in 1 .. TopPage
      /\ max_end_vpn \in 0 .. TopPage - 1 /\ current \in Nat \ {0} /\ pool \in Nat
  BY <1>1, <1>2, Layout DEF Inv, AreaIs, Positions, Types
<1> DEFINE c == Smaller(current + 1 + new_nodes(vpn), pool + 1)
<1>4. /\ current \in 1 .. pool + 1 /\ c \in current .. pool + 1 /\ c \in Nat
      /\ current + new_nodes(vpn) > pool => c > pool
      /\ current + new_nodes(vpn) =< pool => current \in 1 .. pool /\ current < c
  <2>1. new_nodes(vpn) \in 0 .. 2
    BY DEF new_nodes, missing
  <2>2. current \in 1 .. pool + 1
    BY DEF Inv, Types
  <2> QED BY <1>3, <2>1, <2>2 DEF Smaller
<1>5. /\ current' = c /\ mem' = frame_alloc(mem, current .. c - 1)
      /\ image' = image /\ pool' = pool /\ areas' = areas /\ max_end_vpn' = max_end_vpn /\ i' = i
      /\ area' = area /\ start' = start /\ user_stack_top' = user_stack_top
  BY DEF map_one
<1> HIDE DEF c
<1>6. mem' \in [1 .. pool -> [0 .. LastByte -> Int]]
  <2>1. FrameTracker_new \in [0 .. LastByte -> Int]
    BY DEF FrameTracker_new, Zero
  <2>2. mem \in [1 .. pool -> [0 .. LastByte -> Int]]
    BY DEF Inv, Types
  <2> QED BY <1>5, <2>1, <2>2 DEF frame_alloc
<1>7. /\ \A g \in 1 .. current - 1 : mem'[g] = mem[g]
      /\ \A g \in current .. c - 1 : \A o \in 0 .. LastByte : mem'[g][o] = Zero
  <2>1. DOMAIN mem = 1 .. pool
    BY DEF Inv, Types
  <2>2. \A g \in 1 .. current - 1 : g \in 1 .. pool /\ g \notin current .. c - 1
    BY <1>3, <1>4
  <2>3. \A g \in current .. c - 1 : g \in 1 .. pool
    BY <1>3, <1>4
  <2>4. \A g \in current .. c - 1 : mem'[g] = FrameTracker_new
    BY <1>5, <2>1, <2>3 DEF frame_alloc
  <2>5. \A g \in 1 .. current - 1 : mem'[g] = mem[g]
    BY <1>5, <2>1, <2>2 DEF frame_alloc
  <2> QED BY <2>4, <2>5 DEF FrameTracker_new
<1>8. ASSUME vpn \in DOMAIN table \/ current + new_nodes(vpn) > pool
      PROVE  Inv'
  <2>1. at' = "panic" /\ table' = table /\ vpn' = vpn
    BY <1>8 DEF map_one
  <2>2. ASSUME vpn \in DOMAIN table, Fits
        PROVE  FALSE
    BY <1>1, <1>3, <2>2 DEF Inv, Extent, AllBelow
  <2>3. c > pool \/ ~Fits
    BY <1>4, <1>8, <2>2
  <2>4. current' \in current .. pool + 1 /\ (current' > pool \/ ~Fits)
    BY <1>4, <1>5, <2>3
  <2>5. \A g \in current .. current' - 1 : \A o \in 0 .. LastByte : mem'[g][o] = Zero
    BY <1>5, <1>7
  <2> QED BY <1>1, <1>3, <1>5, <1>6, <1>7, <2>1, <2>4, <2>5, NoRoomInv
<1>9. ASSUME ~(vpn \in DOMAIN table \/ current + new_nodes(vpn) > pool)
      PROVE  Inv'
  <2>1. /\ table' = [n \in DOMAIN table \cup {vpn} |->
                       IF n = vpn THEN [ppn |-> current, perm |-> area.perm] ELSE table[n]]
        /\ vpn' = vpn + 1 /\ at' = at
    BY <1>9 DEF map_one
  <2>2. current \in 1 .. pool /\ current < c /\ vpn \notin DOMAIN table
    <3>1. new_nodes(vpn) \in 0 .. 2
      BY DEF new_nodes, missing
    <3> QED BY <1>3, <1>4, <1>9, <3>1
  <2>4. Mapping(table, mem, table', mem', vpn, current, area.perm)
    <3>1. current \in current .. c - 1
      BY <1>4, <2>2
    <3>2. \A o \in 0 .. LastByte : mem'[current][o] = Zero
      BY <1>7, <3>1
    <3>4. /\ DOMAIN table' = DOMAIN table \cup {vpn}
          /\ table'[vpn] = [ppn |-> current, perm |-> area.perm]
          /\ \A n \in DOMAIN table : table'[n] = table[n]
      BY <2>1, <2>2
    <3> QED BY <1>7, <2>2, <3>2, <3>4 DEF Mapping
  <2>5. \A n, a, s : n # TopPage /\ PageIs(table, mem, n, a, s) => PageIs(table', mem', n, a, s)
    BY <2>4, MappingKeeps DEF Inv
  <2>6. /\ DOMAIN table' = DOMAIN table \cup {vpn} /\ table'[vpn].perm = area.perm
        /\ \A n \in DOMAIN table : table'[n] = table[n]
    BY <2>4 DEF Mapping
  <2>7. Pushing' /\ Reached' = vpn + 1 /\ Copied' = 0 /\ Fits' = Fits
    BY <1>1, <1>5, <2>1 DEF Pushing, Reached, Copied, Fits
  <2>8. Types'
    BY <1>3, <1>4, <1>5, <1>6, <2>1, SMTT(30) DEF Inv, Types
  <2>9. Phases' /\ Positions'
    <3>1. Phases'
      BY <1>1, <1>5, <2>1, <2>7 DEF Inv, Phases, SegmentPhase, StackPhase, TrapPhase, StackIsSet
    <3> QED BY <1>1, <1>3, <1>5, <2>1, <3>1 DEF Positions
  <2>10. OwnFrames(table, current)' /\ Cleared(mem, current)'
    <3>1. vpn \in 0 .. TopPage
      BY <1>3
    <3>2. OwnFrames(table', c) /\ Cleared(mem', c)
      BY <1>3, <1>4, <1>7, <2>2, <2>4, <3>1, MappingFrames DEF Inv
    <3> QED BY <1>5, <2>1, <3>2
  <2>11. \A n \in DOMAIN table : n \in 0 .. TopPage
    BY DEF Inv, OwnFrames
  <2>12. Extent'
    <3>1. Fits => AllBelow(table', vpn + 1)
      BY <1>1, <1>3, <2>6, <2>11 DEF Inv, Extent, AllBelow
    <3>2. ~(area = TrapContextArea /\ ~Fits)
      <4> SUFFICES ASSUME area = TrapContextArea, ~Fits PROVE FALSE
        OBVIOUS
      <4>1. vpn = TopPage - 1
        BY <1>1, TrapContextLayout DEF Inv, Extent
      <4>2. TrapPhase
        <5>1. ~SegmentPhase
          <6>1. SegmentPhase => IsSegment(image[i]) /\ area = SegmentArea(image[i])
            BY Segments DEF SegmentPhase, Inv, Types
          <6> QED BY <1>3, <6>1, SegmentPages, TrapContextLayout
        <5>2. ~StackPhase
          <6>1. StackPhase => "U" \in area.perm
            <7>1. StackPhase => area.perm = {"R", "W", "U"}
              BY <1>3, StackLayout DEF StackPhase
            <7> QED BY <7>1
          <6>2. "U" \notin area.perm
            <7>1. area.perm = {"R", "W"}
              BY TrapContextLayout
            <7> QED BY <7>1
          <6> QED BY <6>1, <6>2
        <5> QED BY <1>1, <5>1, <5>2 DEF Inv, Phases
      <4>3. max_end_vpn + StackPages = TopPage - 1
        BY <1>3, <4>2, StackTop DEF TrapPhase, StackIsSet, Fits
      <4>4. TopPage - 1 \in max_end_vpn + 1 .. max_end_vpn + StackPages
        BY <1>3, <4>3
      <4>5. StackIn(table, max_end_vpn)
        BY <1>1 DEF Inv
      <4> QED BY <2>2, <4>1, <4>4, <4>5 DEF StackIn
    <3>3. i > Len(image) => vpn # max_end_vpn
      <4>1. i > Len(image) => StackPhase \/ TrapPhase
        <5>1. i \in Nat /\ Len(image) \in Nat
          BY Segments DEF Inv, Types
        <5> QED BY <1>1, <5>1 DEF Inv, Phases, SegmentPhase
      <4>2. StackPhase => area.l = max_end_vpn + 1
        BY <1>3, StackLayout DEF StackPhase
      <4>3. TrapPhase => area.l = TopPage - 1 /\ max_end_vpn + 1 + StackPages =< TopPage
        BY TrapContextLayout DEF TrapPhase, StackIsSet
      <4> QED BY <1>3, <4>1, <4>2, <4>3
    <3>4. i > Len(image) => max_end_vpn \notin DOMAIN table'
      BY <1>1, <2>6, <3>3 DEF Inv, Extent
    <3> QED BY <1>1, <1>5, <2>1, <2>7, <3>1, <3>2, <3>4 DEF Extent
  <2>13. (Fits => UserPages(table))'
    <3>1. Fits => ("U" \in area.perm <=> vpn < TopPage - 1)
      BY <1>2, <1>3 DEF AreaIs
    <3> QED BY <2>6, <2>7, <3>1 DEF Inv, UserPages
  <2>14. Filled(table, mem, area, Reached, Copied)'
    <3>1. ASSUME NEW n \in area.l .. (vpn + 1) - 1
          PROVE  PageIs(table', mem', n, area, 0)
      <4>1. CASE n = vpn
        BY <1>3, <2>4, <4>1, NewPage
      <4>2. CASE n # vpn
        <5>1. n \in area.l .. vpn - 1 /\ n # TopPage
          BY <1>3, <4>2
        <5>2. PageIs(table, mem, n, area, 0)
          BY <1>1, <5>1 DEF Inv, Filled
        <5> QED BY <2>5, <5>1, <5>2
      <4> QED BY <4>1, <4>2
    <3>2. Filled(table', mem', area, vpn + 1, 0)
      BY <3>1 DEF Filled
    <3> QED BY <1>5, <2>1, <2>7, <3>2
  <2>15. Loaded'
    <3>1. i =< Len(image) => image[i].type = "Load"
      <4>1. i \in Nat /\ Len(image) \in Nat
        BY Segments DEF Inv, Types
      <4> QED BY <1>1, <4>1 DEF Inv, Phases, SegmentPhase, StackPhase, TrapPhase, StackIsSet
    <3>2. \A n \in 0 .. max_end_vpn - 1 : n # TopPage
      BY <1>3
    <3> QED BY <1>5, <2>1, <2>5, <3>1, <3>2, StillLoaded DEF Inv
  <2>16. Upcoming' /\ FailsOnlyForLackOfRoom' /\ at' # "done"
    BY <1>1, <1>5, <2>1 DEF Upcoming, FailsOnlyForLackOfRoom
  <2>17. area' = TrapContextArea => StackIn(table, max_end_vpn)'
    BY <1>1, <1>5, <2>1, <2>6 DEF Inv, StackIn
  <2> QED BY <2>8, <2>9, <2>10, <2>12, <2>13, <2>14, <2>15, <2>16, <2>17 DEF Inv
<1> QED BY <1>8, <1>9

\* One round of copy_data: the bytes st .. st + PAGE_SIZE - 1 of the data go
\* to page v of area a.
Copying(tb, mm, mm2, a, v, st) ==
  /\ \A f : f # tb[v].ppn => mm2[f] = mm[f]
  /\ \A o \in 0 .. LastByte :
       mm2[tb[v].ppn][o] = IF o < Smaller(a.data.len, st + PAGE_SIZE) - st
                           THEN a.data.offset + st + o ELSE mm[tb[v].ppn][o]

(* The bytes of a round.                                                   *)
LEMMA RoundSize ==
  ASSUME NEW len \in Nat, NEW st \in Nat, NEW p \in Nat, NEW o \in 0 .. p - 1
  PROVE  o < Smaller(len, st + p) - st <=> st + o < len
BY DEF Smaller

(* A round fills the next page of the area and no other.                   *)
LEMMA CopyPage ==
  ASSUME NEW tb, NEW mm, NEW mm2, NEW a, NEW v \in Nat, NEW st \in Nat, NEW n \in Nat,
         a.l \in Nat, a.l =< v, a.l =< n, a.data.len \in Nat, a.data.offset \in Nat,
         st = (v - a.l) * PAGE_SIZE, n # v => tb[n].ppn # tb[v].ppn,
         Copying(tb, mm, mm2, a, v, st), PageIs(tb, mm, n, a, st)
  PROVE  PageIs(tb, mm2, n, a, st + PAGE_SIZE)
<1> DEFINE base == (n - a.l) * PAGE_SIZE
<1>1. PAGE_SIZE \in Nat \ {0} /\ base \in Nat
  BY Layout, SMTT(30)
<1>2. /\ n < v => base + PAGE_SIZE =< st
      /\ v < n => st + PAGE_SIZE =< base
      /\ n = v => base = st
  <2>1. n - a.l \in Int /\ v - a.l \in Int
    OBVIOUS
  <2>2. /\ n - a.l < v - a.l => (n - a.l) * PAGE_SIZE + PAGE_SIZE =< (v - a.l) * PAGE_SIZE
        /\ v - a.l < n - a.l => (v - a.l) * PAGE_SIZE + PAGE_SIZE =< (n - a.l) * PAGE_SIZE
    BY <2>1, Multiples
  <2> QED BY <2>2
<1> HIDE DEF base
<1> SUFFICES ASSUME NEW o \in 0 .. LastByte
             PROVE  mm2[tb[n].ppn][o] = ByteOf(a, base + o, st + PAGE_SIZE)
  BY DEF PageIs, base
<1>3. o \in 0 .. PAGE_SIZE - 1 /\ mm[tb[n].ppn][o] = ByteOf(a, base + o, st)
  BY DEF PageIs, base, LastByte
<1>4. CASE n # v
  <2>1. mm2[tb[n].ppn] = mm[tb[n].ppn]
    BY <1>4 DEF Copying
  <2>2. base + o < st <=> base + o < st + PAGE_SIZE
    BY <1>1, <1>2, <1>3, <1>4
  <2> QED BY <1>3, <2>1, <2>2 DEF ByteOf
<1>5. CASE n = v
  <2>1. o < Smaller(a.data.len, st + PAGE_SIZE) - st <=> st + o < a.data.len
    BY <1>1, <1>3, RoundSize
  <2>2. st + o < st + PAGE_SIZE /\ ~(st + o < st)
    BY <1>1, <1>3
  <2>3. mm2[tb[n].ppn][o] = IF st + o < a.data.len THEN a.data.offset + st + o ELSE mm[tb[n].ppn][o]
    BY <1>5, <2>1 DEF Copying
  <2>4. mm[tb[n].ppn][o] = Zero
    BY <1>2, <1>3, <1>5, <2>2 DEF ByteOf
  <2>5. a.data.offset + st + o = a.data.offset + (st + o)
    BY <1>3
  <2> QED BY <1>2, <1>5, <2>2, <2>3, <2>4, <2>5 DEF ByteOf
<1> QED BY <1>4, <1>5

(* A round of copy_data stays within the area and never finds a page that  *)
(* is not mapped.                                                          *)
LEMMA copy_dataInv ==
  ASSUME Inv, copy_data
  PROVE  Inv'
<1> DEFINE h == image[i]
           len == area.data.len
           f == table[vpn].ppn
           k == Smaller(len, start + PAGE_SIZE) - start
<1>1. at = "copy" /\ Pushing /\ Reached = area.r /\ Copied = start
  BY DEF copy_data, Pushing, Reached, Copied
<1>2. SegmentPhase /\ IsSegment(h) /\ area = SegmentArea(h)
  BY <1>1, AreaFacts, Segments DEF Inv, Positions, SegmentPhase, Types
<1>3. /\ area.l \in Nat /\ area.r \in Nat /\ area.r =< TopPage - 1 /\ h.va = area.l * PAGE_SIZE
      /\ h.va + h.mem_size =< area.r * PAGE_SIZE /\ area.data = DataOf(h)
  BY <1>2, SegmentPages
<1>4. /\ h.va \in Nat /\ h.mem_size \in Nat /\ len \in Nat /\ area.data.offset \in Nat
      /\ len = h.file_size /\ len =< h.mem_size
  BY <1>2, <1>3 DEF IsSegment, DataOf
<1>5. /\ vpn \in Nat /\ area.l =< vpn /\ vpn < area.r /\ start \in Nat
      /\ (start = 0 \/ start < len)
      /\ TopPage \in Nat \ {0} /\ PAGE_SIZE \in Nat \ {0} /\ current \in 1 .. pool + 1 /\ pool \in Nat
      /\ mem \in [1 .. pool -> [0 .. LastByte -> Int]]
  BY <1>1, Layout DEF Inv, Positions, Types
<1>position. start = (vpn - area.l) * PAGE_SIZE
  BY <1>1 DEF Inv, Positions
<1>6. vpn \in DOMAIN table \ {TopPage} /\ PageIs(table, mem, vpn, area, start)
  <2>1. PageIs(table, mem, vpn, area, start)
    BY <1>1, <1>3, <1>5 DEF Inv, Filled
  <2> QED BY <1>3, <1>5, <2>1 DEF PageIs
<1>7. f \in 1 .. current - 1 /\ f \in 1 .. pool
  <2>1. f \in 1 .. current - 1
    BY <1>6 DEF Inv, OwnFrames
  <2> QED BY <1>5, <2>1
<1>8. /\ mem' = [mem EXCEPT ![f] = [o \in 0 .. LastByte |-> IF o < k THEN src(o) ELSE mem[f][o]]]
      /\ start' = start + PAGE_SIZE
      /\ (IF start' >= len THEN at' = "pushed" /\ vpn' = vpn ELSE vpn' = vpn + 1 /\ at' = at)
      /\ image' = image /\ pool' = pool /\ current' = current /\ table' = table
      /\ max_end_vpn' = max_end_vpn /\ i' = i /\ area' = area /\ user_stack_top' = user_stack_top
  BY <1>6 DEF copy_data
<1>9. \A o \in 0 .. LastByte : o \in Nat /\ src(o) = area.data.offset + start + o /\ src(o) \in Nat
  BY <1>4, <1>5, SMTT(30) DEF src, LastByte
<1>10. Copying(table, mem, mem', area, vpn, start)
  <2>1. mem'[f] = [o \in 0 .. LastByte |-> IF o < k THEN src(o) ELSE mem[f][o]]
    BY <1>5, <1>7, <1>8
  <2>2. \A o \in 0 .. LastByte : mem'[f][o] = IF o < k THEN src(o) ELSE mem[f][o]
    BY <2>1
  <2>3. \A g : g # f => mem'[g] = mem[g]
    BY <1>5, <1>8
  <2> QED BY <1>9, <2>2, <2>3 DEF Copying
<1>11. mem' \in [1 .. pool -> [0 .. LastByte -> Int]]
  <2>1. [o \in 0 .. LastByte |-> IF o < k THEN src(o) ELSE mem[f][o]] \in [0 .. LastByte -> Int]
    <3>1. mem[f] \in [0 .. LastByte -> Int]
      BY <1>5, <1>7
    <3>2. \A o \in 0 .. LastByte : src(o) \in Int
      BY <1>9
    <3> HIDE DEF k, f
    <3>3. \A o \in 0 .. LastByte : (IF o < k THEN src(o) ELSE mem[f][o]) \in Int
      BY <3>1, <3>2
    <3> QED BY <3>3
  <2> QED BY <1>5, <1>8, <2>1
<1>12. Pushing' /\ Reached' = area.r /\ Copied' = start + PAGE_SIZE /\ Fits' = Fits
       /\ at' # "map" /\ at' # "headers" /\ at' # "done" /\ at' # "panic"
  BY <1>1, <1>8 DEF Pushing, Reached, Copied, Fits
<1>13. Types'
  <2>1. vpn' \in 0 .. TopPage
    BY <1>3, <1>5, <1>8
  <2>2. start' \in Nat
    BY <1>5, <1>8
  <2>3. at' \in {"copy", "pushed"}
    BY <1>1, <1>8
  <2> QED BY <1>8, <1>11, <2>1, <2>2, <2>3 DEF Inv, Types
<1>14. Phases'
  BY <1>1, <1>8, <1>12 DEF Inv, Phases, SegmentPhase, StackPhase, TrapPhase, StackIsSet
<1>15. Positions'
  <2>1. CASE start' >= len
    BY <1>8, <2>1 DEF Positions
  <2>2. CASE ~(start' >= len)
    <3>1. at' = "copy" /\ vpn' = vpn + 1 /\ start' = start + PAGE_SIZE /\ start' < len
      BY <1>1, <1>4, <1>5, <1>8, <2>2
    <3>2. start + PAGE_SIZE = ((vpn + 1) - area.l) * PAGE_SIZE
      <4>1. \A m, n \in Nat : ((m + 1) - n) * PAGE_SIZE = (m - n) * PAGE_SIZE + PAGE_SIZE
        BY <1>5
      <4> QED BY <1>3, <1>5, <1>position, <4>1
    <3>3. vpn + 1 < area.r
      <4> DEFINE x == (vpn + 1) * PAGE_SIZE
                 y == area.r * PAGE_SIZE
                 z == area.l * PAGE_SIZE
      <4>1. x = z + (start + PAGE_SIZE) /\ x \in Int /\ y \in Int
        <5>1. \A m, n \in Nat : (m + 1) * PAGE_SIZE = n * PAGE_SIZE + ((m + 1) - n) * PAGE_SIZE
          BY <1>5
        <5>2. (vpn + 1) * PAGE_SIZE = area.l * PAGE_SIZE + ((vpn + 1) - area.l) * PAGE_SIZE
          BY <1>3, <1>5, <5>1
        <5>3. \A m \in Nat : m * PAGE_SIZE \in Int
          BY <1>5
        <5>4. vpn + 1 \in Nat /\ area.r \in Nat
          BY <1>3, <1>5
        <5> QED BY <3>2, <5>2, <5>3, <5>4
      <4>2. z = h.va
        BY <1>3
      <4>3. h.va + h.mem_size =< y
        BY <1>3
      <4> HIDE DEF x, y, z
      <4>4. x < y
        BY <1>4, <1>5, <3>1, <4>1, <4>2, <4>3
      <4>5. \A m, n \in Int : m * PAGE_SIZE < n * PAGE_SIZE => m < n
        BY Order
      <4>6. vpn + 1 \in Int /\ area.r \in Int
        BY <1>3, <1>5
      <4> QED BY <4>4, <4>5, <4>6 DEF x, y
    <3>4. area.data # NoData
      BY <1>1 DEF Inv, Positions
    <3>5. area.l =< vpn' /\ vpn' < area.r /\ area' = area
      BY <1>3, <1>5, <1>8, <3>1, <3>3
    <3>6. start' = (vpn' - area.l) * PAGE_SIZE
      BY <3>1, <3>2
    <3> QED BY <3>1, <3>4, <3>5, <3>6, Zenon DEF Positions
  <2> QED BY <2>1, <2>2
<1>16. OwnFrames(table, current)' /\ (Fits => UserPages(table))'
  BY <1>8, <1>12 DEF Inv
<1>17. Cleared(mem, current)'
  <2> SUFFICES ASSUME NEW g \in 1 .. current - 1, NEW o \in 0 .. LastByte
               PROVE  mem'[g][o] # Old
    BY <1>8 DEF Cleared
  <2>1. mem[g][o] # Old
    BY DEF Inv, Cleared
  <2>2. src(o) # Old
    BY <1>9 DEF Old
  <2>3. g # f => mem'[g] = mem[g]
    BY <1>10 DEF Copying
  <2>4. mem'[f][o] = IF o < k THEN src(o) ELSE mem[f][o]
    BY <1>9, <1>10 DEF Copying
  <2> QED BY <2>1, <2>2, <2>3, <2>4
<1>18. \A n \in DOMAIN table \ {TopPage} : n # vpn => table[n].ppn # f
  BY <1>6 DEF Inv, OwnFrames
<1>19. Filled(table, mem, area, Reached, Copied)'
  <2>1. ASSUME NEW n \in area.l .. area.r - 1
        PROVE  PageIs(table, mem', n, area, start + PAGE_SIZE)
    <3>1. PageIs(table, mem, n, area, start)
      BY <1>1 DEF Inv, Filled
    <3>2. n \in Nat /\ area.l =< n /\ n \in DOMAIN table \ {TopPage}
      BY <1>3, <1>5, <3>1 DEF PageIs
    <3>3. n # vpn => table[n].ppn # table[vpn].ppn
      BY <1>18, <3>2
    <3> QED BY <1>3, <1>4, <1>5, <1>position, <1>10, <3>1, <3>2, <3>3, CopyPage
  <2>2. Filled(table, mem', area, area.r, start + PAGE_SIZE)
    BY <2>1 DEF Filled
  <2> QED BY <1>8, <1>12, <2>2
<1>20. Loaded'
  <2>1. ASSUME NEW n \in 0 .. max_end_vpn - 1, NEW a, NEW s, PageIs(table, mem, n, a, s),
               n < SegmentArea(image[i]).l
        PROVE  PageIs(table', mem', n, a, s)
    <3>1. n \in DOMAIN table \ {TopPage} /\ n # vpn
      BY <1>2, <1>3, <1>5, <2>1 DEF PageIs
    <3>2. mem'[table[n].ppn] = mem[table[n].ppn]
      BY <1>10, <1>18, <3>1 DEF Copying
    <3>3. n \in DOMAIN table' /\ table'[n] = table[n]
      BY <1>8, <3>1
    <3> QED BY <2>1, <3>2, <3>3, SamePage, Zenon
  <2> QED BY <1>2, <1>8, <2>1, StillLoaded DEF Inv, SegmentPhase
<1>21. Extent'
  <2>1. area # TrapContextArea
    BY <1>3, <1>5, TrapContextLayout
  <2> QED BY <1>1, <1>8, <1>12, <2>1 DEF Inv, Extent
<1>22. Upcoming' /\ FailsOnlyForLackOfRoom'
  BY <1>12 DEF Upcoming, FailsOnlyForLackOfRoom
<1>23. area' = TrapContextArea => StackIn(table, max_end_vpn)'
  BY <1>1, <1>8 DEF Inv
<1> QED BY <1>12, <1>13, <1>14, <1>15, <1>16, <1>17, <1>19, <1>20, <1>21, <1>22, <1>23 DEF Inv

(* A segment of which all data is copied is in memory.                     *)
LEMMA AllCopied ==
  ASSUME NEW tb, NEW mm, NEW h, IsSegment(h), NEW s \in Nat, h.file_size =< s,
         Filled(tb, mm, SegmentArea(h), SegmentArea(h).r, s)
  PROVE  SegmentIn(tb, mm, h)
<1> DEFINE a == SegmentArea(h)
<1>1. a.l \in Nat /\ a.r \in Nat /\ a.data.len = h.file_size /\ h.file_size \in Nat
  <2>1. a.l \in Nat /\ a.r \in Nat /\ a.data = DataOf(h)
    BY SegmentPages
  <2>2. DataOf(h).len = h.file_size
    BY DEF DataOf
  <2>3. h.file_size \in Nat
    BY DEF IsSegment
  <2> QED BY <2>1, <2>2, <2>3
<1> HIDE DEF a
<1>2. ASSUME NEW n \in a.l .. a.r - 1
      PROVE  PageIs(tb, mm, n, a, h.file_size)
  <2>1. PageIs(tb, mm, n, a, s)
    BY DEF Filled, a
  <2>2. ASSUME NEW o \in 0 .. LastByte
        PROVE  mm[tb[n].ppn][o] = ByteOf(a, (n - a.l) * PAGE_SIZE + o, h.file_size)
    <3> DEFINE k == (n - a.l) * PAGE_SIZE + o
    <3>1. k \in Int
      <4>1. (n - a.l) * PAGE_SIZE \in Int /\ o \in Int
        BY <1>1, Multiples, Layout DEF LastByte
      <4> QED BY <4>1
    <3>2. mm[tb[n].ppn][o] = ByteOf(a, k, s)
      BY <2>1 DEF PageIs
    <3> HIDE DEF k
    <3>3. ByteOf(a, k, s) = ByteOf(a, k, h.file_size)
      BY <1>1, <3>1 DEF ByteOf
    <3> QED BY <3>2, <3>3 DEF k
  <2> QED BY <2>1, <2>2 DEF PageIs
<1> QED BY <1>2 DEF SegmentIn, Filled, a

(* The area is kept: the next header, the trap context or the end.         *)
LEMMA pushedInv ==
  ASSUME Inv, pushed
  PROVE  Inv'
<1>1. /\ at = "pushed" /\ Pushing /\ Reached = area.r /\ Copied = start
      /\ image' = image /\ pool' = pool /\ current' = current /\ mem' = mem /\ table' = table
      /\ max_end_vpn' = max_end_vpn /\ start' = start /\ user_stack_top' = user_stack_top
  BY DEF pushed, Pushing, Reached, Copied
<1>2. /\ i \in Nat /\ Len(image) \in Nat /\ TopPage \in Nat \ {0} /\ start \in Nat
      /\ StackPages \in 1 .. TopPage /\ max_end_vpn \in 0 .. TopPage - 1 /\ image \in Image
      /\ i \in 1 .. Len(image) + 1
  BY Segments, Layout DEF Inv, Types
<1>3. /\ OwnFrames(table, current)' /\ Cleared(mem, current)' /\ (Fits => UserPages(table))'
      /\ Fits' = Fits
  BY <1>1 DEF Inv, Fits
<1>4. \A n \in DOMAIN table : n \in 0 .. TopPage
  BY DEF Inv, OwnFrames
<1>5. CASE i =< Len(image)
  <2> DEFINE h == image[i]
             a == SegmentArea(h)
  <2>1. i' = i + 1 /\ at' = "headers" /\ area' = area /\ vpn' = vpn
    BY <1>2, <1>5 DEF pushed
  <2>2. SegmentPhase /\ IsSegment(h) /\ area = a /\ max_end_vpn = a.r /\ user_stack_top = 0
    <3>1. SegmentPhase
      BY <1>1, <1>2, <1>5 DEF Inv, Phases, StackPhase, TrapPhase, StackIsSet
    <3> QED BY <1>2, <1>5, <3>1, Segments DEF SegmentPhase
  <2>3. ~Pushing' /\ at' # "map" /\ at' # "copy" /\ at' # "pushed" /\ at' # "done" /\ at' # "panic"
    BY <2>1 DEF Pushing
  <2>4. Types'
    BY <1>1, <1>2, <1>5, <2>1 DEF Inv, Types
  <2>5. Phases' /\ Positions'
    BY <1>1, <2>2, <2>3 DEF Phases, Positions
  <2>6. Extent'
    <3>1. Fits
      BY <1>2, <2>2, Layout, Multiples DEF Fits
    <3> QED BY <1>1, <2>2, <2>3, <3>1 DEF Inv, Extent
  <2>7. Loaded'
    <3>1. SegmentIn(table, mem, h)
      <4>1. area.data.len = h.file_size
        <5>1. area.data = DataOf(h)
          BY <2>2, SegmentPages
        <5> QED BY <5>1 DEF DataOf
      <4>2. h.file_size =< start
        BY <1>1, <4>1 DEF Inv, Positions
      <4> QED BY <1>1, <1>2, <2>2, <4>2, AllCopied DEF Inv
    <3>2. a.r =< max_end_vpn
      BY <1>2, <2>2
    <3> SUFFICES ASSUME NEW j \in 1 .. Len(image), j < i + 1, image[j].type = "Load"
                 PROVE  SegmentArea(image[j]).r =< max_end_vpn /\ SegmentIn(table, mem, image[j])
      BY <1>1, <2>1 DEF Loaded
    <3>3. CASE j = i
      BY <3>1, <3>2, <3>3
    <3>4. CASE j # i
      <4>1. j < i
        BY <1>2, <3>4
      <4> QED BY <4>1 DEF Inv, Loaded
    <3> QED BY <3>3, <3>4
  <2>8. Upcoming'
    <3> SUFFICES ASSUME NEW j \in i + 1 .. Len(image), image[j].type = "Load"
                 PROVE  max_end_vpn =< SegmentArea(image[j]).l
      BY <1>1, <2>1 DEF Upcoming
    <3>1. i \in 1 .. Len(image) /\ j \in 1 .. Len(image) /\ i < j
      BY <1>2, <1>5
    <3> QED BY <1>2, <2>2, <3>1, Ascending DEF SegmentPhase
  <2> QED BY <1>3, <2>3, <2>4, <2>5, <2>6, <2>7, <2>8 DEF Inv, FailsOnlyForLackOfRoom
<1>6. CASE i > Len(image) /\ area # TrapContextArea
  <2> DEFINE M == max_end_vpn
  <2>1. /\ area' = TrapContextArea /\ vpn' = TopPage - 1 /\ i' = i /\ at' = "map"
    <3>1. push(TrapContextArea) /\ i' = i
      BY <1>2, <1>6 DEF pushed
    <3> QED BY <1>2, <3>1, TrapContextLayout DEF push
  <2>2. StackPhase
    BY <1>1, <1>2, <1>6 DEF Inv, Phases, SegmentPhase, TrapPhase
  <2>3. /\ area.l = M + 1 /\ area.r = M + 1 + StackPages /\ area.r =< TopPage
        /\ area.perm = {"R", "W", "U"}
    BY <1>2, <2>2, StackLayout DEF StackPhase, StackIsSet
  <2>4. Pushing' /\ Reached' = TopPage - 1 /\ Copied' = 0 /\ area'.l = TopPage - 1 /\ area'.r = TopPage
    BY <2>1, TrapContextLayout DEF Pushing, Reached, Copied
  <2>5. Types'
    BY <1>1, <1>2, <2>1 DEF Inv, Types
  <2>6. Phases'
    <3>1. TrapPhase'
      BY <1>1, <2>1, <2>2 DEF StackPhase, TrapPhase, StackIsSet
    <3> QED BY <2>1, <3>1 DEF Phases
  <2>7. Positions'
    BY <1>2, <2>1, <2>4 DEF Positions
  <2>8. Extent'
    <3>1. Fits => AllBelow(table, TopPage - 1)
      <4>1. Fits => area.r =< TopPage - 1
        BY <1>2, <2>2, <2>3, StackTop DEF StackPhase, StackIsSet, Fits
      <4>2. Fits => AllBelow(table, area.r)
        BY <1>1 DEF Inv, Extent
      <4> QED BY <1>2, <1>4, <2>3, <4>1, <4>2 DEF AllBelow
    <3>2. M \notin DOMAIN table
      BY <1>1, <1>6 DEF Inv, Extent
    <3> QED BY <1>1, <1>3, <2>1, <2>4, <3>1, <3>2 DEF Extent
  <2>9. Filled(table, mem, area, Reached, Copied)'
    <3>1. (TopPage - 1) .. (TopPage - 1) - 1 = {}
      BY <1>2
    <3> QED BY <2>4, <3>1 DEF Filled
  <2>10. Loaded'
    BY <1>1, <2>1 DEF Inv, Loaded
  <2>11. StackIn(table, max_end_vpn)'
    <3>1. StackIn(table, M)
      <4> SUFFICES ASSUME NEW n \in M + 1 .. M + StackPages
                   PROVE  n \in DOMAIN table /\ table[n].perm = {"R", "W", "U"}
        BY DEF StackIn
      <4>1. n \in area.l .. area.r - 1
        BY <1>2, <2>3
      <4>2. PageIs(table, mem, n, area, start)
        BY <1>1, <4>1 DEF Inv, Filled
      <4> QED BY <2>3, <4>2 DEF PageIs
    <3> QED BY <1>1, <3>1
  <2>12. Upcoming' /\ FailsOnlyForLackOfRoom'
    BY <2>1 DEF Upcoming, FailsOnlyForLackOfRoom
  <2> QED BY <1>3, <2>5, <2>6, <2>7, <2>8, <2>9, <2>10, <2>11, <2>12 DEF Inv
<1>7. CASE i > Len(image) /\ area = TrapContextArea
  <2>1. at' = "done" /\ i' = i /\ area' = area /\ vpn' = vpn
    BY <1>2, <1>7 DEF pushed
  <2>2. ~Pushing' /\ at' # "map" /\ at' # "copy" /\ at' # "pushed" /\ at' # "headers" /\ at' # "panic"
    BY <2>1 DEF Pushing
  <2>3. StackIsSet
    BY <1>1, <1>2, <1>7 DEF Inv, Phases, SegmentPhase, StackPhase, TrapPhase
  <2>4. Types'
    BY <1>1, <2>1 DEF Inv, Types
  <2>5. Phases' /\ Positions'
    BY <1>1, <2>1, <2>2, <2>3 DEF Phases, Positions, StackIsSet
  <2>6. Fits /\ max_end_vpn \notin DOMAIN table
    BY <1>1, <1>7 DEF Inv, Extent
  <2>7. Extent'
    BY <1>1, <1>3, <2>1, <2>2, <2>6 DEF Extent
  <2>8. Loaded'
    BY <1>1, <2>1 DEF Inv, Loaded
  <2>9. StackIn(table, max_end_vpn)'
    BY <1>1, <1>7 DEF Inv
  <2>10. Upcoming' /\ FailsOnlyForLackOfRoom'
    BY <2>2 DEF Upcoming, FailsOnlyForLackOfRoom
  <2> QED BY <1>3, <2>2, <2>4, <2>5, <2>7, <2>8, <2>9, <2>10 DEF Inv
<1> QED BY <1>2, <1>5, <1>6, <1>7

(* Every step keeps the invariant.                                         *)
LEMMA NextInv ==
  ASSUME Inv, [Next]_vars
  PROVE  Inv'
<1>1. ASSUME UNCHANGED vars PROVE Inv'
  <2>1. /\ image' = image /\ pool' = pool /\ current' = current /\ mem' = mem /\ table' = table
        /\ max_end_vpn' = max_end_vpn /\ i' = i /\ area' = area /\ vpn' = vpn
        /\ start' = start /\ user_stack_top' = user_stack_top /\ at' = at
    BY <1>1 DEF vars
  <2>2. Types' /\ Phases' /\ Positions'
    BY <2>1 DEF Inv, Types, Phases, Positions, Pushing, SegmentPhase, StackPhase, TrapPhase, StackIsSet
  <2>3. Pushing' = Pushing /\ Fits' = Fits /\ Reached' = Reached /\ Copied' = Copied
    BY <2>1 DEF Pushing, Fits, Reached, Copied
  <2>4. Extent' /\ Loaded' /\ Upcoming' /\ FailsOnlyForLackOfRoom'
    BY <2>1, <2>3 DEF Inv, Extent, Loaded, Upcoming, FailsOnlyForLackOfRoom
  <2>5. /\ OwnFrames(table, current)' /\ Cleared(mem, current)' /\ (Fits => UserPages(table))'
        /\ (Pushing => Filled(table, mem, area, Reached, Copied))'
    BY <2>1, <2>3 DEF Inv
  <2>6. ((Pushing /\ area = TrapContextArea) \/ at = "done" => StackIn(table, max_end_vpn))'
    BY <2>1, <2>3 DEF Inv
  <2> QED BY <2>2, <2>4, <2>5, <2>6 DEF Inv
<1> QED BY <1>1, program_headerInv, map_oneInv, mappedInv, copy_dataInv, pushedInv, user_stackInv
        DEF Next, from_elf, returned

(* The invariant holds in every state of from_elf.                         *)
THEOREM LoaderInvariant == Spec => []Inv
<1>1. Init => Inv
  BY InitInv
<1>2. Inv /\ [Next]_vars => Inv'
  BY NextInv
<1> QED BY <1>1, <1>2, PTL DEF Spec

-------------------------------------------------------------------------------
(* The properties.                                                         *)

(* Every state is well typed, the copy included.                           *)
LEMMA InvTypeOK ==
  ASSUME Inv
  PROVE  TypeOK
<1>1. Page = 0 .. TopPage /\ TopPage \in Nat \ {0}
  BY Layout
<1>2. /\ current \in 1 .. pool + 1 /\ pool \in Nat /\ vpn \in 0 .. TopPage
      /\ i \in 1 .. Len(image) + 1 /\ start \in Nat
      /\ at \in {"headers", "map", "copy", "pushed", "done", "panic"}
  BY DEF Inv, Types
<1>3. \A n \in DOMAIN table : table[n].ppn \in 0 .. pool
  <2> SUFFICES ASSUME NEW n \in DOMAIN table PROVE table[n].ppn \in 0 .. pool
    OBVIOUS
  <2>1. CASE n = TopPage
    BY <1>2, <2>1 DEF Inv, OwnFrames
  <2>2. CASE n # TopPage
    <3>1. table[n].ppn \in 1 .. current - 1
      BY <2>2 DEF Inv, OwnFrames
    <3> QED BY <1>2, <3>1
  <2> QED BY <2>1, <2>2
<1>4. at = "copy" => start =< area.data.len
  <2> SUFFICES ASSUME at = "copy" PROVE start =< area.data.len
    OBVIOUS
  <2>1. SegmentPhase
    BY AreaFacts DEF Inv, Positions, Pushing
  <2>2. IsSegment(image[i]) /\ area = SegmentArea(image[i])
    BY <2>1, Segments DEF SegmentPhase, Inv, Types
  <2>3. area.data = DataOf(image[i])
    BY <2>2, SegmentPages
  <2>4. area.data.len \in Nat
    BY <2>2, <2>3 DEF DataOf, IsSegment
  <2> QED BY <1>2, <2>4 DEF Inv, Positions
<1>5. DOMAIN table \subseteq Page
  BY <1>1 DEF Inv, OwnFrames
<1> QED BY <1>1, <1>2, <1>3, <1>4, <1>5 DEF TypeOK

(* The bytes of a segment that is in memory are those of the file.         *)
LEMMA SegmentBytes ==
  ASSUME NEW h, IsSegment(h), SegmentIn(table, mem, h), NEW k \in 0 .. h.mem_size - 1
  PROVE  /\ floor(h.va + k) \in DOMAIN table
         /\ Byte(h.va + k) = ImageAt(h, k)
         /\ table[floor(h.va + k)].perm = map_perm(h)
<1> DEFINE a == SegmentArea(h)
           va == h.va + k
           n == floor(va)
           o == va % PAGE_SIZE
<1>1. /\ h.va \in Nat /\ h.mem_size \in Nat /\ h.file_size \in Nat
  BY DEF IsSegment
<1>2. /\ a.l \in Nat /\ a.r \in Nat /\ h.va = a.l * PAGE_SIZE /\ h.va + h.mem_size =< a.r * PAGE_SIZE
      /\ a.perm = map_perm(h) /\ a.data = DataOf(h)
  BY SegmentPages
<1>3. a.data.len = h.file_size /\ a.data.offset = h.offset
  BY <1>2 DEF DataOf
<1>4. va \in Nat /\ k \in Nat /\ va < h.va + h.mem_size
  BY <1>1
<1>5. n \in Nat /\ o \in 0 .. PAGE_SIZE - 1 /\ va = n * PAGE_SIZE + o
  BY <1>4, Division DEF floor
<1>6. PAGE_SIZE \in Nat \ {0} /\ n * PAGE_SIZE \in Nat /\ a.l * PAGE_SIZE \in Nat /\ a.r * PAGE_SIZE \in Nat
  <2>1. PAGE_SIZE \in Nat \ {0}
    BY Layout
  <2>2. \A m \in Nat : m * PAGE_SIZE \in Nat
    BY <2>1
  <2> QED BY <1>2, <1>5, <2>1, <2>2
<1>7. va = a.l * PAGE_SIZE + k
  BY <1>2
<1> HIDE DEF va, n, o
<1>8. n \in a.l .. a.r - 1
  <2>1. n * PAGE_SIZE < a.r * PAGE_SIZE
    BY <1>1, <1>2, <1>4, <1>5, <1>6
  <2>2. (a.l - 1) * PAGE_SIZE < n * PAGE_SIZE
    <3>1. (a.l - 1) * PAGE_SIZE = a.l * PAGE_SIZE - PAGE_SIZE
      BY <1>2, <1>6
    <3> QED BY <1>4, <1>5, <1>6, <1>7, <3>1
  <2>3. \A x, y \in Int : x * PAGE_SIZE < y * PAGE_SIZE => x < y
    BY Order
  <2>4. a.l - 1 \in Int /\ a.l \in Int /\ n \in Int /\ a.r \in Int
    BY <1>2, <1>5
  <2>5. n < a.r /\ a.l - 1 < n
    BY <2>1, <2>2, <2>3, <2>4
  <2> QED BY <1>2, <1>5, <2>5
<1>9. (n - a.l) * PAGE_SIZE + o = k
  <2>1. (n - a.l) * PAGE_SIZE = n * PAGE_SIZE - a.l * PAGE_SIZE
    BY <1>2, <1>5, <1>6
  <2> QED BY <1>4, <1>5, <1>6, <1>7, <2>1
<1>10. PageIs(table, mem, n, a, h.file_size)
  BY <1>8 DEF SegmentIn, Filled
<1>11. o \in 0 .. LastByte
  BY <1>5 DEF LastByte
<1>12. mem[table[n].ppn][o] = ByteOf(a, k, h.file_size)
  BY <1>9, <1>10, <1>11 DEF PageIs
<1>13. ByteOf(a, k, h.file_size) = ImageAt(h, k)
  BY <1>3 DEF ByteOf, ImageAt
<1> QED BY <1>2, <1>10, <1>12, <1>13 DEF PageIs, Byte, va, n, o

(* Nothing of a former owner is in reach when from_elf returns.            *)
LEMMA InvImage ==
  ASSUME Inv
  PROVE  ImageIsLoaded
<1>1. TypeOK
  BY InvTypeOK
<1>2. ASSUME at = "done"
      PROVE  SegmentsAreLoaded
  <2> SUFFICES ASSUME NEW h \in Load(image), NEW k \in 0 .. h.mem_size - 1
               PROVE  /\ floor(h.va + k) \in DOMAIN table
                      /\ Byte(h.va + k) = ImageAt(h, k)
                      /\ table[floor(h.va + k)].perm = map_perm(h)
    BY DEF SegmentsAreLoaded
  <2>1. PICK j \in 1 .. Len(image) : h = image[j] /\ image[j].type = "Load"
    BY Segments DEF Inv, Types
  <2>2. IsSegment(h)
    BY <2>1, Segments DEF Inv, Types
  <2>3. j < i
    <3>1. i > Len(image) /\ i \in Nat /\ Len(image) \in Nat
      BY <1>2, Segments DEF Inv, Types, Phases, StackIsSet
    <3> QED BY <3>1
  <2>4. SegmentIn(table, mem, h)
    BY <2>1, <2>3 DEF Inv, Loaded
  <2> QED BY <2>2, <2>4, SegmentBytes
<1>3. ASSUME at = "done"
      PROVE  NothingOldIsVisible
  <2>1. floor(TRAP_CONTEXT) = TopPage - 1 /\ floor(TRAMPOLINE) = TopPage
    BY Layout DEF TopPage
  <2>2. UserPages(table)
    BY <1>3 DEF Inv, Extent
  <2>3. \A n \in DOMAIN table \ {TopPage} : \A o \in 0 .. LastByte : mem[table[n].ppn][o] # Old
    BY DEF Inv, OwnFrames, Cleared
  <2> QED BY <2>1, <2>2, <2>3 DEF NothingOldIsVisible, UserPages
<1> QED BY <1>1, <1>2, <1>3 DEF ImageIsLoaded

(* The stack is mapped, above every segment and a page that is not.        *)
LEMMA InvStack ==
  ASSUME Inv
  PROVE  StackAboveEverySegment
<1> SUFFICES ASSUME at = "done" PROVE StackAboveEverySegment
  BY DEF StackAboveEverySegment
<1> DEFINE M == max_end_vpn
           lo == floor(user_stack_top - USER_STACK_SIZE)
           hi == floor(user_stack_top)
<1>1. /\ M \in 0 .. TopPage - 1 /\ TopPage \in Nat \ {0} /\ StackPages \in 1 .. TopPage
      /\ i > Len(image) /\ i \in Nat /\ Len(image) \in Nat
  BY Segments, Layout DEF Inv, Types, Phases, StackIsSet
<1>2. user_stack_top = M * PAGE_SIZE + PAGE_SIZE + USER_STACK_SIZE
  BY DEF Inv, Phases, StackIsSet
<1>3. user_stack_top = (M + 1 + StackPages) * PAGE_SIZE
      /\ user_stack_top - USER_STACK_SIZE = (M + 1) * PAGE_SIZE
  BY <1>1, <1>2, StackTop
<1>4. lo = M + 1 /\ hi = M + 1 + StackPages
  <2>1. M + 1 \in Nat /\ M + 1 + StackPages \in Nat
    BY <1>1
  <2> QED BY <1>3, <2>1, CeilingOfPage
<1> HIDE DEF lo, hi
<1>5. \A n \in lo .. hi - 1 : n \in DOMAIN table /\ table[n].perm = {"R", "W", "U"}
  <2>1. lo .. hi - 1 = M + 1 .. M + StackPages
    BY <1>1, <1>4
  <2> QED BY <2>1 DEF Inv, StackIn
<1>6. \A h \in Load(image) : ceil(h.va + h.mem_size) < lo
  <2> SUFFICES ASSUME NEW h \in Load(image) PROVE ceil(h.va + h.mem_size) < lo
    OBVIOUS
  <2>1. PICK j \in 1 .. Len(image) : h = image[j] /\ image[j].type = "Load"
    BY Segments DEF Inv, Types
  <2>2. IsSegment(h)
    BY <2>1, Segments DEF Inv, Types
  <2>3. SegmentArea(h).r = ceil(h.va + h.mem_size) /\ SegmentArea(h).r \in Nat
    BY <2>2, SegmentPages
  <2>4. SegmentArea(h).r =< M
    BY <1>1, <2>1 DEF Inv, Loaded
  <2> QED BY <1>1, <1>4, <2>3, <2>4
<1>7. lo - 1 \notin DOMAIN table
  <2>1. lo - 1 = M
    BY <1>1, <1>4
  <2> QED BY <1>1, <2>1 DEF Inv, Extent
<1> QED BY <1>5, <1>6, <1>7 DEF StackAboveEverySegment, lo, hi

(* from_elf builds the space its file describes: every byte of every LOAD  *)
(* segment at its address with its permissions, zeros behind the file's    *)
(* part, nothing of a former owner of a frame.                             *)
THEOREM LoaderBuildsTheImage == Spec => []ImageIsLoaded
<1>1. Inv => ImageIsLoaded
  BY InvImage
<1> QED BY <1>1, LoaderInvariant, PTL

(* The user stack lies above every segment, behind a page that is not      *)
(* mapped.                                                                 *)
THEOREM LoaderGuardsTheStack == Spec => []StackAboveEverySegment
<1>1. Inv => StackAboveEverySegment
  BY InvStack
<1> QED BY <1>1, LoaderInvariant, PTL

(* from_elf panics only when frames run out or image and stack do not fit  *)
(* below the trap context.                                                 *)
THEOREM LoaderFailsOnlyForRoom == Spec => []FailsOnlyForLackOfRoom
<1>1. Inv => FailsOnlyForLackOfRoom
  BY DEF Inv
<1> QED BY <1>1, LoaderInvariant, PTL
===============================================================================
