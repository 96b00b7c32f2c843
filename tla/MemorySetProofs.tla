---------------------------- MODULE MemorySetProofs ----------------------------
(***************************************************************************)
(* Proof that address spaces are right for any pool of frames, any programs*)
(* that fit the layout and any number of processes: a frame has one owner, *)
(* page tables say what areas own, trap contexts are where the kernel looks*)
(* for them, stacks have guard pages, and every process has a memory of its*)
(* own.                                                                    *)
(***************************************************************************)
EXTENDS MemorySet, TLAPS

-------------------------------------------------------------------------------
(* Layout.                                                                 *)

(* Page numbers of page-aligned addresses.                                 *)
LEMMA Aligned ==
  ASSUME NEW n \in Nat
  PROVE  floor(n * PAGE_SIZE) = n /\ ceil(n * PAGE_SIZE) = n
<1>1. PAGE_SIZE \in Nat \ {0}
  BY LayoutAssumption
<1>2. (n * PAGE_SIZE) \div PAGE_SIZE = n
  BY <1>1
<1>3. (n * PAGE_SIZE + PAGE_SIZE - 1) \div PAGE_SIZE = n
  BY <1>1
<1> QED BY <1>2, <1>3 DEF floor, ceil

(* The pages of a kernel stack.                                            *)
StackPages == KERNEL_STACK_SIZE \div PAGE_SIZE

(* A kernel stack is a whole number of pages, at least one.                *)
LEMMA StackSize ==
  StackPages \in Nat \ {0} /\ KERNEL_STACK_SIZE = StackPages * PAGE_SIZE
<1>1. /\ PAGE_SIZE \in Nat \ {0} /\ KERNEL_STACK_SIZE \in Nat \ {0}
      /\ KERNEL_STACK_SIZE % PAGE_SIZE = 0
  BY LayoutAssumption
<1> QED BY <1>1 DEF StackPages

(* kernel_stack_position counts down from the trampoline, one guard page   *)
(* to a stack.                                                             *)
LEMMA StackLayout ==
  ASSUME NEW p \in Pid
  PROVE  /\ KernelStack(p).l = TRAMPOLINE - p * (StackPages + 1) - StackPages
         /\ KernelStack(p).r = TRAMPOLINE - p * (StackPages + 1)
         /\ KernelStack(p).l \in Nat \ {0} /\ KernelStack(p).r \in Nat
         /\ floor(kernel_stack_position(p)[1]) = KernelStack(p).l
<1> DEFINE k == StackPages
           P == PAGE_SIZE
           m == p * (k + 1)
<1>1. /\ k \in Nat \ {0} /\ P \in Nat \ {0} /\ KERNEL_STACK_SIZE = k * P
      /\ TRAMPOLINE \in Nat /\ MaxPid \in Nat /\ p \in Nat /\ p =< MaxPid
      /\ (MaxPid + 1) * (KERNEL_STACK_SIZE + P) =< TRAMPOLINE * P
  BY StackSize, LayoutAssumption DEF Pid
<1> HIDE DEF k, P
<1>2. (MaxPid + 1) * (k + 1) =< TRAMPOLINE
  <2>1. (MaxPid + 1) * (KERNEL_STACK_SIZE + P) = ((MaxPid + 1) * (k + 1)) * P
    BY <1>1
  <2>2. (MaxPid + 1) * (k + 1) \in Nat
    BY <1>1
  <2>3. \A a, b \in Nat : a * P =< b * P => a =< b
    BY <1>1
  <2> QED BY <1>1, <2>1, <2>2, <2>3
<1>3. m \in Nat /\ m + k + 1 =< TRAMPOLINE
  <2>1. (p + 1) * (k + 1) =< (MaxPid + 1) * (k + 1)
    BY <1>1
  <2>2. (p + 1) * (k + 1) = m + k + 1 /\ m \in Nat /\ (MaxPid + 1) * (k + 1) \in Nat
    BY <1>1
  <2> QED BY <1>1, <1>2, <2>1, <2>2
<1> DEFINE hi == TRAMPOLINE - m
           lo == TRAMPOLINE - m - k
<1>4. hi \in Nat /\ lo \in Nat \ {0}
  BY <1>1, <1>3
<1>5. /\ TRAMPOLINE * P - p * (KERNEL_STACK_SIZE + P) = hi * P
      /\ hi * P - KERNEL_STACK_SIZE = lo * P
  <2>1. p * (KERNEL_STACK_SIZE + P) = m * P
    BY <1>1
  <2>2. hi * P = TRAMPOLINE * P - m * P
    BY <1>1, <1>3
  <2>3. lo * P = hi * P - k * P
    BY <1>1, <1>3, <1>4
  <2> QED BY <1>1, <2>1, <2>2, <2>3
<1>6. kernel_stack_position(p) = <<lo * P, hi * P>>
  BY <1>5 DEF kernel_stack_position, P
<1> HIDE DEF hi, lo
<1>7. KernelStack(p) = [l |-> floor(lo * P), r |-> ceil(hi * P), w |-> TRUE]
  BY <1>6 DEF KernelStack, MapArea
<1>8. floor(lo * P) = lo /\ ceil(hi * P) = hi
  BY <1>4, Aligned DEF P
<1>9. KernelStack(p).l = lo /\ KernelStack(p).r = hi
  BY <1>7, <1>8
<1> QED BY <1>4, <1>6, <1>8, <1>9 DEF hi, lo, k

(* Stacks of different pids share no page, and the page below a stack      *)
(* belongs to none.                                                        *)
LEMMA StacksApart ==
  ASSUME NEW p \in Pid, NEW q \in Pid
  PROVE  /\ Pages(KernelStack(p)) \subseteq Page
         /\ TRAMPOLINE \notin Pages(KernelStack(p))
         /\ KernelStack(p).l - 1 \in Page /\ KernelStack(p).l - 1 # TRAMPOLINE
         /\ KernelStack(p).l - 1 \notin Pages(KernelStack(q))
         /\ p # q => /\ Pages(KernelStack(p)) \cap Pages(KernelStack(q)) = {}
                     /\ KernelStack(p).l # KernelStack(q).l
<1> DEFINE k == StackPages + 1
           T == TRAMPOLINE
           lp == KernelStack(p).l
           lq == KernelStack(q).l
           rp == KernelStack(p).r
           rq == KernelStack(q).r
<1>1. /\ StackPages \in Nat \ {0} /\ k \in Nat \ {0} /\ T \in Nat
      /\ p \in Nat /\ q \in Nat /\ p * k \in Nat /\ q * k \in Nat
  <2>1. StackPages \in Nat \ {0} /\ T \in Nat /\ p \in Nat /\ q \in Nat
    BY StackSize, LayoutAssumption DEF Pid
  <2> QED BY <2>1
<1>2. /\ rp = T - p * k /\ lp = rp - k + 1 /\ lp \in Nat \ {0} /\ rp \in Nat
      /\ rq = T - q * k /\ lq = rq - k + 1 /\ lq \in Nat \ {0} /\ rq \in Nat
  BY <1>1, StackLayout
<1>3. /\ p < q => p * k + k =< q * k
      /\ q < p => q * k + k =< p * k
  <2>1. \A a, b \in Nat : a < b => a * k + k =< b * k
    <3> SUFFICES ASSUME NEW a \in Nat, NEW b \in Nat, a < b
                 PROVE  a * k + k =< b * k
      OBVIOUS
    <3>1. (a + 1) * k = a * k + k
      BY <1>1
    <3>2. (a + 1) * k =< b * k
      BY <1>1
    <3> QED BY <3>1, <3>2
  <2> QED BY <1>1, <2>1
<1>4. Pages(KernelStack(p)) = lp .. rp - 1 /\ Pages(KernelStack(q)) = lq .. rq - 1
  BY DEF Pages
<1> DEFINE pk == p * k
           qk == q * k
<1>5. /\ pk \in Nat /\ qk \in Nat /\ rp = T - pk /\ rq = T - qk
      /\ p < q => pk + k =< qk
      /\ q < p => qk + k =< pk
  BY <1>1, <1>2, <1>3
<1>6. lp = rp - k + 1 /\ lp \in Nat \ {0} /\ rp \in Nat
      /\ lq = rq - k + 1 /\ lq \in Nat \ {0} /\ rq \in Nat
  BY <1>2
<1>7. k \in Nat /\ k >= 2
  BY <1>1
<1> HIDE DEF lp, lq, rp, rq, k, pk, qk
<1>8. /\ lp .. rp - 1 \subseteq 0 .. T /\ T \notin lp .. rp - 1
      /\ lp - 1 \in 0 .. T /\ lp - 1 # T
  BY <1>1, <1>5, <1>6, <1>7
<1>9. lp - 1 \notin lq .. rq - 1
  <2>1. p < q \/ q < p \/ p = q
    BY <1>1
  <2>2. CASE p = q
    BY <1>6, <2>2 DEF lp, lq
  <2> QED BY <1>1, <1>5, <1>6, <1>7, <2>1, <2>2
<1>10. p # q => (lp .. rp - 1) \cap (lq .. rq - 1) = {} /\ lp # lq
  BY <1>1, <1>5, <1>6, <1>7
<1> QED BY <1>4, <1>8, <1>9, <1>10 DEF Page, lp, lq, rp, rq

(* The pages of a program: the trap context is one of them, in an area the *)
(* program may not write, and the page below the user stack is not.        *)
LEMMA ProgramLayout ==
  ASSUME NEW app \in App
  PROVE  /\ PagesOf(from_elf(app)) \subseteq Page
         /\ TRAMPOLINE \notin PagesOf(from_elf(app)) /\ TRAMPOLINE \in Page
         /\ TRAP_CONTEXT \in PagesOf(from_elf(app))
         /\ TRAP_CONTEXT \in Page /\ TRAP_CONTEXT # TRAMPOLINE
         /\ \A a \in from_elf(app) : a.w => TRAP_CONTEXT \notin Pages(a)
         /\ user_stack(app) \in from_elf(app)
         /\ user_stack(app).l - 1 \in Page
         /\ user_stack(app).l - 1 # TRAMPOLINE
         /\ user_stack(app).l - 1 \notin PagesOf(from_elf(app))
<1> DEFINE S == Segments[app]
           T == TRAMPOLINE
           P == PAGE_SIZE
           e == Segment(S[Len(S)]).r
           cx == MapArea(TRAP_CONTEXT * P, T * P, FALSE)
           st == user_stack(app)
<1>1. /\ T \in Nat /\ P \in Nat \ {0}
      /\ PagesOf(from_elf(app)) \subseteq Page /\ ~Overlaps(from_elf(app))
  BY LayoutAssumption
<1>2. T \in Nat \ {0} /\ T - 1 \in Nat
  <2>1. 0 \in Pid
    BY LayoutAssumption DEF Pid
  <2>2. KernelStack(0).l \in Nat \ {0} /\ 0 * (StackPages + 1) = 0 /\ StackPages \in Nat
    BY <2>1, StackLayout, StackSize
  <2>3. KernelStack(0).l = T - 0 * (StackPages + 1) - StackPages
    BY <2>1, StackLayout
  <2> QED BY <1>1, <2>2, <2>3
<1>3. cx \in from_elf(app) /\ st \in from_elf(app)
  BY DEF from_elf
<1>4. cx = [l |-> T - 1, r |-> T, w |-> FALSE]
  <2>1. floor(TRAP_CONTEXT * P) = T - 1 /\ ceil(T * P) = T
    BY <1>2, Aligned DEF TRAP_CONTEXT
  <2> QED BY <2>1 DEF MapArea
<1> HIDE DEF cx
<1>5. Pages(cx) = {T - 1}
  BY <1>2, <1>4 DEF Pages
<1>6. TRAP_CONTEXT \in PagesOf(from_elf(app))
  BY <1>3, <1>5 DEF PagesOf, TRAP_CONTEXT
<1>7. ASSUME NEW a \in from_elf(app), a.w PROVE TRAP_CONTEXT \notin Pages(a)
  <2>1. a # cx
    BY <1>4, <1>7
  <2> QED BY <1>1, <1>3, <1>5, <1>7, <2>1 DEF Overlaps, TRAP_CONTEXT
<1>8. S # <<>> /\ S \in Seq([va : Nat, mem_size : Nat, file_size : Nat, writable : BOOLEAN])
      /\ \A i \in DOMAIN S : Segment(S[i]).r =< e
  BY LayoutAssumption
<1>9. Len(S) \in DOMAIN S /\ DOMAIN S = 1 .. Len(S) /\ Len(S) \in Nat
  BY <1>8
<1>10. \A i \in DOMAIN S : /\ Segment(S[i]).r \in Nat
                           /\ Segment(S[i]).l \in Nat
  <2> SUFFICES ASSUME NEW i \in DOMAIN S
               PROVE  Segment(S[i]).r \in Nat /\ Segment(S[i]).l \in Nat
    OBVIOUS
  <2> HIDE DEF S
  <2> DEFINE R == [va : Nat, mem_size : Nat, file_size : Nat, writable : BOOLEAN]
  <2>1. S[i].va \in Nat /\ S[i].mem_size \in Nat
    <3>1. S \in Seq(R)
      BY <1>8
    <3> HIDE DEF R
    <3>2. S[i] \in R
      BY <3>1, <1>9
    <3> QED BY <3>2 DEF R
  <2>2. \A n \in Nat : ceil(n) \in Nat /\ floor(n) \in Nat
    <3> SUFFICES ASSUME NEW n \in Nat PROVE ceil(n) \in Nat /\ floor(n) \in Nat
      OBVIOUS
    <3>1. n + P - 1 \in Nat
      BY <1>1
    <3> QED BY <1>1, <3>1 DEF ceil, floor
  <2> QED BY <2>1, <2>2 DEF Segment, MapArea
<1>11. e \in Nat
  BY <1>9, <1>10
<1> DEFINE u == USER_STACK_SIZE \div PAGE_SIZE
<1>12. u \in Nat \ {0} /\ USER_STACK_SIZE = u * P
  <2>1. P \in Nat \ {0} /\ USER_STACK_SIZE \in Nat \ {0} /\ USER_STACK_SIZE % P = 0
    BY LayoutAssumption
  <2> QED BY <2>1
<1> HIDE DEF u
<1>13. st = [l |-> e + 1, r |-> e + 1 + u, w |-> TRUE]
  <2> HIDE DEF e, P
  <2>1. e * P + P = (e + 1) * P /\ (e + 1) * P + USER_STACK_SIZE = (e + 1 + u) * P
    BY <1>1, <1>11, <1>12
  <2>2. floor((e + 1) * P) = e + 1 /\ ceil((e + 1 + u) * P) = e + 1 + u
    BY <1>11, <1>12, Aligned DEF P
  <2>3. st = MapArea(e * P + P, e * P + P + USER_STACK_SIZE, TRUE)
    BY DEF user_stack, e, P
  <2> QED BY <2>1, <2>2, <2>3 DEF MapArea
<1> HIDE DEF e, st
<1>14. e + 1 \in Pages(st)
  BY <1>11, <1>12, <1>13 DEF Pages
<1>15. e + 1 \in Page /\ e + 1 # T /\ e + 1 # T - 1
  <2>1. e + 1 \in PagesOf(from_elf(app))
    BY <1>3, <1>14 DEF PagesOf
  <2>2. TRAP_CONTEXT \notin Pages(st)
    BY <1>3, <1>7, <1>13
  <2> QED BY <1>1, <1>14, <2>1, <2>2 DEF Overlaps, TRAP_CONTEXT
<1>16. e \in Page /\ e # T /\ e # T - 1
  BY <1>2, <1>11, <1>15 DEF Page
<1>17. ASSUME NEW a \in from_elf(app) PROVE e \notin Pages(a)
  <2>1. CASE a = cx
    BY <1>5, <1>16, <2>1
  <2>2. CASE a = st
    BY <1>11, <1>12, <1>13, <2>2 DEF Pages
  <2>3. ASSUME NEW i \in DOMAIN S, a = Segment(S[i]) PROVE e \notin Pages(a)
    <3>1. a.r =< e /\ a.r \in Nat /\ a.l \in Nat
      BY <1>8, <1>10, <2>3
    <3> QED BY <1>11, <3>1 DEF Pages
  <2>4. a = cx \/ a = st \/ \E i \in DOMAIN S : a = Segment(S[i])
    BY DEF from_elf, cx, st
  <2> QED BY <2>1, <2>2, <2>3, <2>4
<1>18. e \notin PagesOf(from_elf(app))
  BY <1>17 DEF PagesOf
<1>19. st.l - 1 = e
  BY <1>11, <1>13
<1>20. T \notin PagesOf(from_elf(app)) /\ T \in Page /\ T - 1 \in Page /\ T - 1 # T
  BY <1>1, <1>2 DEF Overlaps, Page
<1> QED BY <1>1, <1>3, <1>6, <1>7, <1>16, <1>18, <1>19, <1>20 DEF st, TRAP_CONTEXT


-------------------------------------------------------------------------------
(* The pool.  df is the ownership of the frames, fr the free ones.         *)

Ownership == [Space -> [Page -> Frame \cup {NoFrame}]]

OwnedOnce(df, fr) ==
  /\ \A s, t \in Space : \A v, w \in Page :
        df[s][v] = df[t][w] /\ df[s][v] # NoFrame => s = t /\ v = w
  /\ \A f \in Frame : f \notin fr <=> \E s \in Space : \E v \in Page : df[s][v] = f

(* Conservation of frames, page by page.                                   *)
LEMMA OwnedUnion ==
  ASSUME NEW df \in Ownership, NEW fr \in SUBSET Frame
  PROVE  UNION {Range(df[s]) \ {NoFrame} : s \in Space} = Frame \ fr
         <=> \A f \in Frame : f \notin fr <=> \E s \in Space : \E v \in Page : df[s][v] = f
<1>1. \A s \in Space : df[s] \in [Page -> Frame \cup {NoFrame}]
  BY DEF Ownership
<1> DEFINE U == UNION {Range(df[s]) \ {NoFrame} : s \in Space}
<1>2. \A f : f \in U <=> f # NoFrame /\ \E s \in Space : \E v \in Page : df[s][v] = f
  BY <1>1 DEF Range
<1>3. U \subseteq Frame
  BY <1>1, <1>2
<1> HIDE DEF U
<1>4. U = Frame \ fr <=> \A f \in Frame : f \in U <=> f \notin fr
  BY <1>3
<1>5. (\A f \in Frame : f \in U <=> f \notin fr)
      <=> \A f \in Frame : f \notin fr <=> \E s \in Space : \E v \in Page : df[s][v] = f
  BY <1>2, FrameAssumption
<1> QED BY <1>4, <1>5 DEF U

LEMMA FramesOwnedOnceDef ==
  FramesOwnedOnce <=> TypeOK /\ OwnedOnce(data_frames, free)
<1> SUFFICES ASSUME TypeOK PROVE FramesOwnedOnce <=> OwnedOnce(data_frames, free)
  BY DEF FramesOwnedOnce
<1>1. data_frames \in Ownership /\ free \in SUBSET Frame
  BY DEF TypeOK, Ownership
<1> QED BY <1>1, OwnedUnion DEF FramesOwnedOnce, OwnedOnce, Owned

LEMMA FramesOwnedOnceAfter ==
  ASSUME TypeOK', OwnedOnce(data_frames', free')
  PROVE  FramesOwnedOnce'
<1>1. data_frames' \in Ownership /\ free' \in SUBSET Frame
  BY DEF TypeOK, Ownership
<1>2. UNION {Range(data_frames'[s]) \ {NoFrame} : s \in Space} = Frame \ free'
  BY <1>1, OwnedUnion DEF OwnedOnce
<1>3. UNION {Owned(s)' : s \in Space} = Frame \ free'
  BY <1>2 DEF Owned
<1> QED BY <1>3 DEF FramesOwnedOnce, OwnedOnce

(* Pages of a space that own nothing get free frames, each one of its own. *)
LEMMA Give ==
  ASSUME NEW df \in Ownership, NEW fr \in SUBSET Frame, OwnedOnce(df, fr),
         NEW s \in Space, NEW V \in SUBSET Page, \A v \in V : df[s][v] = NoFrame,
         NEW g \in [V -> fr], \A v, w \in V : g[v] = g[w] => v = w,
         NEW df2, df2 = [df EXCEPT ![s] = Mapped(df[s], g)],
         NEW fr2, fr2 = fr \ Range(g)
  PROVE  df2 \in Ownership /\ fr2 \in SUBSET Frame /\ OwnedOnce(df2, fr2)
<1>1. df2[s] = [v \in Page |-> IF v \in V THEN g[v] ELSE df[s][v]]
  BY DEF Mapped, Ownership
<1>2. /\ \A v \in V : df2[s][v] = g[v] /\ df2[s][v] \in fr
      /\ \A v \in Page \ V : df2[s][v] = df[s][v]
      /\ \A t \in Space \ {s} : df2[t] = df[t]
      /\ df2[s] \in [Page -> Frame \cup {NoFrame}]
  BY <1>1 DEF Ownership
<1>3. df2 \in Ownership
  BY <1>2 DEF Ownership
<1>4. \A f : f \in Range(g) <=> \E v \in V : g[v] = f
  BY DEF Range
<1>5. ASSUME NEW t \in Space, NEW v \in Page
      PROVE  \/ t = s /\ v \in V
             \/ df2[t][v] = df[t][v] /\ df2[t][v] \notin fr
  <2>1. CASE t = s /\ v \in V
    BY <2>1
  <2>2. CASE ~(t = s /\ v \in V)
    <3>1. df2[t][v] = df[t][v]
      BY <1>2, <2>2
    <3> QED BY <3>1 DEF OwnedOnce
  <2> QED BY <2>1, <2>2
<1>6. ASSUME NEW t \in Space, NEW u \in Space, NEW v \in Page, NEW w \in Page,
             df2[t][v] = df2[u][w], df2[t][v] # NoFrame
      PROVE  t = u /\ v = w
  <2>1. CASE t = s /\ v \in V
    <3>1. u = s /\ w \in V
      BY <1>2, <1>5, <1>6, <2>1
    <3> QED BY <1>2, <1>6, <2>1, <3>1
  <2>2. CASE ~(t = s /\ v \in V)
    <3>1. df2[t][v] = df[t][v] /\ df2[t][v] \notin fr
      BY <1>5, <2>2
    <3>2. ~(u = s /\ w \in V)
      BY <1>2, <1>6, <3>1
    <3>3. df2[u][w] = df[u][w]
      BY <1>5, <3>2
    <3> QED BY <1>6, <3>1, <3>3 DEF OwnedOnce
  <2> QED BY <2>1, <2>2
<1>7. ASSUME NEW f \in Frame
      PROVE  f \notin fr2 <=> \E t \in Space : \E v \in Page : df2[t][v] = f
  <2>1. CASE f \in Range(g)
    <3>1. PICK v \in V : g[v] = f
      BY <1>4, <2>1
    <3> QED BY <1>2, <2>1, <3>1
  <2>2. CASE f \notin Range(g) /\ f \in fr
    <3>1. ASSUME NEW t \in Space, NEW v \in Page, df2[t][v] = f PROVE FALSE
      BY <1>2, <1>4, <1>5, <2>2, <3>1
    <3> QED BY <2>2, <3>1
  <2>3. CASE f \notin Range(g) /\ f \notin fr
    <3>1. PICK t \in Space, v \in Page : df[t][v] = f
      BY <2>3 DEF OwnedOnce
    <3>2. ~(t = s /\ v \in V)
      BY <3>1, FrameAssumption
    <3>3. df2[t][v] = f
      BY <1>2, <3>1, <3>2
    <3> QED BY <2>3, <3>3
  <2> QED BY <2>1, <2>2, <2>3
<1> QED BY <1>3, <1>6, <1>7 DEF OwnedOnce

FramesAt(m, V) == {m[v] : v \in V} \ {NoFrame}

(* The frames of some pages of a space come back.                          *)
LEMMA Take ==
  ASSUME NEW df \in Ownership, NEW fr \in SUBSET Frame, OwnedOnce(df, fr),
         NEW s \in Space, NEW V \in SUBSET Page,
         NEW df2, df2 = [df EXCEPT ![s] = Without(df[s], V)],
         NEW fr2, fr2 = fr \cup FramesAt(df[s], V)
  PROVE  df2 \in Ownership /\ fr2 \in SUBSET Frame /\ OwnedOnce(df2, fr2)
<1>1. df2[s] = [v \in Page |-> IF v \in V THEN NoFrame ELSE df[s][v]]
  BY DEF Without, Ownership
<1>2. /\ \A v \in V : df2[s][v] = NoFrame
      /\ \A v \in Page \ V : df2[s][v] = df[s][v]
      /\ \A t \in Space \ {s} : df2[t] = df[t]
      /\ df2[s] \in [Page -> Frame \cup {NoFrame}]
  BY <1>1 DEF Ownership
<1>3. df2 \in Ownership
  BY <1>2 DEF Ownership
<1>4. /\ fr2 \in SUBSET Frame
      /\ \A f : f \in fr2 <=> f \in fr \/ (f # NoFrame /\ \E v \in V : df[s][v] = f)
  BY DEF Ownership, FramesAt
<1>5. ASSUME NEW t \in Space, NEW v \in Page, df2[t][v] # NoFrame
      PROVE  df2[t][v] = df[t][v] /\ ~(t = s /\ v \in V)
  BY <1>2, <1>5
<1>6. ASSUME NEW t \in Space, NEW u \in Space, NEW v \in Page, NEW w \in Page,
             df2[t][v] = df2[u][w], df2[t][v] # NoFrame
      PROVE  t = u /\ v = w
  BY <1>5, <1>6 DEF OwnedOnce
<1>7. ASSUME NEW f \in Frame
      PROVE  f \notin fr2 <=> \E t \in Space : \E v \in Page : df2[t][v] = f
  <2>1. f # NoFrame
    BY FrameAssumption
  <2>2. ASSUME NEW t \in Space, NEW v \in Page, df2[t][v] = f PROVE f \notin fr2
    <3>1. df[t][v] = f /\ ~(t = s /\ v \in V)
      BY <1>5, <2>1, <2>2
    <3>2. f \notin fr
      BY <3>1 DEF OwnedOnce
    <3>3. ASSUME NEW w \in V, df[s][w] = f PROVE FALSE
      BY <2>1, <3>1, <3>3 DEF OwnedOnce
    <3> QED BY <1>4, <3>2, <3>3
  <2>3. ASSUME f \notin fr2 PROVE \E t \in Space : \E v \in Page : df2[t][v] = f
    <3>1. PICK t \in Space, v \in Page : df[t][v] = f
      BY <1>4, <2>3 DEF OwnedOnce
    <3>2. ~(t = s /\ v \in V)
      BY <1>4, <2>1, <2>3, <3>1
    <3> QED BY <1>2, <3>1, <3>2
  <2> QED BY <2>2, <2>3
<1> QED BY <1>3, <1>4, <1>6, <1>7 DEF OwnedOnce

-------------------------------------------------------------------------------
(* Frames for pages and what is in them.                                   *)

(* The frames the allocator hands out for a set of pages are free and      *)
(* distinct.                                                               *)
LEMMA FramesFor ==
  ASSUME NEW V, NEW S \in SUBSET Frame, NEW g \in frames_for(V, S),
         \/ \E app \in App : V = PagesOf(from_elf(app))
         \/ \E p \in Pid : V = Pages(KernelStack(p))
  PROVE  g \in [V -> S] /\ \A v, w \in V : g[v] = g[w] => v = w
<1>1. V \in {PagesOf(from_elf(app)) : app \in App} \cup {Pages(KernelStack(p)) : p \in Pid}
  OBVIOUS
<1>2. g \in Injection(V, S)
  BY <1>1, FramesForAssumption
<1> QED BY <1>2 DEF Injection, IsInjective

(* The page of a frame is the one it was given to.                         *)
LEMMA PageOfFrame ==
  ASSUME NEW V, NEW S, NEW g \in [V -> S], \A v, w \in V : g[v] = g[w] => v = w,
         NEW v \in V
  PROVE  PageIn(g, g[v]) = v
BY DEF PageIn

(* A page of a new image holds what the image writes there, or zeros:      *)
(* never what the frame held before.                                       *)
LEMMA FilledFrame ==
  ASSUME NEW V, NEW S, NEW g \in [V -> S], \A v, w \in V : g[v] = g[w] => v = w,
         NEW v \in V, NEW image
  PROVE  filled(image, g, g[v]) = IF image[v] = Untouched THEN Zero ELSE image[v]
BY PageOfFrame DEF filled, FrameTracker_new

(* A trap context is told apart from the other contents of a page, and     *)
(* names its program.                                                      *)
LEMMA Contexts ==
  ASSUME NEW app, NEW k
  PROVE  /\ TrapContext(app, k)[2] = app
         /\ TrapContext(app, k) # Untouched /\ TrapContext(app, k) # <<"unmapped">>
<1>1. TrapContext(app, k)[1] = "trap" /\ TrapContext(app, k)[2] = app
  BY DEF TrapContext
<1>2. Untouched[1] = "untouched" /\ <<"unmapped">>[1] = "unmapped"
  BY DEF Untouched
<1> QED BY <1>1, <1>2

-------------------------------------------------------------------------------
(* What the invariant says of the frames of a process.                     *)

(* A frame that a page has is not free.                                    *)
LEMMA OwnedFrames ==
  ASSUME Inv, NEW s \in Space, NEW v \in Page
  PROVE  data_frames[s][v] = NoFrame \/ data_frames[s][v] \in Frame \ free
<1>1. OwnedOnce(data_frames, free)
  BY FramesOwnedOnceDef DEF Inv
<1>2. data_frames \in [Space -> [Page -> Frame \cup {NoFrame}]]
  BY DEF Inv, FramesOwnedOnce, TypeOK
<1>3. data_frames[s][v] \in Frame \cup {NoFrame}
  BY <1>2
<1> QED BY <1>1, <1>3 DEF OwnedOnce

(* The page table of a live process leads to exactly the frames its areas  *)
(* own.                                                                    *)
LEMMA LiveFrames ==
  ASSUME Inv, NEW p \in Pid, proc[p] = "live"
  PROVE  /\ \A v \in Page \ {TRAMPOLINE} : table[p][v] = data_frames[p][v]
         /\ table[p][TRAMPOLINE] = TrampolineFrame
         /\ \A v \in Page : data_frames[p][v] \in Frame \ free <=> v \in PagesOf(areas[p])
         /\ \A v \in Page : data_frames[p][v] = NoFrame <=> v \notin PagesOf(areas[p])
<1>1. p \in Space /\ p \in Live
  BY DEF Space, Live
<1>2. /\ table[p] = [data_frames[p] EXCEPT ![TRAMPOLINE] = TrampolineFrame]
      /\ {v \in Page : data_frames[p][v] # NoFrame} = PagesOf(areas[p])
      /\ data_frames[p] \in [Page -> Frame \cup {NoFrame}]
  BY <1>1 DEF Inv, TablesMatchAreas, FramesOwnedOnce, TypeOK
<1>3. TRAMPOLINE \in Page
  BY LayoutAssumption DEF Page
<1> QED BY <1>1, <1>2, <1>3, OwnedFrames, FrameAssumption

(* trap_cx_ppn of a live process is the frame of its trap context page.    *)
LEMMA LiveContext ==
  ASSUME Inv, NEW p \in Pid, proc[p] = "live"
  PROVE  /\ trap_cx_ppn[p] = data_frames[p][TRAP_CONTEXT]
         /\ trap_cx_ppn[p] = table[p][TRAP_CONTEXT]
         /\ trap_cx_ppn[p] \in Frame \ free
         /\ \E app \in App : areas[p] = from_elf(app)
<1>1. PICK app \in App : areas[p] = from_elf(app)
  BY DEF Inv, AreasOK
<1>2. /\ TRAP_CONTEXT \in PagesOf(areas[p]) /\ TRAP_CONTEXT \in Page
      /\ TRAP_CONTEXT # TRAMPOLINE
  BY <1>1, ProgramLayout
<1>3. trap_cx_ppn[p] = table[p][TRAP_CONTEXT]
  BY DEF Inv, TrapContextIsCurrent, Live
<1> QED BY <1>1, <1>2, <1>3, LiveFrames

(* The context of a live process is that of the program whose areas it has,*)
(* as long as no call has overwritten one.                                 *)
LEMMA LiveProgram ==
  ASSUME Inv, panic = "none", NEW p \in Pid, proc[p] = "live"
  PROVE  \E app \in App : /\ areas[p] = from_elf(app)
                          /\ mem[trap_cx_ppn[p]] = TrapContext(app, get_top(p))
BY DEF Inv, AreasOK

(* KERNEL_SPACE maps the kernel stacks of the pids in use and nothing more.*)
LEMMA KernelFrames ==
  ASSUME Inv, NEW p \in Pid
  PROVE  /\ \A v \in Pages(KernelStack(p)) : v \in Page /\ v # TRAMPOLINE
         /\ proc[p] = "none" =>
              \A v \in Pages(KernelStack(p)) :
                 data_frames[Kernel][v] = NoFrame /\ table[Kernel][v] = NoFrame
         /\ proc[p] # "none" =>
              \A v \in Pages(KernelStack(p)) : data_frames[Kernel][v] \in Frame \ free
         /\ {a \in areas[Kernel] : a.l = floor(kernel_stack_position(p)[1])}
              = IF proc[p] = "none" THEN {} ELSE {KernelStack(p)}
<1>1. /\ Kernel \in Space /\ areas[Kernel] = {KernelStack(q) : q \in {r \in Pid : proc[r] # "none"}}
      /\ {v \in Page : data_frames[Kernel][v] # NoFrame} = PagesOf(areas[Kernel])
      /\ table[Kernel] = [data_frames[Kernel] EXCEPT ![TRAMPOLINE] = TrampolineFrame]
      /\ data_frames[Kernel] \in [Page -> Frame \cup {NoFrame}]
  BY DEF Space, Inv, AreasOK, TablesMatchAreas, FramesOwnedOnce, TypeOK
<1>2. \A v \in Pages(KernelStack(p)) : v \in Page /\ v # TRAMPOLINE
  BY StacksApart
<1>3. ASSUME proc[p] = "none", NEW v \in Pages(KernelStack(p))
      PROVE  data_frames[Kernel][v] = NoFrame /\ table[Kernel][v] = NoFrame
  <2>1. ASSUME v \in PagesOf(areas[Kernel]) PROVE FALSE
    <3>1. PICK q \in Pid : proc[q] # "none" /\ v \in Pages(KernelStack(q))
      BY <1>1, <2>1 DEF PagesOf
    <3> QED BY <1>3, <3>1, StacksApart
  <2> QED BY <1>1, <1>2, <1>3, <2>1
<1>4. ASSUME proc[p] # "none", NEW v \in Pages(KernelStack(p))
      PROVE  data_frames[Kernel][v] \in Frame \ free
  <2>1. v \in PagesOf(areas[Kernel])
    BY <1>1, <1>4 DEF PagesOf
  <2> QED BY <1>1, <1>2, <1>4, <2>1, OwnedFrames
<1>5. ASSUME NEW q \in Pid
      PROVE  KernelStack(q).l = floor(kernel_stack_position(p)[1]) <=> q = p
  BY StackLayout, StacksApart
<1> QED BY <1>1, <1>2, <1>3, <1>4, <1>5

-------------------------------------------------------------------------------
(* The steps.                                                              *)

LEMMA InitInv == Init => Inv
<1> SUFFICES ASSUME Init PROVE Inv
  OBVIOUS
<1>1. TRAMPOLINE \in Page /\ Kernel \in Space
  BY LayoutAssumption DEF Page, Space
<1>2. TypeOK
  <2>1. mem \in [Frame -> Content]
    BY DEF Init, Content
  <2>2. table \in [Space -> [Page -> Frame \cup {NoFrame, TrampolineFrame}]]
    BY DEF Init, Nowhere
  <2>3. data_frames \in [Space -> [Page -> Frame \cup {NoFrame}]]
    BY DEF Init, Nowhere
  <2> QED BY <2>1, <2>2, <2>3 DEF Init, TypeOK
<1>3. OwnedOnce(data_frames, free)
  BY FrameAssumption DEF Init, OwnedOnce, Nowhere
<1>4. FramesOwnedOnce
  BY <1>2, <1>3, FramesOwnedOnceDef
<1>5. TablesMatchAreas
  BY <1>1, FrameAssumption DEF Init, TablesMatchAreas, Live, PagesOf, Nowhere
<1>6. TrapContextIsCurrent /\ AreasOK
  BY <1>1 DEF Init, TrapContextIsCurrent, AreasOK, Live, Space
<1> QED BY <1>4, <1>5, <1>6 DEF Inv

LEMMA PanicInv ==
  ASSUME Inv, panic = "none", NEW why \in {"out of frames", "bad_pointer"}, Panic(why)
  PROVE  Inv'
<1>1. /\ panic' \in {"out of frames", "bad_pointer"}
      /\ UNCHANGED <<mem, free, areas, data_frames, table>>
      /\ UNCHANGED <<trap_cx_ppn, proc>>
  BY DEF Panic, spaceVars
<1>2. TypeOK'
  BY <1>1 DEF Inv, FramesOwnedOnce, TypeOK
<1>3. FramesOwnedOnce'
  BY <1>1, <1>2, FramesOwnedOnceDef, FramesOwnedOnceAfter DEF Inv
<1>4. TablesMatchAreas'
  BY <1>1 DEF Inv, TablesMatchAreas, Live
<1>5. TrapContextIsCurrent' /\ AreasOK'
  BY <1>1 DEF Inv, TrapContextIsCurrent, ContextIntact, AreasOK, Live
<1> QED BY <1>3, <1>4, <1>5 DEF Inv


(* What create does when the pool serves it: g and h are the frames of the *)
(* space and of the kernel stack.                                          *)
Created(n, A, image, g, h) ==
  /\ g \in [PagesOf(A) -> free]
  /\ \A v, w \in PagesOf(A) : g[v] = g[w] => v = w
  /\ h \in [Pages(KernelStack(n)) -> free \ Range(g)]
  /\ \A v, w \in Pages(KernelStack(n)) : h[v] = h[w] => v = w
  /\ free' = (free \ Range(g)) \ Range(h)
  /\ mem' = [f \in Frame |-> IF f \in Range(g) THEN filled(image, g, f)
                             ELSE IF f \in Range(h) THEN Garbage ELSE mem[f]]
  /\ areas' = [areas EXCEPT ![n] = A, ![Kernel] = @ \cup {KernelStack(n)}]
  /\ data_frames' = [data_frames EXCEPT ![n] = Mapped(Nowhere, g), ![Kernel] = Mapped(@, h)]
  /\ table' = [table EXCEPT ![n] = fresh_table(g), ![Kernel] = Mapped(@, h)]
  /\ trap_cx_ppn' = [trap_cx_ppn EXCEPT ![n] = g[TRAP_CONTEXT]]
  /\ proc' = [proc EXCEPT ![n] = "live"]
  /\ panic' = panic

(* create never meets a page that is mapped.                               *)
LEMMA CreateEffect ==
  ASSUME Inv, NEW n \in Pid, proc[n] = "none", NEW app \in App, NEW image,
         create(n, from_elf(app), image)
  PROVE  Panic("out of frames") \/ \E g, h : Created(n, from_elf(app), image, g, h)
<1> DEFINE A == from_elf(app)
           S == KernelStack(n)
           V == PagesOf(A)
           W == Pages(S)
           choices == allocations(V, W)
<1>1. ~Overlaps(A)
  BY LayoutAssumption
<1>2. ~Conflict(table[Kernel], W)
  BY KernelFrames DEF Conflict
<1>3. CASE choices = {}
  BY <1>1, <1>2, <1>3 DEF create
<1>4. CASE choices # {}
  <2>1. PICK c \in choices :
        /\ free' = free \ (Range(c[1]) \cup Range(c[2]))
        /\ mem' = [f \in Frame |->
              IF f \in Range(c[1]) THEN filled(image, c[1], f)
              ELSE IF f \in Range(c[2]) THEN Garbage ELSE mem[f]]
        /\ areas' = [areas EXCEPT ![n] = A, ![Kernel] = @ \cup {S}]
        /\ data_frames' = [data_frames EXCEPT ![n] = Mapped(Nowhere, c[1]),
                                              ![Kernel] = Mapped(@, c[2])]
        /\ table' = [table EXCEPT ![n] = fresh_table(c[1]),
                                  ![Kernel] = Mapped(@, c[2])]
        /\ trap_cx_ppn' = [trap_cx_ppn EXCEPT ![n] = c[1][TRAP_CONTEXT]]
        /\ proc' = [proc EXCEPT ![n] = "live"]
        /\ UNCHANGED panic
    BY <1>1, <1>2, <1>4 DEF create
  <2>2. PICK g \in frames_for(V, free) : \E x \in frames_for(W, free \ Range(g)) : c = <<g, x>>
    BY DEF allocations
  <2>3. PICK h \in frames_for(W, free \ Range(g)) : c = <<g, h>>
    BY <2>2
  <2>4. c[1] = g /\ c[2] = h
    BY <2>3
  <2>5. free \in SUBSET Frame /\ free \ Range(g) \in SUBSET Frame
    BY DEF Inv, FramesOwnedOnce, TypeOK
  <2>6. g \in [V -> free] /\ \A v, w \in V : g[v] = g[w] => v = w
    BY <2>5, FramesFor
  <2>7. h \in [W -> free \ Range(g)] /\ \A v, w \in W : h[v] = h[w] => v = w
    BY <2>5, FramesFor
  <2>8. free' = (free \ Range(g)) \ Range(h)
    BY <2>1, <2>4
  <2> HIDE DEF A, S, V, W, choices
  <2>9. /\ mem' = [f \in Frame |-> IF f \in Range(g) THEN filled(image, g, f)
                                   ELSE IF f \in Range(h) THEN Garbage ELSE mem[f]]
        /\ areas' = [areas EXCEPT ![n] = A, ![Kernel] = @ \cup {S}]
        /\ data_frames' = [data_frames EXCEPT ![n] = Mapped(Nowhere, g), ![Kernel] = Mapped(@, h)]
        /\ table' = [table EXCEPT ![n] = fresh_table(g), ![Kernel] = Mapped(@, h)]
        /\ trap_cx_ppn' = [trap_cx_ppn EXCEPT ![n] = g[TRAP_CONTEXT]]
        /\ proc' = [proc EXCEPT ![n] = "live"]
        /\ panic' = panic
    BY <2>1, <2>4
  <2>10. Created(n, A, image, g, h)
    BY <2>6, <2>7, <2>8, <2>9 DEF Created, S, V, W
  <2> QED BY <2>10 DEF A
<1> QED BY <1>3, <1>4

(* A process that appears, by new or by fork, with its image and its       *)
(* kernel stack in frames that were free.                                  *)
LEMMA CreatedInv ==
  ASSUME Inv, panic = "none", NEW n \in Pid, proc[n] = "none", NEW app \in App, NEW image,
         image[TRAP_CONTEXT] = TrapContext(app, get_top(n)),
         \A v \in PagesOf(from_elf(app)) : image[v] \in Content \cup {Untouched},
         NEW g, NEW h, Created(n, from_elf(app), image, g, h)
  PROVE  Inv'
<1> DEFINE A == from_elf(app)
           S == KernelStack(n)
           V == PagesOf(A)
           W == Pages(S)
<1>1. /\ V \subseteq Page /\ TRAMPOLINE \notin V /\ TRAP_CONTEXT \in V
      /\ TRAMPOLINE \in Page /\ TRAP_CONTEXT \in Page
      /\ W \subseteq Page /\ TRAMPOLINE \notin W
  BY ProgramLayout, StacksApart
<1>2. /\ g \in [V -> free] /\ \A v, w \in V : g[v] = g[w] => v = w
      /\ h \in [W -> free \ Range(g)] /\ \A v, w \in W : h[v] = h[w] => v = w
      /\ free' = (free \ Range(g)) \ Range(h)
  BY DEF Created
<1>3. /\ n \in Space /\ Kernel \in Space /\ n # Kernel /\ Pid \subseteq Space /\ Kernel \notin Pid
      /\ free \in SUBSET Frame /\ data_frames \in Ownership
      /\ OwnedOnce(data_frames, free)
      /\ areas[n] = {} /\ data_frames[n] = Nowhere
      /\ proc \in [Pid -> {"none", "live", "zombie"}]
  BY FramesOwnedOnceDef, LayoutAssumption
     DEF Inv, AreasOK, FramesOwnedOnce, TypeOK, Ownership, Space, Kernel, Pid
<1>4. /\ proc'[n] = "live" /\ \A q \in Pid \ {n} : proc'[q] = proc[q]
      /\ panic' = "none" /\ proc' \in [Pid -> {"none", "live", "zombie"}]
  BY <1>3 DEF Created
<1> HIDE DEF A, S, V, W
(* The frames are given out twice, first for the space.                    *)
<1> DEFINE df1 == [data_frames EXCEPT ![n] = Mapped(data_frames[n], g)]
           fr1 == free \ Range(g)
<1>5. df1 \in Ownership /\ fr1 \in SUBSET Frame /\ OwnedOnce(df1, fr1)
  <2>1. \A v \in V : data_frames[n][v] = NoFrame
    BY <1>1, <1>3 DEF Nowhere
  <2> QED BY <1>1, <1>2, <1>3, <2>1, Give
<1>6. data_frames' = [df1 EXCEPT ![Kernel] = Mapped(df1[Kernel], h)]
  <2>1. data_frames' = [data_frames EXCEPT ![n] = Mapped(Nowhere, g), ![Kernel] = Mapped(@, h)]
    BY DEF Created
  <2>2. data_frames \in [Space -> [Page -> Frame \cup {NoFrame}]]
    BY <1>3 DEF Ownership
  <2> QED BY <1>3, <2>1, <2>2
<1> HIDE DEF df1, fr1
<1>7. data_frames' \in Ownership /\ free' \in SUBSET Frame /\ OwnedOnce(data_frames', free')
  <2>1. \A v \in W : df1[Kernel][v] = NoFrame
    <3>1. df1[Kernel] = data_frames[Kernel]
      BY <1>3 DEF df1, Ownership
    <3> QED BY <3>1, KernelFrames DEF W, S
  <2>2. /\ h \in [W -> fr1] /\ free' = fr1 \ Range(h) /\ W \in SUBSET Page
        /\ \A v, w \in W : h[v] = h[w] => v = w
    BY <1>1, <1>2 DEF fr1
  <2>3. Kernel \in Space
    BY <1>3
  <2> DEFINE df2 == [df1 EXCEPT ![Kernel] = Mapped(df1[Kernel], h)]
             fr2 == fr1 \ Range(h)
  <2>4. df2 \in Ownership /\ fr2 \in SUBSET Frame /\ OwnedOnce(df2, fr2)
    BY <1>5, <2>1, <2>2, <2>3, Give
  <2> QED BY <1>6, <2>2, <2>4
<1>8. /\ data_frames'[n] = Mapped(Nowhere, g)
      /\ data_frames'[Kernel] = Mapped(data_frames[Kernel], h)
      /\ \A s \in Space \ {n, Kernel} : data_frames'[s] = data_frames[s]
      /\ table'[n] = fresh_table(g)
      /\ table'[Kernel] = Mapped(table[Kernel], h)
      /\ \A s \in Space \ {n, Kernel} : table'[s] = table[s]
      /\ areas'[n] = A
      /\ areas'[Kernel] = areas[Kernel] \cup {S}
      /\ \A s \in Space \ {n, Kernel} : areas'[s] = areas[s]
      /\ trap_cx_ppn'[n] = g[TRAP_CONTEXT]
      /\ \A q \in Pid \ {n} : trap_cx_ppn'[q] = trap_cx_ppn[q]
  BY <1>3 DEF Created, Inv, FramesOwnedOnce, TypeOK, AreasOK, A, S
<1>9. /\ \A v \in V : g[v] \in Frame /\ g[v] # NoFrame
      /\ \A v \in W : h[v] \in Frame /\ h[v] # NoFrame
  BY <1>2, <1>3, FrameAssumption
<1>10. TablesMatchAreas'
  <2>1. /\ table'[n] = [data_frames'[n] EXCEPT ![TRAMPOLINE] = TrampolineFrame]
        /\ {v \in Page : data_frames'[n][v] # NoFrame} = PagesOf(areas'[n])
    <3>1. Nowhere \in [Page -> {NoFrame}] /\ V \in SUBSET (Page \ {TRAMPOLINE})
      BY <1>1 DEF Nowhere
    <3>2. table'[n] = [data_frames'[n] EXCEPT ![TRAMPOLINE] = TrampolineFrame]
      BY <1>1, <1>2, <1>8, <3>1 DEF fresh_table, Mapped
    <3>3. \A v \in Page : data_frames'[n][v] = IF v \in V THEN g[v] ELSE NoFrame
      BY <1>2, <1>8 DEF Mapped, Nowhere
    <3>4. PagesOf(areas'[n]) = V
      BY <1>8 DEF V
    <3> QED BY <1>1, <1>9, <3>2, <3>3, <3>4
  <2>2. /\ table'[Kernel] = [data_frames'[Kernel] EXCEPT ![TRAMPOLINE] = TrampolineFrame]
        /\ {v \in Page : data_frames'[Kernel][v] # NoFrame} = PagesOf(areas'[Kernel])
    <3>1. /\ data_frames[Kernel] \in [Page -> Frame \cup {NoFrame}]
          /\ W \in SUBSET (Page \ {TRAMPOLINE})
          /\ table[Kernel] = [data_frames[Kernel] EXCEPT ![TRAMPOLINE] = TrampolineFrame]
          /\ {v \in Page : data_frames[Kernel][v] # NoFrame} = PagesOf(areas[Kernel])
      BY <1>1, <1>3 DEF Ownership, Inv, TablesMatchAreas
    <3>2. table'[Kernel] = [data_frames'[Kernel] EXCEPT ![TRAMPOLINE] = TrampolineFrame]
      BY <1>1, <1>2, <1>8, <3>1 DEF Mapped
    <3>3. \A v \in Page : data_frames'[Kernel][v] = IF v \in W THEN h[v] ELSE data_frames[Kernel][v]
      BY <1>2, <1>8 DEF Mapped
    <3>4. PagesOf(areas'[Kernel]) = PagesOf(areas[Kernel]) \cup W
      BY <1>8 DEF PagesOf, W
    <3> QED BY <1>1, <1>9, <3>1, <3>2, <3>3, <3>4
  <2>3. ASSUME NEW p \in Pid, p # n, proc'[p] = "live"
        PROVE  /\ table'[p] = [data_frames'[p] EXCEPT ![TRAMPOLINE] = TrampolineFrame]
               /\ {v \in Page : data_frames'[p][v] # NoFrame} = PagesOf(areas'[p])
    <3>1. p \in Live /\ p \in Space \ {n, Kernel}
      BY <1>3, <1>4, <2>3 DEF Live
    <3>2. data_frames'[p] = data_frames[p] /\ table'[p] = table[p] /\ areas'[p] = areas[p]
      BY <1>8, <3>1
    <3> QED BY <3>1, <3>2 DEF Inv, TablesMatchAreas
  <2> QED BY <1>4, <2>1, <2>2, <2>3 DEF TablesMatchAreas, Live
<1>11. /\ \A f \in Frame : mem'[f] = IF f \in Range(g) THEN filled(image, g, f)
                                     ELSE IF f \in Range(h) THEN Garbage ELSE mem[f]
       /\ \A f \in Frame \ free : mem'[f] = mem[f]
  <2>1. Range(g) \subseteq free /\ Range(h) \subseteq free
    BY <1>2 DEF Range
  <2> QED BY <2>1 DEF Created
<1>12. mem'[g[TRAP_CONTEXT]] = TrapContext(app, get_top(n))
  <2>1. g[TRAP_CONTEXT] \in Range(g) /\ g[TRAP_CONTEXT] \in Frame
    BY <1>1, <1>2, <1>9 DEF Range
  <2>2. filled(image, g, g[TRAP_CONTEXT]) = TrapContext(app, get_top(n))
    BY <1>1, <1>2, FilledFrame, Contexts
  <2> QED BY <1>11, <2>1, <2>2
<1>13. TypeOK'
  <2>1. mem' \in [Frame -> Content]
    <3>1. Garbage \in Content /\ Zero \in Content /\ mem \in [Frame -> Content]
      BY DEF Inv, FramesOwnedOnce, TypeOK, Content
    <3>2. ASSUME NEW f \in Range(g) PROVE filled(image, g, f) \in Content
      <4>1. PICK v \in V : f = g[v]
        BY <1>2 DEF Range
      <4>2. image[v] \in Content \cup {Untouched}
        BY <4>1 DEF V, A
      <4> QED BY <1>2, <3>1, <4>1, <4>2, FilledFrame
    <3> QED BY <3>1, <3>2 DEF Created
  <2>2. table' \in [Space -> [Page -> Frame \cup {NoFrame, TrampolineFrame}]]
    <3>1. table \in [Space -> [Page -> Frame \cup {NoFrame, TrampolineFrame}]]
      BY DEF Inv, FramesOwnedOnce, TypeOK
    <3>2. \A s \in Space : data_frames'[s] \in [Page -> Frame \cup {NoFrame}]
      BY <1>7 DEF Ownership
    <3>3. /\ table'[n] \in [Page -> Frame \cup {NoFrame, TrampolineFrame}]
          /\ table'[Kernel] \in [Page -> Frame \cup {NoFrame, TrampolineFrame}]
      <4>1. \A s \in {n, Kernel} :
              table'[s] = [data_frames'[s] EXCEPT ![TRAMPOLINE] = TrampolineFrame]
        BY <1>4, <1>10 DEF TablesMatchAreas, Live
      <4>2. \A s \in {n, Kernel} : data_frames'[s] \in [Page -> Frame \cup {NoFrame}]
        BY <1>3, <3>2
      <4> QED BY <4>1, <4>2
    <3>4. table' = [s \in Space |-> table'[s]]
      BY <3>1 DEF Created
    <3> QED BY <1>8, <3>1, <3>3, <3>4
  <2>3. trap_cx_ppn' \in [Pid -> Frame \cup {NoFrame}]
    BY <1>1, <1>9 DEF Created, Inv, FramesOwnedOnce, TypeOK
  <2> QED BY <1>4, <1>7, <2>1, <2>2, <2>3 DEF TypeOK, Ownership
<1>14. FramesOwnedOnce'
  BY <1>7, <1>13, FramesOwnedOnceAfter
<1>15. ASSUME NEW p \in Pid, p # n, proc'[p] = "live"
       PROVE  /\ trap_cx_ppn'[p] = table'[p][TRAP_CONTEXT]
              /\ mem'[trap_cx_ppn'[p]] = mem[trap_cx_ppn[p]]
              /\ areas'[p] = areas[p]
              /\ KernelStack(p) \in areas'[Kernel]
  <2>1. p \in Space \ {n, Kernel} /\ proc[p] = "live"
    BY <1>3, <1>4, <1>15
  <2>2. trap_cx_ppn[p] \in Frame \ free /\ trap_cx_ppn[p] = table[p][TRAP_CONTEXT]
    BY <2>1, LiveContext
  <2>3. KernelStack(p) \in areas[Kernel]
    BY <2>1 DEF Inv, TrapContextIsCurrent, Live
  <2> QED BY <1>8, <1>11, <2>1, <2>2, <2>3
<1>16. trap_cx_ppn'[n] = table'[n][TRAP_CONTEXT]
  BY <1>1, <1>2, <1>8 DEF fresh_table, Mapped
<1>17. TrapContextIsCurrent'
  <2> SUFFICES ASSUME NEW p \in Pid, proc'[p] = "live"
               PROVE  /\ trap_cx_ppn'[p] = table'[p][TRAP_CONTEXT]
                      /\ \E x \in App : mem'[trap_cx_ppn'[p]] = TrapContext(x, get_top(p))
                      /\ KernelStack(p) \in areas'[Kernel]
    BY DEF TrapContextIsCurrent, ContextIntact, Live
  <2>1. CASE p = n
    BY <1>8, <1>12, <1>16, <2>1 DEF S
  <2>2. CASE p # n
    <3>1. \E x \in App : mem[trap_cx_ppn[p]] = TrapContext(x, get_top(p))
      BY <1>4, <2>2, LiveProgram
    <3> QED BY <1>15, <2>2, <3>1
  <2> QED BY <2>1, <2>2
<1>18. AreasOK'
  <2>1. areas' \in [Space -> SUBSET ({KernelStack(p) : p \in Pid}
                                     \cup UNION {from_elf(x) : x \in App})]
    <3> DEFINE X == {KernelStack(p) : p \in Pid} \cup UNION {from_elf(x) : x \in App}
    <3>1. A \in SUBSET X /\ S \in X
      BY DEF A, S
    <3>2. areas \in [Space -> SUBSET X]
      BY DEF Inv, AreasOK
    <3>3. areas' = [areas EXCEPT ![n] = A, ![Kernel] = @ \cup {S}]
      BY DEF Created, A, S
    <3> HIDE DEF X
    <3>4. areas' \in [Space -> SUBSET X]
      BY <1>3, <3>1, <3>2, <3>3
    <3> QED BY <3>4 DEF X
  <2>2. areas'[Kernel] = {KernelStack(p) : p \in {q \in Pid : proc'[q] # "none"}}
    <3>1. areas[Kernel] = {KernelStack(p) : p \in {q \in Pid : proc[q] # "none"}}
      BY DEF Inv, AreasOK
    <3>2. {q \in Pid : proc'[q] # "none"} = {q \in Pid : proc[q] # "none"} \cup {n}
      BY <1>4
    <3> QED BY <1>8, <3>1, <3>2 DEF S
  <2>3. ASSUME NEW p \in Pid
        PROVE  IF proc'[p] = "live"
               THEN \E x \in App : /\ areas'[p] = from_elf(x)
                                   /\ mem'[trap_cx_ppn'[p]] = TrapContext(x, get_top(p))
               ELSE areas'[p] = {} /\ data_frames'[p] = Nowhere
    <3>1. CASE p = n
      BY <1>4, <1>8, <1>12, <3>1 DEF A
    <3>2. CASE p # n /\ proc'[p] = "live"
      <4>1. \E x \in App : /\ areas[p] = from_elf(x)
                           /\ mem[trap_cx_ppn[p]] = TrapContext(x, get_top(p))
        BY <1>4, <3>2, LiveProgram
      <4> QED BY <1>15, <3>2, <4>1
    <3>3. CASE p # n /\ proc'[p] # "live"
      <4>1. areas[p] = {} /\ data_frames[p] = Nowhere /\ p \in Space \ {n, Kernel}
        BY <1>3, <1>4, <3>3 DEF Inv, AreasOK
      <4> QED BY <1>8, <3>3, <4>1
    <3> QED BY <3>1, <3>2, <3>3
  <2> QED BY <2>1, <2>2, <2>3 DEF AreasOK
<1> QED BY <1>10, <1>14, <1>17, <1>18 DEF Inv


(* The image of a fresh program.                                           *)
LEMMA ElfImage ==
  ASSUME NEW app \in App, NEW p \in Pid
  PROVE  /\ elf_image(app, p)[TRAP_CONTEXT] = TrapContext(app, get_top(p))
         /\ \A v \in PagesOf(from_elf(app)) : elf_image(app, p)[v] \in Content \cup {Untouched}
<1>1. TRAP_CONTEXT \in PagesOf(from_elf(app)) /\ PagesOf(from_elf(app)) \subseteq Page
  BY ProgramLayout
<1>2. elf_image(app, p)[TRAP_CONTEXT] = TrapContext(app, get_top(p))
  BY <1>1 DEF elf_image
<1>3. TrapContext(app, get_top(p)) \in Content
  BY DEF Content
<1>4. ASSUME NEW v \in PagesOf(from_elf(app)), v # TRAP_CONTEXT
      PROVE  elf_image(app, p)[v] \in Content \cup {Untouched}
  <2>1. elf_image(app, p)[v] = copy_data(app, v)
    BY <1>4 DEF elf_image
  <2>2. copy_data(app, v) \in {<<"file", app, v>>, Untouched}
    BY DEF copy_data
  <2>3. <<"file", app, v>> \in Content
    BY <1>1 DEF Content
  <2> QED BY <2>1, <2>2, <2>3
<1> QED BY <1>2, <1>3, <1>4

LEMMA newInv ==
  ASSUME Inv, panic = "none", NEW app \in App, new(app)
  PROVE  Inv'
<1>1. 0 \in Pid
  BY LayoutAssumption DEF Pid
<1>2. proc[0] = "none" /\ create(0, from_elf(app), elf_image(app, 0))
  BY <1>1 DEF new
<1> DEFINE image == elf_image(app, 0)
<1>3. /\ image[TRAP_CONTEXT] = TrapContext(app, get_top(0))
      /\ \A v \in PagesOf(from_elf(app)) : image[v] \in Content \cup {Untouched}
  BY <1>1, ElfImage
<1> HIDE DEF image
<1>4. CASE Panic("out of frames")
  BY <1>4, PanicInv
<1>5. ASSUME NEW g, NEW h, Created(0, from_elf(app), image, g, h) PROVE Inv'
  BY <1>1, <1>2, <1>3, <1>5, CreatedInv
<1> QED BY <1>1, <1>2, <1>4, <1>5, CreateEffect DEF image

(* fork copies a space of a program: its image is one for the child.       *)
LEMMA CopiedImage ==
  ASSUME Inv, NEW p \in Pid, proc[p] = "live", NEW n \in Pid, NEW app \in App,
         areas[p] = from_elf(app), mem[trap_cx_ppn[p]] = TrapContext(app, get_top(p))
  PROVE  /\ copied_image(p, n)[TRAP_CONTEXT] = TrapContext(app, get_top(n))
         /\ \A v \in PagesOf(from_elf(app)) : v # TRAP_CONTEXT =>
              copied_image(p, n)[v] = mem[table[p][v]] /\ table[p][v] \in Frame
         /\ \A v \in PagesOf(from_elf(app)) : copied_image(p, n)[v] \in Content \cup {Untouched}
<1>1. /\ TRAP_CONTEXT \in PagesOf(from_elf(app)) /\ PagesOf(from_elf(app)) \subseteq Page
      /\ TRAMPOLINE \notin PagesOf(from_elf(app))
  BY ProgramLayout
<1>2. copied_image(p, n)[TRAP_CONTEXT] = TrapContext(app, get_top(n))
  <2>1. copied_image(p, n)[TRAP_CONTEXT] = set_kernel_sp(mem[table[p][TRAP_CONTEXT]], n)
    BY <1>1 DEF copied_image
  <2>2. mem[table[p][TRAP_CONTEXT]] = TrapContext(app, get_top(p))
    BY LiveContext
  <2> QED BY <2>1, <2>2, Contexts DEF set_kernel_sp
<1>3. ASSUME NEW v \in PagesOf(from_elf(app)), v # TRAP_CONTEXT
      PROVE  copied_image(p, n)[v] = mem[table[p][v]] /\ table[p][v] \in Frame
  BY <1>1, <1>3, LiveFrames DEF copied_image
<1>4. mem \in [Frame -> Content]
  BY DEF Inv, FramesOwnedOnce, TypeOK
<1>5. TrapContext(app, get_top(n)) \in Content
  BY DEF Content
<1> QED BY <1>2, <1>3, <1>4, <1>5

LEMMA forkInv ==
  ASSUME Inv, panic = "none", NEW p \in Pid, NEW n \in Pid, fork(p, n)
  PROVE  Inv'
<1>1. proc[p] = "live" /\ proc[n] = "none" /\ create(n, areas[p], copied_image(p, n))
  BY DEF fork
<1>2. PICK app \in App : /\ areas[p] = from_elf(app)
                         /\ mem[trap_cx_ppn[p]] = TrapContext(app, get_top(p))
  BY <1>1, LiveProgram
<1> DEFINE image == copied_image(p, n)
<1>3. /\ image[TRAP_CONTEXT] = TrapContext(app, get_top(n))
      /\ \A v \in PagesOf(from_elf(app)) : image[v] \in Content \cup {Untouched}
  BY <1>1, <1>2, CopiedImage
<1>4. create(n, from_elf(app), image)
  BY <1>1, <1>2
<1> HIDE DEF image
<1>5. CASE Panic("out of frames")
  BY <1>5, PanicInv
<1>6. ASSUME NEW g, NEW h, Created(n, from_elf(app), image, g, h) PROVE Inv'
  BY <1>1, <1>3, <1>6, CreatedInv
<1> QED BY <1>1, <1>4, <1>5, <1>6, CreateEffect

(* What exec does when the pool serves it: g are the frames of the new     *)
(* space.                                                                  *)
Executed(p, app, g) ==
  /\ g \in [PagesOf(from_elf(app)) -> free]
  /\ \A v, w \in PagesOf(from_elf(app)) : g[v] = g[w] => v = w
  /\ free' = (free \ Range(g)) \cup released(p)
  /\ mem' = [f \in Frame |->
        IF f \in Range(g) THEN filled(elf_image(app, p), g, f)
        ELSE IF f \in released(p) THEN Garbage ELSE mem[f]]
  /\ areas' = [areas EXCEPT ![p] = from_elf(app)]
  /\ data_frames' = [data_frames EXCEPT ![p] = Mapped(Nowhere, g)]
  /\ table' = [table EXCEPT ![p] = fresh_table(g)]
  /\ trap_cx_ppn' = [trap_cx_ppn EXCEPT ![p] = g[TRAP_CONTEXT]]
  /\ proc' = proc /\ panic' = panic

(* exec either finds too few frames or replaces the whole image.           *)
LEMMA ExecEffect ==
  ASSUME Inv, NEW p \in Pid, NEW app \in App, exec(p, app)
  PROVE  proc[p] = "live" /\ (Panic("out of frames") \/ \E g : Executed(p, app, g))
<1> DEFINE V == PagesOf(from_elf(app))
<1>1. ~Overlaps(from_elf(app))
  BY LayoutAssumption
<1>2. CASE frames_for(V, free) = {}
  BY <1>1, <1>2 DEF exec
<1>3. CASE frames_for(V, free) # {}
  <2>1. PICK g \in frames_for(V, free) :
           /\ free' = (free \ Range(g)) \cup released(p)
           /\ mem' = [f \in Frame |->
                 IF f \in Range(g) THEN filled(elf_image(app, p), g, f)
                 ELSE IF f \in released(p) THEN Garbage ELSE mem[f]]
           /\ areas' = [areas EXCEPT ![p] = from_elf(app)]
           /\ data_frames' = [data_frames EXCEPT ![p] = Mapped(Nowhere, g)]
           /\ table' = [table EXCEPT ![p] = fresh_table(g)]
           /\ trap_cx_ppn' = [trap_cx_ppn EXCEPT ![p] = g[TRAP_CONTEXT]]
           /\ UNCHANGED <<proc, panic>>
    BY <1>1, <1>3 DEF exec, cache_trap_cx
  <2>2. free \in SUBSET Frame
    BY DEF Inv, FramesOwnedOnce, TypeOK
  <2>3. g \in [V -> free] /\ \A v, w \in V : g[v] = g[w] => v = w
    BY <2>2, FramesFor
  <2>4. Executed(p, app, g)
    BY <2>1, <2>3 DEF Executed
  <2> QED BY <2>4 DEF exec
<1> QED BY <1>2, <1>3

(* The frames that come back are those the process owned.                  *)
LEMMA Released ==
  ASSUME Inv, NEW p \in Pid
  PROVE  /\ \A f : f \in released(p) <=> f # NoFrame /\ \E v \in Page : data_frames[p][v] = f
         /\ released(p) \cap free = {} /\ released(p) \subseteq Frame
<1>1. p \in Space
  BY DEF Space
<1>2. data_frames[p] \in [Page -> Frame \cup {NoFrame}]
  BY <1>1 DEF Inv, FramesOwnedOnce, TypeOK
<1>3. \A f : f \in released(p) <=> f # NoFrame /\ \E v \in Page : data_frames[p][v] = f
  BY <1>2 DEF released, Owned, Range
<1> QED BY <1>1, <1>3, OwnedFrames

(* The image of exec is in frames that were free or its own, and the old   *)
(* ones are given back.                                                    *)
LEMMA executedInv ==
  ASSUME Inv, panic = "none", NEW p \in Pid, proc[p] = "live", NEW app \in App,
         NEW g, Executed(p, app, g)
  PROVE  Inv'
<1> DEFINE A == from_elf(app)
           V == PagesOf(A)
           image == elf_image(app, p)
<1>1. /\ V \subseteq Page /\ TRAMPOLINE \notin V /\ TRAP_CONTEXT \in V
      /\ TRAMPOLINE \in Page /\ TRAP_CONTEXT \in Page
      /\ image[TRAP_CONTEXT] = TrapContext(app, get_top(p))
      /\ \A v \in V : image[v] \in Content \cup {Untouched}
  BY ProgramLayout, ElfImage
<1>2. /\ g \in [V -> free] /\ \A v, w \in V : g[v] = g[w] => v = w
      /\ free' = (free \ Range(g)) \cup released(p)
      /\ proc' = proc /\ panic' = panic
  BY DEF Executed
<1>3. /\ p \in Space /\ Kernel \in Space /\ p # Kernel /\ Pid \subseteq Space /\ Kernel \notin Pid
      /\ free \in SUBSET Frame /\ data_frames \in Ownership
      /\ OwnedOnce(data_frames, free)
  BY FramesOwnedOnceDef, LayoutAssumption
     DEF Inv, FramesOwnedOnce, TypeOK, Ownership, Space, Kernel, Pid
<1> HIDE DEF A, V, image
<1> DEFINE df1 == [data_frames EXCEPT ![p] = Without(data_frames[p], Page)]
           fr1 == free \cup released(p)
<1>4. df1 \in Ownership /\ fr1 \in SUBSET Frame /\ OwnedOnce(df1, fr1)
  <2> DEFINE V1 == Page
  <2>1. released(p) = FramesAt(data_frames[p], V1)
    BY Released DEF FramesAt
  <2>2. V1 \in SUBSET Page /\ p \in Space
    BY <1>3
  <2>3. data_frames \in Ownership /\ free \in SUBSET Frame /\ OwnedOnce(data_frames, free)
    BY <1>3
  <2> DEFINE dfx == [data_frames EXCEPT ![p] = Without(data_frames[p], V1)]
             frx == free \cup FramesAt(data_frames[p], V1)
  <2>4. df1 = dfx /\ fr1 = frx
    BY <2>1
  <2> HIDE DEF fr1, df1, V1
  <2>5. dfx \in Ownership /\ frx \in SUBSET Frame /\ OwnedOnce(dfx, frx)
    BY <2>2, <2>3, Take
  <2> QED BY <2>4, <2>5
<1>5. df1[p] = Nowhere
  BY <1>3 DEF Without, Nowhere, Ownership
<1> DEFINE df2 == [df1 EXCEPT ![p] = Mapped(df1[p], g)]
           fr2 == fr1 \ Range(g)
<1>6. data_frames' = df2 /\ free' = fr2
  <2>1. df2 = [df1 EXCEPT ![p] = Mapped(Nowhere, g)]
    BY <1>5
  <2>2. data_frames' = [data_frames EXCEPT ![p] = Mapped(Nowhere, g)]
    BY DEF Executed
  <2>3. data_frames' = df2
    BY <1>3, <2>1, <2>2 DEF Ownership
  <2>4. Range(g) \subseteq free
    BY <1>2 DEF Range
  <2> QED BY <1>2, <2>3, <2>4, Released
<1> HIDE DEF df1, fr1
<1>7. df2 \in Ownership /\ fr2 \in SUBSET Frame /\ OwnedOnce(df2, fr2)
  <2>1. \A v \in V : df1[p][v] = NoFrame
    BY <1>1, <1>5 DEF Nowhere
  <2>2. g \in [V -> fr1] /\ V \in SUBSET Page /\ \A v, w \in V : g[v] = g[w] => v = w
    BY <1>1, <1>2 DEF fr1
  <2>3. p \in Space
    BY <1>3
  <2> QED BY <1>4, <2>1, <2>2, <2>3, Give
<1> HIDE DEF df2, fr2
<1>8. /\ data_frames'[p] = Mapped(Nowhere, g)
      /\ \A s \in Space \ {p} : data_frames'[s] = data_frames[s]
      /\ table'[p] = fresh_table(g)
      /\ \A s \in Space \ {p} : table'[s] = table[s]
      /\ areas'[p] = A
      /\ \A s \in Space \ {p} : areas'[s] = areas[s]
      /\ trap_cx_ppn'[p] = g[TRAP_CONTEXT]
      /\ \A q \in Pid \ {p} : trap_cx_ppn'[q] = trap_cx_ppn[q]
  BY <1>3 DEF Executed, Inv, FramesOwnedOnce, TypeOK, AreasOK, A
<1>9. \A v \in V : g[v] \in Frame /\ g[v] # NoFrame
  BY <1>2, <1>3, FrameAssumption
<1>10. TablesMatchAreas'
  <2>1. /\ table'[p] = [data_frames'[p] EXCEPT ![TRAMPOLINE] = TrampolineFrame]
        /\ {v \in Page : data_frames'[p][v] # NoFrame} = PagesOf(areas'[p])
    <3>1. Nowhere \in [Page -> {NoFrame}] /\ V \in SUBSET (Page \ {TRAMPOLINE})
      BY <1>1 DEF Nowhere
    <3>2. table'[p] = [data_frames'[p] EXCEPT ![TRAMPOLINE] = TrampolineFrame]
      BY <1>1, <1>2, <1>8, <3>1 DEF fresh_table, Mapped
    <3>3. \A v \in Page : data_frames'[p][v] = IF v \in V THEN g[v] ELSE NoFrame
      BY <1>2, <1>8 DEF Mapped, Nowhere
    <3>4. PagesOf(areas'[p]) = V
      BY <1>8 DEF V
    <3> QED BY <1>1, <1>9, <3>2, <3>3, <3>4
  <2>2. \A s \in (Live \cup {Kernel}) \ {p} :
           /\ table'[s] = [data_frames'[s] EXCEPT ![TRAMPOLINE] = TrampolineFrame]
           /\ {v \in Page : data_frames'[s][v] # NoFrame} = PagesOf(areas'[s])
    <3>1. \A s \in (Live \cup {Kernel}) \ {p} :
             data_frames'[s] = data_frames[s] /\ table'[s] = table[s] /\ areas'[s] = areas[s]
      BY <1>3, <1>8 DEF Live
    <3> QED BY <3>1 DEF Inv, TablesMatchAreas
  <2> QED BY <1>2, <2>1, <2>2 DEF Inv, TablesMatchAreas, Live
<1>11. \A f \in Frame : mem'[f] = IF f \in Range(g) THEN filled(image, g, f)
                                  ELSE IF f \in released(p) THEN Garbage ELSE mem[f]
  BY DEF Executed, image
<1>12. mem'[g[TRAP_CONTEXT]] = TrapContext(app, get_top(p))
  <2>1. g[TRAP_CONTEXT] \in Range(g) /\ g[TRAP_CONTEXT] \in Frame
    BY <1>1, <1>2, <1>9 DEF Range
  <2>2. filled(image, g, g[TRAP_CONTEXT]) = TrapContext(app, get_top(p))
    BY <1>1, <1>2, FilledFrame, Contexts
  <2> QED BY <1>11, <2>1, <2>2
<1>13. TypeOK'
  <2>1. mem' \in [Frame -> Content]
    <3>1. Garbage \in Content /\ Zero \in Content /\ mem \in [Frame -> Content]
      BY DEF Inv, FramesOwnedOnce, TypeOK, Content
    <3>2. ASSUME NEW f \in Range(g) PROVE filled(image, g, f) \in Content
      <4>1. PICK v \in V : f = g[v]
        BY <1>2 DEF Range
      <4> QED BY <1>1, <1>2, <3>1, <4>1, FilledFrame
    <3> QED BY <3>1, <3>2 DEF Executed, image
  <2>2. table' \in [Space -> [Page -> Frame \cup {NoFrame, TrampolineFrame}]]
    <3>1. table \in [Space -> [Page -> Frame \cup {NoFrame, TrampolineFrame}]]
      BY DEF Inv, FramesOwnedOnce, TypeOK
    <3>2. data_frames'[p] \in [Page -> Frame \cup {NoFrame}]
      BY <1>3, <1>6, <1>7 DEF Ownership
    <3>3. table'[p] = [data_frames'[p] EXCEPT ![TRAMPOLINE] = TrampolineFrame]
      BY <1>2, <1>10 DEF TablesMatchAreas, Live
    <3>4. table'[p] \in [Page -> Frame \cup {NoFrame, TrampolineFrame}]
      BY <3>2, <3>3
    <3>5. table' = [table EXCEPT ![p] = table'[p]]
      BY <1>3, <1>8, <3>1 DEF Executed
    <3> QED BY <3>1, <3>4, <3>5
  <2>3. trap_cx_ppn' \in [Pid -> Frame \cup {NoFrame}]
    BY <1>1, <1>9 DEF Executed, Inv, FramesOwnedOnce, TypeOK
  <2> QED BY <1>2, <1>6, <1>7, <2>1, <2>2, <2>3 DEF Inv, FramesOwnedOnce, TypeOK, Ownership
<1>14. FramesOwnedOnce'
  BY <1>6, <1>7, <1>13, FramesOwnedOnceAfter
<1>15. ASSUME NEW q \in Pid, q # p, proc[q] = "live"
       PROVE  /\ trap_cx_ppn'[q] = table'[q][TRAP_CONTEXT]
              /\ mem'[trap_cx_ppn'[q]] = mem[trap_cx_ppn[q]]
              /\ areas'[q] = areas[q]
  <2>1. q \in Space \ {p}
    BY <1>3, <1>15
  <2>2. /\ trap_cx_ppn[q] \in Frame \ free /\ trap_cx_ppn[q] = table[q][TRAP_CONTEXT]
        /\ trap_cx_ppn[q] = data_frames[q][TRAP_CONTEXT]
    BY <1>15, LiveContext
  <2>3. trap_cx_ppn[q] \notin Range(g)
    BY <1>2, <2>2 DEF Range
  <2>4. trap_cx_ppn[q] \notin released(p)
    BY <1>1, <1>3, <1>15, <2>1, <2>2, Released DEF OwnedOnce
  <2> QED BY <1>8, <1>11, <2>1, <2>2, <2>3, <2>4
<1>16. trap_cx_ppn'[p] = table'[p][TRAP_CONTEXT]
  BY <1>1, <1>2, <1>8 DEF fresh_table, Mapped
<1>17. areas'[Kernel] = areas[Kernel]
  BY <1>3, <1>8
<1>18. TrapContextIsCurrent'
  <2> SUFFICES ASSUME NEW q \in Pid, proc[q] = "live"
               PROVE  /\ trap_cx_ppn'[q] = table'[q][TRAP_CONTEXT]
                      /\ \E x \in App : mem'[trap_cx_ppn'[q]] = TrapContext(x, get_top(q))
                      /\ KernelStack(q) \in areas'[Kernel]
    BY <1>2 DEF TrapContextIsCurrent, ContextIntact, Live
  <2>1. KernelStack(q) \in areas'[Kernel]
    BY <1>17 DEF Inv, TrapContextIsCurrent, Live
  <2>2. CASE q = p
    BY <1>8, <1>12, <1>16, <2>1, <2>2
  <2>3. CASE q # p
    <3>1. \E x \in App : mem[trap_cx_ppn[q]] = TrapContext(x, get_top(q))
      BY LiveProgram
    <3> QED BY <1>15, <2>1, <2>3, <3>1
  <2> QED BY <2>2, <2>3
<1>19. AreasOK'
  <2>1. areas' \in [Space -> SUBSET ({KernelStack(q) : q \in Pid}
                                     \cup UNION {from_elf(x) : x \in App})]
    <3> DEFINE X == {KernelStack(q) : q \in Pid} \cup UNION {from_elf(x) : x \in App}
    <3>1. A \in SUBSET X
      BY DEF A
    <3>2. areas \in [Space -> SUBSET X]
      BY DEF Inv, AreasOK
    <3>3. areas' = [areas EXCEPT ![p] = A]
      BY DEF Executed, A
    <3> HIDE DEF X
    <3>4. areas' \in [Space -> SUBSET X]
      BY <3>1, <3>2, <3>3
    <3> QED BY <3>4 DEF X
  <2>2. areas'[Kernel] = {KernelStack(q) : q \in {r \in Pid : proc'[r] # "none"}}
    BY <1>2, <1>17 DEF Inv, AreasOK
  <2>3. ASSUME NEW q \in Pid
        PROVE  IF proc'[q] = "live"
               THEN \E x \in App : /\ areas'[q] = from_elf(x)
                                   /\ mem'[trap_cx_ppn'[q]] = TrapContext(x, get_top(q))
               ELSE areas'[q] = {} /\ data_frames'[q] = Nowhere
    <3>1. CASE q = p
      BY <1>2, <1>8, <1>12, <3>1 DEF A
    <3>2. CASE q # p /\ proc[q] = "live"
      <4>1. \E x \in App : /\ areas[q] = from_elf(x)
                           /\ mem[trap_cx_ppn[q]] = TrapContext(x, get_top(q))
        BY <3>2, LiveProgram
      <4> QED BY <1>2, <1>15, <3>2, <4>1
    <3>3. CASE q # p /\ proc[q] # "live"
      <4>1. areas[q] = {} /\ data_frames[q] = Nowhere /\ q \in Space \ {p}
        BY <1>3, <3>3 DEF Inv, AreasOK
      <4> QED BY <1>2, <1>8, <3>3, <4>1
    <3> QED BY <3>1, <3>2, <3>3
  <2> QED BY <2>1, <2>2, <2>3 DEF AreasOK
<1> QED BY <1>10, <1>14, <1>18, <1>19 DEF Inv

LEMMA execInv ==
  ASSUME Inv, panic = "none", NEW p \in Pid, NEW app \in App, exec(p, app)
  PROVE  Inv'
BY ExecEffect, PanicInv, executedInv


(* A store into a page of process p spares the contexts of all others, and *)
(* its own unless it is that page.                                         *)
StoredBy(p) ==
  /\ mem' \in [Frame -> Content]
  /\ panic' \in {"none", "overwritten"}
  /\ \A q \in Pid : proc[q] = "live" /\ (q # p \/ panic' = "none") =>
        mem'[trap_cx_ppn[q]] = mem[trap_cx_ppn[q]]

(* Frames are private, so a store goes to one page of one process.         *)
LEMMA StoreEffect ==
  ASSUME Inv, NEW p \in Pid, proc[p] = "live", NEW v \in Page, NEW x \in Data,
         table[p][v] \in Frame, mem' = [mem EXCEPT ![table[p][v]] = Written(x)],
         panic' = IF v = TRAP_CONTEXT THEN "overwritten" ELSE "none"
  PROVE  StoredBy(p)
<1>1. v # TRAMPOLINE /\ table[p][v] = data_frames[p][v]
  BY LiveFrames, FrameAssumption
<1>2. ASSUME NEW q \in Pid, proc[q] = "live", q # p \/ v # TRAP_CONTEXT
      PROVE  mem'[trap_cx_ppn[q]] = mem[trap_cx_ppn[q]]
  <2>1. trap_cx_ppn[q] = data_frames[q][TRAP_CONTEXT] /\ trap_cx_ppn[q] \in Frame
    BY <1>2, LiveContext
  <2>2. OwnedOnce(data_frames, free) /\ p \in Space /\ q \in Space /\ TRAP_CONTEXT \in Page
    BY <1>2, FramesOwnedOnceDef, LiveContext, ProgramLayout DEF Inv, Space
  <2>3. trap_cx_ppn[q] # table[p][v]
    BY <1>1, <1>2, <2>1, <2>2, FrameAssumption DEF OwnedOnce
  <2> QED BY <2>1, <2>3 DEF Inv, FramesOwnedOnce, TypeOK
<1>3. mem' \in [Frame -> Content]
  <2>1. Written(x) \in Content
    BY DEF Content
  <2> QED BY <2>1 DEF Inv, FramesOwnedOnce, TypeOK
<1> QED BY <1>2, <1>3 DEF StoredBy

LEMMA kernel_storeEffect ==
  ASSUME Inv, panic = "none", NEW p \in Pid, proc[p] = "live", NEW v \in Page,
         NEW x \in Data, table[p][v] \in Frame, kernel_store(p, v, x)
  PROVE  StoredBy(p)
<1>1. CASE mem' = mem /\ panic' = panic
  BY <1>1 DEF StoredBy, Inv, FramesOwnedOnce, TypeOK
<1> QED BY <1>1, StoreEffect DEF kernel_store

(* What a store leaves of the contexts, when the processes that remain keep*)
(* their spaces and their stacks.                                          *)
LEMMA ContextsStored ==
  ASSUME Inv, panic = "none", NEW p \in Pid, StoredBy(p),
         \A q \in Pid : proc'[q] = "live" =>
            /\ proc[q] = "live" /\ areas'[q] = areas[q] /\ table'[q] = table[q]
            /\ trap_cx_ppn'[q] = trap_cx_ppn[q] /\ KernelStack(q) \in areas'[Kernel]
  PROVE  /\ TrapContextIsCurrent'
         /\ \A q \in Pid : proc'[q] = "live" =>
              \E x \in App : /\ areas'[q] = from_elf(x)
                             /\ panic' # "overwritten" =>
                                  mem'[trap_cx_ppn'[q]] = TrapContext(x, get_top(q))
<1>1. ASSUME NEW q \in Pid, proc'[q] = "live", q # p \/ panic' = "none"
      PROVE  \E x \in App : /\ areas'[q] = from_elf(x)
                            /\ mem'[trap_cx_ppn'[q]] = TrapContext(x, get_top(q))
  <2>1. mem'[trap_cx_ppn'[q]] = mem[trap_cx_ppn[q]] /\ areas'[q] = areas[q] /\ proc[q] = "live"
    BY <1>1 DEF StoredBy
  <2> QED BY <2>1, LiveProgram
<1>2. ASSUME NEW q \in Pid, proc'[q] = "live"
      PROVE  \E x \in App : areas'[q] = from_elf(x)
  BY <1>2, LiveContext
<1>3. ASSUME NEW q \in Pid, proc'[q] = "live"
      PROVE  trap_cx_ppn'[q] = table'[q][TRAP_CONTEXT] /\ KernelStack(q) \in areas'[Kernel]
  BY <1>3, LiveContext
<1>4. panic' = "none" \/ panic' = "overwritten"
  BY DEF StoredBy
<1>5. \A q \in Pid : proc'[q] = "live" /\ (q # p \/ panic' = "none") => ContextIntact(q)'
  BY <1>1 DEF ContextIntact
<1>6. TrapContextIsCurrent'
  BY <1>3, <1>4, <1>5 DEF TrapContextIsCurrent, Live
<1> QED BY <1>1, <1>2, <1>4, <1>6

LEMMA StoredInv ==
  ASSUME Inv, panic = "none", NEW p \in Pid, proc[p] = "live", StoredBy(p),
         UNCHANGED <<free, areas, data_frames, table, trap_cx_ppn, proc>>
  PROVE  Inv'
<1>1. panic' = "none" \/ panic' = "overwritten"
  BY DEF StoredBy
<1>2. TypeOK'
  BY DEF Inv, FramesOwnedOnce, TypeOK, StoredBy
<1>3. FramesOwnedOnce'
  BY <1>2, FramesOwnedOnceDef, FramesOwnedOnceAfter DEF Inv
<1>4. TablesMatchAreas'
  BY <1>1 DEF Inv, TablesMatchAreas, Live
<1>5. \A q \in Pid : proc'[q] = "live" => KernelStack(q) \in areas'[Kernel]
  BY DEF Inv, TrapContextIsCurrent, Live
<1>6. /\ TrapContextIsCurrent'
      /\ \A q \in Pid : proc'[q] = "live" =>
           \E x \in App : /\ areas'[q] = from_elf(x)
                          /\ panic' # "overwritten" =>
                               mem'[trap_cx_ppn'[q]] = TrapContext(x, get_top(q))
  BY <1>5, ContextsStored
<1>7. AreasOK'
  BY <1>6 DEF Inv, AreasOK
<1> QED BY <1>3, <1>4, <1>6, <1>7 DEF Inv

LEMMA user_writeInv ==
  ASSUME Inv, panic = "none", NEW p \in Pid, NEW v \in Page, NEW x \in Data,
         user_write(p, v, x)
  PROVE  Inv'
<1>1. /\ proc[p] = "live" /\ mem' = [mem EXCEPT ![table[p][v]] = Written(x)]
      /\ UNCHANGED <<free, areas, data_frames, table, trap_cx_ppn, proc, panic>>
  BY DEF user_write, spaceVars
<1>2. PICK app \in App : areas[p] = from_elf(app)
  BY <1>1, LiveContext
<1>3. PICK a \in areas[p] : a.w /\ v \in Pages(a)
  BY DEF user_write
<1>4. v \in PagesOf(areas[p]) /\ v # TRAP_CONTEXT /\ v # TRAMPOLINE
  BY <1>2, <1>3, ProgramLayout DEF PagesOf
<1>5. table[p][v] \in Frame
  BY <1>1, <1>4, LiveFrames
<1>6. StoredBy(p)
  BY <1>1, <1>4, <1>5, StoreEffect
<1> QED BY <1>1, <1>6, StoredInv

LEMMA sys_readInv ==
  ASSUME Inv, panic = "none", NEW p \in Pid, NEW v \in Page, NEW x \in Data,
         sys_read(p, v, x)
  PROVE  Inv'
<1>1. CASE bad_pointer(p, v)
  BY <1>1, PanicInv DEF bad_pointer
<1>2. CASE ~bad_pointer(p, v)
  <2>1. /\ proc[p] = "live" /\ table[p][v] \in Frame /\ kernel_store(p, v, x)
        /\ UNCHANGED <<free, areas, data_frames, table, trap_cx_ppn, proc>>
    BY <1>2 DEF sys_read, spaceVars
  <2> QED BY <2>1, kernel_storeEffect, StoredInv
<1> QED BY <1>1, <1>2

LEMMA recycleInv ==
  ASSUME Inv, panic = "none", NEW p \in Pid, recycle_data_pages(p)
  PROVE  Inv'
<1>1. /\ proc[p] = "live" /\ free' = free \cup released(p)
      /\ areas' = [areas EXCEPT ![p] = {}]
      /\ data_frames' = [data_frames EXCEPT ![p] = Nowhere]
      /\ mem' = [f \in Frame |-> IF f \in released(p) THEN Garbage ELSE mem[f]]
      /\ proc' = [proc EXCEPT ![p] = "zombie"]
      /\ UNCHANGED <<table, trap_cx_ppn, panic>>
  BY DEF recycle_data_pages
<1>2. /\ p \in Space /\ Kernel \in Space /\ p # Kernel /\ Pid \subseteq Space /\ Kernel \notin Pid
      /\ free \in SUBSET Frame /\ data_frames \in Ownership
      /\ OwnedOnce(data_frames, free)
  <2>1. p \in Space /\ Kernel \in Space /\ p # Kernel /\ Pid \subseteq Space /\ Kernel \notin Pid
    BY LayoutAssumption DEF Space, Kernel, Pid
  <2>2. free \in SUBSET Frame /\ data_frames \in Ownership
    BY DEF Inv, FramesOwnedOnce, TypeOK, Ownership
  <2> QED BY <2>1, <2>2, FramesOwnedOnceDef DEF Inv
<1>3. data_frames' \in Ownership /\ free' \in SUBSET Frame /\ OwnedOnce(data_frames', free')
  <2> DEFINE V == Page
  <2>1. released(p) = FramesAt(data_frames[p], V)
    BY Released DEF FramesAt
  <2>2. Without(data_frames[p], V) = Nowhere
    BY DEF Without, Nowhere
  <2>3. V \in SUBSET Page /\ p \in Space /\ data_frames \in Ownership
        /\ free \in SUBSET Frame /\ OwnedOnce(data_frames, free)
    BY <1>2
  <2> DEFINE df2 == [data_frames EXCEPT ![p] = Without(data_frames[p], V)]
             fr2 == free \cup FramesAt(data_frames[p], V)
  <2>4. data_frames' = df2 /\ free' = fr2
    BY <1>1, <2>1, <2>2
  <2> HIDE DEF V
  <2>5. df2 \in Ownership /\ fr2 \in SUBSET Frame /\ OwnedOnce(df2, fr2)
    BY <2>3, Take
  <2> QED BY <2>4, <2>5
<1>4. /\ data_frames'[p] = Nowhere
      /\ \A s \in Space \ {p} : data_frames'[s] = data_frames[s]
      /\ areas'[p] = {}
      /\ \A s \in Space \ {p} : areas'[s] = areas[s]
      /\ proc'[p] = "zombie" /\ \A q \in Pid \ {p} : proc'[q] = proc[q]
  BY <1>1, <1>2 DEF Inv, FramesOwnedOnce, TypeOK, AreasOK, Ownership
<1>5. TypeOK'
  <2>1. mem' \in [Frame -> Content]
    <3>1. Garbage \in Content /\ mem \in [Frame -> Content]
      BY DEF Inv, FramesOwnedOnce, TypeOK, Content
    <3> QED BY <1>1, <3>1
  <2>2. proc' \in [Pid -> {"none", "live", "zombie"}]
    BY <1>1 DEF Inv, FramesOwnedOnce, TypeOK
  <2> QED BY <1>1, <1>3, <2>1, <2>2 DEF Inv, FramesOwnedOnce, TypeOK, Ownership
<1>6. FramesOwnedOnce'
  BY <1>3, <1>5, FramesOwnedOnceAfter
<1>7. TablesMatchAreas'
  <2>1. \A s \in Live' \cup {Kernel} : s \in Live \cup {Kernel} /\ s \in Space \ {p}
    BY <1>2, <1>4 DEF Live
  <2>2. \A s \in Live' \cup {Kernel} :
          data_frames'[s] = data_frames[s] /\ table'[s] = table[s] /\ areas'[s] = areas[s]
    BY <1>1, <1>4, <2>1
  <2>3. \A s \in Live' \cup {Kernel} :
          /\ table'[s] = [data_frames'[s] EXCEPT ![TRAMPOLINE] = TrampolineFrame]
          /\ {v \in Page : data_frames'[s][v] # NoFrame} = PagesOf(areas'[s])
    <3>1. SUFFICES ASSUME NEW s \in Live' \cup {Kernel}
          PROVE  /\ table'[s] = [data_frames'[s] EXCEPT ![TRAMPOLINE] = TrampolineFrame]
                 /\ {v \in Page : data_frames'[s][v] # NoFrame} = PagesOf(areas'[s])
      OBVIOUS
    <3>2. data_frames'[s] = data_frames[s] /\ table'[s] = table[s] /\ areas'[s] = areas[s]
      BY <2>2
    <3>3. /\ table[s] = [data_frames[s] EXCEPT ![TRAMPOLINE] = TrampolineFrame]
          /\ {v \in Page : data_frames[s][v] # NoFrame} = PagesOf(areas[s])
      BY <2>1 DEF Inv, TablesMatchAreas
    <3> QED BY <3>2, <3>3
  <2> QED BY <1>1, <2>3 DEF Inv, TablesMatchAreas
<1>8. ASSUME NEW q \in Pid, proc'[q] = "live"
      PROVE  /\ proc[q] = "live" /\ areas'[q] = areas[q]
             /\ mem'[trap_cx_ppn[q]] = mem[trap_cx_ppn[q]]
  <2>1. q # p /\ proc[q] = "live" /\ q \in Space \ {p}
    BY <1>2, <1>4, <1>8
  <2>2. trap_cx_ppn[q] = data_frames[q][TRAP_CONTEXT] /\ trap_cx_ppn[q] \in Frame
    BY <2>1, LiveContext
  <2>3. TRAP_CONTEXT \in Page
    <3>1. \E app \in App : areas[q] = from_elf(app)
      BY <2>1, LiveContext
    <3> QED BY <3>1, ProgramLayout
  <2>4. trap_cx_ppn[q] \notin released(p)
    BY <1>2, <2>1, <2>2, <2>3, Released DEF OwnedOnce
  <2> QED BY <1>1, <1>4, <2>1, <2>2, <2>4
<1>9. areas'[Kernel] = areas[Kernel]
  BY <1>2, <1>4
<1>10. TrapContextIsCurrent'
  BY <1>1, <1>8, <1>9 DEF Inv, TrapContextIsCurrent, ContextIntact, Live
<1>11. AreasOK'
  <2>1. areas' \in [Space -> SUBSET ({KernelStack(q) : q \in Pid}
                                     \cup UNION {from_elf(x) : x \in App})]
    <3> DEFINE X == {KernelStack(q) : q \in Pid} \cup UNION {from_elf(x) : x \in App}
    <3>1. areas \in [Space -> SUBSET X]
      BY DEF Inv, AreasOK
    <3> HIDE DEF X
    <3>2. areas' \in [Space -> SUBSET X]
      BY <1>1, <3>1
    <3> QED BY <3>2 DEF X
  <2>2. areas'[Kernel] = {KernelStack(q) : q \in {r \in Pid : proc'[r] # "none"}}
    <3>1. {r \in Pid : proc'[r] # "none"} = {r \in Pid : proc[r] # "none"}
      BY <1>1, <1>4
    <3> QED BY <1>9, <3>1 DEF Inv, AreasOK
  <2>3. ASSUME NEW q \in Pid
        PROVE  IF proc'[q] = "live"
               THEN \E x \in App : /\ areas'[q] = from_elf(x)
                                   /\ mem'[trap_cx_ppn'[q]] = TrapContext(x, get_top(q))
               ELSE areas'[q] = {} /\ data_frames'[q] = Nowhere
    <3>1. CASE proc'[q] = "live"
      BY <1>1, <1>8, <3>1 DEF Inv, AreasOK
    <3>2. CASE q # p /\ proc'[q] # "live"
      <4>1. areas[q] = {} /\ data_frames[q] = Nowhere /\ q \in Space \ {p}
        BY <1>2, <1>4, <3>2 DEF Inv, AreasOK
      <4> QED BY <1>4, <3>2, <4>1
    <3>3. CASE q = p
      BY <1>4, <3>3
    <3> QED BY <3>1, <3>2, <3>3
  <2> QED BY <2>1, <2>2, <2>3 DEF AreasOK
<1> QED BY <1>6, <1>7, <1>10, <1>11 DEF Inv

LEMMA dropInv ==
  ASSUME Inv, panic = "none", NEW c \in Pid, StoredBy(c), NEW p \in Pid, drop(p)
  PROVE  Inv'
<1> DEFINE S == KernelStack(p)
           V == Pages(S)
           A == {a \in areas[Kernel] : a.l = floor(kernel_stack_position(p)[1])}
<1>1. proc[p] = "zombie" /\ A = {S} /\ PagesOf(A) = V
  <2>1. proc[p] = "zombie"
    BY DEF drop
  <2>2. A = {S}
    BY <2>1, KernelFrames
  <2> QED BY <2>1, <2>2 DEF PagesOf
<1>2. /\ V \subseteq Page /\ TRAMPOLINE \notin V /\ TRAMPOLINE \in Page
      /\ \A v \in V : data_frames[Kernel][v] \in Frame \ free
  BY <1>1, StacksApart, KernelFrames, LayoutAssumption DEF Page
<1> HIDE DEF A
<1>3. /\ free' = free \cup {data_frames[Kernel][v] : v \in V}
      /\ areas' = [areas EXCEPT ![Kernel] = areas[Kernel] \ {S}]
      /\ data_frames' = [data_frames EXCEPT ![Kernel] = Without(data_frames[Kernel], V)]
      /\ table' = [table EXCEPT ![Kernel] = Without(@, V), ![p] = fresh_table(<<>>)]
      /\ trap_cx_ppn' = [trap_cx_ppn EXCEPT ![p] = NoFrame]
      /\ proc' = [proc EXCEPT ![p] = "none"]
      /\ panic' \in {"none", "overwritten"} /\ mem' \in [Frame -> Content]
  BY <1>1 DEF StoredBy, drop, unmap, A
<1> HIDE DEF S, V
<1>4. /\ p \in Space /\ Kernel \in Space /\ p # Kernel /\ Pid \subseteq Space /\ Kernel \notin Pid
      /\ free \in SUBSET Frame /\ data_frames \in Ownership
      /\ OwnedOnce(data_frames, free)
      /\ areas[p] = {} /\ data_frames[p] = Nowhere
  <2>1. p \in Space /\ Kernel \in Space /\ p # Kernel /\ Pid \subseteq Space /\ Kernel \notin Pid
    BY LayoutAssumption DEF Space, Kernel, Pid
  <2>2. free \in SUBSET Frame /\ data_frames \in Ownership
    BY DEF Inv, FramesOwnedOnce, TypeOK, Ownership
  <2>3. areas[p] = {} /\ data_frames[p] = Nowhere
    BY <1>1 DEF Inv, AreasOK
  <2> QED BY <2>1, <2>2, <2>3, FramesOwnedOnceDef DEF Inv
<1>5. data_frames' \in Ownership /\ free' \in SUBSET Frame /\ OwnedOnce(data_frames', free')
  <2>1. {data_frames[Kernel][v] : v \in V} = FramesAt(data_frames[Kernel], V)
    BY <1>2, FrameAssumption DEF FramesAt
  <2>2. /\ Kernel \in Space /\ V \in SUBSET Page
        /\ data_frames \in Ownership /\ free \in SUBSET Frame /\ OwnedOnce(data_frames, free)
    BY <1>2, <1>4
  <2> DEFINE df2 == [data_frames EXCEPT ![Kernel] = Without(data_frames[Kernel], V)]
             fr2 == free \cup FramesAt(data_frames[Kernel], V)
  <2>3. df2 \in Ownership /\ fr2 \in SUBSET Frame /\ OwnedOnce(df2, fr2)
    BY <2>2, Take
  <2>4. data_frames' = df2 /\ free' = fr2
    BY <1>3, <2>1
  <2> QED BY <2>3, <2>4
<1>6. /\ data_frames'[Kernel] = Without(data_frames[Kernel], V)
      /\ \A s \in Space \ {Kernel} : data_frames'[s] = data_frames[s]
      /\ table'[Kernel] = Without(table[Kernel], V) /\ table'[p] = fresh_table(<<>>)
      /\ \A s \in Space \ {Kernel, p} : table'[s] = table[s]
      /\ areas'[Kernel] = areas[Kernel] \ {S}
      /\ \A s \in Space \ {Kernel} : areas'[s] = areas[s]
      /\ trap_cx_ppn'[p] = NoFrame
      /\ \A q \in Pid \ {p} : trap_cx_ppn'[q] = trap_cx_ppn[q]
      /\ proc'[p] = "none" /\ \A q \in Pid \ {p} : proc'[q] = proc[q]
  BY <1>3, <1>4 DEF Inv, FramesOwnedOnce, TypeOK, AreasOK, Ownership
<1>7. /\ areas[Kernel] = {KernelStack(q) : q \in {r \in Pid : proc[r] # "none"}}
      /\ table[Kernel] = [data_frames[Kernel] EXCEPT ![TRAMPOLINE] = TrampolineFrame]
      /\ {v \in Page : data_frames[Kernel][v] # NoFrame} = PagesOf(areas[Kernel])
      /\ data_frames[Kernel] \in [Page -> Frame \cup {NoFrame}]
  BY <1>4 DEF Inv, AreasOK, TablesMatchAreas, Ownership
<1>8. areas'[Kernel] = {KernelStack(q) : q \in {r \in Pid : proc'[r] # "none"}}
  <2>1. \A q \in Pid : q # p => KernelStack(q) # S
    BY StacksApart DEF S
  <2>2. \A q \in Pid : proc'[q] # "none" <=> q # p /\ proc[q] # "none"
    BY <1>6
  <2> QED BY <1>6, <1>7, <2>1, <2>2 DEF S
<1>9. TablesMatchAreas'
  <2>1. table'[Kernel] = [data_frames'[Kernel] EXCEPT ![TRAMPOLINE] = TrampolineFrame]
    BY <1>2, <1>6, <1>7 DEF Without
  <2>2. {v \in Page : data_frames'[Kernel][v] # NoFrame} = PagesOf(areas'[Kernel])
    <3>1. \A v \in Page : data_frames'[Kernel][v] # NoFrame
                          <=> v \notin V /\ v \in PagesOf(areas[Kernel])
      BY <1>6, <1>7 DEF Without
    <3>2. \A v \in Page : v \in PagesOf(areas'[Kernel])
                          <=> v \notin V /\ v \in PagesOf(areas[Kernel])
      <4> SUFFICES ASSUME NEW v \in Page
                   PROVE  v \in PagesOf(areas'[Kernel])
                          <=> v \notin V /\ v \in PagesOf(areas[Kernel])
        OBVIOUS
      <4>1. \A a \in areas[Kernel] : a # S => Pages(a) \cap V = {}
        BY <1>7, StacksApart DEF S, V
      <4> QED BY <1>6, <4>1 DEF PagesOf, V
    <3>3. PagesOf(areas'[Kernel]) \subseteq Page
      <4>1. \A a \in areas'[Kernel] : Pages(a) \subseteq Page
        BY <1>8, StacksApart
      <4> QED BY <4>1 DEF PagesOf
    <3> QED BY <3>1, <3>2, <3>3
  <2>3. \A s \in Live' :
          /\ s \in Live /\ data_frames'[s] = data_frames[s]
          /\ table'[s] = table[s] /\ areas'[s] = areas[s]
    BY <1>4, <1>6 DEF Live
  <2>4. \A s \in Live' :
          /\ table'[s] = [data_frames'[s] EXCEPT ![TRAMPOLINE] = TrampolineFrame]
          /\ {v \in Page : data_frames'[s][v] # NoFrame} = PagesOf(areas'[s])
    BY <2>3 DEF Inv, TablesMatchAreas
  <2>5. panic' # "vpn is mapped before mapping"
    BY <1>3
  <2> QED BY <2>1, <2>2, <2>4, <2>5 DEF TablesMatchAreas
<1>10. TypeOK'
  <2>1. fresh_table(<<>>) \in [Page -> Frame \cup {NoFrame, TrampolineFrame}]
    BY DEF fresh_table, Mapped, Nowhere
  <2>2. Without(table[Kernel], V) \in [Page -> Frame \cup {NoFrame, TrampolineFrame}]
    BY <1>7 DEF Without
  <2> DEFINE PT == [Page -> Frame \cup {NoFrame, TrampolineFrame}]
  <2>3. table \in [Space -> PT]
    BY DEF Inv, FramesOwnedOnce, TypeOK
  <2>4. table'[p] \in PT /\ table'[Kernel] \in PT
    BY <1>6, <2>1, <2>2
  <2> HIDE DEF PT
  <2>5. table' \in [Space -> PT]
    BY <1>3, <1>6, <2>3, <2>4
  <2>6. /\ trap_cx_ppn' \in [Pid -> Frame \cup {NoFrame}]
        /\ proc' \in [Pid -> {"none", "live", "zombie"}]
    BY <1>3 DEF Inv, FramesOwnedOnce, TypeOK
  <2> QED BY <1>3, <1>5, <2>5, <2>6 DEF Inv, FramesOwnedOnce, TypeOK, Ownership, PT
<1>11. FramesOwnedOnce'
  BY <1>5, <1>10, FramesOwnedOnceAfter
<1>12. ASSUME NEW q \in Pid, proc'[q] = "live"
       PROVE  /\ proc[q] = "live" /\ areas'[q] = areas[q] /\ table'[q] = table[q]
              /\ trap_cx_ppn'[q] = trap_cx_ppn[q] /\ KernelStack(q) \in areas'[Kernel]
  BY <1>4, <1>6, <1>8, <1>12
<1>13. /\ TrapContextIsCurrent'
       /\ \A q \in Pid : proc'[q] = "live" =>
            \E x \in App : /\ areas'[q] = from_elf(x)
                           /\ panic' # "overwritten" =>
                                mem'[trap_cx_ppn'[q]] = TrapContext(x, get_top(q))
  BY <1>12, ContextsStored
<1>14. AreasOK'
  <2>1. areas' \in [Space -> SUBSET ({KernelStack(q) : q \in Pid}
                                     \cup UNION {from_elf(x) : x \in App})]
    <3> DEFINE X == {KernelStack(q) : q \in Pid} \cup UNION {from_elf(x) : x \in App}
    <3>1. areas \in [Space -> SUBSET X]
      BY DEF Inv, AreasOK
    <3> HIDE DEF X
    <3>2. areas' \in [Space -> SUBSET X]
      BY <1>3, <1>4, <3>1
    <3> QED BY <3>2 DEF X
  <2>2. ASSUME NEW q \in Pid
        PROVE  IF proc'[q] = "live"
               THEN \E x \in App : /\ areas'[q] = from_elf(x)
                                   /\ panic' # "overwritten" =>
                                        mem'[trap_cx_ppn'[q]] = TrapContext(x, get_top(q))
               ELSE areas'[q] = {} /\ data_frames'[q] = Nowhere
    <3>1. CASE proc'[q] = "live"
      BY <1>13, <3>1
    <3>2. CASE proc'[q] # "live"
      <4>1. areas[q] = {} /\ data_frames[q] = Nowhere /\ q \in Space \ {Kernel}
        BY <1>1, <1>4, <1>6, <3>2 DEF Inv, AreasOK
      <4> QED BY <1>6, <3>2, <4>1
    <3> QED BY <3>1, <3>2
  <2> QED BY <1>8, <2>1, <2>2 DEF AreasOK
<1> QED BY <1>9, <1>11, <1>13, <1>14 DEF Inv

LEMMA waitpidInv ==
  ASSUME Inv, panic = "none", NEW p \in Pid, NEW z \in Pid, NEW v \in Page, NEW x \in Data,
         waitpid(p, z, v, x)
  PROVE  Inv'
<1>1. CASE bad_pointer(p, v)
  BY <1>1, PanicInv DEF bad_pointer
<1>2. CASE ~bad_pointer(p, v)
  <2>1. proc[p] = "live" /\ table[p][v] \in Frame /\ kernel_store(p, v, x) /\ drop(z)
    BY <1>2 DEF waitpid
  <2> QED BY <2>1, kernel_storeEffect, dropInv
<1> QED BY <1>1, <1>2

LEMMA NextInv ==
  ASSUME Inv, [Next]_vars
  PROVE  Inv'
<1>1. CASE UNCHANGED vars
  <2>1. UNCHANGED <<mem, free, areas, data_frames, table, trap_cx_ppn, proc, panic>>
    BY <1>1 DEF vars, spaceVars
  <2>2. TypeOK'
    BY <2>1 DEF Inv, FramesOwnedOnce, TypeOK
  <2>3. FramesOwnedOnce'
    BY <2>1, <2>2, FramesOwnedOnceDef, FramesOwnedOnceAfter DEF Inv
  <2>4. TablesMatchAreas'
    BY <2>1 DEF Inv, TablesMatchAreas, Live
  <2>5. TrapContextIsCurrent' /\ AreasOK'
    BY <2>1 DEF Inv, TrapContextIsCurrent, ContextIntact, AreasOK, Live
  <2> QED BY <2>3, <2>4, <2>5 DEF Inv
<1>2. CASE panic = "none" /\ ~UNCHANGED vars
  BY <1>2, newInv, forkInv, execInv, user_writeInv, sys_readInv, recycleInv, waitpidInv
     DEF Next, shutdown
<1> QED BY <1>1, <1>2 DEF Next, shutdown

-------------------------------------------------------------------------------
(* The theorems.                                                           *)

(* The invariant of the address spaces holds in every reachable state, for *)
(* any number of processes, programs and frames, and any order in which    *)
(* frames are handed out.                                                  *)
THEOREM MemoryInvariant == Spec => []Inv
BY InitInv, NextInv, PTL DEF Spec

(* A frame is free or belongs to one page of one space, through fork, exec,*)
(* exit and reaping: nothing is shared, nothing leaks.                     *)
THEOREM FrameOwnership == Spec => []FramesOwnedOnce
<1>1. Inv => FramesOwnedOnce
  BY DEF Inv
<1> QED BY <1>1, MemoryInvariant, PTL

(* The page table of every space in use says what its areas own, and       *)
(* mapping never meets a valid entry.                                      *)
THEOREM TablesAndAreas == Spec => []TablesMatchAreas
<1>1. Inv => TablesMatchAreas
  BY DEF Inv
<1> QED BY <1>1, MemoryInvariant, PTL

(* trap_cx_ppn is the frame that trap.S reaches, and the context in it     *)
(* names the kernel stack of its own process, unless a call of that very   *)
(* process has had the kernel store into it.                               *)
THEOREM TrapContextCurrent == Spec => []TrapContextIsCurrent
<1>1. Inv => TrapContextIsCurrent
  BY DEF Inv
<1> QED BY <1>1, MemoryInvariant, PTL

(* A kernel stack has an unmapped page below it.                           *)
LEMMA KernelGuards ==
  ASSUME Inv, NEW a \in areas[Kernel]
  PROVE  table[Kernel][a.l - 1] = NoFrame
<1>1. PICK p \in Pid : a = KernelStack(p)
  BY DEF Inv, AreasOK
<1> DEFINE v == a.l - 1
<1>2. /\ v \in Page /\ v # TRAMPOLINE
      /\ \A q \in Pid : v \notin Pages(KernelStack(q))
  BY <1>1, StacksApart
<1> HIDE DEF v
<1>3. v \notin PagesOf(areas[Kernel])
  BY <1>2 DEF Inv, AreasOK, PagesOf
<1>4. /\ table[Kernel] = [data_frames[Kernel] EXCEPT ![TRAMPOLINE] = TrampolineFrame]
      /\ {x \in Page : data_frames[Kernel][x] # NoFrame} = PagesOf(areas[Kernel])
  BY DEF Inv, TablesMatchAreas
<1>5. data_frames[Kernel] \in [Page -> Frame \cup {NoFrame}]
  BY DEF Inv, FramesOwnedOnce, TypeOK, Space
<1>6. table[Kernel][v] = NoFrame
  BY <1>2, <1>3, <1>4, <1>5
<1> QED BY <1>6 DEF v

(* The user stack of a live process has one too.                           *)
LEMMA UserGuards ==
  ASSUME Inv, NEW p \in Pid, proc[p] = "live"
  PROVE  \E app \in App : /\ areas[p] = from_elf(app)
                          /\ table[p][user_stack(app).l - 1] = NoFrame
<1>1. PICK app \in App : areas[p] = from_elf(app)
  BY LiveContext
<1> DEFINE v == user_stack(app).l - 1
<1>2. v \in Page /\ v # TRAMPOLINE /\ v \notin PagesOf(areas[p])
  BY <1>1, ProgramLayout
<1> HIDE DEF v
<1>3. table[p][v] = NoFrame
  BY <1>2, LiveFrames
<1> QED BY <1>1, <1>3 DEF v

(* Below every stack, of a program or of the kernel, is an unmapped page.  *)
THEOREM GuardPages == Spec => []GuardPagesUnmapped
<1>1. Inv => GuardPagesUnmapped
  BY KernelGuards, UserGuards DEF GuardPagesUnmapped, Live
<1> QED BY <1>1, MemoryInvariant, PTL


-------------------------------------------------------------------------------
(* Every process has a memory of its own.                                  *)

Blank == [v \in Page |-> <<"unmapped">>]
MemoryOf == [p \in Pid |-> [v \in Page |-> Visible(p, v)]]

(* What a frame holds is never one of the two marks.                       *)
LEMMA ContentKinds ==
  ASSUME NEW c \in Content
  PROVE  c # Untouched /\ c # <<"unmapped">>
<1>1. c[1] \in {"zero", "garbage", "data", "trap", "file"}
  <2>1. Zero[1] = "zero" /\ Garbage[1] = "garbage"
    BY DEF Zero, Garbage
  <2>2. \A x : Written(x)[1] = "data"
    BY DEF Written
  <2>3. \A app, k : TrapContext(app, k)[1] = "trap"
    BY DEF TrapContext
  <2>4. \A app, v : <<"file", app, v>>[1] = "file"
    OBVIOUS
  <2>5. \/ c = Zero \/ c = Garbage \/ \E x \in Data : c = Written(x)
        \/ \E app \in App, p \in Pid : c = TrapContext(app, get_top(p))
        \/ \E app \in App, v \in Page : c = <<"file", app, v>>
    BY DEF Content
  <2> QED BY <2>1, <2>2, <2>3, <2>4, <2>5
<1>2. Untouched[1] = "untouched" /\ <<"unmapped">>[1] = "unmapped"
  BY DEF Untouched
<1> QED BY <1>1, <1>2

(* What a live process sees at its pages and elsewhere.                    *)
LEMMA VisibleLive ==
  ASSUME Inv, NEW p \in Pid, proc[p] = "live", NEW v \in Page
  PROVE  /\ v \in PagesOf(areas[p]) =>
              /\ table[p][v] = data_frames[p][v] /\ table[p][v] \in Frame \ free
              /\ Visible(p, v) = mem[table[p][v]] /\ Visible(p, v) \in Content
         /\ v \notin PagesOf(areas[p]) =>
              table[p][v] \notin Frame /\ Visible(p, v) = <<"unmapped">>
<1>1. TRAMPOLINE \notin PagesOf(areas[p])
  BY LiveContext, ProgramLayout
<1>2. CASE v \in PagesOf(areas[p])
  <2>1. table[p][v] = data_frames[p][v] /\ table[p][v] \in Frame \ free
    BY <1>1, <1>2, LiveFrames
  <2>2. mem[table[p][v]] \in Content
    BY <2>1 DEF Inv, FramesOwnedOnce, TypeOK
  <2> QED BY <1>2, <2>1, <2>2 DEF Visible
<1>3. CASE v \notin PagesOf(areas[p])
  <2>1. table[p][v] \notin Frame
    BY <1>3, LiveFrames, FrameAssumption
  <2> QED BY <1>3, <2>1 DEF Visible
<1> QED BY <1>2, <1>3

(* Two pages of live processes never share a frame.                        *)
LEMMA PrivateFrames ==
  ASSUME Inv, NEW p \in Pid, proc[p] = "live", NEW v \in Page, table[p][v] \in Frame,
         NEW q \in Pid, proc[q] = "live", NEW w \in Page, table[q][w] = table[p][v]
  PROVE  p = q /\ v = w
<1>1. table[p][v] = data_frames[p][v] /\ table[q][w] = data_frames[q][w]
  BY VisibleLive
<1>2. p \in Space /\ q \in Space
  BY DEF Space
<1> QED BY <1>1, <1>2, FrameAssumption DEF Inv, FramesOwnedOnce

(* A process is there exactly when it sees something.                      *)
LEMMA LiveSees ==
  ASSUME Inv, NEW p \in Pid
  PROVE  MemoryOf[p] = Blank <=> proc[p] # "live"
<1>1. CASE proc[p] # "live"
  BY <1>1 DEF MemoryOf, Blank, Visible
<1>2. CASE proc[p] = "live"
  <2>1. TRAP_CONTEXT \in Page /\ TRAP_CONTEXT \in PagesOf(areas[p])
    BY <1>2, LiveContext, ProgramLayout
  <2>2. MemoryOf[p][TRAP_CONTEXT] # <<"unmapped">>
    BY <1>2, <2>1, VisibleLive, ContentKinds DEF MemoryOf
  <2> QED BY <1>2, <2>1, <2>2 DEF Blank
<1> QED BY <1>1, <1>2

(* A process whose table and frames stay sees the same.                    *)
LEMMA SeesTheSame ==
  ASSUME Inv, NEW q \in Pid, proc'[q] = "live" <=> proc[q] = "live",
         proc[q] = "live" =>
           /\ table'[q] = table[q]
           /\ \A v \in Page : table[q][v] \in Frame \ free =>
                mem'[table[q][v]] = mem[table[q][v]]
  PROVE  MemoryOf'[q] = MemoryOf[q]
<1>1. CASE proc[q] # "live"
  BY <1>1 DEF MemoryOf, Visible
<1>2. CASE proc[q] = "live"
  <2>1. \A v \in Page : table[q][v] \in Frame => table[q][v] \in Frame \ free
    BY <1>2, VisibleLive
  <2> QED BY <1>2, <2>1 DEF MemoryOf, Visible
<1> QED BY <1>1, <1>2

(* When no other process sees a change, the memory of one process is all   *)
(* that changes.                                                           *)
LEMMA OneMemoryChanges ==
  ASSUME NEW n \in Pid, \A q \in Pid \ {n} : MemoryOf'[q] = MemoryOf[q]
  PROVE  MemoryOf' = [MemoryOf EXCEPT ![n] = MemoryOf'[n]]
<1>1. MemoryOf = [p \in Pid |-> MemoryOf[p]] /\ MemoryOf' = [p \in Pid |-> MemoryOf'[p]]
  BY DEF MemoryOf
<1> QED BY <1>1


(* What a page of a space that was just filled shows.                      *)
Shown(image, V, v) ==
  IF v \notin V THEN <<"unmapped">> ELSE IF image[v] = Untouched THEN Zero ELSE image[v]

(* What a process sees of an image that has just been loaded.              *)
LEMMA FreshSees ==
  ASSUME Inv, NEW n \in Pid, NEW app \in App, NEW image,
         NEW g \in [PagesOf(from_elf(app)) -> free],
         \A v, w \in PagesOf(from_elf(app)) : g[v] = g[w] => v = w,
         proc'[n] = "live", table'[n] = fresh_table(g),
         \A f \in Range(g) : mem'[f] = filled(image, g, f)
  PROVE  MemoryOf'[n] = [v \in Page |-> Shown(image, PagesOf(from_elf(app)), v)]
<1> DEFINE V == PagesOf(from_elf(app))
<1>1. V \subseteq Page /\ TRAMPOLINE \notin V /\ TRAMPOLINE \in Page
  BY ProgramLayout
<1>2. free \subseteq Frame
  BY DEF Inv, FramesOwnedOnce, TypeOK
<1>3. DOMAIN g = V /\ \A v \in V : g[v] \in Range(g) /\ g[v] \in Frame
  BY <1>2 DEF Range
<1> SUFFICES ASSUME NEW v \in Page
             PROVE  (IF proc'[n] = "live" /\ table'[n][v] \in Frame
                     THEN mem'[table'[n][v]] ELSE <<"unmapped">>) = Shown(image, V, v)
  BY DEF MemoryOf, Visible
<1> HIDE DEF V
<1>4. CASE v \in V
  <2>1. table'[n][v] = g[v]
    BY <1>3, <1>4 DEF fresh_table, Mapped
  <2>2. filled(image, g, g[v]) = IF image[v] = Untouched THEN Zero ELSE image[v]
    BY <1>4, FilledFrame DEF V
  <2> QED BY <1>3, <1>4, <2>1, <2>2 DEF Shown
<1>5. CASE v \notin V
  <2>1. table'[n][v] \in {NoFrame, TrampolineFrame}
    BY <1>3, <1>5 DEF fresh_table, Mapped, Nowhere
  <2> QED BY <1>5, <2>1, FrameAssumption DEF Shown
<1> QED BY <1>4, <1>5

(* new and fork change what the new process sees and nothing else.         *)
LEMMA CreatedSees ==
  ASSUME Inv, NEW n \in Pid, proc[n] = "none", NEW app \in App, NEW image,
         NEW g, NEW h, Created(n, from_elf(app), image, g, h)
  PROVE  MemoryOf' =
           [MemoryOf EXCEPT ![n] = [v \in Page |-> Shown(image, PagesOf(from_elf(app)), v)]]
<1>1. /\ g \in [PagesOf(from_elf(app)) -> free]
      /\ \A v, w \in PagesOf(from_elf(app)) : g[v] = g[w] => v = w
      /\ h \in [Pages(KernelStack(n)) -> free \ Range(g)]
      /\ mem' = [f \in Frame |-> IF f \in Range(g) THEN filled(image, g, f)
                                 ELSE IF f \in Range(h) THEN Garbage ELSE mem[f]]
      /\ table' = [table EXCEPT ![n] = fresh_table(g), ![Kernel] = Mapped(@, h)]
      /\ proc' = [proc EXCEPT ![n] = "live"]
  BY DEF Created
<1>2. n # Kernel /\ n \in Space /\ Pid \subseteq Space /\ Kernel \notin Pid
  BY LayoutAssumption DEF Space, Kernel, Pid
<1>3. /\ Range(g) \subseteq free /\ Range(h) \subseteq free /\ free \subseteq Frame
      /\ DOMAIN table = Space /\ DOMAIN proc = Pid
  <2>1. Range(g) \subseteq free /\ Range(h) \subseteq free
    BY <1>1 DEF Range
  <2> QED BY <2>1 DEF Inv, FramesOwnedOnce, TypeOK
<1>4. table'[n] = fresh_table(g) /\ proc'[n] = "live"
  BY <1>1, <1>2, <1>3
<1>5. \A f \in Range(g) : mem'[f] = filled(image, g, f)
  BY <1>1, <1>3
<1>6. MemoryOf'[n] = [v \in Page |-> Shown(image, PagesOf(from_elf(app)), v)]
  <2>1. /\ g \in [PagesOf(from_elf(app)) -> free]
        /\ \A v, w \in PagesOf(from_elf(app)) : g[v] = g[w] => v = w
    BY <1>1
  <2> QED BY <1>4, <1>5, <2>1, FreshSees
<1>7. ASSUME NEW q \in Pid \ {n} PROVE MemoryOf'[q] = MemoryOf[q]
  <2>1. table'[q] = table[q] /\ proc'[q] = proc[q]
    BY <1>1, <1>2, <1>3, <1>7
  <2>2. \A f \in Frame \ free : mem'[f] = mem[f]
    BY <1>1, <1>3
  <2> QED BY <2>1, <2>2, SeesTheSame
<1> QED BY <1>6, <1>7, OneMemoryChanges

(* exec changes what the calling process sees and nothing else.            *)
LEMMA ExecutedSees ==
  ASSUME Inv, NEW p \in Pid, proc[p] = "live", NEW app \in App,
         NEW g, Executed(p, app, g)
  PROVE  MemoryOf' =
           [MemoryOf EXCEPT ![p] = [v \in Page |-> Shown(elf_image(app, p), PagesOf(from_elf(app)), v)]]
<1> DEFINE image == elf_image(app, p)
<1>1. /\ g \in [PagesOf(from_elf(app)) -> free]
      /\ \A v, w \in PagesOf(from_elf(app)) : g[v] = g[w] => v = w
      /\ mem' = [f \in Frame |->
            IF f \in Range(g) THEN filled(image, g, f)
            ELSE IF f \in released(p) THEN Garbage ELSE mem[f]]
      /\ table' = [table EXCEPT ![p] = fresh_table(g)]
      /\ proc' = proc
  BY DEF Executed
<1> HIDE DEF image
<1>2. p \in Space /\ Pid \subseteq Space
  BY DEF Space
<1>3. /\ Range(g) \subseteq free /\ free \subseteq Frame
      /\ DOMAIN table = Space
  <2>1. Range(g) \subseteq free
    BY <1>1 DEF Range
  <2> QED BY <2>1 DEF Inv, FramesOwnedOnce, TypeOK
<1>4. table'[p] = fresh_table(g) /\ proc'[p] = "live"
  BY <1>1, <1>2, <1>3
<1>5. \A f \in Range(g) : mem'[f] = filled(image, g, f)
  BY <1>1, <1>3
<1>6. MemoryOf'[p] = [v \in Page |-> Shown(image, PagesOf(from_elf(app)), v)]
  BY <1>1, <1>4, <1>5, FreshSees
<1>7. ASSUME NEW q \in Pid \ {p}, proc[q] = "live", NEW v \in Page, table[q][v] \in Frame \ free
      PROVE  mem'[table[q][v]] = mem[table[q][v]]
  <2>1. table[q][v] = data_frames[q][v]
    BY <1>7, VisibleLive
  <2>2. q \in Space /\ q # p
    BY <1>2, <1>7
  <2>3. table[q][v] \notin released(p)
    BY <1>2, <1>7, <2>1, <2>2, Released DEF Inv, FramesOwnedOnce
  <2> QED BY <1>1, <1>3, <1>7, <2>3
<1>8. ASSUME NEW q \in Pid \ {p} PROVE MemoryOf'[q] = MemoryOf[q]
  <2>1. table'[q] = table[q] /\ proc'[q] = proc[q]
    BY <1>1, <1>2, <1>3, <1>8
  <2> QED BY <1>7, <2>1, SeesTheSame
<1> QED BY <1>6, <1>8, OneMemoryChanges DEF image

(* A fresh program sees its image.                                         *)
LEMMA FreshImageShown ==
  ASSUME NEW app \in App, NEW p \in Pid
  PROVE  FreshImage(app, p) = [v \in Page |-> Shown(elf_image(app, p), PagesOf(from_elf(app)), v)]
BY DEF FreshImage, Shown


(* What each operation does to the memories, when it does not run out of   *)
(* frames: TaskControlBlock::new loads the initial process, ...            *)
LEMMA newSees ==
  ASSUME Inv, NEW app \in App, new(app)
  PROVE  \/ Panic("out of frames")
         \/ /\ panic' = panic /\ proc' = [proc EXCEPT ![0] = "live"]
            /\ MemoryOf' = [MemoryOf EXCEPT ![0] = FreshImage(app, 0)]
<1>1. 0 \in Pid /\ proc[0] = "none" /\ create(0, from_elf(app), elf_image(app, 0))
  BY LayoutAssumption DEF new, Pid
<1>2. ASSUME NEW g, NEW h, Created(0, from_elf(app), elf_image(app, 0), g, h)
      PROVE  /\ panic' = panic /\ proc' = [proc EXCEPT ![0] = "live"]
             /\ MemoryOf' = [MemoryOf EXCEPT ![0] = FreshImage(app, 0)]
  <2>1. MemoryOf' = [MemoryOf EXCEPT ![0] = FreshImage(app, 0)]
    BY <1>1, <1>2, CreatedSees, FreshImageShown
  <2> QED BY <1>2, <2>1 DEF Created
<1> QED BY <1>1, <1>2, CreateEffect

(* ... exec loads the calling process anew, ...                            *)
LEMMA execSees ==
  ASSUME Inv, NEW p \in Pid, NEW app \in App, exec(p, app)
  PROVE  /\ proc[p] = "live"
         /\ \/ Panic("out of frames")
            \/ /\ panic' = panic /\ proc' = proc
               /\ MemoryOf' = [MemoryOf EXCEPT ![p] = FreshImage(app, p)]
<1>1. proc[p] = "live" /\ (Panic("out of frames") \/ \E g : Executed(p, app, g))
  BY ExecEffect
<1>2. ASSUME NEW g, Executed(p, app, g)
      PROVE  /\ panic' = panic /\ proc' = proc
             /\ MemoryOf' = [MemoryOf EXCEPT ![p] = FreshImage(app, p)]
  <2>1. MemoryOf' = [MemoryOf EXCEPT ![p] = FreshImage(app, p)]
    BY <1>1, <1>2, ExecutedSees, FreshImageShown
  <2> QED BY <1>2, <2>1 DEF Executed
<1> QED BY <1>1, <1>2

(* ... fork gives the child the pages of the parent and a context that     *)
(* names the child's kernel stack, ...                                     *)
LEMMA forkSees ==
  ASSUME Inv, panic = "none", NEW p \in Pid, NEW n \in Pid, fork(p, n)
  PROVE  /\ proc[p] = "live" /\ proc[n] = "none"
         /\ \/ Panic("out of frames")
            \/ /\ panic' = panic /\ proc' = [proc EXCEPT ![n] = "live"]
               /\ MemoryOf' = [MemoryOf EXCEPT ![n] =
                     [MemoryOf[p] EXCEPT ![TRAP_CONTEXT] = OwnContext(@, n)]]
<1>1. /\ proc[p] = "live" /\ proc[n] = "none"
      /\ create(n, areas[p], copied_image(p, n))
  BY DEF fork
<1>2. PICK app \in App : /\ areas[p] = from_elf(app)
                         /\ mem[trap_cx_ppn[p]] = TrapContext(app, get_top(p))
  BY <1>1, LiveProgram
<1>3. create(n, from_elf(app), copied_image(p, n))
  BY <1>1, <1>2
<1>4. ASSUME NEW g, NEW h, Created(n, from_elf(app), copied_image(p, n), g, h)
      PROVE  /\ panic' = panic /\ proc' = [proc EXCEPT ![n] = "live"]
             /\ MemoryOf' = [MemoryOf EXCEPT ![n] =
                   [MemoryOf[p] EXCEPT ![TRAP_CONTEXT] = OwnContext(@, n)]]
  <2> DEFINE V == PagesOf(from_elf(app))
             image == copied_image(p, n)
  <2>1. MemoryOf' = [MemoryOf EXCEPT ![n] = [v \in Page |-> Shown(image, V, v)]]
    BY <1>1, <1>4, CreatedSees
  <2>2. TRAP_CONTEXT \in V /\ V \subseteq Page /\ TRAMPOLINE \notin V
    BY ProgramLayout
  <2>3. /\ image[TRAP_CONTEXT] = TrapContext(app, get_top(n))
        /\ \A v \in V : v # TRAP_CONTEXT => image[v] = mem[table[p][v]]
    BY <1>1, <1>2, CopiedImage
  <2> HIDE DEF V, image
  <2>4. MemoryOf[p][TRAP_CONTEXT] = TrapContext(app, get_top(p))
    <3>1. trap_cx_ppn[p] = table[p][TRAP_CONTEXT]
      BY <1>1, LiveContext
    <3> QED BY <1>1, <1>2, <2>2, <3>1, VisibleLive DEF MemoryOf, V
  <2>5. OwnContext(MemoryOf[p][TRAP_CONTEXT], n) = TrapContext(app, get_top(n))
    BY <2>4, Contexts DEF OwnContext
  <2>6. ASSUME NEW v \in Page, v # TRAP_CONTEXT PROVE Shown(image, V, v) = MemoryOf[p][v]
    <3>1. MemoryOf[p][v] = Visible(p, v)
      BY DEF MemoryOf
    <3>2. CASE v \in V
      <4>1. Visible(p, v) = mem[table[p][v]] /\ Visible(p, v) \in Content
        BY <1>1, <1>2, <3>2, VisibleLive DEF V
      <4>2. image[v] = Visible(p, v) /\ image[v] # Untouched
        BY <2>3, <2>6, <3>2, <4>1, ContentKinds
      <4> QED BY <3>1, <3>2, <4>2 DEF Shown
    <3>3. CASE v \notin V
      BY <1>1, <1>2, <3>1, <3>3, VisibleLive DEF V, Shown
    <3> QED BY <3>2, <3>3
  <2>7. Shown(image, V, TRAP_CONTEXT) = OwnContext(MemoryOf[p][TRAP_CONTEXT], n)
    BY <2>2, <2>3, <2>5, Contexts DEF Shown
  <2>8. MemoryOf[p] = [v \in Page |-> MemoryOf[p][v]]
    BY DEF MemoryOf
  <2>9. [v \in Page |-> Shown(image, V, v)]
          = [MemoryOf[p] EXCEPT ![TRAP_CONTEXT] = OwnContext(@, n)]
    BY <2>6, <2>7, <2>8
  <2>10. MemoryOf' = [MemoryOf EXCEPT ![n] =
                        [MemoryOf[p] EXCEPT ![TRAP_CONTEXT] = OwnContext(@, n)]]
    BY <2>1, <2>9
  <2> QED BY <1>4, <2>10 DEF Created
<1> QED BY <1>1, <1>3, <1>4, CreateEffect

(* ... exit takes the pages of the exiting process, ...                    *)
LEMMA recycleSees ==
  ASSUME Inv, NEW p \in Pid, recycle_data_pages(p)
  PROVE  /\ proc[p] = "live" /\ proc' = [proc EXCEPT ![p] = "zombie"]
         /\ MemoryOf' = [MemoryOf EXCEPT ![p] = Blank]
<1>1. /\ proc[p] = "live" /\ proc' = [proc EXCEPT ![p] = "zombie"] /\ table' = table
      /\ mem' = [f \in Frame |-> IF f \in released(p) THEN Garbage ELSE mem[f]]
  BY DEF recycle_data_pages
<1>2. proc'[p] = "zombie" /\ \A q \in Pid \ {p} : proc'[q] = proc[q]
  BY <1>1 DEF Inv, FramesOwnedOnce, TypeOK
<1>3. ASSUME NEW q \in Pid \ {p}, proc[q] = "live", NEW v \in Page, table[q][v] \in Frame \ free
      PROVE  mem'[table[q][v]] = mem[table[q][v]]
  <2>1. table[q][v] = data_frames[q][v]
    BY <1>3, VisibleLive
  <2>2. q \in Space /\ p \in Space /\ q # p
    BY <1>3 DEF Space
  <2>3. table[q][v] \notin released(p)
    BY <1>3, <2>1, <2>2, Released DEF Inv, FramesOwnedOnce
  <2> QED BY <1>1, <1>3, <2>3
<1>4. ASSUME NEW q \in Pid \ {p} PROVE MemoryOf'[q] = MemoryOf[q]
  BY <1>1, <1>2, <1>3, <1>4, SeesTheSame
<1>5. MemoryOf'[p] = Blank
  BY <1>2 DEF MemoryOf, Visible, Blank
<1>6. MemoryOf' = [MemoryOf EXCEPT ![p] = Blank]
  BY <1>4, <1>5, OneMemoryChanges
<1> QED BY <1>1, <1>6

(* The processes that live, and their page tables, are the same after a    *)
(* step.                                                                   *)
SpacesKept ==
  \A q \in Pid : /\ proc'[q] = "live" <=> proc[q] = "live"
                 /\ proc[q] = "live" => table'[q] = table[q]

(* ... dropping a zombie takes no space of a live process, ...             *)
LEMMA dropSees ==
  ASSUME Inv, NEW p \in Pid, drop(p)
  PROVE  /\ proc[p] = "zombie" /\ proc' = [proc EXCEPT ![p] = "none"]
         /\ SpacesKept /\ \A q \in Pid : areas'[q] = areas[q]
<1> DEFINE t1 == unmap(table[Kernel], PagesOf({a \in areas[Kernel] : a.l = floor(kernel_stack_position(p)[1])}))
           a1 == areas[Kernel] \ {a \in areas[Kernel] : a.l = floor(kernel_stack_position(p)[1])}
<1>1. /\ proc[p] = "zombie" /\ proc' = [proc EXCEPT ![p] = "none"]
      /\ table' = [table EXCEPT ![Kernel] = t1, ![p] = fresh_table(<<>>)]
      /\ areas' = [areas EXCEPT ![Kernel] = a1]
  BY DEF drop
<1> HIDE DEF t1, a1
<1>2. Kernel \notin Pid /\ Pid \subseteq Space
  BY LayoutAssumption DEF Space, Kernel, Pid
<1>3. /\ proc'[p] = "none" /\ \A q \in Pid \ {p} : proc'[q] = proc[q] /\ table'[q] = table[q]
      /\ \A q \in Pid : areas'[q] = areas[q]
  BY <1>1, <1>2 DEF Inv, FramesOwnedOnce, TypeOK, AreasOK
<1> QED BY <1>1, <1>3 DEF SpacesKept

(* ... and a store, of the program or of the kernel for it, is seen at one *)
(* page of one process.                                                    *)
LEMMA StoreSees ==
  ASSUME Inv, NEW p \in Pid, proc[p] = "live", NEW v \in Page, NEW x \in Data,
         table[p][v] \in Frame, mem' = [mem EXCEPT ![table[p][v]] = Written(x)], SpacesKept
  PROVE  Memory!Write(p, v, x) /\ MemoryOf' = [MemoryOf EXCEPT ![p][v] = Written(x)]
<1>1. /\ proc'[p] = "live" /\ table'[p] = table[p] /\ v \in PagesOf(areas[p])
      /\ Visible(p, v) \in Content
  BY VisibleLive DEF SpacesKept
<1>2. mem'[table[p][v]] = Written(x) /\ \A f \in Frame : f # table[p][v] => mem'[f] = mem[f]
  BY DEF Inv, FramesOwnedOnce, TypeOK
<1>3. ASSUME NEW q \in Pid, NEW w \in Page, q # p \/ w # v
      PROVE  MemoryOf'[q][w] = MemoryOf[q][w]
  <2>1. CASE proc[q] = "live"
    <3>1. proc'[q] = "live" /\ table'[q] = table[q]
      BY <2>1 DEF SpacesKept
    <3>2. table[q][w] \in Frame => table[q][w] # table[p][v]
      BY <1>3, <2>1, PrivateFrames
    <3> QED BY <1>2, <2>1, <3>1, <3>2 DEF MemoryOf, Visible
  <2>2. CASE proc[q] # "live"
    BY <2>2 DEF MemoryOf, Visible, SpacesKept
  <2> QED BY <2>1, <2>2
<1>4. MemoryOf'[p][v] = Written(x)
  BY <1>1, <1>2 DEF MemoryOf, Visible
<1>5. /\ MemoryOf = [q \in Pid |-> [w \in Page |-> MemoryOf[q][w]]]
      /\ MemoryOf' = [q \in Pid |-> [w \in Page |-> MemoryOf'[q][w]]]
  BY DEF MemoryOf
<1>6. MemoryOf' = [MemoryOf EXCEPT ![p][v] = Written(x)]
  BY <1>3, <1>4, <1>5
<1>7. MemoryOf[p] # Blank /\ MemoryOf[p][v] # <<"unmapped">>
  BY <1>1, LiveSees, ContentKinds DEF MemoryOf
<1>8. Memory!Write(p, v, x)
  BY <1>6, <1>7 DEF Memory!Write, Memory!Exists, Memory!Nothing, Blank, MemoryOf
<1> QED BY <1>6, <1>8

(* The contexts of the processes after a store of the kernel for p.        *)
ContextsKept(p) ==
  \A q \in Pid : q # p \/ panic' = "none" =>
     MemoryOf'[q][TRAP_CONTEXT] = MemoryOf[q][TRAP_CONTEXT]

LEMMA kernel_storeSees ==
  ASSUME Inv, panic = "none", NEW p \in Pid, proc[p] = "live", NEW v \in Page, NEW x \in Data,
         table[p][v] \in Frame, kernel_store(p, v, x), SpacesKept
  PROVE  /\ [Memory!Next]_MemoryOf
         /\ ContextsKept(p) /\ panic' \in {"none", "overwritten"}
<1>1. CASE mem' = mem /\ panic' = panic
  <2>1. ASSUME NEW q \in Pid PROVE MemoryOf'[q] = MemoryOf[q]
    BY <1>1, SeesTheSame DEF SpacesKept
  <2>2. MemoryOf' = MemoryOf
    BY <2>1 DEF MemoryOf
  <2> QED BY <1>1, <2>2 DEF ContextsKept
<1>2. CASE ~(mem' = mem /\ panic' = panic)
  <2>1. /\ mem' = [mem EXCEPT ![table[p][v]] = Written(x)]
        /\ panic' = IF v = TRAP_CONTEXT THEN "overwritten" ELSE "none"
    BY <1>2 DEF kernel_store
  <2>2. Memory!Write(p, v, x) /\ MemoryOf' = [MemoryOf EXCEPT ![p][v] = Written(x)]
    BY <2>1, StoreSees
  <2>3. Memory!Next
    BY <2>2 DEF Memory!Next
  <2>4. ContextsKept(p)
    <3>1. \A q \in Pid : MemoryOf[q] = [w \in Page |-> MemoryOf[q][w]]
      BY DEF MemoryOf
    <3>2. DOMAIN MemoryOf = Pid
      BY DEF MemoryOf
    <3> QED BY <2>1, <2>2, <3>1, <3>2 DEF ContextsKept
  <2> QED BY <2>1, <2>3, <2>4
<1> QED BY <1>1, <1>2

(* A program's own store never reaches the page of its trap context, ...   *)
LEMMA user_writeSees ==
  ASSUME Inv, panic = "none", NEW p \in Pid, NEW v \in Page, NEW x \in Data, user_write(p, v, x)
  PROVE  [Memory!Next]_MemoryOf /\ ContextsKept(p)
<1>1. /\ proc[p] = "live" /\ mem' = [mem EXCEPT ![table[p][v]] = Written(x)]
      /\ UNCHANGED <<table, proc, panic>>
  BY DEF user_write, spaceVars
<1>2. PICK app \in App : areas[p] = from_elf(app)
  BY <1>1, LiveContext
<1>3. PICK a \in areas[p] : a.w /\ v \in Pages(a)
  BY DEF user_write
<1>4. v \in PagesOf(areas[p]) /\ v # TRAP_CONTEXT /\ v # TRAMPOLINE
  BY <1>2, <1>3, ProgramLayout DEF PagesOf
<1>5. table[p][v] \in Frame
  BY <1>1, <1>4, LiveFrames
<1>6. kernel_store(p, v, x) /\ SpacesKept
  BY <1>1, <1>4 DEF kernel_store, SpacesKept
<1> QED BY <1>1, <1>5, <1>6, kernel_storeSees

(* ... sys_read stores for its caller and changes no space, ...            *)
LEMMA sys_readSees ==
  ASSUME Inv, panic = "none", NEW p \in Pid, NEW v \in Page, NEW x \in Data, sys_read(p, v, x)
  PROVE  /\ [Memory!Next]_MemoryOf /\ proc' = proc /\ areas' = areas
         /\ Panic("bad_pointer") \/ (ContextsKept(p) /\ panic' \in {"none", "overwritten"})
<1>1. CASE bad_pointer(p, v)
  <2>1. Panic("bad_pointer") /\ UNCHANGED <<mem, table, proc, areas>>
    BY <1>1 DEF bad_pointer, Panic, spaceVars
  <2> QED BY <2>1 DEF MemoryOf, Visible
<1>2. CASE ~bad_pointer(p, v)
  <2>1. /\ proc[p] = "live" /\ table[p][v] \in Frame /\ kernel_store(p, v, x)
        /\ UNCHANGED <<table, proc, areas>>
    BY <1>2 DEF sys_read, spaceVars
  <2>2. SpacesKept
    BY <2>1 DEF SpacesKept
  <2> QED BY <2>1, <2>2, kernel_storeSees
<1> QED BY <1>1, <1>2

(* ... and waitpid takes the zombie away besides.                          *)
LEMMA waitpidSees ==
  ASSUME Inv, panic = "none", NEW p \in Pid, NEW z \in Pid, NEW v \in Page, NEW x \in Data,
         waitpid(p, z, v, x)
  PROVE  /\ [Memory!Next]_MemoryOf /\ proc[z] = "zombie"
         /\ \/ Panic("bad_pointer")
            \/ /\ ContextsKept(p) /\ panic' \in {"none", "overwritten"}
               /\ proc' = [proc EXCEPT ![z] = "none"] /\ \A q \in Pid : areas'[q] = areas[q]
<1>1. CASE bad_pointer(p, v)
  <2>1. Panic("bad_pointer") /\ UNCHANGED <<mem, table, proc>>
    BY <1>1 DEF bad_pointer, Panic, spaceVars
  <2>2. MemoryOf' = MemoryOf
    BY <2>1 DEF MemoryOf, Visible
  <2> QED BY <2>1, <2>2 DEF waitpid
<1>2. CASE ~bad_pointer(p, v)
  <2>1. proc[p] = "live" /\ table[p][v] \in Frame /\ kernel_store(p, v, x) /\ drop(z)
    BY <1>2 DEF waitpid
  <2> QED BY <2>1, dropSees, kernel_storeSees
<1> QED BY <1>1, <1>2

(* A memory per pid, a content per page.                                   *)
LEMMA MemoryShape ==
  /\ MemoryOf = [p \in Pid |-> MemoryOf[p]]
  /\ MemoryOf' = [p \in Pid |-> MemoryOf'[p]]
  /\ \A p \in Pid : MemoryOf[p] = [v \in Page |-> MemoryOf[p][v]]
  /\ TRAP_CONTEXT \in Page
<1>1. TRAMPOLINE - 1 \in 0 .. TRAMPOLINE
  <2>1. 0 \in Pid /\ TRAMPOLINE \in Nat
    BY LayoutAssumption DEF Pid
  <2>2. KernelStack(0).r \in Nat /\ KernelStack(0).l \in Nat \ {0}
        /\ KernelStack(0).r = TRAMPOLINE /\ KernelStack(0).l = TRAMPOLINE - StackPages
    BY <2>1, StackLayout, StackSize
  <2> QED BY <2>1, <2>2, StackSize
<1> QED BY <1>1 DEF MemoryOf, TRAP_CONTEXT, Page

(* The context a fresh program is restored from is its own.                *)
LEMMA FreshImageContext ==
  ASSUME NEW app \in App, NEW p \in Pid
  PROVE  FreshImage(app, p)[TRAP_CONTEXT] = TrapContext(app, get_top(p))
<1>1. TRAP_CONTEXT \in PagesOf(from_elf(app)) /\ PagesOf(from_elf(app)) \subseteq Page
  BY ProgramLayout
<1>2. elf_image(app, p)[TRAP_CONTEXT] = TrapContext(app, get_top(p))
  BY ElfImage
<1> QED BY <1>1, <1>2, Contexts DEF FreshImage

(* A live process sees its trap context where its page table has it.       *)
LEMMA ContextSeen ==
  ASSUME Inv, NEW p \in Pid, proc[p] = "live"
  PROVE  MemoryOf[p][TRAP_CONTEXT] = mem[table[p][TRAP_CONTEXT]]
<1>1. TRAP_CONTEXT \in Page /\ TRAP_CONTEXT \in PagesOf(areas[p])
  BY LiveContext, ProgramLayout
<1> QED BY <1>1, VisibleLive DEF MemoryOf

LEMMA NextSees ==
  ASSUME Inv, [Next]_vars
  PROVE  [Memory!Next]_MemoryOf
<1> DEFINE Step == [Memory!Next]_MemoryOf
<1>1. UNCHANGED <<mem, table, proc>> => Step
  BY DEF MemoryOf, Visible
<1>0. Panic("out of frames") => UNCHANGED <<mem, table, proc>>
  BY DEF Panic, spaceVars
<1>2. ASSUME NEW app \in App, new(app) PROVE Step
  <2>1. MemoryOf = [q \in Pid |-> Blank]
    <3>1. \A q \in Pid : MemoryOf[q] = Blank
      BY <1>2, LiveSees DEF new
    <3> QED BY <3>1 DEF MemoryOf
  <2>2. ASSUME MemoryOf' = [MemoryOf EXCEPT ![0] = FreshImage(app, 0)] PROVE Step
    <3>1. 0 \in Pid
      BY LayoutAssumption DEF Pid
    <3>2. Memory!Boot(0, app)
      BY <2>1, <2>2 DEF Memory!Boot, Memory!Load, Memory!Nothing, Blank, MemoryOf
    <3> QED BY <3>1, <3>2 DEF Memory!Next
  <2> QED BY <1>1, <1>2, <1>0, <2>2, newSees
<1>3. ASSUME NEW p \in Pid, NEW app \in App, exec(p, app) PROVE Step
  <2>1. proc[p] = "live" /\ MemoryOf[p] # Blank
    BY <1>3, execSees, LiveSees
  <2>2. ASSUME MemoryOf' = [MemoryOf EXCEPT ![p] = FreshImage(app, p)] PROVE Step
    <3>1. Memory!Exec(p, app)
      BY <2>1, <2>2 DEF Memory!Exec, Memory!Exists, Memory!Load, Memory!Nothing, Blank, MemoryOf
    <3> QED BY <3>1 DEF Memory!Next
  <2> QED BY <1>1, <1>3, <1>0, <2>2, execSees
<1>4. ASSUME NEW p \in Pid, NEW n \in Pid, fork(p, n), panic = "none" PROVE Step
  <2>1. MemoryOf[p] # Blank /\ MemoryOf[n] = Blank
    BY <1>4, forkSees, LiveSees
  <2>2. ASSUME MemoryOf' = [MemoryOf EXCEPT ![n] =
                             [MemoryOf[p] EXCEPT ![TRAP_CONTEXT] = OwnContext(@, n)]]
        PROVE  Step
    <3>1. Memory!Fork(p, n)
      BY <2>1, <2>2 DEF Memory!Fork, Memory!Exists, Memory!Nothing, Blank, MemoryOf
    <3> QED BY <3>1 DEF Memory!Next
  <2> QED BY <1>1, <1>4, <1>0, <2>2, forkSees
<1>5. ASSUME NEW p \in Pid, NEW v \in Page, NEW x \in Data, panic = "none", user_write(p, v, x)
      PROVE  Step
  BY <1>5, user_writeSees
<1>6. ASSUME NEW p \in Pid, recycle_data_pages(p) PROVE Step
  <2>1. MemoryOf[p] # Blank /\ MemoryOf' = [MemoryOf EXCEPT ![p] = Blank]
    BY <1>6, recycleSees, LiveSees
  <2>2. Memory!Exit(p)
    BY <2>1 DEF Memory!Exit, Memory!Exists, Memory!Nothing, Blank, MemoryOf
  <2> QED BY <2>2 DEF Memory!Next
<1>7. ASSUME NEW p \in Pid, NEW v \in Page, NEW x \in Data, panic = "none",
             sys_read(p, v, x) \/ \E z \in Pid : waitpid(p, z, v, x)
      PROVE  Step
  BY <1>7, sys_readSees, waitpidSees
<1>8. UNCHANGED vars => UNCHANGED <<mem, table, proc>>
  BY DEF vars, spaceVars
<1> HIDE DEF Step
<1>9. Step
  BY <1>1, <1>2, <1>3, <1>4, <1>5, <1>6, <1>7, <1>8 DEF Next, shutdown
<1> QED BY <1>9 DEF Step

(* Every process has a memory of its own: what it sees changes only by its *)
(* own writes, those of its calls, exec and exit; a child starts with its  *)
(* parent's pages; a fresh program sees its image and zeros, never what a  *)
(* frame held before.                                                      *)
THEOREM PrivateMemoryRefinement == Spec => PrivateMemorySpec
<1>1. Init => Memory!Init
  BY DEF Init, Memory!Init, Memory!Nothing, Visible
<1>2. Inv /\ [Next]_vars => [Memory!Next]_MemoryOf
  BY NextSees
<1>3. Inv /\ [Next]_vars => [Memory!Next]_[p \in Pid |-> [v \in Page |-> Visible(p, v)]]
  BY <1>2 DEF MemoryOf
<1> QED BY <1>1, <1>3, MemoryInvariant, PTL DEF Spec, PrivateMemorySpec, Memory!Spec
===============================================================================
