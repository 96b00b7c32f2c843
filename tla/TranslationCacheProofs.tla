------------------------ MODULE TranslationCacheProofs ------------------------
(***************************************************************************)
(* Proof that the fences of trap.S and trap_return are enough, for any     *)
(* number of processes, frames and programs and any size of kernel stacks: *)
(* whatever the hart has cached, it uses no translation and no instruction *)
(* that is out of date.                                                    *)
(***************************************************************************)
EXTENDS TranslationCache, TLAPS

-------------------------------------------------------------------------------
(* The pages and the caches.                                               *)

(* Kernel stacks of different pids have different pages, and the pages of  *)
(* a user space are apart.                                                 *)
LEMMA PagesApart ==
  /\ Kernel \notin Pid /\ Idle \notin Pid /\ Kernel = Idle
  /\ TRAP_CONTEXT \in Page /\ Code \in Page /\ Code # TRAP_CONTEXT
  /\ \A p \in Pid : stack_page(p) \in Page
  /\ \A p, q \in Pid : stack_page(p) = stack_page(q) => p = q
<1> DEFINE k == KERNEL_STACK_PAGES + 1
<1>1. k \in Nat /\ k >= 1 /\ MaxPid \in Nat
  BY CacheAssumption
<1>2. Kernel \notin Pid /\ Idle \notin Pid /\ Kernel = Idle
  BY <1>1 DEF Kernel, Idle, Pid
<1> HIDE DEF k
<1>3. Code # TRAP_CONTEXT
  <2>1. (MaxPid + 1) * k \in Nat
    BY <1>1
  <2> QED BY <2>1 DEF Code, TRAP_CONTEXT, k
<1>4. ASSUME NEW p \in Pid, NEW q \in Pid, p < q
      PROVE  stack_page(p) # stack_page(q)
  <2>1. p \in Nat /\ q \in Nat /\ q - p >= 1
    BY <1>1, <1>4 DEF Pid
  <2>2. q * k - p * k = (q - p) * k
    BY <1>1, <2>1
  <2>3. (q - p) * k >= 1
    BY <1>1, <2>1
  <2>4. q * k \in Int /\ p * k \in Int /\ p * k # q * k
    BY <1>1, <2>1, <2>2, <2>3
  <2> QED BY <2>4 DEF stack_page, k
<1>5. \A p, q \in Pid : stack_page(p) = stack_page(q) => p = q
  <2> SUFFICES ASSUME NEW p \in Pid, NEW q \in Pid, p # q
               PROVE  stack_page(p) # stack_page(q)
    OBVIOUS
  <2>1. p < q \/ q < p
    BY <1>1 DEF Pid
  <2> QED BY <1>4, <2>1
<1> QED BY <1>2, <1>3, <1>5 DEF Page

(* A cache is a function on some of the addresses, and Put adds one.       *)
Cache(D, R) == UNION {[S -> R] : S \in SUBSET D}

LEMMA EmptyCache ==
  ASSUME NEW D, NEW R
  PROVE  Empty \in Cache(D, R) /\ DOMAIN Empty = {}
<1>1. Empty \in [{} -> R]
  BY DEF Empty
<1>2. [{} -> R] \in {[S -> R] : S \in SUBSET D}
  OBVIOUS
<1> QED BY <1>1, <1>2 DEF Cache, Empty

LEMMA PutCache ==
  ASSUME NEW D, NEW R, NEW f \in Cache(D, R), NEW n \in D, NEW x \in R
  PROVE  /\ Put(f, n, x) \in Cache(D, R)
         /\ DOMAIN Put(f, n, x) = DOMAIN f \cup {n}
<1>1. PICK S \in SUBSET D : f \in [S -> R]
  BY DEF Cache
<1>2. Put(f, n, x) \in [S \cup {n} -> R]
  BY <1>1 DEF Put
<1>3. S \cup {n} \in SUBSET D
  BY <1>1
<1> QED BY <1>2, <1>3 DEF Put, Cache

(* The type invariant with the caches as partial functions.                *)
LEMMA TypeOKCache ==
  TypeOK <=> /\ tlb \in Cache(Page, Frame \cup {NoFrame})
             /\ icache \in Cache(Frame, Program)
             /\ proc \in [Pid -> {"none", "live", "zombie"}]
             /\ where \in [Pid -> {"user", "trap", "waiting", "leaving"}]
             /\ satp \in Space
             /\ current # Idle /\ where[current] = "user" => satp = current
BY DEF TypeOK, Cache

(* A fresh user space maps the trap context and the code.                  *)
LEMMA UserSpaceMaps ==
  ASSUME NEW tc \in Frame, NEW c \in Frame
  PROVE  /\ UserSpace(tc, c) \in [Page -> Frame \cup {NoFrame}]
         /\ UserSpace(tc, c)[TRAP_CONTEXT] = tc
         /\ UserSpace(tc, c)[Code] = c
BY PagesApart DEF UserSpace, Unmapped

-------------------------------------------------------------------------------
(* The first return to user mode.                                          *)

LEMMA InitInv == Init => Inv
<1> SUFFICES ASSUME Init PROVE Inv
  OBVIOUS
<1>1. 0 \in Pid /\ Kernel \in Space /\ 0 \in Space /\ 0 # Kernel /\ Pid \subseteq Space
  BY CacheAssumption, PagesApart DEF Pid, Space
<1>2. PICK s \in Frame, tc \in Frame, c \in Frame :
        table = [sp \in Space |-> IF sp = 0 THEN UserSpace(tc, c)
                                  ELSE IF sp = Kernel THEN [Unmapped EXCEPT ![stack_page(0)] = s]
                                  ELSE Unmapped]
  BY DEF Init
<1>3. /\ table[0] = UserSpace(tc, c)
      /\ table[Kernel] = [Unmapped EXCEPT ![stack_page(0)] = s]
  BY <1>1, <1>2
<1>4. TypeOK
  BY <1>1, TypeOKCache, EmptyCache DEF Init
<1>5. TablesOK
  <2>1. table \in [Space -> [Page -> Frame \cup {NoFrame}]]
    BY <1>2, UserSpaceMaps DEF Unmapped
  <2> QED BY <1>1, <2>1 DEF Init, TablesOK
<1>6. PagesMapped
  BY <1>1, <1>3, UserSpaceMaps, PagesApart, CacheAssumption DEF Init, PagesMapped, Unmapped
<1>7. HartWhere
  BY <1>1, PagesApart DEF Init, HartWhere
<1>8. CachesClean
  BY EmptyCache DEF Init, CachesClean
<1> QED BY <1>4, <1>5, <1>6, <1>7, <1>8 DEF Inv

-------------------------------------------------------------------------------
(* The hart.                                                               *)

LEMMA walkInv ==
  ASSUME Inv, NEW n \in Page, walk(n)
  PROVE  Inv'
<1>1. /\ n \notin DOMAIN tlb /\ tlb' = Put(tlb, n, table[satp][n])
      /\ UNCHANGED <<table, code, proc, where, current, satp, flushed, icache>>
  BY DEF walk, processes
<1>2. table[satp][n] \in Frame \cup {NoFrame}
  BY DEF Inv, TypeOK, TablesOK
<1>3. /\ tlb' \in Cache(Page, Frame \cup {NoFrame})
      /\ DOMAIN tlb' = DOMAIN tlb \cup {n}
      /\ tlb'[n] = table[satp][n]
      /\ \A m \in DOMAIN tlb : tlb'[m] = tlb[m]
  <2> DEFINE R == Frame \cup {NoFrame}
             x == table[satp][n]
  <2>1. tlb \in Cache(Page, R) /\ x \in R
    BY <1>2, TypeOKCache DEF Inv
  <2> HIDE DEF R, x
  <2>2. /\ Put(tlb, n, x) \in Cache(Page, R)
        /\ DOMAIN Put(tlb, n, x) = DOMAIN tlb \cup {n}
    BY <2>1, PutCache, SMTT(30)
  <2>3. tlb'[n] = x /\ \A m \in DOMAIN tlb : tlb'[m] = tlb[m]
    BY <1>1 DEF Put, x
  <2> QED BY <1>1, <2>2, <2>3 DEF R, x
<1>4. TypeOK'
  BY <1>1, <1>3 DEF Inv, TypeOK, Cache
<1>5. CachesClean'
  BY <1>1, <1>3 DEF Inv, CachesClean
<1> QED BY <1>1, <1>4, <1>5 DEF Inv, TablesOK, PagesMapped, HartWhere

LEMMA fetchInv ==
  ASSUME Inv, NEW f \in Frame, fetch(f)
  PROVE  Inv'
<1>1. /\ f \notin DOMAIN icache /\ icache' = Put(icache, f, code[f])
      /\ UNCHANGED <<table, code, proc, where, current, satp, flushed, tlb>>
  BY DEF fetch, processes
<1>2. /\ icache' \in Cache(Frame, Program)
      /\ DOMAIN icache' = DOMAIN icache \cup {f}
      /\ icache'[f] = code[f]
      /\ \A m \in DOMAIN icache : icache'[m] = icache[m]
  <2>1. icache \in Cache(Frame, Program) /\ code[f] \in Program
    BY TypeOKCache DEF Inv, TablesOK
  <2>2. /\ Put(icache, f, code[f]) \in Cache(Frame, Program)
        /\ DOMAIN Put(icache, f, code[f]) = DOMAIN icache \cup {f}
    BY <2>1, PutCache
  <2>3. icache'[f] = code[f] /\ \A m \in DOMAIN icache : icache'[m] = icache[m]
    BY <1>1 DEF Put
  <2> QED BY <1>1, <2>2, <2>3
<1>3. TypeOK'
  BY <1>1, <1>2 DEF Inv, TypeOK, Cache
<1>4. CachesClean'
  BY <1>1, <1>2 DEF Inv, CachesClean
<1> QED BY <1>1, <1>3, <1>4 DEF Inv, TablesOK, PagesMapped, HartWhere

-------------------------------------------------------------------------------
(* trap.S and trap_return.                                                 *)

LEMMA alltrapsInv ==
  ASSUME Inv, alltraps
  PROVE  Inv'
<1>1. PICK p \in Pid :
        /\ current = p /\ flushed /\ where[p] = "user"
        /\ satp' = Kernel /\ flushed' = FALSE
        /\ where' = [where EXCEPT ![p] = "trap"]
        /\ UNCHANGED <<table, code, proc, current, tlb, icache>>
  BY DEF alltraps, In, caches
<1>2. where'[p] = "trap" /\ \A q \in Pid : q # p => where'[q] = where[q]
  BY <1>1 DEF Inv, TypeOK
<1>3. TypeOK'
  BY <1>1, <1>2 DEF Inv, TypeOK, Space
<1>4. HartWhere'
  BY <1>1, <1>2, PagesApart DEF Inv, HartWhere
<1>5. CachesClean'
  BY <1>1, <1>2 DEF CachesClean
<1> QED BY <1>1, <1>3, <1>4, <1>5 DEF Inv, TablesOK, PagesMapped

(* sfence.vma empties the cache, whatever was in it.                       *)
LEMMA fenceInv ==
  ASSUME Inv, fence
  PROVE  Inv'
<1>1. /\ ~flushed /\ flushed' = TRUE /\ tlb' = Empty
      /\ UNCHANGED <<table, code, proc, where, current, satp, icache>>
  BY DEF fence, sfence_vma, processes
<1>2. TypeOK'
  BY <1>1, EmptyCache DEF Inv, TypeOK, Cache
<1>3. CachesClean'
  BY <1>1, EmptyCache DEF Inv, CachesClean
<1> QED BY <1>1, <1>2, <1>3 DEF Inv, TablesOK, PagesMapped, HartWhere

(* fence.i empties the other one before the program can go on.             *)
LEMMA trap_returnInv ==
  ASSUME Inv, trap_return
  PROVE  Inv'
<1>1. PICK p \in Pid :
        /\ current = p /\ flushed /\ where[p] # "user"
        /\ icache' = Empty /\ satp' = p /\ flushed' = FALSE
        /\ where' = [where EXCEPT ![p] = "user"]
        /\ UNCHANGED <<table, code, proc, current, tlb>>
  BY DEF trap_return, fence_i, user_satp
<1>2. where'[p] = "user" /\ \A q \in Pid : q # p => where'[q] = where[q]
  BY <1>1 DEF Inv, TypeOK
<1>3. TypeOK'
  BY <1>1, <1>2, EmptyCache DEF Inv, TypeOK, Space, Cache
<1>4. HartWhere'
  BY <1>1, <1>2, PagesApart DEF Inv, HartWhere
<1>5. CachesClean'
  BY <1>1, <1>2, EmptyCache DEF CachesClean
<1> QED BY <1>1, <1>3, <1>4, <1>5 DEF Inv, TablesOK, PagesMapped

-------------------------------------------------------------------------------
(* System calls and the scheduler.                                         *)

LEMMA sys_execInv ==
  ASSUME Inv, sys_exec
  PROVE  Inv'
<1>1. PICK p \in Pid, tc \in Frame, c \in Frame, x \in Program :
        /\ current = p /\ flushed /\ where[p] = "trap"
        /\ table' = [table EXCEPT ![p] = UserSpace(tc, c)]
        /\ code' = [code EXCEPT ![c] = x]
        /\ where' = [where EXCEPT ![p] = "leaving"]
        /\ UNCHANGED <<proc, current, satp, flushed, tlb, icache>>
  BY DEF sys_exec, In, caches
<1>2. where'[p] = "leaving" /\ \A q \in Pid : q # p => where'[q] = where[q]
  BY <1>1 DEF Inv, TypeOK
<1>3. p # Kernel /\ p # Idle /\ p \in Space /\ Kernel \in Space /\ satp = Kernel
  BY <1>1, PagesApart DEF Inv, HartWhere, Space
<1>4. /\ table' \in [Space -> [Page -> Frame \cup {NoFrame}]]
      /\ table'[p] = UserSpace(tc, c)
      /\ \A s \in Space : s # p => table'[s] = table[s]
  BY <1>1, <1>3, UserSpaceMaps DEF Inv, TablesOK
<1>5. TypeOK'
  BY <1>1, <1>2 DEF Inv, TypeOK
<1>6. TablesOK'
  BY <1>1, <1>4 DEF Inv, TablesOK
<1>7. PagesMapped'
  BY <1>1, <1>3, <1>4, UserSpaceMaps, CacheAssumption DEF Inv, PagesMapped, Space
<1>8. HartWhere'
  BY <1>1, <1>2, <1>3 DEF Inv, HartWhere
<1>9. CachesClean'
  BY <1>1, <1>2, <1>3, <1>4 DEF Inv, CachesClean
<1> QED BY <1>5, <1>6, <1>7, <1>8, <1>9 DEF Inv

LEMMA sys_forkInv ==
  ASSUME Inv, sys_fork
  PROVE  Inv'
<1>1. PICK p \in Pid, q \in Pid, s \in Frame, tc \in Frame, c \in Frame :
        /\ current = p /\ flushed /\ where[p] = "trap" /\ proc[q] = "none"
        /\ table' = [table EXCEPT ![q] = UserSpace(tc, c), ![Kernel][stack_page(q)] = s]
        /\ code' = [code EXCEPT ![c] = code[table[p][Code]]]
        /\ proc' = [proc EXCEPT ![q] = "live"]
        /\ where' = [where EXCEPT ![p] = "leaving", ![q] = "leaving"]
        /\ UNCHANGED <<current, satp, flushed, tlb, icache>>
  BY DEF sys_fork, In, caches, after_fork
<1>2. /\ p # Kernel /\ p # Idle /\ q # Kernel /\ {p, q, Kernel} \subseteq Space
      /\ satp = Kernel /\ proc[p] = "live" /\ p # q
      /\ stack_page(q) \in Page /\ stack_page(p) # stack_page(q)
  BY <1>1, PagesApart DEF Inv, HartWhere, Space
<1>3. /\ where'[p] = "leaving" /\ where'[q] = "leaving"
      /\ \A r \in Pid : r # p /\ r # q => where'[r] = where[r]
      /\ proc'[q] = "live" /\ \A r \in Pid : r # q => proc'[r] = proc[r]
  BY <1>1, <1>2 DEF Inv, TypeOK
<1>4. /\ table' \in [Space -> [Page -> Frame \cup {NoFrame}]]
      /\ table'[q] = UserSpace(tc, c)
      /\ table'[Kernel] = [table[Kernel] EXCEPT ![stack_page(q)] = s]
      /\ \A r \in Space : r # q /\ r # Kernel => table'[r] = table[r]
  <2> DEFINE user == UserSpace(tc, c)
             stack == stack_page(q)
  <2>1. user \in [Page -> Frame \cup {NoFrame}]
    BY UserSpaceMaps
  <2>2. table' = [table EXCEPT ![q] = user, ![Kernel][stack] = s]
    BY <1>1
  <2>3. stack \in Page /\ s \in Frame
    BY <1>2
  <2>4. table \in [Space -> [Page -> Frame \cup {NoFrame}]]
    BY DEF Inv, TablesOK
  <2> HIDE DEF user, stack
  <2>5. /\ table'[q] = user
        /\ table'[Kernel] = [table[Kernel] EXCEPT ![stack] = s]
        /\ \A r \in Space : r # q /\ r # Kernel => table'[r] = table[r]
        /\ DOMAIN table' = Space /\ table' = [r \in Space |-> table'[r]]
    BY <1>2, <2>2, <2>4
  <2>6. table'[Kernel] \in [Page -> Frame \cup {NoFrame}]
    BY <1>2, <2>3, <2>4, <2>5
  <2>7. table' \in [Space -> [Page -> Frame \cup {NoFrame}]]
    BY <2>1, <2>4, <2>5, <2>6
  <2> QED BY <2>5, <2>7 DEF user, stack
<1>5. /\ table'[Kernel][stack_page(q)] = s
      /\ \A n \in Page : n # stack_page(q) => table'[Kernel][n] = table[Kernel][n]
  BY <1>2, <1>4 DEF Inv, TablesOK
<1>6. TypeOK'
  BY <1>1, <1>2, <1>3 DEF Inv, TypeOK
<1>7. TablesOK'
  <2>1. table[p][Code] \in Frame
    BY <1>2, PagesApart DEF Inv, TablesOK, PagesMapped
  <2> QED BY <1>1, <1>4, <2>1 DEF Inv, TablesOK
<1>8. PagesMapped'
  <2> SUFFICES ASSUME NEW r \in Pid, proc'[r] # "none"
               PROVE  /\ table'[Kernel][stack_page(r)] # NoFrame
                      /\ table'[r][TRAP_CONTEXT] # NoFrame
                      /\ table'[r][Code] # NoFrame
    BY DEF PagesMapped
  <2>1. CASE r = q
    BY <2>1, <1>4, <1>5, UserSpaceMaps, CacheAssumption
  <2>2. CASE r # q
    BY <2>2, <1>3, <1>4, <1>5, PagesApart DEF Inv, PagesMapped, Space
  <2> QED BY <2>1, <2>2
<1>9. HartWhere'
  BY <1>1, <1>2, <1>3 DEF Inv, HartWhere
<1>10. CachesClean'
  <2>1. DOMAIN tlb \subseteq Page
    BY DEF Inv, TypeOK
  <2>2. current # Idle /\ where[current] = "trap" /\ flushed
    BY <1>1, <1>2
  <2>3. \A n \in DOMAIN tlb : tlb[n] = table[Kernel][n]
    BY <1>2, <2>2 DEF Inv, CachesClean
  <2>4. \A n \in DOMAIN tlb : n = stack_page(q) \/ tlb[n] = table'[Kernel][n]
    BY <1>5, <2>1, <2>3
  <2>5. \A n \in DOMAIN tlb : n # stack_page(p) \/ tlb[n] = table'[Kernel][n]
    BY <1>2, <2>4
  <2>6. current' = p /\ satp' = Kernel /\ tlb' = tlb /\ p # Idle
    BY <1>1, <1>2
  <2> QED BY <1>3, <2>5, <2>6 DEF CachesClean
<1> QED BY <1>6, <1>7, <1>8, <1>9, <1>10 DEF Inv

LEMMA sys_waitpidInv ==
  ASSUME Inv, sys_waitpid
  PROVE  Inv'
<1>1. PICK p \in Pid, q \in Pid :
        /\ current = p /\ flushed /\ where[p] = "trap" /\ proc[q] = "zombie"
        /\ table' = [table EXCEPT ![q] = Unmapped, ![Kernel][stack_page(q)] = NoFrame]
        /\ proc' = [proc EXCEPT ![q] = "none"]
        /\ where' = [where EXCEPT ![p] = "leaving"]
        /\ UNCHANGED <<code, current, satp, flushed, tlb, icache>>
  BY DEF sys_waitpid, In, caches
<1>2. /\ p # Kernel /\ p # Idle /\ q # Kernel /\ {p, q, Kernel} \subseteq Space
      /\ satp = Kernel /\ proc[p] = "live" /\ p # q
      /\ stack_page(q) \in Page /\ stack_page(p) # stack_page(q)
  BY <1>1, PagesApart DEF Inv, HartWhere, Space
<1>3. /\ where'[p] = "leaving" /\ \A r \in Pid : r # p => where'[r] = where[r]
      /\ proc'[q] = "none" /\ \A r \in Pid : r # q => proc'[r] = proc[r]
  BY <1>1, <1>2 DEF Inv, TypeOK
<1>4. /\ table' \in [Space -> [Page -> Frame \cup {NoFrame}]]
      /\ table'[Kernel] = [table[Kernel] EXCEPT ![stack_page(q)] = NoFrame]
      /\ \A r \in Space : r # q /\ r # Kernel => table'[r] = table[r]
  BY <1>1, <1>2 DEF Inv, TablesOK, Unmapped
<1>5. \A n \in Page : n # stack_page(q) => table'[Kernel][n] = table[Kernel][n]
  BY <1>2, <1>4 DEF Inv, TablesOK
<1>6. TypeOK'
  BY <1>1, <1>2, <1>3 DEF Inv, TypeOK
<1>7. TablesOK'
  BY <1>1, <1>4 DEF Inv, TablesOK
<1>8. PagesMapped'
  BY <1>3, <1>4, <1>5, PagesApart DEF Inv, PagesMapped, Space
<1>9. HartWhere'
  BY <1>1, <1>2, <1>3 DEF Inv, HartWhere
<1>10. CachesClean'
  <2>1. DOMAIN tlb \subseteq Page
    BY DEF Inv, TypeOK
  <2> QED BY <1>1, <1>2, <1>3, <1>5, <2>1, ZenonT(60) DEF Inv, CachesClean
<1> QED BY <1>6, <1>7, <1>8, <1>9, <1>10 DEF Inv

(* Every __switch happens with the kernel's translations clean.            *)
LEMMA switchInv ==
  ASSUME Inv, suspend \/ exit \/ run_tasks
  PROVE  Inv'
<1>1. CASE suspend
  <2>1. PICK p \in Pid :
          /\ current = p /\ flushed /\ where[p] \in {"trap", "waiting"}
          /\ where' = [where EXCEPT ![p] = "waiting"] /\ current' = Idle
          /\ UNCHANGED <<table, code, proc, satp, flushed, tlb, icache>>
    BY <1>1 DEF suspend, caches
  <2>2. where'[p] = "waiting" /\ (\A q \in Pid : q # p => where'[q] = where[q]) /\ p # Idle
    BY <2>1, PagesApart DEF Inv, TypeOK
  <2>3. TypeOK'
    BY <2>1, <2>2 DEF Inv, TypeOK
  <2>4. HartWhere' /\ CachesClean'
    BY <2>1, <2>2, PagesApart DEF Inv, HartWhere, CachesClean
  <2> QED BY <2>1, <2>3, <2>4 DEF Inv, TablesOK, PagesMapped
<1>2. CASE exit
  <2>1. PICK p \in Pid :
          /\ current = p /\ flushed /\ where[p] = "trap"
          /\ proc' = [proc EXCEPT ![p] = "zombie"] /\ current' = Idle
          /\ UNCHANGED <<table, code, where, satp, flushed, tlb, icache>>
    BY <1>2 DEF exit, In, caches
  <2>2. proc'[p] = "zombie" /\ (\A q \in Pid : q # p => proc'[q] = proc[q]) /\ p # Idle
    BY <2>1, PagesApart DEF Inv, TypeOK
  <2>3. TypeOK'
    BY <2>1, <2>2 DEF Inv, TypeOK
  <2>4. HartWhere' /\ CachesClean'
    BY <2>1, <2>2, PagesApart DEF Inv, HartWhere, CachesClean
  <2>5. PagesMapped'
    BY <2>1, <2>2 DEF Inv, HartWhere, PagesMapped
  <2> QED BY <2>1, <2>3, <2>4, <2>5 DEF Inv, TablesOK
<1>3. CASE run_tasks
  <2>1. PICK p \in Pid :
          /\ current = Idle /\ proc[p] = "live" /\ current' = p
          /\ UNCHANGED <<table, code, proc, where, satp, flushed, tlb, icache>>
    BY <1>3 DEF run_tasks, caches, processes
  <2>2. p # Idle /\ where[p] \in {"waiting", "leaving"}
    BY <2>1, PagesApart DEF Inv, HartWhere
  <2>3. TypeOK'
    BY <2>1, <2>2 DEF Inv, TypeOK
  <2>4. HartWhere' /\ CachesClean'
    BY <2>1, <2>2, PagesApart DEF Inv, HartWhere, CachesClean
  <2> QED BY <2>1, <2>3, <2>4 DEF Inv, TablesOK, PagesMapped
<1> QED BY <1>1, <1>2, <1>3

-------------------------------------------------------------------------------

LEMMA NextInv == Inv /\ [Next]_vars => Inv'
<1> SUFFICES ASSUME Inv, [Next]_vars PROVE Inv'
  OBVIOUS
<1>1. CASE kernel
  BY <1>1, alltrapsInv, fenceInv, trap_returnInv, sys_execInv, sys_forkInv,
     sys_waitpidInv, switchInv DEF kernel
<1>2. ASSUME NEW n \in Page, walk(n) PROVE Inv'
  BY <1>2, walkInv
<1>3. ASSUME NEW f \in Frame, fetch(f) PROVE Inv'
  BY <1>3, fetchInv
<1>4. CASE UNCHANGED vars
  BY <1>4 DEF vars, processes, caches, Inv, TypeOK, TablesOK, PagesMapped,
              HartWhere, CachesClean
<1> QED BY <1>1, <1>2, <1>3, <1>4 DEF Next

(* The invariant holds in every reachable state.                           *)
THEOREM CacheInvariant == Spec => []Inv
BY InitInv, NextInv, PTL DEF Spec

(* The kernel stack the hart is on, and the trap context and the code of   *)
(* the program it runs, are found where the active page table has them,    *)
(* although KernelStack::new and drop change that table without a fence    *)
(* (pid.rs 75 and 107).                                                    *)
THEOREM TranslationsCurrent == Spec => []UsedTranslationsAreCurrent
<1>1. Inv => UsedTranslationsAreCurrent
  <2> SUFFICES ASSUME Inv, NEW n \in Used
               PROVE  Translation(n) # NoFrame /\ Translation(n) = table[satp][n]
    BY DEF Inv, UsedTranslationsAreCurrent
  <2>1. current # Idle /\ flushed /\ current \in Pid /\ proc[current] = "live"
    BY DEF Used, Inv, TablesOK, HartWhere
  <2>2. CASE where[current] = "user"
    <3>1. n \in {TRAP_CONTEXT, Code} /\ satp = current
      BY <2>1, <2>2 DEF Used, Inv, HartWhere
    <3>2. table[satp][n] # NoFrame
      BY <2>1, <3>1 DEF Inv, PagesMapped
    <3> QED BY <2>1, <2>2, <3>2 DEF Inv, CachesClean, Translation
  <2>3. CASE where[current] # "user"
    <3>1. n = stack_page(current) /\ satp = Kernel
      BY <2>1, <2>3 DEF Used, Inv, HartWhere
    <3>2. table[satp][n] # NoFrame
      BY <2>1, <3>1 DEF Inv, PagesMapped
    <3> QED BY <2>1, <3>1, <3>2 DEF Inv, CachesClean, Translation
  <2> QED BY <2>2, <2>3
<1> QED BY <1>1, CacheInvariant, PTL

(* A program executes the instructions that are in its code page, although *)
(* the kernel wrote them there as data: fence.i in trap_return is enough.  *)
THEOREM InstructionsCurrent == Spec => []InstructionsAreCurrent
<1>1. Inv => InstructionsAreCurrent
  <2> SUFFICES ASSUME Inv, current # Idle, flushed, where[current] = "user"
               PROVE  Instructions(Translation(Code)) = code[table[current][Code]]
    BY DEF InstructionsAreCurrent
  <2>1. satp = current
    BY DEF Inv, HartWhere
  <2>2. Translation(Code) = table[current][Code]
    BY <2>1 DEF Inv, CachesClean, Translation
  <2> QED BY <2>2 DEF Inv, CachesClean, Instructions
<1> QED BY <1>1, CacheInvariant, PTL
===============================================================================
