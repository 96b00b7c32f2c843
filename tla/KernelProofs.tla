----------------------------- MODULE KernelProofs -----------------------------
(***************************************************************************)
(* Proofs about the process layer and the two modules that put something   *)
(* next to it: the programs that run on it (UserPrograms) and the memory   *)
(* that its calls work on (Kernel).                                        *)
(*                                                                         *)
(* The process layer, for any number of blocks, programs and exit codes:   *)
(* the scheduler, the process tree, the reference counts and the pids      *)
(* agree with each other in every reachable state.                         *)
(*                                                                         *)
(* The assertion of user_shell never fails: nobody but a process itself    *)
(* ends it, and nobody but its parent takes a child from it, so from the   *)
(* fork to the waitpid that collects it, the shell's child keeps its block,*)
(* its pid and its parent.                                                 *)
(*                                                                         *)
(* Blocks and memories agree: every call changes the state of life of both *)
(* at once, the pid that fork hands out has no memory yet, and the frames  *)
(* in use are the pages of the blocks, one for one.                        *)
(***************************************************************************)
EXTENDS UserPrograms, Kernel, SequenceTheorems, FunctionTheorems, FiniteSetTheorems, TLAPS

-------------------------------------------------------------------------------
(* The sequences the kernel keeps its resources in (VecDeque of tasks, Vec *)
(* of children, stack of recycled pids): how the set of elements and the   *)
(* absence of duplicates change when an element is pushed, popped or       *)
(* removed.                                                                *)

(* Pushing e: the elements are those of s and e; a new e keeps the         *)
(* sequence free of duplicates.                                            *)
LEMMA AppendLemma ==
  ASSUME NEW S, NEW s \in Seq(S), NEW e \in S
  PROVE  /\ Append(s, e) \in Seq(S)
         /\ Append(s, e) # <<>>
         /\ Range(Append(s, e)) = Range(s) \cup {e}
         /\ IsInjective(s) /\ e \notin Range(s) => IsInjective(Append(s, e))
<1>1. /\ Append(s, e) \in Seq(S)
      /\ Len(Append(s, e)) = Len(s) + 1
      /\ \A i \in 1 .. Len(s) : Append(s, e)[i] = s[i]
      /\ Append(s, e)[Len(s) + 1] = e
  OBVIOUS
<1>2. DOMAIN Append(s, e) = 1 .. Len(s) + 1 /\ DOMAIN s = 1 .. Len(s)
  BY <1>1
<1>3. Range(Append(s, e)) = Range(s) \cup {e}
  BY <1>1, <1>2 DEF Range
<1>4. ASSUME IsInjective(s), e \notin Range(s)
      PROVE  IsInjective(Append(s, e))
  BY <1>1, <1>2, <1>4 DEF Range, IsInjective
<1> QED BY <1>1, <1>3, <1>4

(* Popping the last element of a sequence without duplicates.              *)
LEMMA FrontLemma ==
  ASSUME NEW S, NEW s \in Seq(S), s # <<>>
  PROVE  /\ Front(s) \in Seq(S)
         /\ Last(s) \in S
         /\ Last(s) \in Range(s)
         /\ IsInjective(s) => /\ IsInjective(Front(s))
                              /\ Range(Front(s)) = Range(s) \ {Last(s)}
<1>1. Len(s) \in Nat \ {0} /\ DOMAIN s = 1 .. Len(s)
  BY EmptySeq, LenProperties
<1>2. \A i \in 1 .. Len(s) - 1 : s[i] \in S
  BY <1>1, ElementOfSeq
<1>3. /\ Front(s) \in Seq(S)
      /\ Len(Front(s)) = Len(s) - 1
      /\ \A i \in 1 .. Len(s) - 1 : Front(s)[i] = s[i]
  BY <1>1, <1>2, SubSeqProperties, Z3 DEF Front
<1>4. DOMAIN Front(s) = 1 .. Len(s) - 1
  BY <1>1, <1>3, LenProperties
<1>5. Last(s) \in S /\ Last(s) \in Range(s)
  BY <1>1, ElementOfSeq DEF Last, Range
<1>6. ASSUME IsInjective(s)
      PROVE  IsInjective(Front(s)) /\ Range(Front(s)) = Range(s) \ {Last(s)}
  BY <1>1, <1>3, <1>4, <1>6 DEF Range, IsInjective, Last
<1> QED BY <1>3, <1>5, <1>6

(* Taking the head of a queue without duplicates.                          *)
LEMMA TailLemma ==
  ASSUME NEW S, NEW s \in Seq(S), s # <<>>
  PROVE  /\ Tail(s) \in Seq(S)
         /\ Head(s) \in S
         /\ Head(s) \in Range(s)
         /\ IsInjective(s) => /\ IsInjective(Tail(s))
                              /\ Range(Tail(s)) = Range(s) \ {Head(s)}
<1>1. Len(s) \in Nat \ {0} /\ DOMAIN s = 1 .. Len(s)
  BY EmptySeq, LenProperties
<1>2. /\ Tail(s) \in Seq(S)
      /\ Len(Tail(s)) = Len(s) - 1
      /\ \A i \in 1 .. Len(s) - 1 : Tail(s)[i] = s[i + 1]
      /\ Head(s) \in S
  BY HeadTailProperties
<1>3. Head(s) = s[1]
  OBVIOUS
<1>4. DOMAIN Tail(s) = 1 .. Len(s) - 1
  BY <1>1, <1>2, LenProperties
<1>5. Head(s) \in Range(s)
  BY <1>1, <1>3 DEF Range
<1>6. ASSUME IsInjective(s)
      PROVE  IsInjective(Tail(s)) /\ Range(Tail(s)) = Range(s) \ {Head(s)}
  <2>1. \A i \in 2 .. Len(s) : i - 1 \in 1 .. Len(s) - 1 /\ s[i] = Tail(s)[i - 1]
    BY <1>1, <1>2
  <2>2. IsInjective(Tail(s))
    BY <1>1, <1>2, <1>4, <1>6 DEF IsInjective
  <2>3. ASSUME NEW x \in Range(Tail(s)) PROVE x \in Range(s) \ {Head(s)}
    <3>1. PICK j \in 1 .. Len(s) - 1 : x = s[j + 1]
      BY <1>2, <1>4, <2>3 DEF Range
    <3> QED BY <1>1, <1>3, <1>6, <3>1 DEF Range, IsInjective
  <2>4. ASSUME NEW x \in Range(s), x # Head(s) PROVE x \in Range(Tail(s))
    <3>1. PICK j \in 2 .. Len(s) : x = s[j]
      BY <1>1, <1>3, <2>4 DEF Range
    <3>2. j - 1 \in DOMAIN Tail(s) /\ x = Tail(s)[j - 1]
      BY <1>4, <2>1, <3>1
    <3> QED BY <3>2 DEF Range
  <2> QED BY <2>2, <2>3, <2>4
<1> QED BY <1>2, <1>5, <1>6

(* Appending one vector to another.                                        *)
LEMMA ConcatLemma ==
  ASSUME NEW S, NEW s \in Seq(S), NEW t \in Seq(S)
  PROVE  /\ s \o t \in Seq(S)
         /\ Range(s \o t) = Range(s) \cup Range(t)
         /\ IsInjective(s) /\ IsInjective(t) /\ Range(s) \cap Range(t) = {}
              => IsInjective(s \o t)
<1> DEFINE u == s \o t
<1>1. /\ u \in Seq(S)
      /\ Len(u) = Len(s) + Len(t)
      /\ \A i \in 1 .. Len(s) + Len(t) :
            u[i] = IF i <= Len(s) THEN s[i] ELSE t[i - Len(s)]
  BY ConcatProperties
<1>2. /\ Len(s) \in Nat /\ DOMAIN s = 1 .. Len(s)
      /\ Len(t) \in Nat /\ DOMAIN t = 1 .. Len(t)
      /\ DOMAIN u = 1 .. Len(s) + Len(t)
  BY <1>1, LenProperties
<1> HIDE DEF u
<1>3. ASSUME NEW x \in Range(u) PROVE x \in Range(s) \cup Range(t)
  <2>1. PICK i \in 1 .. Len(s) + Len(t) : x = u[i]
    BY <1>2, <1>3 DEF Range
  <2>2. CASE i <= Len(s)
    <3>1. i \in 1 .. Len(s) /\ x = s[i]
      BY <1>1, <1>2, <2>1, <2>2
    <3> QED BY <1>2, <3>1 DEF Range
  <2>3. CASE ~(i <= Len(s))
    <3>1. i - Len(s) \in 1 .. Len(t) /\ x = t[i - Len(s)]
      BY <1>1, <1>2, <2>1, <2>3
    <3> QED BY <1>2, <3>1 DEF Range
  <2> QED BY <2>2, <2>3
<1>4. ASSUME NEW x \in Range(s) PROVE x \in Range(u)
  BY <1>1, <1>2, <1>4 DEF Range
<1>5. ASSUME NEW x \in Range(t) PROVE x \in Range(u)
  <2>1. PICK i \in 1 .. Len(t) : x = t[i]
    BY <1>2, <1>5 DEF Range
  <2>2. /\ Len(s) + i \in 1 .. Len(s) + Len(t)
        /\ ~(Len(s) + i <= Len(s))
        /\ (Len(s) + i) - Len(s) = i
    BY <1>2
  <2>3. u[Len(s) + i] = x
    BY <1>1, <2>1, <2>2
  <2> QED BY <1>2, <2>2, <2>3 DEF Range
<1>6. ASSUME IsInjective(s), IsInjective(t), Range(s) \cap Range(t) = {}
      PROVE  IsInjective(u)
  <2> SUFFICES ASSUME NEW i \in 1 .. Len(s) + Len(t), NEW j \in 1 .. Len(s) + Len(t),
                      u[i] = u[j]
               PROVE  i = j
    BY <1>2 DEF IsInjective
  <2>1. \A k \in 1 .. Len(s) + Len(t) :
           IF k <= Len(s) THEN k \in DOMAIN s /\ u[k] = s[k] /\ u[k] \in Range(s)
           ELSE /\ k - Len(s) \in DOMAIN t /\ u[k] = t[k - Len(s)]
                /\ u[k] \in Range(t)
    <3> SUFFICES ASSUME NEW k \in 1 .. Len(s) + Len(t)
                 PROVE  IF k <= Len(s)
                        THEN k \in DOMAIN s /\ u[k] = s[k] /\ u[k] \in Range(s)
                        ELSE /\ k - Len(s) \in DOMAIN t /\ u[k] = t[k - Len(s)]
                             /\ u[k] \in Range(t)
      OBVIOUS
    <3>1. CASE k <= Len(s)
      <4>1. k \in DOMAIN s /\ u[k] = s[k]
        BY <1>1, <1>2, <3>1
      <4> QED BY <3>1, <4>1 DEF Range
    <3>2. CASE ~(k <= Len(s))
      <4>1. k - Len(s) \in DOMAIN t /\ u[k] = t[k - Len(s)]
        BY <1>1, <1>2, <3>2
      <4> QED BY <3>2, <4>1 DEF Range
    <3> QED BY <3>1, <3>2
  <2>2. CASE i <= Len(s)
    BY <1>6, <2>1, <2>2 DEF IsInjective
  <2>3. CASE ~(i <= Len(s))
    <3>1. ~(j <= Len(s))
      BY <1>6, <2>1, <2>3
    <3>2. i - Len(s) = j - Len(s)
      BY <1>6, <2>1, <2>3, <3>1 DEF IsInjective
    <3> QED BY <1>2, <3>2
  <2> QED BY <2>2, <2>3
<1> QED BY <1>1, <1>3, <1>4, <1>5, <1>6 DEF u

(* Taking element i out of a vector: the others keep their order.          *)
LEMMA RemoveAtLemma ==
  ASSUME NEW S, NEW s \in Seq(S), NEW i \in DOMAIN s
  PROVE  /\ RemoveAt(s, i) \in Seq(S)
         /\ DOMAIN RemoveAt(s, i) = 1 .. Len(s) - 1
         /\ \A j \in 1 .. Len(s) - 1 :
              RemoveAt(s, i)[j] = IF j < i THEN s[j] ELSE s[j + 1]
         /\ IsInjective(s) => /\ IsInjective(RemoveAt(s, i))
                              /\ Range(RemoveAt(s, i)) = Range(s) \ {s[i]}
<1>1. Len(s) \in Nat /\ DOMAIN s = 1 .. Len(s) /\ i \in 1 .. Len(s)
  BY LenProperties
<1>2. \A j \in 1 .. Len(s) : s[j] \in S
  BY ElementOfSeq
<1> DEFINE a == SubSeq(s, 1, i - 1)
           b == SubSeq(s, i + 1, Len(s))
<1>3. /\ a \in Seq(S) /\ Len(a) = i - 1
      /\ \A j \in 1 .. i - 1 : a[j] = s[j]
  <2>1. \A j \in 1 .. i - 1 : s[j] \in S
    BY <1>1, <1>2
  <2> QED BY <1>1, <2>1, SubSeqProperties, Z3
<1>4. /\ b \in Seq(S) /\ Len(b) = Len(s) - i
      /\ \A j \in 1 .. Len(s) - i : b[j] = s[i + j]
  <2>1. \A j \in i + 1 .. Len(s) : s[j] \in S
    BY <1>1, <1>2
  <2> QED BY <1>1, <2>1, SubSeqProperties, Z3
<1>5. RemoveAt(s, i) = a \o b
  BY DEF RemoveAt
<1> HIDE DEF a, b
<1>6. /\ RemoveAt(s, i) \in Seq(S)
      /\ Len(RemoveAt(s, i)) = Len(s) - 1
      /\ \A j \in 1 .. Len(s) - 1 :
            RemoveAt(s, i)[j] = IF j < i THEN s[j] ELSE s[j + 1]
  <2>1. /\ a \o b \in Seq(S)
        /\ Len(a \o b) = Len(a) + Len(b)
        /\ \A j \in 1 .. Len(a) + Len(b) :
              (a \o b)[j] = IF j <= Len(a) THEN a[j] ELSE b[j - Len(a)]
    BY <1>3, <1>4, ConcatProperties
  <2>2. Len(a) + Len(b) = Len(s) - 1
    BY <1>1, <1>3, <1>4
  <2>3. ASSUME NEW j \in 1 .. Len(s) - 1
        PROVE  (a \o b)[j] = IF j < i THEN s[j] ELSE s[j + 1]
    <3>1. CASE j < i
      <4>1. j \in 1 .. i - 1 /\ j <= Len(a)
        BY <1>1, <1>3, <3>1
      <4> QED BY <1>3, <2>1, <2>2, <3>1, <4>1
    <3>2. CASE ~(j < i)
      <4>1. /\ ~(j <= Len(a))
            /\ j - Len(a) = j - (i - 1)
            /\ j - (i - 1) \in 1 .. Len(s) - i
            /\ i + (j - (i - 1)) = j + 1
        BY <1>1, <1>3, <3>2
      <4>2. (a \o b)[j] = b[j - (i - 1)]
        BY <2>1, <2>2, <4>1
      <4> QED BY <1>4, <3>2, <4>1, <4>2
    <3> QED BY <3>1, <3>2
  <2> QED BY <1>5, <2>1, <2>2, <2>3
<1>7. DOMAIN RemoveAt(s, i) = 1 .. Len(s) - 1
  BY <1>6, LenProperties
<1>8. ASSUME IsInjective(s)
      PROVE  /\ IsInjective(RemoveAt(s, i))
             /\ Range(RemoveAt(s, i)) = Range(s) \ {s[i]}
  <2>1. IsInjective(RemoveAt(s, i))
    BY <1>1, <1>6, <1>7, <1>8, SMTT(30) DEF IsInjective
  <2>2. Range(RemoveAt(s, i)) \subseteq Range(s) \ {s[i]}
    <3> SUFFICES ASSUME NEW x \in Range(RemoveAt(s, i))
                 PROVE  x \in Range(s) \ {s[i]}
      OBVIOUS
    <3>1. PICK j \in 1 .. Len(s) - 1 : x = RemoveAt(s, i)[j]
      BY <1>7 DEF Range
    <3>2. PICK k \in 1 .. Len(s) : x = s[k] /\ k # i
      BY <1>1, <1>6, <3>1
    <3> QED BY <1>1, <1>8, <3>2 DEF Range, IsInjective
  <2>3. ASSUME NEW j \in 1 .. Len(s), j # i
        PROVE  s[j] \in Range(RemoveAt(s, i))
    <3>1. CASE j < i
      BY <1>1, <1>6, <1>7, <3>1 DEF Range
    <3>2. CASE j > i
      <4>1. j - 1 \in 1 .. Len(s) - 1 /\ RemoveAt(s, i)[j - 1] = s[j]
        BY <1>1, <1>6, <3>2
      <4> QED BY <1>7, <4>1 DEF Range
    <3> QED BY <1>1, <2>3, <3>1, <3>2
  <2> QED BY <1>1, <2>1, <2>2, <2>3 DEF Range
<1> QED BY <1>6, <1>7, <1>8

-------------------------------------------------------------------------------
(* The process layer.                                                      *)

(* The parts of the invariant that only depend on who is alive, who can    *)
(* run, and on the tree, the counts and the pids.                          *)
Structure ==
  /\ ParentsMatchChildren
  /\ TreeIsRooted
  /\ StrongCountExact
  /\ PidsExact
  /\ InitProcRunnable

(* A step that changes neither the tree nor the counts nor the pids, nor   *)
(* who is alive or can run, keeps the structure: every scheduling step.    *)
LEMMA QuietStep ==
  ASSUME Structure,
         UNCHANGED <<strong, pid, parent, children, pidVars>>,
         Live' = Live, Runnable' = Runnable
  PROVE  Structure'
BY DEF Structure, ParentsMatchChildren, OwnedOnce, OwnerIsParent, TreeIsRooted,
       StrongCountExact, PidsExact, InitProcRunnable, pidVars

(* Boot leaves the kernel in a state that satisfies the invariant.         *)
LEMMA InitInv == Init => Inv
<1> SUFFICES ASSUME Init PROVE Inv
  OBVIOUS
<1> USE TaskAssumption
<1>1. Live = {INITPROC} /\ Runnable = {INITPROC} /\ INITPROC # None
  BY DEF Init, Live, Runnable
<1>2. Range(<<INITPROC>>) = {INITPROC} /\ IsInjective(<<INITPROC>>)
  BY DEF Range, IsInjective
<1>3. Range(<<>>) = {} /\ IsInjective(<<>>)
  BY DEF Range, IsInjective
<1>4. TypeOK
  <2>1. \A S : <<>> \in Seq(S)
    BY EmptySeq
  <2>2. ready_queue \in Seq(Tcb) /\ pid_recycled \in Seq(Nat) /\ children \in [Tcb -> Seq(Tcb)]
    BY <2>1 DEF Init
  <2>3. /\ status \in [Tcb -> {"Free", "Ready", "Running", "Zombie"}]
        /\ strong \in [Tcb -> Nat]
        /\ pid \in [Tcb -> Nat \cup {NoPid}]
        /\ parent \in [Tcb -> Tcb \cup {None}]
        /\ exit_code \in [Tcb -> Int]
        /\ resume \in [Tcb -> Resumes]
    BY DEF Init, NoPid, Resumes
  <2>4. /\ image \in [Tcb -> AppNames \cup {None}]
        /\ base_size \in [Tcb -> Nat]
    BY DEF Init
  <2> QED BY <2>2, <2>3, <2>4 DEF Init, TypeOK, Panics
<1>5. ScheduledExactlyOnce
  BY <1>1, <1>2 DEF Init, ScheduledExactlyOnce
<1>6. ParentsMatchChildren /\ TreeIsRooted
  <2>1. \A p \in Tcb : children[p] = <<>>
    BY DEF Init
  <2>2. OwnedOnce /\ OwnerIsParent
    BY <1>1, <1>3, <2>1 DEF OwnedOnce, OwnerIsParent
  <2> QED BY <1>1, <2>2 DEF ParentsMatchChildren, TreeIsRooted
<1>7. StrongCountExact
  BY <1>1 DEF Init, StrongCountExact
<1>8. PidsExact
  <2>1. {pid[t] : t \in Live} = {0}
    BY <1>1 DEF Init
  <2>2. 0 .. pid_current - 1 = {0}
    BY DEF Init
  <2> QED BY <1>1, <1>3, <2>1, <2>2 DEF Init, PidsExact
<1> QED BY <1>1, <1>4, <1>5, <1>6, <1>7, <1>8
        DEF Init, Inv, NoInternalPanic, InitProcRunnable

-------------------------------------------------------------------------------
(* The scheduler.                                                          *)

LEMMA run_tasksInv ==
  ASSUME Inv, run_tasks
  PROVE  Inv'
<1> DEFINE h == Head(ready_queue)
<1>1. /\ current = None /\ ready_queue # <<>>
      /\ ready_queue' = Tail(ready_queue) /\ current' = h
      /\ status' = [status EXCEPT ![h] = "Running"]
      /\ UNCHANGED <<strong, pid, parent, children, exit_code, image, base_size,
                     resume, pidVars, ret, panic>>
  BY DEF run_tasks
<1>2. /\ ready_queue' \in Seq(Tcb) /\ IsInjective(ready_queue')
      /\ h \in Tcb /\ h \in Range(ready_queue)
      /\ Range(ready_queue') = Range(ready_queue) \ {h}
  BY <1>1, TailLemma DEF Inv, TypeOK, ScheduledExactlyOnce
<1>3. status[h] = "Ready" /\ status \in [Tcb -> {"Free", "Ready", "Running", "Zombie"}]
  BY <1>2 DEF Inv, TypeOK, ScheduledExactlyOnce
<1> HIDE DEF h
<1>4. Live' = Live /\ Runnable' = Runnable
  BY <1>1, <1>2, <1>3 DEF Live, Runnable
<1>5. Structure'
  BY <1>1, <1>4, QuietStep DEF Inv, Structure
<1>6. TypeOK'
  BY <1>1, <1>2, <1>3 DEF Inv, TypeOK, pidVars
<1>7. ScheduledExactlyOnce'
  <2>1. ASSUME NEW t \in Tcb PROVE status'[t] = "Ready" <=> t \in Range(ready_queue')
    BY <1>1, <1>2, <1>3 DEF Inv, ScheduledExactlyOnce
  <2>2. ASSUME NEW t \in Tcb PROVE status'[t] = "Running" <=> current' = t
    BY <1>1, <1>2, <1>3, TaskAssumption DEF Inv, ScheduledExactlyOnce
  <2> QED BY <1>2, <2>1, <2>2 DEF ScheduledExactlyOnce
<1> QED BY <1>1, <1>5, <1>6, <1>7 DEF Inv, Structure, NoInternalPanic

(* The running task is the one marked Running.                             *)
LEMMA CurrentIsRunning ==
  ASSUME Inv, NEW c \in Tcb, current = c
  PROVE  /\ status[c] = "Running" /\ c \in Live /\ c \in Runnable
         /\ c \notin Range(ready_queue) /\ strong[c] = 2
         /\ pid[c] \in Nat /\ pid[c] \in 0 .. pid_current - 1
<1>1. status[c] = "Running"
  BY DEF Inv, ScheduledExactlyOnce
<1>2. c \in Live /\ c \in Runnable /\ c \notin Range(ready_queue)
  BY <1>1 DEF Inv, Live, Runnable, ScheduledExactlyOnce
<1>3. pid[c] \in 0 .. pid_current - 1
  BY <1>2 DEF Inv, PidsExact
<1>4. pid[c] \in Nat
  BY <1>3 DEF Inv, TypeOK
<1> QED BY <1>1, <1>2, <1>3, <1>4 DEF Inv, StrongCountExact

LEMMA suspendInv ==
  ASSUME Inv, NEW c \in Tcb, current = c, NEW where \in Resumes,
         suspend_current_and_run_next(c, where)
  PROVE  Inv'
<1>1. /\ current' = None
      /\ status' = [status EXCEPT ![c] = "Ready"]
      /\ ready_queue' = Append(ready_queue, c)
      /\ resume' = [resume EXCEPT ![c] = where]
      /\ ret' = NoRet
      /\ UNCHANGED <<strong, pid, parent, children, exit_code, image, base_size,
                     pidVars, panic>>
  BY DEF suspend_current_and_run_next, add_task
<1>2. status[c] = "Running" /\ c \notin Range(ready_queue)
  BY CurrentIsRunning
<1>3. /\ ready_queue' \in Seq(Tcb) /\ IsInjective(ready_queue')
      /\ Range(ready_queue') = Range(ready_queue) \cup {c}
  BY <1>1, <1>2, AppendLemma DEF Inv, TypeOK, ScheduledExactlyOnce
<1>4. status \in [Tcb -> {"Free", "Ready", "Running", "Zombie"}]
  BY DEF Inv, TypeOK
<1>5. Live' = Live /\ Runnable' = Runnable
  BY <1>1, <1>2, <1>4 DEF Live, Runnable
<1>6. Structure'
  BY <1>1, <1>5, QuietStep DEF Inv, Structure
<1>7. TypeOK'
  BY <1>1, <1>3, <1>4 DEF Inv, TypeOK, pidVars
<1>8. ScheduledExactlyOnce'
  <2>1. ASSUME NEW t \in Tcb PROVE status'[t] = "Ready" <=> t \in Range(ready_queue')
    BY <1>1, <1>2, <1>3, <1>4 DEF Inv, ScheduledExactlyOnce
  <2>2. ASSUME NEW t \in Tcb PROVE status'[t] = "Running" <=> current' = t
    BY <1>1, <1>2, <1>4, TaskAssumption DEF Inv, ScheduledExactlyOnce
  <2> QED BY <1>3, <2>1, <2>2 DEF ScheduledExactlyOnce
<1> QED BY <1>1, <1>6, <1>7, <1>8 DEF Inv, Structure, NoInternalPanic

(* Steps that only move where a task continues, what it runs or what it is *)
(* told, or that stop the machine for a reason outside the process layer.  *)
LEMMA LocalStep ==
  ASSUME Inv, TypeOK', NoInternalPanic',
         UNCHANGED <<status, strong, pid, parent, children, schedVars, pidVars>>
  PROVE  Inv'
<1>1. Live' = Live /\ Runnable' = Runnable
  BY DEF Live, Runnable
<1>2. Structure'
  BY <1>1, QuietStep DEF Inv, Structure
<1> QED BY <1>2 DEF Inv, Structure, ScheduledExactlyOnce, schedVars

LEMMA PanicInv ==
  ASSUME Inv, NEW why \in UserPanics, Panic(why)
  PROVE  Inv'
<1>1. TypeOK'
  BY DEF Panic, Inv, TypeOK, tcbVars, schedVars, pidVars, Panics
<1>2. NoInternalPanic'
  BY DEF Panic, NoInternalPanic
<1> QED BY <1>1, <1>2, LocalStep DEF Panic, tcbVars

LEMMA trap_returnInv ==
  ASSUME Inv, NEW c \in Tcb, trap_return(c)
  PROVE  Inv'
<1>1. TypeOK' /\ NoInternalPanic'
  BY DEF trap_return, Inv, TypeOK, NoInternalPanic, schedVars, pidVars, Resumes
<1> QED BY <1>1, LocalStep DEF trap_return

LEMMA sys_readInv ==
  ASSUME Inv, NEW c \in Tcb, sys_read(c)
  PROVE  Inv'
<1>1. CASE suspend_current_and_run_next(c, "sys_read")
  BY <1>1, suspendInv DEF sys_read, sys_read_wait, sys_read_done, Resumes
<1>2. CASE ~suspend_current_and_run_next(c, "sys_read")
  <2>1. TypeOK' /\ NoInternalPanic'
    BY <1>2 DEF sys_read, sys_read_wait, sys_read_done, Inv, TypeOK, NoInternalPanic, schedVars, pidVars, Resumes
  <2> QED BY <1>2, <2>1, LocalStep DEF sys_read, sys_read_wait, sys_read_done
<1> QED BY <1>1, <1>2

LEMMA sys_execInv ==
  ASSUME Inv, NEW c \in Tcb, NEW path \in Path, sys_exec(c, path)
  PROVE  Inv'
<1>1. TypeOK' /\ NoInternalPanic'
  BY DEF sys_exec, Inv, TypeOK, NoInternalPanic, schedVars, pidVars
<1> QED BY <1>1, LocalStep DEF sys_exec

-------------------------------------------------------------------------------
(* fork.                                                                   *)

(* The pid that fork hands out belongs to no live block and has no kernel  *)
(* stack, so mapping the new stack cannot hit an old one.                  *)
LEMMA NextPidIsFree ==
  ASSUME Inv
  PROVE  /\ NextPid \in Nat
         /\ NextPid \notin {pid[t] : t \in Live}
         /\ NextPid \notin kstacks
<1> DEFINE P == {pid[t] : t \in Live}
<1>1. /\ pid_recycled \in Seq(Nat) /\ pid_current \in Nat
      /\ P \cap Range(pid_recycled) = {} /\ kstacks = P
      /\ P \cup Range(pid_recycled) = 0 .. pid_current - 1
  BY DEF Inv, TypeOK, PidsExact
<1> HIDE DEF P
<1>2. CASE pid_recycled # <<>>
  <2>1. Last(pid_recycled) \in Nat /\ Last(pid_recycled) \in Range(pid_recycled)
    BY <1>1, <1>2, FrontLemma
  <2> QED BY <1>1, <1>2, <2>1 DEF NextPid, P
<1>3. CASE pid_recycled = <<>>
  <2>1. pid_current \notin 0 .. pid_current - 1
    BY <1>1
  <2> QED BY <1>1, <1>3, <2>1 DEF NextPid, P
<1> QED BY <1>2, <1>3

(* PidAllocator::alloc takes its answer out of what is recycled or new.    *)
LEMMA pid_allocLemma ==
  ASSUME Inv, pid_alloc
  PROVE  /\ pid_recycled' \in Seq(Nat) /\ pid_current' \in Nat
         /\ IsInjective(pid_recycled')
         /\ Range(pid_recycled') = Range(pid_recycled) \ {NextPid}
         /\ 0 .. pid_current' - 1 = (0 .. pid_current - 1) \cup {NextPid}
<1>1. /\ pid_recycled \in Seq(Nat) /\ pid_current \in Nat
      /\ IsInjective(pid_recycled)
      /\ Range(pid_recycled) \subseteq 0 .. pid_current - 1
  BY DEF Inv, TypeOK, PidsExact
<1>2. CASE pid_recycled # <<>>
  <2>1. /\ pid_recycled' = Front(pid_recycled) /\ pid_current' = pid_current
        /\ NextPid = Last(pid_recycled)
    BY <1>2 DEF pid_alloc, NextPid
  <2>2. /\ pid_recycled' \in Seq(Nat) /\ IsInjective(pid_recycled')
        /\ Range(pid_recycled') = Range(pid_recycled) \ {NextPid}
        /\ NextPid \in Range(pid_recycled)
    BY <1>1, <1>2, <2>1, FrontLemma
  <2> QED BY <1>1, <2>1, <2>2
<1>3. CASE pid_recycled = <<>>
  <2>1. /\ pid_recycled' = pid_recycled /\ pid_current' = pid_current + 1
        /\ NextPid = pid_current
    BY <1>3 DEF pid_alloc, NextPid
  <2>2. Range(pid_recycled) = {}
    BY <1>3 DEF Range
  <2>3. 0 .. pid_current' - 1 = (0 .. pid_current - 1) \cup {pid_current}
    BY <1>1, <2>1
  <2> QED BY <1>1, <2>1, <2>2, <2>3
<1> QED BY <1>2, <1>3

LEMMA sys_forkInv ==
  ASSUME Inv, NEW c \in Tcb, NEW n \in Tcb, sys_fork(c, n)
  PROVE  Inv'
<1>1. /\ current = c /\ n \notin Live /\ pid_alloc
      /\ kstacks' = kstacks \cup {NextPid}
      /\ panic' = panic /\ current' = current
      /\ status' = [status EXCEPT ![n] = "Ready"]
      /\ strong' = [strong EXCEPT ![n] = 2]
      /\ pid' = [pid EXCEPT ![n] = NextPid]
      /\ parent' = [parent EXCEPT ![n] = c]
      /\ children' = [children EXCEPT ![c] = Append(@, n), ![n] = <<>>]
      /\ ready_queue' = Append(ready_queue, n)
  BY NextPidIsFree DEF sys_fork, InUser, add_task
<1>2. /\ exit_code' = [exit_code EXCEPT ![n] = 0]
      /\ image' = [image EXCEPT ![n] = image[c]]
      /\ base_size' = [base_size EXCEPT ![n] = base_size[c]]
      /\ resume' = [resume EXCEPT ![n] = "trap_return"]
      /\ ret' = [by |-> pid[c], call |-> "fork", arg |-> 0,
                 val |-> NextPid, code |-> 0]
  BY DEF sys_fork
<1>3. /\ status[c] = "Running" /\ c \in Live /\ c \in Runnable /\ pid[c] \in Nat
      /\ n # c /\ n # INITPROC /\ status[n] = "Free" /\ n \notin Runnable
  BY <1>1, CurrentIsRunning DEF Inv, Live, Runnable, InitProcRunnable
<1>4. n \notin Range(ready_queue)
  BY <1>3 DEF Inv, ScheduledExactlyOnce
<1>5. /\ ready_queue' \in Seq(Tcb) /\ IsInjective(ready_queue')
      /\ Range(ready_queue') = Range(ready_queue) \cup {n}
  BY <1>1, <1>4, AppendLemma DEF Inv, TypeOK, ScheduledExactlyOnce
<1>6. Live' = Live \cup {n} /\ Runnable' = Runnable \cup {n}
  BY <1>1, <1>3, SMTT(30) DEF Inv, TypeOK, Live, Runnable
<1>7. n \notin Range(children[c]) /\ children[c] \in Seq(Tcb)
  BY <1>1 DEF Inv, TypeOK, ParentsMatchChildren, OwnerIsParent
<1>8. /\ Append(children[c], n) \in Seq(Tcb)
      /\ IsInjective(Append(children[c], n))
      /\ Range(Append(children[c], n)) = Range(children[c]) \cup {n}
  BY <1>7, AppendLemma DEF Inv, ParentsMatchChildren, OwnedOnce
<1>9. /\ <<>> \in Seq(Tcb) /\ Range(<<>>) = {} /\ IsInjective(<<>>)
      /\ Range(children[n]) = {}
  <2>1. Range(<<>>) = {} /\ IsInjective(<<>>)
    BY DEF Range, IsInjective
  <2>2. \A t \in Tcb : t \notin Range(children[n])
    BY <1>3 DEF Inv, ParentsMatchChildren, OwnerIsParent
  <2>3. Range(children[n]) \subseteq Tcb
    BY DEF Inv, TypeOK, Range
  <2> QED BY <2>1, <2>2, <2>3, EmptySeq
<1>10. /\ children \in [Tcb -> Seq(Tcb)]
       /\ children'[c] = Append(children[c], n) /\ children'[n] = <<>>
       /\ \A p \in Tcb \ {c, n} : children'[p] = children[p]
  BY <1>1, <1>3 DEF Inv, TypeOK
<1>11. TypeOK'
  <2>1. children' \in [Tcb -> Seq(Tcb)]
    BY <1>1, <1>8, <1>9, <1>10
  <2>2. pid_recycled' \in Seq(Nat) /\ pid_current' \in Nat /\ NextPid \in Nat
    BY <1>1, pid_allocLemma, NextPidIsFree
  <2>3. /\ status' \in [Tcb -> {"Free", "Ready", "Running", "Zombie"}]
        /\ strong' \in [Tcb -> Nat]
        /\ pid' \in [Tcb -> Nat \cup {NoPid}]
        /\ parent' \in [Tcb -> Tcb \cup {None}]
        /\ kstacks' \subseteq Nat
    BY <1>1, <2>2 DEF Inv, TypeOK
  <2>4. /\ exit_code' \in [Tcb -> Int]
        /\ image' \in [Tcb -> AppNames \cup {None}]
        /\ base_size' \in [Tcb -> Nat]
        /\ resume' \in [Tcb -> Resumes]
    BY <1>2 DEF Inv, TypeOK, Resumes
  <2>5. ret' \in [by : Nat, call : {"fork", "waitpid"}, arg : Int, val : Int, code : Int]
    BY <1>2, <1>3, <2>2
  <2> QED BY <1>1, <1>5, <2>1, <2>2, <2>3, <2>4, <2>5 DEF Inv, TypeOK
<1>12. ScheduledExactlyOnce'
  BY <1>1, <1>3, <1>5 DEF Inv, TypeOK, ScheduledExactlyOnce
<1>13. ParentsMatchChildren'
  <2>1. OwnedOnce'
    BY <1>8, <1>9, <1>10 DEF Inv, ParentsMatchChildren, OwnedOnce
  <2>2. \A t \in Tcb : parent'[t] = IF t = n THEN c ELSE parent[t]
    BY <1>1 DEF Inv, TypeOK
  <2>3. ASSUME NEW t \in Live' \ {INITPROC} PROVE parent'[t] \in Runnable'
    BY <1>3, <1>6, <2>2 DEF Inv, ParentsMatchChildren, OwnerIsParent, Live
  <2>4. ASSUME NEW p \in Tcb, NEW t \in Tcb
        PROVE  t \in Range(children'[p]) <=> t \in Live' \ {INITPROC} /\ parent'[t] = p
    <3>1. t \in Range(children[p]) <=> t \in Live \ {INITPROC} /\ parent[t] = p
      BY DEF Inv, ParentsMatchChildren, OwnerIsParent
    <3>2. CASE p = c
      <4>1. t \in Range(children'[p]) <=> t \in Range(children[p]) \/ t = n
        BY <1>8, <1>10, <3>2
      <4> QED BY <1>1, <1>3, <1>6, <2>2, <3>1, <3>2, <4>1
    <3>3. CASE p = n
      <4>1. t \in Live \ {INITPROC} => parent[t] # n
        BY <1>3 DEF Inv, ParentsMatchChildren, OwnerIsParent
      <4> QED BY <1>3, <1>6, <1>9, <1>10, <2>2, <3>3, <4>1
    <3>4. CASE p \notin {c, n}
      BY <1>1, <1>6, <1>10, <2>2, <3>1, <3>4
    <3> QED BY <3>2, <3>3, <3>4
  <2> QED BY <2>1, <2>3, <2>4 DEF ParentsMatchChildren, OwnerIsParent
<1>14. TreeIsRooted'
  <2> SUFFICES ASSUME NEW S \in SUBSET (Live' \ {INITPROC}), S # {}
               PROVE  \E t \in S : parent'[t] \notin S
    BY DEF TreeIsRooted
  <2>1. \A t \in Tcb : parent'[t] = IF t = n THEN c ELSE parent[t]
    BY <1>1 DEF Inv, TypeOK
  <2>2. CASE S = {n}
    BY <1>3, <2>1, <2>2
  <2>3. CASE S # {n}
    <3>1. S \ {n} \in SUBSET (Live \ {INITPROC}) /\ S \ {n} # {}
      BY <1>6, <2>3
    <3>2. PICK t \in S \ {n} : parent[t] \notin S \ {n}
      BY <3>1 DEF Inv, TreeIsRooted
    <3>3. t \in Tcb /\ parent[t] \in Runnable
      BY <3>1, <3>2 DEF Inv, ParentsMatchChildren, OwnerIsParent, Live
    <3> QED BY <1>3, <2>1, <3>2, <3>3
  <2> QED BY <2>2, <2>3
<1>15. StrongCountExact'
  BY <1>1, <1>3, <1>6 DEF Inv, TypeOK, StrongCountExact
<1>16. PidsExact'
  <2> DEFINE P == {pid[t] : t \in Live}
  <2>1. NextPid \notin P
    BY NextPidIsFree
  <2>2. /\ Range(pid_recycled') = Range(pid_recycled) \ {NextPid}
        /\ 0 .. pid_current' - 1 = (0 .. pid_current - 1) \cup {NextPid}
        /\ IsInjective(pid_recycled')
    BY <1>1, pid_allocLemma
  <2>3. \A t \in Tcb : pid'[t] = IF t = n THEN NextPid ELSE pid[t]
    BY <1>1 DEF Inv, TypeOK
  <2>4. {pid'[t] : t \in Live'} = P \cup {NextPid}
    BY <1>1, <1>6, <2>3 DEF Live
  <2>5. \A t, u \in Live' : pid'[t] = pid'[u] => t = u
    BY <1>1, <1>6, <2>1, <2>3 DEF Inv, PidsExact, Live
  <2>6. /\ P \cap Range(pid_recycled) = {} /\ kstacks = P
        /\ P \cup Range(pid_recycled) = 0 .. pid_current - 1
    BY DEF Inv, PidsExact
  <2> HIDE DEF P
  <2> QED BY <1>1, <2>1, <2>2, <2>4, <2>5, <2>6 DEF PidsExact
<1> QED BY <1>1, <1>6, <1>11, <1>12, <1>13, <1>14, <1>15, <1>16
        DEF Inv, NoInternalPanic, InitProcRunnable

-------------------------------------------------------------------------------
(* UPSafeCells.                                                            *)

(* The inner cells of different blocks, and the global cells, are          *)
(* different cells.                                                        *)
LEMMA CellsApart ==
  /\ \A t, u : Inner(t) = Inner(u) => t = u
  /\ \A t : Inner(t) \notin {PROCESSOR, TASK_MANAGER, PID_ALLOCATOR, KERNEL_SPACE,
                             FRAME_ALLOCATOR, AnyCell}
  /\ PROCESSOR \notin {TASK_MANAGER, KERNEL_SPACE, FRAME_ALLOCATOR, AnyCell}
  /\ KERNEL_SPACE \notin {FRAME_ALLOCATOR, AnyCell}
  /\ AnyCell \notin {TASK_MANAGER, PID_ALLOCATOR, FRAME_ALLOCATOR}
BY DEF Inner, PROCESSOR, TASK_MANAGER, PID_ALLOCATOR, KERNEL_SPACE, FRAME_ALLOCATOR, AnyCell

LEMMA AccessSucceeds ==
  ASSUME NEW cells, NEW alive, AnyCell \notin cells, cells \cap alive = {},
         NEW b \in exclusive_access(cells, alive)
  PROVE  ~AlreadyBorrowed(b)
<1>1. PICK x \in cells : b = [cell |-> x, alive |-> alive]
  BY DEF exclusive_access
<1> QED BY <1>1 DEF AlreadyBorrowed

LEMMA SwitchSucceeds ==
  ASSUME NEW b \in switch_away({})
  PROVE  ~AlreadyBorrowed(b)
<1>1. b = [cell |-> AnyCell, alive |-> {}]
  BY DEF switch_away, exclusive_access
<1> QED BY <1>1 DEF AlreadyBorrowed

LEMMA ScheduleSucceeds ==
  ASSUME NEW b \in schedule_borrows
  PROVE  ~AlreadyBorrowed(b)
<1>1. CASE b \in exclusive_access({PROCESSOR}, {})
  BY <1>1, AccessSucceeds, CellsApart
<1> QED BY <1>1, SwitchSucceeds DEF schedule_borrows

(* A child is neither its parent nor INITPROC.                             *)
LEMMA ChildrenAreOthers ==
  ASSUME Inv, NEW c \in Tcb, NEW t \in Range(children[c])
  PROVE  t # c /\ t # INITPROC
<1>1. t \in Tcb
  <2>1. children[c] \in Seq(Tcb)
    BY DEF Inv, TypeOK
  <2> QED BY <2>1 DEF Range
<1>2. t \in Live \ {INITPROC} /\ parent[t] = c
  BY <1>1 DEF Inv, ParentsMatchChildren, OwnerIsParent
<1>3. {t} \in SUBSET (Live \ {INITPROC}) /\ {t} # {}
  BY <1>2
<1>4. \E u \in {t} : parent[u] \notin {t}
  BY <1>3 DEF Inv, TreeIsRooted
<1> QED BY <1>2, <1>4

(* exit fails to borrow a cell exactly when INITPROC exits.                *)
LEMMA ExitBorrows ==
  ASSUME Inv, NEW c \in Tcb
  PROVE  (\E b \in exit_borrows(c) : AlreadyBorrowed(b)) <=> c = INITPROC
<1>1. ASSUME c = INITPROC PROVE \E b \in exit_borrows(c) : AlreadyBorrowed(b)
  <2> DEFINE b == [cell |-> Inner(INITPROC), alive |-> {Inner(c)}]
  <2>1. b \in exit_borrows(c)
    BY DEF exit_borrows, exclusive_access
  <2>2. AlreadyBorrowed(b)
    BY <1>1, CellsApart DEF AlreadyBorrowed
  <2> QED BY <2>1, <2>2
<1>2. ASSUME c # INITPROC, NEW b \in exit_borrows(c) PROVE ~AlreadyBorrowed(b)
  <2> DEFINE K == {Inner(t) : t \in Range(children[c])}
  <2>1. K \cap {Inner(c), Inner(INITPROC)} = {} /\ AnyCell \notin K
    BY CellsApart, ChildrenAreOthers
  <2> HIDE DEF K
  <2>2. CASE b \in exclusive_access({PROCESSOR, Inner(c)}, {})
    BY <2>2, AccessSucceeds, CellsApart
  <2>3. CASE b \in exclusive_access({Inner(INITPROC), FRAME_ALLOCATOR}, {Inner(c)})
    <3>1. {Inner(INITPROC), FRAME_ALLOCATOR} \cap {Inner(c)} = {}
      BY <1>2, CellsApart
    <3> QED BY <2>3, <3>1, AccessSucceeds, CellsApart
  <2>4. CASE b \in exclusive_access(K, {Inner(c), Inner(INITPROC)})
    BY <2>1, <2>4, AccessSucceeds
  <2>5. \/ b \in exclusive_access({PROCESSOR, Inner(c)}, {})
        \/ b \in exclusive_access({Inner(INITPROC), FRAME_ALLOCATOR}, {Inner(c)})
        \/ b \in exclusive_access(K, {Inner(c), Inner(INITPROC)})
        \/ b \in schedule_borrows
    BY <1>2 DEF exit_borrows, K
  <2> QED BY <2>2, <2>3, <2>4, <2>5, ScheduleSucceeds
<1> QED BY <1>1, <1>2

-------------------------------------------------------------------------------
(* exit.                                                                   *)

LEMMA exitInv ==
  ASSUME Inv, NEW c \in Tcb, current = c, NEW code \in Int,
         exit_current_and_run_next(c, code)
  PROVE  Inv'
<1>1. CASE c = INITPROC
  BY <1>1, ExitBorrows, PanicInv DEF exit_current_and_run_next, UserPanics
<1>2. CASE c # INITPROC
  <2>1. /\ status[c] = "Running" /\ c \in Live /\ c \in Runnable
        /\ c \notin Range(ready_queue) /\ strong[c] = 2
    BY CurrentIsRunning
  <2>2. /\ current' = None
        /\ status' = [status EXCEPT ![c] = "Zombie"]
        /\ exit_code' = [exit_code EXCEPT ![c] = code]
        /\ parent' = [t \in Tcb |-> IF t \in Range(children[c]) THEN INITPROC
                                                                ELSE parent[t]]
        /\ children' = [children EXCEPT ![INITPROC] = @ \o children[c], ![c] = <<>>]
        /\ image' = [image EXCEPT ![c] = None]
        /\ strong' = [strong EXCEPT ![c] = 1]
        /\ panic' = panic
        /\ resume' = [resume EXCEPT ![c] = "none"]
        /\ ret' = NoRet
        /\ UNCHANGED <<pid, base_size, ready_queue, pidVars>>
    <3>1. /\ strong' = [strong EXCEPT ![c] = @ - 1]
          /\ panic' = IF strong[c] = 1 THEN "kernel stack freed in use" ELSE panic
      BY <1>2, ExitBorrows DEF exit_current_and_run_next, drop_task
    <3>2. strong' = [strong EXCEPT ![c] = 1] /\ panic' = panic
      BY <2>1, <3>1 DEF Inv, TypeOK
    <3> QED BY <1>2, <3>2, ExitBorrows DEF exit_current_and_run_next, initproc_adopts
  <2>3. Live' = Live /\ Runnable' = Runnable \ {c}
    BY <2>1, <2>2 DEF Inv, TypeOK, Live, Runnable
  <2>4. INITPROC \in Tcb /\ INITPROC # None
    BY TaskAssumption
  <2> DEFINE ci == children[INITPROC]
             cc == children[c]
  <2>5. /\ children \in [Tcb -> Seq(Tcb)] /\ ci \in Seq(Tcb) /\ cc \in Seq(Tcb)
        /\ IsInjective(ci) /\ IsInjective(cc)
    BY <2>4 DEF Inv, TypeOK, ParentsMatchChildren, OwnedOnce
  <2>6. Range(ci) \cap Range(cc) = {} /\ Range(cc) \subseteq Tcb
    <3>1. Range(cc) \subseteq Tcb
      BY <2>5 DEF Range
    <3> QED BY <1>2, <2>4, <3>1 DEF Inv, ParentsMatchChildren, OwnerIsParent
  <2>7. /\ ci \o cc \in Seq(Tcb) /\ Range(ci \o cc) = Range(ci) \cup Range(cc)
        /\ IsInjective(ci \o cc)
    BY <2>5, <2>6, ConcatLemma
  <2>8. /\ children'[INITPROC] = ci \o cc /\ children'[c] = <<>>
        /\ \A p \in Tcb \ {INITPROC, c} : children'[p] = children[p]
    BY <1>2, <2>2, <2>4, <2>5
  <2>9. <<>> \in Seq(Tcb) /\ Range(<<>>) = {} /\ IsInjective(<<>>)
    <3>1. Range(<<>>) = {} /\ IsInjective(<<>>)
      BY DEF Range, IsInjective
    <3> QED BY <3>1, EmptySeq
  <2>10. \A t \in Tcb : parent'[t] = IF t \in Range(cc) THEN INITPROC ELSE parent[t]
    BY <2>2
  <2>11. \A t \in Tcb : t \in Range(cc) <=> t \in Live \ {INITPROC} /\ parent[t] = c
    BY DEF Inv, ParentsMatchChildren, OwnerIsParent
  <2>12. \A t \in Tcb : t \in Range(ci) <=>
                         t \in Live \ {INITPROC} /\ parent[t] = INITPROC
    BY <2>4 DEF Inv, ParentsMatchChildren, OwnerIsParent
  <2>13. TypeOK'
    <3>1. children' \in [Tcb -> Seq(Tcb)]
      BY <2>2, <2>5, <2>7, <2>9
    <3>2. /\ status' \in [Tcb -> {"Free", "Ready", "Running", "Zombie"}]
          /\ strong' \in [Tcb -> Nat]
          /\ parent' \in [Tcb -> Tcb \cup {None}]
          /\ exit_code' \in [Tcb -> Int]
          /\ image' \in [Tcb -> AppNames \cup {None}]
          /\ resume' \in [Tcb -> Resumes]
      BY <2>2, <2>4 DEF Inv, TypeOK, Resumes
    <3> QED BY <2>2, <3>1, <3>2 DEF Inv, TypeOK, pidVars
  <2> HIDE DEF ci, cc
  <2>14. ScheduledExactlyOnce'
    <3>1. \A t \in Tcb : status'[t] = IF t = c THEN "Zombie" ELSE status[t]
      BY <2>2 DEF Inv, TypeOK
    <3>2. None \notin Tcb
      BY TaskAssumption
    <3> QED BY <2>1, <2>2, <3>1, <3>2 DEF Inv, ScheduledExactlyOnce
  <2>15. ParentsMatchChildren'
    <3>1. OwnedOnce'
      BY <2>7, <2>8, <2>9 DEF Inv, ParentsMatchChildren, OwnedOnce
    <3>2. ASSUME NEW t \in Live' \ {INITPROC} PROVE parent'[t] \in Runnable'
      <4>1. t \in Tcb /\ t \in Live /\ parent[t] \in Runnable
        BY <2>3 DEF Inv, ParentsMatchChildren, OwnerIsParent, Live
      <4>2. INITPROC \in Runnable
        BY DEF Inv, InitProcRunnable
      <4> QED BY <1>2, <2>3, <2>10, <2>11, <4>1, <4>2
    <3>3. ASSUME NEW p \in Tcb, NEW t \in Tcb
          PROVE  t \in Range(children'[p]) <=>
                 t \in Live' \ {INITPROC} /\ parent'[t] = p
      <4>1. t \in Range(children[p]) <=> t \in Live \ {INITPROC} /\ parent[t] = p
        BY DEF Inv, ParentsMatchChildren, OwnerIsParent
      <4>2. CASE p = INITPROC
        <5>1. t \in Range(children'[p]) <=> t \in Range(ci) \/ t \in Range(cc)
          BY <2>7, <2>8, <4>2
        <5> QED BY <2>3, <2>10, <2>11, <2>12, <4>2, <5>1
      <4>3. CASE p = c
        BY <1>2, <2>3, <2>8, <2>9, <2>10, <2>11, <4>3
      <4>4. CASE p \notin {INITPROC, c}
        BY <2>3, <2>8, <2>10, <2>11, <4>1, <4>4
      <4> QED BY <4>2, <4>3, <4>4
    <3> QED BY <3>1, <3>2, <3>3 DEF ParentsMatchChildren, OwnerIsParent
  <2>16. TreeIsRooted'
    <3> SUFFICES ASSUME NEW S \in SUBSET (Live \ {INITPROC}), S # {}
                 PROVE  \E t \in S : parent'[t] \notin S
      BY <2>3 DEF TreeIsRooted
    <3>1. PICK t \in S : parent[t] \notin S
      BY DEF Inv, TreeIsRooted
    <3>2. t \in Tcb
      BY <3>1 DEF Live
    <3> QED BY <2>10, <3>1, <3>2
  <2>17. StrongCountExact'
    BY <2>1, <2>2, <2>3 DEF Inv, TypeOK, StrongCountExact
  <2>18. PidsExact'
    BY <2>2, <2>3 DEF Inv, PidsExact, pidVars
  <2>19. InitProcRunnable'
    BY <1>2, <2>3 DEF Inv, InitProcRunnable
  <2> QED BY <2>2, <2>13, <2>14, <2>15, <2>16, <2>17, <2>18, <2>19
          DEF Inv, NoInternalPanic
<1> QED BY <1>1, <1>2

-------------------------------------------------------------------------------
(* waitpid.                                                                *)

LEMMA waitpid_noneInv ==
  ASSUME Inv, NEW c \in Tcb, current = c, NEW arg \in Int, waitpid_none(c, arg)
  PROVE  Inv'
<1>1. pid[c] \in Nat
  BY CurrentIsRunning
<1>2. ret' \in [by : Nat, call : {"fork", "waitpid"}, arg : Int, val : Int, code : Int]
  BY <1>1 DEF waitpid_none, WaitAnswer
<1>3. UNCHANGED <<tcbVars, schedVars, pidVars, panic>>
  BY DEF waitpid_none
<1>4. TypeOK' /\ NoInternalPanic'
  BY <1>2, <1>3 DEF Inv, TypeOK, NoInternalPanic, tcbVars, schedVars, pidVars
<1> QED BY <1>3, <1>4, LocalStep DEF tcbVars

(* The child that waitpid collects: a zombie that only the vector holds,   *)
(* whose pid is out, so that neither assertion on the way fails.           *)
LEMMA ReapedZombie ==
  ASSUME Inv, NEW c \in Tcb, current = c, NEW arg \in Int, NEW i \in Reapable(c, arg)
  PROVE  LET z == children[c][i] IN
         /\ i \in DOMAIN children[c]
         /\ z \in Live \ {INITPROC} /\ parent[z] = c /\ z # c /\ z \in Tcb
         /\ status[z] = "Zombie" /\ z \notin Runnable /\ strong[z] = 1
         /\ z \notin Range(ready_queue)
         /\ pid[z] \in Nat /\ ~PidNotAllocated(pid[z])
<1> DEFINE z == children[c][i]
<1>1. i \in DOMAIN children[c] /\ status[z] = "Zombie"
  BY DEF Reapable, Matching
<1>2. z \in Tcb /\ z \in Range(children[c])
  BY <1>1 DEF Inv, TypeOK, Range
<1> HIDE DEF z
<1>3. z \in Live \ {INITPROC} /\ parent[z] = c
  BY <1>2 DEF Inv, ParentsMatchChildren, OwnerIsParent
<1>4. z # c /\ z \notin Runnable /\ strong[z] = 1 /\ z \notin Range(ready_queue)
  BY <1>1, <1>2, <1>3, CurrentIsRunning
     DEF Inv, Runnable, StrongCountExact, ScheduledExactlyOnce
<1>5. pid[z] \in 0 .. pid_current - 1 /\ pid[z] \notin Range(pid_recycled)
  BY <1>3 DEF Inv, PidsExact
<1>6. pid_current \in Nat
  BY DEF Inv, TypeOK
<1>7. pid[z] \in Nat /\ ~PidNotAllocated(pid[z])
  BY <1>5, <1>6 DEF PidNotAllocated
<1> QED BY <1>1, <1>2, <1>3, <1>4, <1>7 DEF z

LEMMA waitpid_reapInv ==
  ASSUME Inv, NEW c \in Tcb, current = c, NEW arg \in Int, NEW i \in Reapable(c, arg),
         waitpid_reap(c, arg, i)
  PROVE  Inv'
<1> DEFINE z == children[c][i]
<1>1. /\ i \in DOMAIN children[c]
      /\ z \in Live \ {INITPROC} /\ parent[z] = c /\ z # c /\ z \in Tcb
      /\ status[z] = "Zombie" /\ z \notin Runnable /\ strong[z] = 1
      /\ z \notin Range(ready_queue)
      /\ pid[z] \in Nat /\ ~PidNotAllocated(pid[z])
  BY ReapedZombie
<1>2. /\ panic' = panic
      /\ ret' = WaitAnswer(c, arg, pid[z], exit_code[z])
      /\ pid_recycled' = Append(pid_recycled, pid[z])
      /\ kstacks' = kstacks \ {pid[z]}
      /\ children' = [children EXCEPT ![c] = RemoveAt(@, i)]
      /\ status' = [status EXCEPT ![z] = "Free"]
      /\ strong' = [strong EXCEPT ![z] = 0]
      /\ pid' = [pid EXCEPT ![z] = NoPid]
      /\ parent' = [parent EXCEPT ![z] = None]
      /\ exit_code' = [exit_code EXCEPT ![z] = 0]
      /\ base_size' = [base_size EXCEPT ![z] = 0]
      /\ UNCHANGED <<image, resume, schedVars, pid_current>>
  BY <1>1 DEF waitpid_reap
<1>3. /\ children[c] \in Seq(Tcb) /\ IsInjective(children[c])
      /\ children \in [Tcb -> Seq(Tcb)]
  BY DEF Inv, TypeOK, ParentsMatchChildren, OwnedOnce
<1>4. /\ RemoveAt(children[c], i) \in Seq(Tcb)
      /\ IsInjective(RemoveAt(children[c], i))
      /\ Range(RemoveAt(children[c], i)) = Range(children[c]) \ {z}
  BY <1>1, <1>3, RemoveAtLemma
<1>5. pid[z] \notin Range(pid_recycled)
  BY <1>1 DEF PidNotAllocated
<1>6. /\ pid_recycled' \in Seq(Nat) /\ IsInjective(pid_recycled')
      /\ Range(pid_recycled') = Range(pid_recycled) \cup {pid[z]}
  <2>1. pid_recycled \in Seq(Nat) /\ IsInjective(pid_recycled)
    BY DEF Inv, TypeOK, PidsExact
  <2> HIDE DEF z
  <2> QED BY <1>1, <1>2, <1>5, <2>1, AppendLemma
<1>7. pid[c] \in Nat /\ exit_code[z] \in Int
  BY <1>1, CurrentIsRunning DEF Inv, TypeOK
<1> HIDE DEF z
<1>8. Live' = Live \ {z} /\ Runnable' = Runnable
  BY <1>1, <1>2 DEF Inv, TypeOK, Live, Runnable
<1>9. /\ children'[c] = RemoveAt(children[c], i)
      /\ \A p \in Tcb \ {c} : children'[p] = children[p]
  BY <1>2, <1>3
<1>10. \A t \in Tcb : parent'[t] = IF t = z THEN None ELSE parent[t]
  BY <1>2 DEF Inv, TypeOK
<1>11. TypeOK'
  <2>1. children' \in [Tcb -> Seq(Tcb)]
    BY <1>2, <1>3, <1>4
  <2>2. ret' \in [by : Nat, call : {"fork", "waitpid"}, arg : Int, val : Int, code : Int]
    BY <1>1, <1>2, <1>7 DEF WaitAnswer
  <2>3. /\ status' \in [Tcb -> {"Free", "Ready", "Running", "Zombie"}]
        /\ strong' \in [Tcb -> Nat]
        /\ pid' \in [Tcb -> Nat \cup {NoPid}]
        /\ parent' \in [Tcb -> Tcb \cup {None}]
        /\ exit_code' \in [Tcb -> Int]
        /\ base_size' \in [Tcb -> Nat]
        /\ kstacks' \subseteq Nat
    <3>1. /\ status \in [Tcb -> {"Free", "Ready", "Running", "Zombie"}]
          /\ strong \in [Tcb -> Nat] /\ pid \in [Tcb -> Nat \cup {NoPid}]
          /\ parent \in [Tcb -> Tcb \cup {None}] /\ exit_code \in [Tcb -> Int]
          /\ base_size \in [Tcb -> Nat] /\ kstacks \subseteq Nat
      BY DEF Inv, TypeOK
    <3>2. /\ status' \in [Tcb -> {"Free", "Ready", "Running", "Zombie"}]
          /\ strong' \in [Tcb -> Nat]
      BY <1>2, <3>1
    <3>3. pid' \in [Tcb -> Nat \cup {NoPid}] /\ parent' \in [Tcb -> Tcb \cup {None}]
      BY <1>2, <3>1
    <3>4. exit_code' \in [Tcb -> Int] /\ base_size' \in [Tcb -> Nat]
      <4>1. exit_code' = [exit_code EXCEPT ![z] = 0] /\ exit_code \in [Tcb -> Int]
        BY <1>2, <3>1
      <4>2. exit_code' \in [Tcb -> Int]
        <5>1. 0 \in Int
          OBVIOUS
        <5> QED BY <4>1, <5>1, Zenon
      <4>3. base_size' = [base_size EXCEPT ![z] = 0] /\ base_size \in [Tcb -> Nat]
        BY <1>2, <3>1
      <4>4. base_size' \in [Tcb -> Nat]
        BY <4>3
      <4> QED BY <4>2, <4>4
    <3>5. kstacks' \subseteq Nat
      BY <1>2, <3>1
    <3> QED BY <3>2, <3>3, <3>4, <3>5
  <2> QED BY <1>2, <1>6, <2>1, <2>2, <2>3 DEF Inv, TypeOK, schedVars
<1>12. ScheduledExactlyOnce'
  <2>1. \A t \in Tcb : status'[t] = IF t = z THEN "Free" ELSE status[t]
    BY <1>2 DEF Inv, TypeOK
  <2> QED BY <1>1, <1>2, <2>1 DEF Inv, ScheduledExactlyOnce, schedVars
<1>13. ParentsMatchChildren'
  <2>1. OwnedOnce'
    BY <1>4, <1>9 DEF Inv, ParentsMatchChildren, OwnedOnce
  <2>2. ASSUME NEW t \in Live' \ {INITPROC} PROVE parent'[t] \in Runnable'
    BY <1>8, <1>10 DEF Inv, ParentsMatchChildren, OwnerIsParent, Live
  <2>3. ASSUME NEW p \in Tcb, NEW t \in Tcb
        PROVE  t \in Range(children'[p]) <=> t \in Live' \ {INITPROC} /\ parent'[t] = p
    <3>1. t \in Range(children[p]) <=> t \in Live \ {INITPROC} /\ parent[t] = p
      BY DEF Inv, ParentsMatchChildren, OwnerIsParent
    <3>2. CASE p = c
      BY <1>4, <1>8, <1>9, <1>10, <3>1, <3>2
    <3>3. CASE p # c
      BY <1>1, <1>8, <1>9, <1>10, <3>1, <3>3
    <3> QED BY <3>2, <3>3
  <2> QED BY <2>1, <2>2, <2>3 DEF ParentsMatchChildren, OwnerIsParent
<1>14. TreeIsRooted'
  <2> SUFFICES ASSUME NEW S \in SUBSET (Live' \ {INITPROC}), S # {}
               PROVE  \E t \in S : parent'[t] \notin S
    BY DEF TreeIsRooted
  <2>1. S \in SUBSET (Live \ {INITPROC}) /\ z \notin S
    BY <1>8
  <2>2. PICK t \in S : parent[t] \notin S
    BY <2>1 DEF Inv, TreeIsRooted
  <2>3. t \in Tcb /\ t # z
    BY <2>1, <2>2 DEF Live
  <2> QED BY <1>10, <2>2, <2>3
<1>15. StrongCountExact'
  BY <1>1, <1>2, <1>8 DEF Inv, TypeOK, StrongCountExact
<1>16. PidsExact'
  <2> DEFINE P == {pid[t] : t \in Live}
  <2>1. \A t \in Tcb : pid'[t] = IF t = z THEN NoPid ELSE pid[t]
    BY <1>2 DEF Inv, TypeOK
  <2>2. \A t, u \in Live : pid[t] = pid[u] => t = u
    BY DEF Inv, PidsExact
  <2>3. \A t \in Live' : t \in Live /\ t # z /\ pid'[t] = pid[t]
    BY <1>8, <2>1 DEF Live
  <2>4. {pid'[t] : t \in Live'} = P \ {pid[z]}
    BY <1>1, <1>8, <2>2, <2>3
  <2>5. \A t, u \in Live' : pid'[t] = pid'[u] => t = u
    BY <2>2, <2>3
  <2>6. /\ P \cap Range(pid_recycled) = {} /\ kstacks = P /\ pid[z] \in P
        /\ P \cup Range(pid_recycled) = 0 .. pid_current - 1
    BY <1>1 DEF Inv, PidsExact
  <2> HIDE DEF P
  <2> QED BY <1>2, <1>6, <2>4, <2>5, <2>6 DEF PidsExact
<1> QED BY <1>2, <1>8, <1>11, <1>12, <1>13, <1>14, <1>15, <1>16
        DEF Inv, NoInternalPanic, InitProcRunnable

-------------------------------------------------------------------------------

LEMMA trap_handlerInv ==
  ASSUME Inv, NEW c \in Tcb, trap_handler(c)
  PROVE  Inv'
<1>1. CASE timer_interrupt(c)
  BY <1>1, suspendInv DEF timer_interrupt, InUser, Resumes
<1>2. CASE sys_yield(c)
  BY <1>2, suspendInv DEF sys_yield, InUser, Resumes
<1>3. CASE sys_read(c)
  BY <1>3, sys_readInv
<1>4. ASSUME NEW n \in Tcb, sys_fork(c, n) PROVE Inv'
  BY <1>4, sys_forkInv
<1>5. ASSUME NEW path \in Path, sys_exec(c, path) PROVE Inv'
  BY <1>5, sys_execInv
<1>6. ASSUME NEW code \in UserCode, sys_exit(c, code) PROVE Inv'
  BY <1>6, exitInv, TaskAssumption DEF sys_exit, InUser
<1>7. ASSUME NEW arg \in {-1} \cup (0 .. pid_current), sys_waitpid(c, arg) PROVE Inv'
  <2>1. arg \in Int /\ current = c
    BY <1>7 DEF Inv, TypeOK, sys_waitpid, InUser
  <2>2. CASE waitpid_none(c, arg)
    BY <2>1, <2>2, waitpid_noneInv
  <2>3. ASSUME NEW i \in Reapable(c, arg), waitpid_reap(c, arg, i) PROVE Inv'
    BY <2>1, <2>3, waitpid_reapInv
  <2> QED BY <1>7, <2>2, <2>3 DEF sys_waitpid
<1>8. CASE fault(c)
  BY <1>8, exitInv DEF fault, InUser, PageFault, IllegalInstruction
<1>9. CASE unsupported(c)
  BY <1>9, PanicInv DEF unsupported, UserPanics
<1> QED BY <1>1, <1>2, <1>3, <1>4, <1>5, <1>6, <1>7, <1>8, <1>9 DEF trap_handler

(* Every step of the process layer preserves the invariant.                *)
LEMMA NextInv == Inv /\ [Next]_vars => Inv'
<1> SUFFICES ASSUME Inv, [Next]_vars PROVE Inv'
  OBVIOUS
<1>1. CASE run_tasks
  BY <1>1, run_tasksInv
<1>2. ASSUME NEW c \in Tcb, trap_return(c) PROVE Inv'
  BY <1>2, trap_returnInv
<1>3. ASSUME NEW c \in Tcb, trap_handler(c) PROVE Inv'
  BY <1>3, trap_handlerInv
<1>4. CASE shutdown \/ UNCHANGED vars
  <2>1. UNCHANGED vars
    BY <1>4 DEF shutdown
  <2>2. TypeOK' /\ NoInternalPanic'
    BY <2>1 DEF Inv, TypeOK, NoInternalPanic, vars, tcbVars, schedVars, pidVars
  <2> QED BY <2>1, <2>2, LocalStep DEF vars, tcbVars
<1> QED BY <1>1, <1>2, <1>3, <1>4 DEF Next

(* The invariant of the process layer holds in every reachable state.      *)
THEOREM TaskInvariant == Spec => []Inv
BY InitInv, NextInv, PTL DEF Spec

(* Every field of the process layer keeps its type.                        *)
THEOREM TaskTypeCorrect == Spec => []TypeOK
BY TaskInvariant, PTL DEF Inv

(* A Ready task is queued once, a Running one is PROCESSOR.current, an     *)
(* exited one is in neither.                                               *)
THEOREM SchedulerConsistent == Spec => []ScheduledExactlyOnce
BY TaskInvariant, PTL DEF Inv

(* Children vectors and parent pointers always describe the same tree.     *)
THEOREM TreeConsistent == Spec => []ParentsMatchChildren
BY TaskInvariant, PTL DEF Inv

(* Exit, adoption, block reuse and waitpid never make a cycle of parents.  *)
THEOREM TreeRooted == Spec => []TreeIsRooted
BY TaskInvariant, PTL DEF Inv

(* The strong count of a control block is fixed by its status.             *)
THEOREM StrongCounts == Spec => []StrongCountExact
BY TaskInvariant, PTL DEF Inv

(* Pids and kernel stacks are neither leaked nor shared.                   *)
THEOREM PidsConserved == Spec => []PidsExact
BY TaskInvariant, PTL DEF Inv

(* No assertion or unwrap of the process layer fails, and no kernel stack  *)
(* is freed while it is in use.                                            *)
THEOREM KernelNeverPanicsItself == Spec => []NoInternalPanic
BY TaskInvariant, PTL DEF Inv

(* The idle loop of run_tasks never finds an empty queue.                  *)
THEOREM IdleAlwaysFindsATask == Spec => []IdleFindsATask
<1>1. Inv => IdleFindsATask
  <2> SUFFICES ASSUME Inv, current = None PROVE ready_queue # <<>>
    BY DEF IdleFindsATask
  <2>1. INITPROC \in Tcb /\ INITPROC # None
    BY TaskAssumption
  <2>2. status[INITPROC] = "Ready"
    BY <2>1 DEF Inv, InitProcRunnable, Runnable, ScheduledExactlyOnce
  <2>3. INITPROC \in Range(ready_queue)
    BY <2>1, <2>2 DEF Inv, ScheduledExactlyOnce
  <2> QED BY <2>3 DEF Range
<1> QED BY <1>1, TaskInvariant, PTL

(* Only INITPROC's exit finds a cell borrowed.                             *)
BorrowPanic == panic = "already borrowed" => current = INITPROC

LEMMA HandlerBorrowPanic ==
  ASSUME Inv, panic = "none", NEW c \in Tcb, trap_handler(c)
  PROVE  BorrowPanic'
<1>1. ASSUME NEW code, exit_current_and_run_next(c, code), current = c PROVE BorrowPanic'
  <2>1. CASE c = INITPROC
    BY <1>1, <2>1, ExitBorrows DEF exit_current_and_run_next, Panic, schedVars, BorrowPanic
  <2>2. CASE c # INITPROC
    <3>1. drop_task(c)
      BY <1>1, <2>2, ExitBorrows DEF exit_current_and_run_next
    <3> QED BY <3>1 DEF drop_task, BorrowPanic
  <2> QED BY <2>1, <2>2
<1>2. CASE fault(c) \/ \E code \in UserCode : sys_exit(c, code)
  BY <1>1, <1>2 DEF fault, sys_exit, InUser
<1>3. CASE timer_interrupt(c) \/ sys_yield(c) \/ sys_read(c)
  BY <1>3 DEF timer_interrupt, sys_yield, sys_read, sys_read_wait, sys_read_done, suspend_current_and_run_next, BorrowPanic
<1>4. ASSUME NEW n \in Tcb, sys_fork(c, n) PROVE BorrowPanic'
  BY <1>4 DEF sys_fork, BorrowPanic
<1>5. ASSUME NEW path \in Path, sys_exec(c, path) PROVE BorrowPanic'
  BY <1>5 DEF sys_exec, BorrowPanic
<1>6. ASSUME NEW arg \in {-1} \cup (0 .. pid_current), sys_waitpid(c, arg) PROVE BorrowPanic'
  <2>1. panic' \in {"none", "strong count is not 1", "pid has been deallocated"}
    BY <1>6 DEF sys_waitpid, waitpid_none, waitpid_reap
  <2> QED BY <2>1 DEF BorrowPanic
<1>7. CASE unsupported(c)
  BY <1>7 DEF unsupported, Panic, BorrowPanic
<1> QED BY <1>2, <1>3, <1>4, <1>5, <1>6, <1>7 DEF trap_handler

(* The borrows of the stretches a state can take succeed.                  *)
LEMMA RunTasksSucceeds ==
  ASSUME NEW t \in Tcb, NEW b \in run_tasks_borrows(t)
  PROVE  ~AlreadyBorrowed(b)
<1>1. CASE b \in exclusive_access({PROCESSOR}, {})
  BY <1>1, AccessSucceeds, CellsApart
<1>2. CASE b \in exclusive_access({TASK_MANAGER, Inner(t)}, {PROCESSOR})
  <2>1. {TASK_MANAGER, Inner(t)} \cap {PROCESSOR} = {}
    BY CellsApart
  <2> QED BY <1>2, <2>1, AccessSucceeds, CellsApart
<1> QED BY <1>1, <1>2, SwitchSucceeds DEF run_tasks_borrows

LEMMA KernelStackSucceeds ==
  ASSUME NEW t, NEW b \in kernel_stack_borrows({Inner(t)})
  PROVE  ~AlreadyBorrowed(b)
<1>1. CASE b \in exclusive_access({KERNEL_SPACE}, {Inner(t)})
  <2>1. {KERNEL_SPACE} \cap {Inner(t)} = {}
    BY CellsApart
  <2> QED BY <1>1, <2>1, AccessSucceeds, CellsApart
<1>2. CASE b \in exclusive_access({FRAME_ALLOCATOR}, {Inner(t)} \cup {KERNEL_SPACE})
  <2>1. {FRAME_ALLOCATOR} \cap ({Inner(t)} \cup {KERNEL_SPACE}) = {}
    BY CellsApart
  <2> QED BY <1>2, <2>1, AccessSucceeds, CellsApart
<1> QED BY <1>1, <1>2 DEF kernel_stack_borrows

LEMMA ForkSucceeds ==
  ASSUME NEW c \in Tcb, NEW n \in Tcb, n # c, NEW b \in fork_borrows(c, n)
  PROVE  ~AlreadyBorrowed(b)
<1>1. CASE b \in exclusive_access({PROCESSOR, Inner(c), Inner(n), TASK_MANAGER}, {})
  BY <1>1, AccessSucceeds, CellsApart
<1>2. CASE b \in exclusive_access({FRAME_ALLOCATOR, PID_ALLOCATOR, Inner(n)}, {Inner(c)})
  <2>1. {FRAME_ALLOCATOR, PID_ALLOCATOR, Inner(n)} \cap {Inner(c)} = {}
    BY CellsApart
  <2> QED BY <1>2, <2>1, AccessSucceeds, CellsApart
<1> QED BY <1>1, <1>2, KernelStackSucceeds DEF fork_borrows

LEMMA CallsSucceed ==
  ASSUME NEW c \in Tcb,
         NEW b \in current_task_borrows(c) \cup suspend_borrows(c) \cup exec_borrows(c)
  PROVE  ~AlreadyBorrowed(b)
<1>1. CASE b \in current_task_borrows(c)
  BY <1>1, AccessSucceeds, CellsApart DEF current_task_borrows
<1>2. CASE b \in exclusive_access({PROCESSOR, Inner(c), TASK_MANAGER}, {})
  BY <1>2, AccessSucceeds, CellsApart
<1>3. CASE b \in exclusive_access({PROCESSOR, Inner(c), FRAME_ALLOCATOR}, {})
  BY <1>3, AccessSucceeds, CellsApart
<1>4. CASE b \in exclusive_access({FRAME_ALLOCATOR, KERNEL_SPACE}, {Inner(c)})
  <2>1. {FRAME_ALLOCATOR, KERNEL_SPACE} \cap {Inner(c)} = {}
    BY CellsApart
  <2> QED BY <1>4, <2>1, AccessSucceeds, CellsApart
<1> QED BY <1>1, <1>2, <1>3, <1>4, ScheduleSucceeds DEF suspend_borrows, exec_borrows

LEMMA WaitpidSucceeds ==
  ASSUME Inv, NEW c \in Tcb, NEW b \in waitpid_borrows(c)
  PROVE  ~AlreadyBorrowed(b)
<1> DEFINE K == {Inner(t) : t \in Range(children[c])}
<1>1. K \cap {Inner(c)} = {} /\ AnyCell \notin K
  BY CellsApart, ChildrenAreOthers
<1> HIDE DEF K
<1>2. CASE b \in exclusive_access({PROCESSOR, Inner(c)}, {})
  BY <1>2, AccessSucceeds, CellsApart
<1>3. CASE b \in exclusive_access(K, {Inner(c)})
  BY <1>1, <1>3, AccessSucceeds
<1>4. CASE b \in exclusive_access({PID_ALLOCATOR, FRAME_ALLOCATOR}, {Inner(c)})
  <2>1. {PID_ALLOCATOR, FRAME_ALLOCATOR} \cap {Inner(c)} = {}
    BY CellsApart
  <2> QED BY <1>4, <2>1, AccessSucceeds, CellsApart
<1>5. \/ b \in exclusive_access({PROCESSOR, Inner(c)}, {})
      \/ b \in exclusive_access(K, {Inner(c)})
      \/ b \in exclusive_access({PID_ALLOCATOR, FRAME_ALLOCATOR}, {Inner(c)})
      \/ b \in kernel_stack_borrows({Inner(c)})
  BY DEF waitpid_borrows, K
<1> QED BY <1>2, <1>3, <1>4, <1>5, KernelStackSucceeds

LEMMA StretchesSucceed ==
  ASSUME Inv, NEW b \in StretchBorrows
  PROVE  ~AlreadyBorrowed(b)
<1>1. CASE current = None
  <2>1. PICK t \in Range(ready_queue) : b \in run_tasks_borrows(t)
    BY <1>1 DEF StretchBorrows
  <2>2. t \in Tcb
    BY <2>1 DEF Inv, TypeOK, Range
  <2> QED BY <2>1, <2>2, RunTasksSucceeds
<1>2. CASE current # None
  <2>1. current \in Tcb /\ current \in Live
    BY <1>2, CurrentIsRunning DEF Inv, TypeOK
  <2>2. CASE \E n \in Tcb \ Live : b \in fork_borrows(current, n)
    BY <2>1, <2>2, ForkSucceeds
  <2>3. CASE current # INITPROC /\ b \in exit_borrows(current)
    BY <2>1, <2>3, ExitBorrows
  <2>4. \/ b \in current_task_borrows(current) \cup suspend_borrows(current)
               \cup exec_borrows(current)
        \/ b \in waitpid_borrows(current)
        \/ \E n \in Tcb \ Live : b \in fork_borrows(current, n)
        \/ current # INITPROC /\ b \in exit_borrows(current)
    <3> DEFINE F == UNION {fork_borrows(current, n) : n \in Tcb \ Live}
               E == IF current = INITPROC THEN {} ELSE exit_borrows(current)
    <3>1. b \in F => \E n \in Tcb \ Live : b \in fork_borrows(current, n)
      OBVIOUS
    <3>2. b \in E => current # INITPROC /\ b \in exit_borrows(current)
      OBVIOUS
    <3>3. StretchBorrows = current_task_borrows(current) \cup suspend_borrows(current)
            \cup exec_borrows(current) \cup waitpid_borrows(current) \cup F \cup E
      BY <1>2 DEF StretchBorrows
    <3> HIDE DEF F, E
    <3> QED BY <3>1, <3>2, <3>3
  <2> QED BY <2>1, <2>2, <2>3, <2>4, CallsSucceed, WaitpidSucceeds
<1> QED BY <1>1, <1>2

(* No UPSafeCell is borrowed twice, and none is borrowed at a __switch,    *)
(* except by the exit of INITPROC.                                         *)
THEOREM NoDoubleBorrow == Spec => []NeverBorrowedTwice
<1>1. Init => BorrowPanic
  BY DEF Init, BorrowPanic
<1>2. Inv /\ BorrowPanic /\ [Next]_vars => BorrowPanic'
  <2> SUFFICES ASSUME Inv, BorrowPanic, [Next]_vars PROVE BorrowPanic'
    OBVIOUS
  <2>1. CASE run_tasks \/ \E c \in Tcb : trap_return(c)
    <3>1. panic' = panic /\ (run_tasks \/ current' = current)
      BY <2>1 DEF run_tasks, trap_return, schedVars
    <3>2. run_tasks => current = None
      BY DEF run_tasks
    <3> QED BY <3>1, <3>2, TaskAssumption DEF BorrowPanic
  <2>2. ASSUME NEW c \in Tcb, panic = "none", trap_handler(c) PROVE BorrowPanic'
    BY <2>2, HandlerBorrowPanic
  <2>3. CASE shutdown \/ UNCHANGED vars
    BY <2>3 DEF shutdown, vars, schedVars, BorrowPanic
  <2> QED BY <2>1, <2>2, <2>3 DEF Next
<1>3. Inv /\ BorrowPanic => NeverBorrowedTwice
  BY StretchesSucceed DEF BorrowPanic, NeverBorrowedTwice
<1> QED BY <1>1, <1>2, <1>3, TaskInvariant, PTL DEF Spec


-------------------------------------------------------------------------------
(* The process tree.  pd is a pid table, L the blocks that hold a task.    *)

PidTable(pd, L) ==
  /\ L \in SUBSET Tcb /\ INITPROC \in L /\ pd[INITPROC] = 0
  /\ pd \in [Tcb -> Nat \cup {NoPid}]
  /\ \A t \in L : pd[t] \in Nat
  /\ \A t \in Tcb \ L : pd[t] = NoPid
  /\ \A t, u \in L : pd[t] = pd[u] => t = u

Block(pd, p) == CHOOSE t \in Tcb : pd[t] = p

(* A pid leads to the one block that has it.                               *)
LEMMA BlockOfPid ==
  ASSUME NEW pd, NEW L, PidTable(pd, L), NEW t \in L
  PROVE  Block(pd, pd[t]) = t
<1>1. \A u \in Tcb : pd[u] = pd[t] => u = t
  BY DEF PidTable, NoPid
<1>2. t \in Tcb
  BY DEF PidTable
<1> QED BY <1>1, <1>2 DEF Block

(* Only a live block has a pid.                                            *)
LEMMA PidHasBlock ==
  ASSUME NEW pd, NEW L, PidTable(pd, L), NEW p \in Nat, NEW t \in Tcb, pd[t] = p
  PROVE  t \in L
BY DEF PidTable, NoPid

(* Before a step and after it, the pids of the live blocks are distinct    *)
(* numbers.                                                                *)
LEMMA PidsNow ==
  ASSUME Inv, PidsOfBlocks
  PROVE  PidTable(pid, Live)
<1>1. \A t \in Live : pid[t] \in Nat
  <2> SUFFICES ASSUME NEW t \in Live PROVE pid[t] \in Nat
    OBVIOUS
  <2>1. pid[t] \in 0 .. pid_current - 1
    BY DEF Inv, PidsExact
  <2> QED BY <2>1 DEF Inv, TypeOK
<1>2. INITPROC \in Live /\ Live \in SUBSET Tcb
  BY DEF Inv, InitProcRunnable, Live, Runnable
<1>3. pid \in [Tcb -> Nat \cup {NoPid}] /\ \A t, u \in Live : pid[t] = pid[u] => t = u
  BY DEF Inv, TypeOK, PidsExact
<1> QED BY <1>1, <1>2, <1>3 DEF PidTable, PidsOfBlocks

LEMMA PidsThen ==
  ASSUME Inv', PidsOfBlocks'
  PROVE  PidTable(pid', Live')
<1>1. \A t \in Live' : pid'[t] \in Nat
  <2> SUFFICES ASSUME NEW t \in Live' PROVE pid'[t] \in Nat
    OBVIOUS
  <2>1. pid'[t] \in 0 .. pid_current' - 1
    BY DEF Inv, PidsExact
  <2> QED BY <2>1 DEF Inv, TypeOK
<1>2. INITPROC \in Live' /\ Live' \in SUBSET Tcb
  BY DEF Inv, InitProcRunnable, Live, Runnable
<1>3. pid' \in [Tcb -> Nat \cup {NoPid}] /\ \A t, u \in Live' : pid'[t] = pid'[u] => t = u
  BY DEF Inv, TypeOK, PidsExact
<1> QED BY <1>1, <1>2, <1>3 DEF PidTable, PidsOfBlocks

(* A new pid is made only while every pid made so far has a block and a    *)
(* further block is free.                                                  *)
LEMMA RoomForPid ==
  ASSUME Inv, PidsOfBlocks, NEW n \in Tcb, n \notin Live, pid_recycled = <<>>
  PROVE  pid_current + 1 =< Cardinality(Tcb)
<1> DEFINE I == 0 .. pid_current - 1
           f == [i \in I |-> Block(pid, i)]
<1>1. pid_current \in Nat /\ I = {pid[t] : t \in Live}
  <2>1. Range(pid_recycled) = {}
    BY DEF Range
  <2> QED BY <2>1 DEF Inv, TypeOK, PidsExact
<1>2. PidTable(pid, Live)
  BY PidsNow
<1> HIDE DEF I
<1>3. \A i \in I : Block(pid, i) \in Live /\ pid[Block(pid, i)] = i
  BY <1>1, <1>2, BlockOfPid
<1>4. f \in Injection(I, Tcb \ {n})
  <2>1. f \in [I -> Tcb \ {n}]
    BY <1>3 DEF Live
  <2>2. \A i, j \in I : f[i] = f[j] => i = j
    BY <1>3
  <2> QED BY <2>1, <2>2 DEF Injection, IsInjective
<1>5. IsFiniteSet(Tcb \ {n}) /\ Cardinality(Tcb \ {n}) = Cardinality(Tcb) - 1
      /\ Cardinality(Tcb) \in Nat
  BY TaskAssumption, FS_RemoveElement, FS_CardinalityType
<1> HIDE DEF f
<1>6. Cardinality(I) =< Cardinality(Tcb \ {n})
  BY <1>4, <1>5, FS_Injection
<1>7. Cardinality(I) = pid_current
  BY <1>1, FS_Interval DEF I
<1> QED BY <1>1, <1>5, <1>6, <1>7

LEMMA InitPids == Init => PidsOfBlocks
<1> SUFFICES ASSUME Init PROVE PidsOfBlocks
  OBVIOUS
<1>1. Cardinality(Tcb) \in Nat /\ Cardinality(Tcb) # 0
  BY TaskAssumption, FS_CardinalityType, FS_EmptySet
<1> QED BY <1>1, TaskAssumption DEF Init, PidsOfBlocks, Live


(* What a program sees of a pid, by its block.                             *)
StateOf(st, pd, p) ==
  IF ~\E t \in Tcb : pd[t] = p THEN "absent"
  ELSE IF st[Block(pd, p)] = "Zombie" THEN "dead" ELSE "live"

ParentOf(pr, pd, p) ==
  IF (~\E t \in Tcb : pd[t] = p) \/ p = 0 THEN -1 ELSE pd[pr[Block(pd, p)]]

CodeOf(ec, pd, p) == IF \E t \in Tcb : pd[t] = p THEN ec[Block(pd, p)] ELSE 0

AbsState == [p \in Pid |-> AbstractState(p)]
AbsParent == [p \in Pid |-> AbstractParent(p)]
AbsCode == [p \in Pid |-> AbstractCode(p)]

(* What the mapping shows before and after a step, as functions of the     *)
(* concrete fields.                                                        *)
LEMMA Abstractly ==
  /\ AbsState = [p \in Pid |-> StateOf(status, pid, p)]
  /\ AbsParent = [p \in Pid |-> ParentOf(parent, pid, p)]
  /\ AbsCode = [p \in Pid |-> CodeOf(exit_code, pid, p)]
  /\ AbsState' = [p \in Pid |-> StateOf(status', pid', p)]
  /\ AbsParent' = [p \in Pid |-> ParentOf(parent', pid', p)]
  /\ AbsCode' = [p \in Pid |-> CodeOf(exit_code', pid', p)]
BY DEF AbsState, AbsParent, AbsCode, AbstractState, AbstractParent, AbstractCode,
       StateOf, ParentOf, CodeOf, HasTask, TaskOf, Block

(* What the mapping shows of the pid of a live block.                      *)
LEMMA OfBlock ==
  ASSUME NEW pd, NEW L, PidTable(pd, L), NEW t \in L, NEW st, NEW pr, NEW ec
  PROVE  /\ StateOf(st, pd, pd[t]) = IF st[t] = "Zombie" THEN "dead" ELSE "live"
         /\ ParentOf(pr, pd, pd[t]) = IF t = INITPROC THEN -1 ELSE pd[pr[t]]
         /\ CodeOf(ec, pd, pd[t]) = ec[t]
<1>1. t \in Tcb /\ \E u \in Tcb : pd[u] = pd[t]
  BY DEF PidTable
<1>2. Block(pd, pd[t]) = t
  BY BlockOfPid
<1>3. pd[t] = 0 <=> t = INITPROC
  BY DEF PidTable
<1> QED BY <1>1, <1>2, <1>3 DEF StateOf, ParentOf, CodeOf

(* What it shows of a pid that nobody has.                                 *)
LEMMA OfNobody ==
  ASSUME NEW pd, NEW L, PidTable(pd, L), NEW p \in Nat, \A t \in L : pd[t] # p,
         NEW st, NEW pr, NEW ec
  PROVE  StateOf(st, pd, p) = "absent" /\ ParentOf(pr, pd, p) = -1 /\ CodeOf(ec, pd, p) = 0
<1>1. ~\E u \in Tcb : pd[u] = p
  BY PidHasBlock
<1> QED BY <1>1 DEF StateOf, ParentOf, CodeOf

(* The pids of live blocks are pids of the abstract tree.                  *)
LEMMA PidType ==
  ASSUME Inv, PidsOfBlocks
  PROVE  /\ Pid \subseteq Nat /\ 0 .. pid_current \subseteq Pid
         /\ \A t \in Live : pid[t] \in Pid
<1>1. Cardinality(Tcb) \in Nat /\ pid_current \in Nat /\ pid_current =< Cardinality(Tcb)
  BY TaskAssumption, FS_CardinalityType DEF PidsOfBlocks, Inv, TypeOK
<1>2. Pid \subseteq Nat /\ 0 .. pid_current \subseteq Pid
  BY <1>1 DEF Pid
<1>3. \A t \in Live : pid[t] \in 0 .. pid_current - 1
  BY DEF Inv, PidsExact
<1> QED BY <1>1, <1>2, <1>3

(* Scheduling is not seen.                                                 *)
LEMMA Unseen ==
  ASSUME UNCHANGED <<pid, parent, exit_code>>,
         \A t \in Tcb : status'[t] = "Zombie" <=> status[t] = "Zombie"
  PROVE  UNCHANGED <<AbsState, AbsParent, AbsCode>>
<1> SUFFICES ASSUME NEW p \in Pid
             PROVE  /\ StateOf(status', pid', p) = StateOf(status, pid, p)
                    /\ ParentOf(parent', pid', p) = ParentOf(parent, pid, p)
                    /\ CodeOf(exit_code', pid', p) = CodeOf(exit_code, pid, p)
  BY Abstractly
<1>1. CASE \E t \in Tcb : pid[t] = p
  <2>1. Block(pid, p) \in Tcb
    BY <1>1 DEF Block
  <2> QED BY <1>1, <2>1 DEF StateOf, ParentOf, CodeOf
<1>2. CASE ~\E t \in Tcb : pid[t] = p
  BY <1>2 DEF StateOf, ParentOf, CodeOf
<1> QED BY <1>1, <1>2

(* The running program is a live process of the abstract tree.             *)
LEMMA CallerIsLive ==
  ASSUME Inv, PidsOfBlocks, NEW c \in Tcb, current = c
  PROVE  pid[c] \in Pid /\ AbsState[pid[c]] = "live" /\ c \in Live
<1>1. status[c] = "Running" /\ c \in Live
  BY CurrentIsRunning
<1>2. pid[c] \in Pid /\ PidTable(pid, Live)
  BY <1>1, PidType, PidsNow
<1>3. AbsState[pid[c]] = StateOf(status, pid, pid[c])
  BY <1>2, Abstractly
<1>4. StateOf(status, pid, pid[c]) = "live"
  BY <1>1, <1>2, OfBlock
<1> QED BY <1>1, <1>2, <1>3, <1>4

(* What a step has to be for the abstract tree.                            *)
SeenStep == [Tree!Next]_<<AbsState, AbsParent, AbsCode, ret>>

(* A step that changes nothing of this is a stutter, or forgets the last   *)
(* answer.                                                                 *)
LEMMA QuietSeen ==
  ASSUME UNCHANGED <<AbsState, AbsParent, AbsCode>>, ret' = NoRet \/ ret' = ret
  PROVE  SeenStep
<1>1. CASE ret' = ret
  BY <1>1 DEF SeenStep
<1>2. CASE ret' = NoRet
  <2>1. Tree!Other
    BY <1>2 DEF Tree!Other, AbsState, AbsParent, AbsCode
  <2> QED BY <2>1 DEF SeenStep, Tree!Next
<1> QED BY <1>1, <1>2


LEMMA forkSeen ==
  ASSUME Inv, PidsOfBlocks, NEW c \in Tcb, NEW n \in Tcb, sys_fork(c, n)
  PROVE  PidsOfBlocks' /\ SeenStep
<1> DEFINE q == NextPid
<1>1. /\ current = c /\ n \notin Live /\ pid_alloc
      /\ status' = [status EXCEPT ![n] = "Ready"]
      /\ pid' = [pid EXCEPT ![n] = q]
      /\ parent' = [parent EXCEPT ![n] = c]
      /\ exit_code' = [exit_code EXCEPT ![n] = 0]
      /\ ret' = [by |-> pid[c], call |-> "fork", arg |-> 0, val |-> q, code |-> 0]
  BY DEF sys_fork, InUser
<1>2. q \in Nat /\ q \notin {pid[t] : t \in Live}
  BY NextPidIsFree
<1>3. q \in 0 .. pid_current /\ pid_current' =< Cardinality(Tcb)
  <2>1. 0 .. pid_current' - 1 = (0 .. pid_current - 1) \cup {q} /\ pid_current' \in Nat
    BY <1>1, pid_allocLemma
  <2>2. pid_current \in Nat /\ pid_current =< Cardinality(Tcb)
    BY DEF Inv, TypeOK, PidsOfBlocks
  <2>3. pid_current' = IF pid_recycled # <<>> THEN pid_current ELSE pid_current + 1
    BY <1>1 DEF pid_alloc
  <2>4. pid_recycled = <<>> => pid_current + 1 =< Cardinality(Tcb)
    BY <1>1, RoomForPid
  <2>5. pid_current' = pid_current \/ pid_current' = pid_current + 1
    BY <2>3
  <2>6. q \in 0 .. pid_current' - 1
    BY <2>1
  <2> HIDE DEF q
  <2>7. q \in 0 .. pid_current
    BY <2>2, <2>5, <2>6
  <2> QED BY <2>2, <2>3, <2>4, <2>7
<1> HIDE DEF q
<1>4. /\ status'[n] = "Ready" /\ pid'[n] = q /\ parent'[n] = c /\ exit_code'[n] = 0
      /\ \A t \in Tcb \ {n} : /\ status'[t] = status[t] /\ pid'[t] = pid[t]
                              /\ parent'[t] = parent[t] /\ exit_code'[t] = exit_code[t]
  BY <1>1 DEF Inv, TypeOK
<1>5. Live' = Live \cup {n} /\ Live \subseteq Tcb
  BY <1>4 DEF Live
<1>6. PidsOfBlocks'
  <2>1. INITPROC \in Live
    BY DEF Inv, InitProcRunnable, Live, Runnable
  <2> QED BY <1>1, <1>3, <1>4, <1>5, <2>1 DEF PidsOfBlocks
<1>7. Inv'
  BY sys_forkInv
<1>8. PidTable(pid, Live) /\ PidTable(pid', Live')
  BY <1>6, <1>7, PidsNow, PidsThen
<1>9. q \in Pid /\ Pid \subseteq Nat
  BY <1>3, PidType
<1>10. pid[c] \in Pid /\ AbsState[pid[c]] = "live" /\ c \in Live /\ c # n
  BY <1>1, CallerIsLive
<1>11. AbsState[q] = "absent" /\ AbsCode[q] = 0
  BY <1>2, <1>8, <1>9, OfNobody, Abstractly
<1>12. ASSUME NEW p \in Pid \ {q}
       PROVE  /\ StateOf(status', pid', p) = StateOf(status, pid, p)
              /\ ParentOf(parent', pid', p) = ParentOf(parent, pid, p)
              /\ CodeOf(exit_code', pid', p) = CodeOf(exit_code, pid, p)
  <2>1. ASSUME NEW t \in Live, pid[t] = p
        PROVE  /\ StateOf(status', pid', p) = StateOf(status, pid, p)
               /\ ParentOf(parent', pid', p) = ParentOf(parent, pid, p)
               /\ CodeOf(exit_code', pid', p) = CodeOf(exit_code, pid, p)
    <3>1. t # n /\ t \in Live' /\ pid'[t] = p /\ status'[t] = status[t]
          /\ parent'[t] = parent[t] /\ exit_code'[t] = exit_code[t]
      BY <1>1, <1>4, <1>5, <2>1
    <3>2. t # INITPROC => pid'[parent[t]] = pid[parent[t]]
      <4> SUFFICES ASSUME t # INITPROC PROVE pid'[parent[t]] = pid[parent[t]]
        OBVIOUS
      <4>1. parent[t] \in Live
        BY DEF Inv, ParentsMatchChildren, OwnerIsParent, Runnable, Live
      <4> QED BY <1>1, <1>4, <1>5, <4>1
    <3>3. /\ StateOf(status, pid, p) = IF status[t] = "Zombie" THEN "dead" ELSE "live"
          /\ ParentOf(parent, pid, p) = IF t = INITPROC THEN -1 ELSE pid[parent[t]]
          /\ CodeOf(exit_code, pid, p) = exit_code[t]
      BY <1>8, <2>1, OfBlock
    <3>4. /\ StateOf(status', pid', p) = IF status'[t] = "Zombie" THEN "dead" ELSE "live"
          /\ ParentOf(parent', pid', p) = IF t = INITPROC THEN -1 ELSE pid'[parent'[t]]
          /\ CodeOf(exit_code', pid', p) = exit_code'[t]
      BY <1>8, <3>1, OfBlock
    <3> QED BY <3>1, <3>2, <3>3, <3>4
  <2>2. CASE \A t \in Live : pid[t] # p
    <3>1. \A t \in Live' : pid'[t] # p
      BY <1>4, <1>5, <1>12, <2>2
    <3>2. p \in Nat
      BY <1>9
    <3> QED BY <1>8, <2>2, <3>1, <3>2, OfNobody
  <2> QED BY <2>1, <2>2
<1>13. n \in Live' /\ n # INITPROC /\ pid'[c] = pid[c]
  BY <1>1, <1>4, <1>5, <1>10 DEF Inv, InitProcRunnable, Live, Runnable
<1>14. /\ StateOf(status', pid', q) = "live" /\ ParentOf(parent', pid', q) = pid[c]
       /\ CodeOf(exit_code', pid', q) = 0
  <2>1. /\ StateOf(status', pid', pid'[n]) = IF status'[n] = "Zombie" THEN "dead" ELSE "live"
        /\ ParentOf(parent', pid', pid'[n]) = IF n = INITPROC THEN -1 ELSE pid'[parent'[n]]
        /\ CodeOf(exit_code', pid', pid'[n]) = exit_code'[n]
    BY <1>8, <1>13, OfBlock
  <2> QED BY <1>4, <1>13, <2>1
<1>15. /\ AbsState' = [AbsState EXCEPT ![q] = "live"]
       /\ AbsParent' = [AbsParent EXCEPT ![q] = pid[c]]
       /\ AbsCode' = AbsCode
  BY <1>9, <1>11, <1>12, <1>14, Abstractly
<1>16. Tree!Fork(pid[c], q)
  BY <1>1, <1>11, <1>15 DEF Tree!Fork, Tree!Answer, AbsState, AbsParent, AbsCode
<1>17. pid[c] \in Tree!Live
  BY <1>10 DEF Tree!Live, AbsState
<1> QED BY <1>6, <1>9, <1>16, <1>17 DEF SeenStep, Tree!Next


LEMMA exitSeen ==
  ASSUME Inv, PidsOfBlocks, NEW c \in Tcb, current = c,
         NEW code \in UserCode \cup {PageFault, IllegalInstruction},
         exit_current_and_run_next(c, code)
  PROVE  PidsOfBlocks' /\ SeenStep
<1>1. CASE c = INITPROC
  <2>1. UNCHANGED <<status, pid, parent, exit_code, pid_current, ret>>
    BY <1>1, ExitBorrows DEF exit_current_and_run_next, Panic, tcbVars, pidVars
  <2>2. UNCHANGED <<AbsState, AbsParent, AbsCode>>
    BY <2>1, Unseen
  <2> QED BY <2>1, <2>2, QuietSeen DEF PidsOfBlocks, Live
<1>2. CASE c # INITPROC
  <2>1. /\ status' = [status EXCEPT ![c] = "Zombie"]
        /\ exit_code' = [exit_code EXCEPT ![c] = code]
        /\ parent' = [t \in Tcb |-> IF t \in Range(children[c]) THEN INITPROC
                                                                ELSE parent[t]]
        /\ ret' = NoRet /\ pid' = pid /\ pid_current' = pid_current
    BY <1>2, ExitBorrows DEF exit_current_and_run_next, initproc_adopts, pidVars
  <2>2. /\ status'[c] = "Zombie" /\ exit_code'[c] = code
        /\ \A t \in Tcb \ {c} : status'[t] = status[t] /\ exit_code'[t] = exit_code[t]
    BY <2>1 DEF Inv, TypeOK
  <2>3. pid[c] \in Pid /\ AbsState[pid[c]] = "live" /\ c \in Live
    BY CallerIsLive
  <2>4. Live' = Live /\ Live \subseteq Tcb
    BY <2>2, <2>3 DEF Live
  <2>5. PidsOfBlocks'
    BY <2>1, <2>4 DEF PidsOfBlocks
  <2>6. PidTable(pid, Live) /\ Pid \subseteq Nat
    BY PidsNow, PidType
  <2>7. ASSUME NEW p \in Pid
        PROVE  /\ StateOf(status', pid, p) = IF p = pid[c] THEN "dead" ELSE StateOf(status, pid, p)
               /\ CodeOf(exit_code', pid, p) = IF p = pid[c] THEN code ELSE CodeOf(exit_code, pid, p)
               /\ ParentOf(parent', pid, p) = IF ParentOf(parent, pid, p) = pid[c] THEN 0
                                              ELSE ParentOf(parent, pid, p)
    <3>1. ASSUME NEW t \in Live, pid[t] = p
          PROVE  /\ StateOf(status', pid, p) = IF p = pid[c] THEN "dead" ELSE StateOf(status, pid, p)
                 /\ CodeOf(exit_code', pid, p) = IF p = pid[c] THEN code ELSE CodeOf(exit_code, pid, p)
                 /\ ParentOf(parent', pid, p) = IF ParentOf(parent, pid, p) = pid[c] THEN 0
                                                ELSE ParentOf(parent, pid, p)
      <4>1. p = pid[c] <=> t = c
        BY <2>3, <2>6, <3>1 DEF PidTable
      <4>2. /\ StateOf(status, pid, p) = IF status[t] = "Zombie" THEN "dead" ELSE "live"
            /\ ParentOf(parent, pid, p) = IF t = INITPROC THEN -1 ELSE pid[parent[t]]
            /\ CodeOf(exit_code, pid, p) = exit_code[t]
        BY <2>6, <3>1, OfBlock
      <4>3. /\ StateOf(status', pid, p) = IF status'[t] = "Zombie" THEN "dead" ELSE "live"
            /\ ParentOf(parent', pid, p) = IF t = INITPROC THEN -1 ELSE pid[parent'[t]]
            /\ CodeOf(exit_code', pid, p) = exit_code'[t]
        BY <2>6, <3>1, OfBlock
      <4>4. t \in Tcb
        BY <2>4
      <4>5. CASE t = INITPROC
        <5>1. pid[c] # -1 /\ t # c
          BY <1>2, <2>3, <2>6, <4>5
        <5> QED BY <2>2, <4>1, <4>2, <4>3, <4>4, <4>5, <5>1
      <4>6. CASE t # INITPROC
        <5>1. parent[t] \in Live /\ (t \in Range(children[c]) <=> parent[t] = c)
          BY <4>4, <4>6 DEF Inv, ParentsMatchChildren, OwnerIsParent, Runnable, Live
        <5>2. pid[parent[t]] = pid[c] <=> parent[t] = c
          BY <2>3, <2>6, <5>1 DEF PidTable
        <5>3. parent'[t] = IF parent[t] = c THEN INITPROC ELSE parent[t]
          BY <2>1, <4>4, <5>1
        <5>4. pid[INITPROC] = 0
          BY DEF PidsOfBlocks
        <5> QED BY <2>2, <4>1, <4>2, <4>3, <4>4, <4>6, <5>2, <5>3, <5>4
      <4> QED BY <4>5, <4>6
    <3>2. CASE \A t \in Live : pid[t] # p
      <4>1. /\ StateOf(status, pid, p) = "absent" /\ ParentOf(parent, pid, p) = -1
            /\ CodeOf(exit_code, pid, p) = 0
            /\ StateOf(status', pid, p) = "absent" /\ ParentOf(parent', pid, p) = -1
            /\ CodeOf(exit_code', pid, p) = 0
        BY <2>6, <3>2, OfNobody
      <4>2. p # pid[c] /\ pid[c] # -1
        BY <2>3, <2>6, <3>2
      <4> QED BY <4>1, <4>2
    <3> QED BY <3>1, <3>2
  <2>8. /\ AbsState' = [AbsState EXCEPT ![pid[c]] = "dead"]
        /\ AbsCode' = [AbsCode EXCEPT ![pid[c]] = code]
    BY <2>1, <2>3, <2>7, Abstractly
  <2>9. AbsParent' = [p \in Pid |-> IF AbsParent[p] = pid[c] THEN 0 ELSE AbsParent[p]]
    <3>1. AbsParent' = [p \in Pid |-> ParentOf(parent', pid', p)]
      BY Abstractly
    <3>2. \A p \in Pid : AbsParent[p] = ParentOf(parent, pid, p)
      BY Abstractly
    <3> QED BY <2>1, <2>7, <3>1, <3>2
  <2>10. pid[c] # 0
    <3>1. INITPROC \in Live /\ pid[INITPROC] = 0
      BY DEF Inv, InitProcRunnable, Live, Runnable, PidsOfBlocks
    <3> QED BY <1>2, <2>3, <2>6, <3>1 DEF PidTable
  <2>11. Tree!Exit(pid[c], code)
    BY <2>1, <2>8, <2>9, <2>10 DEF Tree!Exit, Tree!InitPid, AbsState, AbsParent, AbsCode
  <2>12. pid[c] \in Tree!Live
    BY <2>3 DEF Tree!Live, AbsState
  <2> QED BY <2>5, <2>11, <2>12 DEF SeenStep, Tree!Next
<1> QED BY <1>1, <1>2

(* The children that waitpid is about, concretely and abstractly.          *)
LEMMA MatchingSeen ==
  ASSUME Inv, PidsOfBlocks, NEW c \in Tcb, current = c, NEW arg
  PROVE  Tree!Matching(pid[c], arg) = {pid[children[c][i]] : i \in Matching(c, arg)}
<1>1. pid[c] \in Pid /\ c \in Live /\ pid[c] # -1
  BY CallerIsLive, PidType
<1>2. PidTable(pid, Live) /\ Pid \subseteq Nat
  BY PidsNow, PidType
<1>3. Tree!Matching(pid[c], arg) =
        {q \in Pid : AbsParent[q] = pid[c] /\ arg \in {-1, q}}
  BY DEF Tree!Matching, AbsParent
<1>4. ASSUME NEW q \in Pid, AbsParent[q] = pid[c], arg \in {-1, q}
      PROVE  \E i \in Matching(c, arg) : q = pid[children[c][i]]
  <2>1. ParentOf(parent, pid, q) = pid[c]
    BY <1>4, Abstractly
  <2>2. PICK t \in Live : pid[t] = q
    BY <1>1, <1>2, <2>1, OfNobody
  <2>3. t # INITPROC /\ pid[parent[t]] = pid[c]
    BY <1>1, <1>2, <2>1, <2>2, OfBlock
  <2>4. parent[t] \in Live /\ t \in Tcb
    BY <2>3 DEF Inv, ParentsMatchChildren, OwnerIsParent, Runnable, Live
  <2>5. parent[t] = c
    BY <1>1, <1>2, <2>3, <2>4 DEF PidTable
  <2>6. t \in Range(children[c])
    BY <2>3, <2>4, <2>5 DEF Inv, ParentsMatchChildren, OwnerIsParent
  <2>7. PICK i \in DOMAIN children[c] : children[c][i] = t
    BY <2>6 DEF Range
  <2> QED BY <1>4, <2>2, <2>7 DEF Matching
<1>5. ASSUME NEW i \in Matching(c, arg)
      PROVE  LET q == pid[children[c][i]]
             IN q \in Pid /\ AbsParent[q] = pid[c] /\ arg \in {-1, q}
  <2> DEFINE t == children[c][i]
  <2>1. i \in DOMAIN children[c] /\ (arg = -1 \/ arg = pid[t])
    BY DEF Matching
  <2>2. t \in Range(children[c])
    BY <2>1 DEF Range
  <2>3. t \in Tcb
    BY <2>1 DEF Inv, TypeOK
  <2> HIDE DEF t
  <2>4. t \in Live \ {INITPROC} /\ parent[t] = c
    BY <2>2, <2>3 DEF Inv, ParentsMatchChildren, OwnerIsParent
  <2>5. pid[t] \in Pid
    BY <2>4, PidType
  <2>6. ParentOf(parent, pid, pid[t]) = pid[c]
    BY <1>2, <2>4, OfBlock
  <2>7. AbsParent[pid[t]] = pid[c]
    BY <2>5, <2>6, Abstractly
  <2> QED BY <2>1, <2>5, <2>7 DEF t
<1> QED BY <1>3, <1>4, <1>5

LEMMA waitpid_noneSeen ==
  ASSUME Inv, PidsOfBlocks, NEW c \in Tcb, current = c,
         NEW arg \in {-1} \cup (0 .. pid_current), waitpid_none(c, arg)
  PROVE  PidsOfBlocks' /\ SeenStep
<1>1. UNCHANGED <<status, pid, parent, exit_code, children, pid_current>>
  BY DEF waitpid_none, tcbVars, pidVars
<1>2. UNCHANGED <<AbsState, AbsParent, AbsCode>>
  BY <1>1, Unseen
<1>3. PidsOfBlocks'
  BY <1>1 DEF PidsOfBlocks, Live
<1>4. pid[c] \in Tree!Live /\ arg \in Pid \cup {-1}
  BY CallerIsLive, PidType DEF Tree!Live, AbsState
<1>5. Tree!Matching(pid[c], arg) = {pid[children[c][i]] : i \in Matching(c, arg)}
  BY MatchingSeen
<1>6. CASE Matching(c, arg) = {} /\ ret' = WaitAnswer(c, arg, -1, 0)
  <2>1. Tree!Matching(pid[c], arg) = {}
    BY <1>5, <1>6
  <2>2. Tree!WaitNoChild(pid[c], arg)
    BY <1>2, <1>6, <2>1
       DEF Tree!WaitNoChild, Tree!Answer, WaitAnswer, AbsState, AbsParent, AbsCode
  <2> QED BY <1>3, <1>4, <2>2 DEF SeenStep, Tree!Next
<1>7. CASE /\ Matching(c, arg) # {} /\ Reapable(c, arg) = {}
           /\ ret' = WaitAnswer(c, arg, -2, 0)
  <2>1. Tree!Matching(pid[c], arg) # {}
    BY <1>5, <1>7
  <2>2. \A q \in Tree!Matching(pid[c], arg) : AbsState[q] = "live"
    <3> SUFFICES ASSUME NEW i \in Matching(c, arg) PROVE AbsState[pid[children[c][i]]] = "live"
      BY <1>5
    <3> DEFINE t == children[c][i]
    <3>1. i \in DOMAIN children[c] /\ status[t] # "Zombie"
      BY <1>7 DEF Matching, Reapable
    <3>2. t \in Tcb /\ t \in Range(children[c])
      BY <3>1 DEF Inv, TypeOK, Range
    <3> HIDE DEF t
    <3>3. t \in Live
      BY <3>2 DEF Inv, ParentsMatchChildren, OwnerIsParent
    <3>4. StateOf(status, pid, pid[t]) = "live" /\ pid[t] \in Pid
      BY <3>1, <3>3, PidsNow, PidType, OfBlock
    <3>5. AbsState[pid[t]] = "live"
      BY <3>4, Abstractly
    <3> QED BY <3>5 DEF t
  <2>3. Tree!WaitRunning(pid[c], arg)
    BY <1>2, <1>7, <2>1, <2>2
       DEF Tree!WaitRunning, Tree!Answer, WaitAnswer, AbsState, AbsParent, AbsCode
  <2> QED BY <1>3, <1>4, <2>3 DEF SeenStep, Tree!Next
<1> QED BY <1>6, <1>7 DEF waitpid_none


LEMMA waitpid_reapSeen ==
  ASSUME Inv, PidsOfBlocks, NEW c \in Tcb, current = c,
         NEW arg \in {-1} \cup (0 .. pid_current), NEW i \in Reapable(c, arg),
         waitpid_reap(c, arg, i)
  PROVE  PidsOfBlocks' /\ SeenStep
<1> DEFINE z == children[c][i]
           q == pid[z]
<1>1. arg \in Int
  BY DEF Inv, TypeOK
<1>2. /\ z \in Live \ {INITPROC} /\ parent[z] = c /\ z \in Tcb
      /\ status[z] = "Zombie" /\ z \notin Runnable
  BY <1>1, ReapedZombie
<1>3. q \in Tree!Matching(pid[c], arg)
  <2>1. i \in Matching(c, arg)
    BY DEF Reapable
  <2> QED BY <2>1, MatchingSeen
<1>4. /\ ret' = WaitAnswer(c, arg, q, exit_code[z])
      /\ status' = [status EXCEPT ![z] = "Free"]
      /\ pid' = [pid EXCEPT ![z] = NoPid]
      /\ parent' = [parent EXCEPT ![z] = None]
      /\ exit_code' = [exit_code EXCEPT ![z] = 0]
      /\ pid_current' = pid_current
  BY DEF waitpid_reap
<1>5. Inv'
  BY <1>1, waitpid_reapInv
<1> HIDE DEF z
<1>6. /\ status'[z] = "Free" /\ pid'[z] = NoPid
      /\ \A t \in Tcb \ {z} : /\ status'[t] = status[t] /\ pid'[t] = pid[t]
                              /\ parent'[t] = parent[t] /\ exit_code'[t] = exit_code[t]
  BY <1>2, <1>4 DEF Inv, TypeOK
<1>7. Live' = Live \ {z} /\ Live \subseteq Tcb
  BY <1>6 DEF Live
<1>8. PidsOfBlocks'
  BY <1>2, <1>4, <1>6, <1>7, TaskAssumption DEF PidsOfBlocks
<1>9. PidTable(pid, Live) /\ PidTable(pid', Live') /\ Pid \subseteq Nat /\ q \in Pid
  BY <1>2, <1>5, <1>8, PidsNow, PidsThen, PidType
<1>10. AbsState[q] = "dead" /\ AbsCode[q] = exit_code[z]
  <2>1. StateOf(status, pid, q) = "dead" /\ CodeOf(exit_code, pid, q) = exit_code[z]
    BY <1>2, <1>9, OfBlock
  <2> QED BY <1>9, <2>1, Abstractly
<1> HIDE DEF q
<1>11. \A t \in Live : pid[t] = q <=> t = z
  BY <1>2, <1>9 DEF PidTable, q
<1>12. /\ StateOf(status', pid', q) = "absent" /\ ParentOf(parent', pid', q) = -1
       /\ CodeOf(exit_code', pid', q) = 0
  <2>1. \A t \in Live' : pid'[t] # q
    BY <1>6, <1>7, <1>11
  <2> QED BY <1>9, <2>1, OfNobody
<1>13. ASSUME NEW p \in Pid \ {q}
       PROVE  /\ StateOf(status', pid', p) = StateOf(status, pid, p)
              /\ ParentOf(parent', pid', p) = ParentOf(parent, pid, p)
              /\ CodeOf(exit_code', pid', p) = CodeOf(exit_code, pid, p)
  <2>1. ASSUME NEW t \in Live, pid[t] = p
        PROVE  /\ StateOf(status', pid', p) = StateOf(status, pid, p)
               /\ ParentOf(parent', pid', p) = ParentOf(parent, pid, p)
               /\ CodeOf(exit_code', pid', p) = CodeOf(exit_code, pid, p)
    <3>1. t # z /\ t \in Live' /\ pid'[t] = p /\ status'[t] = status[t]
          /\ parent'[t] = parent[t] /\ exit_code'[t] = exit_code[t]
      BY <1>6, <1>7, <1>11, <1>13, <2>1
    <3>2. t # INITPROC => pid'[parent[t]] = pid[parent[t]]
      <4> SUFFICES ASSUME t # INITPROC PROVE pid'[parent[t]] = pid[parent[t]]
        OBVIOUS
      <4>1. parent[t] \in Runnable /\ parent[t] \in Tcb
        BY DEF Inv, ParentsMatchChildren, OwnerIsParent, Runnable
      <4> QED BY <1>2, <1>6, <4>1
    <3>3. /\ StateOf(status, pid, p) = IF status[t] = "Zombie" THEN "dead" ELSE "live"
          /\ ParentOf(parent, pid, p) = IF t = INITPROC THEN -1 ELSE pid[parent[t]]
          /\ CodeOf(exit_code, pid, p) = exit_code[t]
      BY <1>9, <2>1, OfBlock
    <3>4. /\ StateOf(status', pid', p) = IF status'[t] = "Zombie" THEN "dead" ELSE "live"
          /\ ParentOf(parent', pid', p) = IF t = INITPROC THEN -1 ELSE pid'[parent'[t]]
          /\ CodeOf(exit_code', pid', p) = exit_code'[t]
      BY <1>9, <3>1, OfBlock
    <3> QED BY <3>1, <3>2, <3>3, <3>4
  <2>2. CASE \A t \in Live : pid[t] # p
    <3>1. \A t \in Live' : pid'[t] # p
      BY <1>6, <1>7, <2>2
    <3>2. p \in Nat
      BY <1>9
    <3> QED BY <1>9, <2>2, <3>1, <3>2, OfNobody
  <2> QED BY <2>1, <2>2
<1>14. /\ AbsState' = [AbsState EXCEPT ![q] = "absent"]
       /\ AbsParent' = [AbsParent EXCEPT ![q] = -1]
       /\ AbsCode' = [AbsCode EXCEPT ![q] = 0]
  BY <1>9, <1>12, <1>13, Abstractly
<1>15. Tree!Collect(pid[c], arg, q)
  BY <1>3, <1>4, <1>10, <1>14
     DEF Tree!Collect, Tree!Answer, WaitAnswer, AbsState, AbsParent, AbsCode
<1>16. pid[c] \in Tree!Live /\ arg \in Pid \cup {-1}
  BY CallerIsLive, PidType DEF Tree!Live, AbsState
<1> QED BY <1>8, <1>9, <1>15, <1>16 DEF SeenStep, Tree!Next

(* Steps that no pid, parent or exit code takes part in.                   *)
LEMMA OtherSeen ==
  ASSUME Inv, PidsOfBlocks, UNCHANGED <<pid, parent, exit_code, pid_current>>, Live' = Live,
         \A t \in Tcb : status'[t] = "Zombie" <=> status[t] = "Zombie",
         ret' = NoRet \/ ret' = ret
  PROVE  PidsOfBlocks' /\ SeenStep
<1>1. UNCHANGED <<AbsState, AbsParent, AbsCode>>
  BY Unseen
<1> QED BY <1>1, QuietSeen DEF PidsOfBlocks

LEMMA suspendSeen ==
  ASSUME Inv, PidsOfBlocks, NEW c \in Tcb, current = c, NEW where,
         suspend_current_and_run_next(c, where)
  PROVE  PidsOfBlocks' /\ SeenStep
<1>1. /\ status' = [status EXCEPT ![c] = "Ready"] /\ ret' = NoRet
      /\ UNCHANGED <<pid, parent, exit_code, pid_current>>
  BY DEF suspend_current_and_run_next, pidVars
<1>2. status[c] = "Running" /\ status'[c] = "Ready" /\ \A t \in Tcb \ {c} : status'[t] = status[t]
  BY <1>1, CurrentIsRunning DEF Inv, TypeOK
<1>3. /\ Live' = Live
      /\ \A t \in Tcb : status'[t] = "Zombie" <=> status[t] = "Zombie"
  BY <1>2 DEF Live
<1> QED BY <1>1, <1>3, OtherSeen

LEMMA StaySeen ==
  ASSUME Inv, PidsOfBlocks, UNCHANGED <<status, pid, parent, exit_code, pid_current>>,
         ret' = NoRet \/ ret' = ret
  PROVE  PidsOfBlocks' /\ SeenStep
BY OtherSeen DEF Live

LEMMA trap_handlerSeen ==
  ASSUME Inv, PidsOfBlocks, NEW c \in Tcb, trap_handler(c)
  PROVE  PidsOfBlocks' /\ SeenStep
<1>1. CASE timer_interrupt(c) \/ sys_yield(c)
  BY <1>1, suspendSeen DEF timer_interrupt, sys_yield, InUser
<1>2. CASE sys_read(c)
  <2>1. CASE suspend_current_and_run_next(c, "sys_read")
    BY <1>2, <2>1, suspendSeen DEF sys_read, sys_read_wait, sys_read_done
  <2>2. CASE ~suspend_current_and_run_next(c, "sys_read")
    BY <1>2, <2>2, StaySeen DEF sys_read, sys_read_wait, sys_read_done, pidVars
  <2> QED BY <2>1, <2>2
<1>3. ASSUME NEW n \in Tcb, sys_fork(c, n) PROVE PidsOfBlocks' /\ SeenStep
  BY <1>3, forkSeen
<1>4. ASSUME NEW path \in Path, sys_exec(c, path) PROVE PidsOfBlocks' /\ SeenStep
  BY <1>4, StaySeen DEF sys_exec, pidVars
<1>5. ASSUME NEW code \in UserCode, sys_exit(c, code) PROVE PidsOfBlocks' /\ SeenStep
  BY <1>5, exitSeen DEF sys_exit, InUser
<1>6. CASE fault(c)
  BY <1>6, exitSeen DEF fault, InUser
<1>7. ASSUME NEW arg \in {-1} \cup (0 .. pid_current), sys_waitpid(c, arg)
      PROVE  PidsOfBlocks' /\ SeenStep
  BY <1>7, waitpid_noneSeen, waitpid_reapSeen DEF sys_waitpid, InUser
<1>8. CASE unsupported(c)
  BY <1>8, StaySeen DEF unsupported, Panic, tcbVars, pidVars
<1> QED BY <1>1, <1>2, <1>3, <1>4, <1>5, <1>6, <1>7, <1>8 DEF trap_handler

LEMMA NextSeen ==
  ASSUME Inv, PidsOfBlocks, [Next]_vars
  PROVE  PidsOfBlocks' /\ SeenStep
<1>1. CASE run_tasks
  <2> DEFINE h == Head(ready_queue)
  <2>1. /\ ready_queue # <<>> /\ status' = [status EXCEPT ![h] = "Running"]
        /\ UNCHANGED <<pid, parent, exit_code, pid_current, ret>>
    BY <1>1 DEF run_tasks, pidVars
  <2>2. h \in Tcb /\ h \in Range(ready_queue)
    BY <2>1, TailLemma DEF Inv, TypeOK, ScheduledExactlyOnce
  <2> HIDE DEF h
  <2>3. status[h] = "Ready"
    BY <2>2 DEF Inv, ScheduledExactlyOnce
  <2>4. status'[h] = "Running" /\ \A t \in Tcb \ {h} : status'[t] = status[t]
    BY <2>1, <2>2 DEF Inv, TypeOK
  <2>5. Live' = Live /\ \A t \in Tcb : status'[t] = "Zombie" <=> status[t] = "Zombie"
    BY <2>3, <2>4 DEF Live
  <2> QED BY <2>1, <2>5, OtherSeen
<1>2. ASSUME NEW c \in Tcb, trap_return(c) PROVE PidsOfBlocks' /\ SeenStep
  BY <1>2, StaySeen DEF trap_return, pidVars
<1>3. CASE UNCHANGED vars
  BY <1>3, StaySeen DEF vars, tcbVars, pidVars
<1> QED BY <1>1, <1>2, <1>3, trap_handlerSeen DEF Next, shutdown

(* INITPROC keeps pid 0, a free block has no pid, and pid reuse keeps the  *)
(* pids within the number of blocks.                                       *)
THEOREM PidsBounded == Spec => []PidsOfBlocks
BY TaskInvariant, InitPids, NextSeen, PTL DEF Spec

(* fork, exit and waitpid do what they promise: the process layer          *)
(* implements the abstract process tree, whatever the scheduler does.      *)
THEOREM TreeRefinement == Spec => TreeSpec
<1>1. Init => Tree!Init
  <2> SUFFICES ASSUME Init PROVE Tree!Init
    OBVIOUS
  <2>1. Inv /\ PidsOfBlocks
    BY InitInv, InitPids
  <2>2. PidTable(pid, Live) /\ Live = {INITPROC} /\ pid[INITPROC] = 0 /\ Pid \subseteq Nat
    BY <2>1, PidsNow, PidType, TaskAssumption DEF Init, Live
  <2>3. status[INITPROC] = "Ready" /\ exit_code[INITPROC] = 0
    BY TaskAssumption DEF Init
  <2>4. ASSUME NEW p \in Pid
        PROVE  /\ StateOf(status, pid, p) = IF p = 0 THEN "live" ELSE "absent"
               /\ ParentOf(parent, pid, p) = -1 /\ CodeOf(exit_code, pid, p) = 0
    <3>1. CASE p = 0
      <4>1. INITPROC \in Live
        BY <2>2
      <4>2. /\ StateOf(status, pid, pid[INITPROC]) =
                 IF status[INITPROC] = "Zombie" THEN "dead" ELSE "live"
            /\ ParentOf(parent, pid, pid[INITPROC]) =
                 IF INITPROC = INITPROC THEN -1 ELSE pid[parent[INITPROC]]
            /\ CodeOf(exit_code, pid, pid[INITPROC]) = exit_code[INITPROC]
        BY <2>2, <4>1, OfBlock
      <4> QED BY <2>2, <2>3, <3>1, <4>2
    <3>2. CASE p # 0
      <4>1. \A t \in Live : pid[t] # p
        BY <2>2, <3>2
      <4>2. p \in Nat
        BY <2>2
      <4> QED BY <2>2, <3>2, <4>1, <4>2, OfNobody
    <3> QED BY <3>1, <3>2
  <2>5. /\ AbsState = [p \in Pid |-> IF p = 0 THEN "live" ELSE "absent"]
        /\ AbsParent = [p \in Pid |-> -1] /\ AbsCode = [p \in Pid |-> 0]
    BY <2>4, Abstractly
  <2>6. ret = NoRet
    BY DEF Init
  <2> QED BY <2>5, <2>6 DEF Tree!Init, Tree!InitPid, AbsState, AbsParent, AbsCode
<1>2. Inv /\ PidsOfBlocks /\ [Next]_vars => [Tree!Next]_(Tree!vars)
  BY NextSeen DEF SeenStep, AbsState, AbsParent, AbsCode, Tree!vars
<1> QED BY <1>1, <1>2, TaskInvariant, PidsBounded, PTL DEF Spec, TreeSpec, Tree!Spec

-------------------------------------------------------------------------------
(* initproc and user_shell.                                                *)

\* The task s still can run after the step, and each child it had is still
\* its child under the same pid.
FamilyKept(s) ==
  /\ s \in Runnable'
  /\ \A t \in Live \ {INITPROC} :
        parent[t] = s => t \in Live' /\ parent'[t] = s /\ pid'[t] = pid[t]

\* The pid the shell waits for is that of a child of the shell.
ChildIsThere ==
  \E t \in Live \ {INITPROC} : parent[t] = shell /\ pid[t] = shell_child

\* The inductive invariant of the two programs.
ProgramsInv ==
  /\ init_pc \in {"fork", "wait", "yield"}
  /\ init_pc = "fork" => shell = None
  /\ shell # None => shell \in Runnable \ {INITPROC}
  /\ shell = None => shell_pc = "exec"
  /\ shell_pc \in {"exec", "read", "fork", "wait", "yield"}
  /\ shell_pc \in {"wait", "yield"} => ChildIsThere

-------------------------------------------------------------------------------
(* What a step leaves of the families.                                     *)

\* Nobody is born, ends or is collected in the step.
SameLives == Live' = Live /\ Runnable' = Runnable /\ UNCHANGED <<parent, pid>>

LEMMA QuietFamilies ==
  ASSUME NEW s \in Runnable, SameLives
  PROVE  FamilyKept(s)
BY DEF FamilyKept, SameLives

(* Giving up the processor, ...                                            *)
LEMMA SuspendLives ==
  ASSUME Inv, NEW c \in Tcb, current = c, NEW where,
         suspend_current_and_run_next(c, where)
  PROVE  SameLives
<1>1. status[c] = "Running" /\ status' = [status EXCEPT ![c] = "Ready"]
  BY CurrentIsRunning DEF suspend_current_and_run_next
<1>2. Live' = Live /\ Runnable' = Runnable
  BY <1>1 DEF Live, Runnable, Inv, TypeOK
<1> QED BY <1>2 DEF suspend_current_and_run_next, SameLives

(* ... being given it, ...                                                 *)
LEMMA RunLives ==
  ASSUME Inv, run_tasks
  PROVE  SameLives
<1> DEFINE h == Head(ready_queue)
<1>1. h \in Range(ready_queue) /\ h \in Tcb
  BY TailLemma DEF run_tasks, Inv, TypeOK, ScheduledExactlyOnce
<1>2. status[h] = "Ready" /\ status' = [status EXCEPT ![h] = "Running"]
  BY <1>1 DEF run_tasks, Inv, ScheduledExactlyOnce
<1> HIDE DEF h
<1>3. Live' = Live /\ Runnable' = Runnable
  BY <1>1, <1>2 DEF Live, Runnable, Inv, TypeOK
<1> QED BY <1>3 DEF run_tasks, SameLives

(* ... anything that keeps status, parents and pids, ...                   *)
LEMMA LocalLives ==
  ASSUME UNCHANGED <<status, parent, pid>>
  PROVE  SameLives
BY DEF Live, Runnable, SameLives

(* ... and waiting for a character are such steps.                         *)
LEMMA ReadLives ==
  ASSUME Inv, NEW c \in Tcb, sys_read(c)
  PROVE  SameLives
<1>1. CASE suspend_current_and_run_next(c, "sys_read")
  BY <1>1, SuspendLives DEF sys_read, sys_read_wait, sys_read_done
<1>2. CASE ~suspend_current_and_run_next(c, "sys_read")
  BY <1>2, LocalLives DEF sys_read, sys_read_wait, sys_read_done
<1> QED BY <1>1, <1>2

(* fork uses a block that is free, so it takes nobody's child, the forking *)
(* process's own included.                                                 *)
LEMMA ForkFamilies ==
  ASSUME Inv, NEW c \in Tcb, NEW n \in Tcb, sys_fork(c, n), NEW s \in Runnable
  PROVE  /\ FamilyKept(s)
         /\ n \in Runnable' \ {INITPROC} /\ parent'[n] = c /\ pid'[n] = NextPid
<1>1. /\ n \notin Live
      /\ status' = [status EXCEPT ![n] = "Ready"]
      /\ pid' = [pid EXCEPT ![n] = NextPid]
      /\ parent' = [parent EXCEPT ![n] = c]
  BY DEF sys_fork
<1>2. /\ status \in [Tcb -> {"Free", "Ready", "Running", "Zombie"}]
      /\ pid \in [Tcb -> Nat \cup {NoPid}] /\ parent \in [Tcb -> Tcb \cup {None}]
  BY DEF Inv, TypeOK
<1>3. Live' = Live \cup {n} /\ Runnable' = Runnable \cup {n}
  BY <1>1, <1>2 DEF Live, Runnable
<1>4. n # INITPROC
  BY <1>1 DEF Inv, InitProcRunnable, Live, Runnable
<1>5. \A t \in Live : t \in Tcb
  BY DEF Live
<1> QED BY <1>1, <1>2, <1>3, <1>4, <1>5 DEF FamilyKept

(* exit gives the children of the exiting process to INITPROC and leaves   *)
(* the other families alone.                                               *)
LEMMA ExitFamilies ==
  ASSUME Inv, NEW c \in Tcb, current = c, NEW code,
         exit_current_and_run_next(c, code), NEW s \in Runnable, s # c
  PROVE  FamilyKept(s)
<1>1. CASE c = INITPROC
  BY <1>1, ExitBorrows, LocalLives, QuietFamilies DEF exit_current_and_run_next, Panic, tcbVars
<1>2. CASE c # INITPROC
  <2>1. /\ status' = [status EXCEPT ![c] = "Zombie"] /\ pid' = pid
        /\ parent' = [t \in Tcb |-> IF t \in Range(children[c]) THEN INITPROC
                                                                ELSE parent[t]]
    BY <1>2, ExitBorrows DEF exit_current_and_run_next, initproc_adopts
  <2>2. /\ status \in [Tcb -> {"Free", "Ready", "Running", "Zombie"}]
        /\ parent \in [Tcb -> Tcb \cup {None}] /\ c \in Live
    BY CurrentIsRunning DEF Inv, TypeOK
  <2>3. Live' = Live /\ s \in Runnable'
    BY <2>1, <2>2 DEF Live, Runnable
  <2>4. ASSUME NEW t \in Live \ {INITPROC}, parent[t] = s PROVE parent'[t] = s
    <3>1. t \in Tcb /\ t \notin Range(children[c])
      BY <2>4 DEF Live, Inv, ParentsMatchChildren, OwnerIsParent
    <3> QED BY <2>1, <2>4, <3>1
  <2> QED BY <2>1, <2>3, <2>4 DEF FamilyKept
<1> QED BY <1>1, <1>2

(* waitpid takes a zombie, and only from the vector of the caller.         *)
LEMMA WaitFamilies ==
  ASSUME Inv, NEW c \in Tcb, NEW arg \in Int, sys_waitpid(c, arg),
         NEW s \in Runnable, s # c
  PROVE  FamilyKept(s)
<1>0. current = c
  BY DEF sys_waitpid, InUser
<1>1. CASE waitpid_none(c, arg)
  BY <1>1, LocalLives, QuietFamilies DEF waitpid_none, tcbVars
<1>2. ASSUME NEW i \in Reapable(c, arg), waitpid_reap(c, arg, i) PROVE FamilyKept(s)
  <2> DEFINE z == children[c][i]
  <2>1. parent[z] = c /\ z \in Tcb /\ z \notin Runnable
    BY <1>0, ReapedZombie
  <2>2. /\ status' = [status EXCEPT ![z] = "Free"]
        /\ pid' = [pid EXCEPT ![z] = NoPid]
        /\ parent' = [parent EXCEPT ![z] = None]
    BY <1>2 DEF waitpid_reap
  <2>3. /\ status \in [Tcb -> {"Free", "Ready", "Running", "Zombie"}]
        /\ pid \in [Tcb -> Nat \cup {NoPid}] /\ parent \in [Tcb -> Tcb \cup {None}]
    BY DEF Inv, TypeOK
  <2> HIDE DEF z
  <2>4. s # z
    BY <2>1
  <2>5. s \in Runnable'
    BY <2>1, <2>2, <2>3, <2>4 DEF Runnable
  <2>6. ASSUME NEW t \in Live \ {INITPROC}, parent[t] = s
        PROVE  t \in Live' /\ parent'[t] = s /\ pid'[t] = pid[t]
    <3>1. t \in Tcb /\ t # z
      BY <2>1, <2>6 DEF Live
    <3> QED BY <2>2, <2>3, <2>6, <3>1 DEF Live
  <2> QED BY <2>5, <2>6 DEF FamilyKept
<1> QED BY <1>1, <1>2 DEF sys_waitpid

(* Nothing another process does ends the process s or takes a child of it. *)
LEMMA OthersKeepFamilies ==
  ASSUME Inv, NEW c \in Tcb, trap_handler(c), NEW s \in Runnable, s # c
  PROVE  FamilyKept(s)
<1>1. CASE timer_interrupt(c) \/ sys_yield(c)
  BY <1>1, SuspendLives, QuietFamilies DEF timer_interrupt, sys_yield, InUser
<1>2. CASE sys_read(c)
  BY <1>2, ReadLives, QuietFamilies
<1>3. ASSUME NEW n \in Tcb, sys_fork(c, n) PROVE FamilyKept(s)
  BY <1>3, ForkFamilies
<1>4. ASSUME NEW path \in Path, sys_exec(c, path) PROVE FamilyKept(s)
  BY <1>4, LocalLives, QuietFamilies DEF sys_exec
<1>5. ASSUME NEW code \in UserCode, sys_exit(c, code) PROVE FamilyKept(s)
  BY <1>5, ExitFamilies DEF sys_exit, InUser
<1>6. ASSUME NEW arg \in {-1} \cup (0 .. pid_current), sys_waitpid(c, arg)
      PROVE  FamilyKept(s)
  BY <1>6, WaitFamilies DEF Inv, TypeOK
<1>7. CASE fault(c)
  BY <1>7, ExitFamilies DEF fault, InUser
<1>8. CASE unsupported(c)
  BY <1>8, LocalLives, QuietFamilies DEF unsupported, Panic, tcbVars
<1> QED BY <1>1, <1>2, <1>3, <1>4, <1>5, <1>6, <1>7, <1>8 DEF trap_handler

-------------------------------------------------------------------------------
(* The programs are processes, and their invariant is inductive.           *)

LEMMA InitPrograms1 == InitPrograms => Inv /\ ProgramsInv
BY InitInv DEF InitPrograms, ProgramsInv

\* A step of the shell's own or of somebody else that keeps its family and
\* that the programs do not notice.
LEMMA ProgramsUnmoved ==
  ASSUME ProgramsInv, UNCHANGED programVars,
         shell # None => FamilyKept(shell)
  PROVE  ProgramsInv'
BY DEF ProgramsInv, FamilyKept, ChildIsThere, programVars

(* The kernel by itself, the other programs, initproc and the shell: each  *)
(* makes a step of the process layer that keeps the shell's child.         *)
LEMMA KernelStep ==
  ASSUME Inv, ProgramsInv, running, kernel
  PROVE  Next /\ ProgramsInv'
<1>1. INITPROC \in Tcb /\ (shell # None => shell \in Tcb /\ shell \in Runnable)
  BY TaskAssumption DEF ProgramsInv, Runnable
<1>2. Next
  BY <1>1 DEF kernel, running, Next, trap_handler
<1>3. shell # None => FamilyKept(shell)
  <2> SUFFICES ASSUME shell # None PROVE FamilyKept(shell)
    OBVIOUS
  <2>1. CASE run_tasks
    BY <1>1, <2>1, RunLives, QuietFamilies
  <2>2. ASSUME NEW c \in Tcb, trap_return(c) PROVE FamilyKept(shell)
    BY <1>1, <2>2, LocalLives, QuietFamilies DEF trap_return
  <2>3. ASSUME NEW c \in Tcb, timer_interrupt(c) PROVE FamilyKept(shell)
    BY <1>1, <2>3, SuspendLives, QuietFamilies DEF timer_interrupt, InUser
  <2> QED BY <1>1, <2>1, <2>2, <2>3 DEF kernel
<1> QED BY <1>2, <1>3, ProgramsUnmoved DEF kernel

LEMMA OthersStep ==
  ASSUME Inv, ProgramsInv, running, others
  PROVE  Next /\ ProgramsInv'
<1>1. PICK c \in Tcb \ {INITPROC, shell} : trap_handler(c)
  BY DEF others
<1>2. Next
  BY <1>1 DEF Next, running
<1>3. shell # None => FamilyKept(shell)
  BY <1>1, OthersKeepFamilies DEF ProgramsInv
<1> QED BY <1>2, <1>3, ProgramsUnmoved DEF others

LEMMA InitprocStep ==
  ASSUME Inv, ProgramsInv, running, initproc
  PROVE  Next /\ ProgramsInv'
<1>0. INITPROC \in Tcb /\ INITPROC \in Runnable /\ None \notin Tcb
  BY TaskAssumption DEF Inv, InitProcRunnable
<1>1. ASSUME initproc_fork PROVE Next /\ ProgramsInv'
  <2>1. PICK n \in Tcb : sys_fork(INITPROC, n) /\ shell' = n
    BY <1>1 DEF initproc_fork
  <2>2. n \in Runnable' \ {INITPROC}
    BY <1>0, <2>1, ForkFamilies
  <2>3. Next
    BY <1>0, <2>1 DEF Next, running, trap_handler
  <2>4. shell = None /\ shell_pc = "exec" /\ init_pc' = "wait" /\ shell_pc' = shell_pc
    BY <1>1 DEF initproc_fork, ProgramsInv
  <2> QED BY <1>0, <2>1, <2>2, <2>3, <2>4 DEF ProgramsInv
<1>2. ASSUME initproc_wait \/ initproc_yield PROVE Next /\ ProgramsInv'
  <2>1. trap_handler(INITPROC)
    BY <1>2 DEF initproc_wait, initproc_yield, trap_handler
  <2>2. Next
    BY <1>0, <2>1 DEF Next, running
  <2>3. shell # None => FamilyKept(shell)
    BY <1>0, <2>1, OthersKeepFamilies DEF ProgramsInv
  <2>4. init_pc' \in {"wait", "yield"} /\ UNCHANGED <<shell, shell_pc, shell_child>>
    BY <1>2 DEF initproc_wait, initproc_yield
  <2> QED BY <2>2, <2>3, <2>4 DEF ProgramsInv, FamilyKept, ChildIsThere
<1> QED BY <1>1, <1>2 DEF initproc

\* While the child of the shell has not exited, waitpid answers -2, and then
\* its pid: never that there is no such child, and never another's pid.
LEMMA ShellWaitStep ==
  ASSUME Inv, ProgramsInv, shell \in Tcb, shell_waitpid
  PROVE  trap_handler(shell) /\ ProgramsInv'
<1>1. /\ sys_waitpid(shell, shell_child) /\ current = shell
      /\ UNCHANGED <<init_pc, shell, shell_child>>
  BY DEF shell_waitpid, sys_waitpid, InUser
<1>2. PICK t \in Live \ {INITPROC} : parent[t] = shell /\ pid[t] = shell_child
  BY DEF shell_waitpid, ProgramsInv, ChildIsThere
<1>3. shell_child \in 0 .. pid_current - 1 /\ shell_child \in Nat
  <2>1. pid[t] \in 0 .. pid_current - 1
    BY <1>2 DEF Inv, PidsExact
  <2> QED BY <1>2, <2>1 DEF Inv, TypeOK
<1>4. trap_handler(shell)
  <2>1. shell_child \in {-1} \cup (0 .. pid_current)
    BY <1>3 DEF Inv, TypeOK
  <2> QED BY <1>1, <2>1 DEF trap_handler
<1>5. t \in Tcb /\ t \in Range(children[shell])
  BY <1>2 DEF Live, Inv, ParentsMatchChildren, OwnerIsParent
<1>6. Matching(shell, shell_child) # {}
  BY <1>2, <1>5 DEF Matching, Range
<1>7. shell_pc' = CASE ret'.val = -2          -> "yield"
                    [] ret'.val = shell_child -> "read"
                    [] OTHER                  -> "assertion failed"
  BY DEF shell_waitpid
<1>8. ASSUME waitpid_none(shell, shell_child) PROVE ProgramsInv'
  <2>1. ret'.val = -2
    BY <1>6, <1>8 DEF waitpid_none, WaitAnswer
  <2>2. shell_pc' = "yield"
    <3>1. ret'.val # shell_child
      BY <1>3, <2>1
    <3> QED BY <1>7, <2>1, <3>1, Zenon
  <2>3. FamilyKept(shell)
    BY <1>8, LocalLives, QuietFamilies DEF waitpid_none, tcbVars, shell_waitpid, ProgramsInv
  <2> QED BY <1>1, <2>2, <2>3 DEF ProgramsInv, FamilyKept, ChildIsThere, shell_waitpid
<1>9. ASSUME NEW i \in Reapable(shell, shell_child),
             waitpid_reap(shell, shell_child, i)
      PROVE  ProgramsInv'
  <2> DEFINE z == children[shell][i]
  <2>1. z \in Tcb /\ z \notin Runnable /\ pid[z] = shell_child
    <3>1. z \in Tcb /\ z \notin Runnable
      BY <1>1, <1>3, ReapedZombie
    <3>2. shell_child = -1 \/ shell_child = pid[z]
      BY DEF Reapable, Matching
    <3> QED BY <1>3, <3>1, <3>2
  <2>2. ret'.val = shell_child /\ status' = [status EXCEPT ![z] = "Free"]
    BY <1>9, <2>1 DEF waitpid_reap, WaitAnswer
  <2>3. shell_pc' = "read"
    <3>1. ret'.val # -2
      BY <1>3, <2>2
    <3> QED BY <1>7, <2>2, <3>1, Zenon
  <2> HIDE DEF z
  <2>4. shell # None => shell \in Runnable'
    BY <2>1, <2>2 DEF ProgramsInv, Runnable, Inv, TypeOK
  <2> QED BY <1>1, <2>3, <2>4 DEF ProgramsInv, shell_waitpid
<1> QED BY <1>1, <1>4, <1>8, <1>9 DEF sys_waitpid

LEMMA ShellStep ==
  ASSUME Inv, ProgramsInv, running, shell # None, user_shell
  PROVE  Next /\ ProgramsInv'
<1>0. shell \in Runnable /\ shell \in Tcb /\ shell # INITPROC
  BY DEF ProgramsInv, Runnable
<1>1. ASSUME shell_exec PROVE trap_handler(shell) /\ ProgramsInv'
  <2>1. trap_handler(shell)
    BY <1>1, ShellAssumption, TaskAssumption DEF shell_exec, trap_handler
  <2>2. FamilyKept(shell)
    BY <1>0, <1>1, LocalLives, QuietFamilies DEF shell_exec, sys_exec
  <2> QED BY <1>1, <2>1, <2>2 DEF shell_exec, ProgramsInv, FamilyKept
<1>2. ASSUME shell_read PROVE trap_handler(shell) /\ ProgramsInv'
  <2>1. trap_handler(shell) /\ FamilyKept(shell)
    BY <1>0, <1>2, ReadLives, QuietFamilies DEF shell_read, trap_handler
  <2>2. shell_pc' \in {"read", "fork"} /\ UNCHANGED <<init_pc, shell, shell_child>>
    BY <1>2 DEF shell_read
  <2> QED BY <2>1, <2>2 DEF ProgramsInv, FamilyKept
<1>3. ASSUME shell_fork PROVE trap_handler(shell) /\ ProgramsInv'
  <2>1. PICK n \in Tcb : sys_fork(shell, n)
    BY <1>3 DEF shell_fork
  <2>2. /\ FamilyKept(shell) /\ n \in Runnable' \ {INITPROC}
        /\ parent'[n] = shell /\ pid'[n] = NextPid
    BY <1>0, <2>1, ForkFamilies
  <2>3. n \in Live'
    BY <2>2 DEF Live, Runnable
  <2>4. /\ shell_child' = NextPid /\ shell_pc' = "wait" /\ UNCHANGED <<init_pc, shell>>
        /\ shell_pc = "fork"
    BY <1>3, <2>1 DEF shell_fork, sys_fork
  <2>5. trap_handler(shell)
    BY <2>1 DEF trap_handler
  <2> QED BY <2>2, <2>3, <2>4, <2>5 DEF ProgramsInv, FamilyKept, ChildIsThere
<1>4. ASSUME shell_waitpid PROVE trap_handler(shell) /\ ProgramsInv'
  BY <1>0, <1>4, ShellWaitStep
<1>5. ASSUME shell_yield PROVE trap_handler(shell) /\ ProgramsInv'
  <2>1. trap_handler(shell) /\ FamilyKept(shell)
    BY <1>0, <1>5, SuspendLives, QuietFamilies DEF shell_yield, trap_handler, sys_yield, InUser
  <2> QED BY <1>5, <2>1 DEF shell_yield, ProgramsInv, FamilyKept, ChildIsThere
<1>6. trap_handler(shell) /\ ProgramsInv'
  BY <1>1, <1>2, <1>3, <1>4, <1>5 DEF user_shell
<1> QED BY <1>0, <1>6 DEF Next, running

(* Every step of the system with the two programs in it is a step of the   *)
(* process layer, and keeps the invariant of the programs.                 *)
LEMMA NextPrograms1 ==
  Inv /\ ProgramsInv /\ [NextPrograms]_allVars => [Next]_vars /\ ProgramsInv'
<1> SUFFICES ASSUME Inv, ProgramsInv, [NextPrograms]_allVars
             PROVE  [Next]_vars /\ ProgramsInv'
  OBVIOUS
<1>1. CASE running /\ kernel
  BY <1>1, KernelStep
<1>2. CASE running /\ initproc
  BY <1>2, InitprocStep
<1>3. CASE running /\ shell # None /\ user_shell
  BY <1>3, ShellStep
<1>4. CASE running /\ others
  BY <1>4, OthersStep
<1>5. CASE (shutdown /\ UNCHANGED programVars) \/ UNCHANGED allVars
  <2>1. UNCHANGED vars /\ UNCHANGED programVars
    BY <1>5 DEF shutdown, allVars
  <2>2. shell # None => FamilyKept(shell)
    BY <2>1, LocalLives, QuietFamilies DEF vars, tcbVars, ProgramsInv
  <2> QED BY <2>1, <2>2, ProgramsUnmoved
<1> QED BY <1>1, <1>2, <1>3, <1>4, <1>5 DEF NextPrograms

(* initproc and user_shell are processes like any other: what they and the *)
(* arbitrary programs do together is a behaviour of the process layer, so  *)
(* every theorem about it holds of the running system.                     *)
THEOREM ProgramsAreProcesses == SpecPrograms => Spec
<1>1. InitPrograms => Init
  BY DEF InitPrograms
<1> QED BY <1>1, InitPrograms1, NextPrograms1, NextInv, PTL DEF SpecPrograms, Spec

(* The assert_eq!(pid, exit_pid) of user_shell.rs never fails: the waitpid *)
(* wrapper comes back with the pid that fork answered, whatever the other  *)
(* processes fork, collect or leave to INITPROC in the meantime.           *)
THEOREM ShellAssertion == SpecPrograms => []ShellAssertHolds
<1>1. ProgramsInv => ShellAssertHolds
  BY DEF ProgramsInv, ShellAssertHolds
<1> QED BY <1>1, InitPrograms1, NextPrograms1, NextInv, PTL DEF SpecPrograms

-------------------------------------------------------------------------------
(* The process layer and the address spaces together.  The theorems about  *)
(* MemorySet are used at the same place as MemorySet itself.               *)
MP == INSTANCE MemorySetProofs WITH App <- AppNames, panic <- mm_panic

(* MP and M are one model.                                                 *)
LEMMA OneModel ==
  /\ M!Pid = MP!Pid /\ M!Page = MP!Page
  /\ M!TRAP_CONTEXT = MP!TRAP_CONTEXT /\ M!Kernel = MP!Kernel
  /\ \A p : M!KernelStack(p) = MP!KernelStack(p) /\ M!get_top(p) = MP!get_top(p)
  /\ \A app, k : M!TrapContext(app, k) = MP!TrapContext(app, k)
  /\ M!Init <=> MP!Init
  /\ M!vars = MP!vars
  /\ \A app : M!new(app) <=> MP!new(app)
  /\ \A p, n : M!fork(p, n) <=> MP!fork(p, n)
  /\ \A p, app : M!exec(p, app) <=> MP!exec(p, app)
  /\ \A p : M!recycle_data_pages(p) <=> MP!recycle_data_pages(p)
  /\ \A p, v, x : M!user_write(p, v, x) <=> MP!user_write(p, v, x)
  /\ \A p, v, x : M!sys_read(p, v, x) <=> MP!sys_read(p, v, x)
  /\ \A p, z, v, x : M!waitpid(p, z, v, x) <=> MP!waitpid(p, z, v, x)
  /\ M!Next <=> MP!Next
  /\ M!LayoutAssumption <=> MP!LayoutAssumption
  /\ M!FrameAssumption <=> MP!FrameAssumption
  /\ M!FramesForAssumption <=> MP!FramesForAssumption
<1> USE DEF
     M!spaceVars, M!vars, M!Pid, M!Page, M!TRAP_CONTEXT, M!Kernel, M!Space,
     M!floor, M!ceil, M!MapArea, M!Pages, M!PagesOf, M!Segment, M!user_stack,
     M!from_elf, M!kernel_stack_position, M!KernelStack, M!Overlaps, M!Zero,
     M!Untouched, M!Garbage, M!Written, M!TrapContext, M!FrameTracker_new,
     M!get_top, M!copy_data, M!elf_image, M!set_kernel_sp, M!Nowhere, M!Init,
     M!Panic, M!allocations, M!Mapped, M!fresh_table, M!PageIn, M!Owned,
     M!Conflict, M!filled, M!create, M!new, M!copied_image, M!fork,
     M!cache_trap_cx, M!released, M!exec, M!user_write, M!kernel_store,
     M!bad_pointer, M!sys_read, M!waitpid, M!recycle_data_pages,
     M!Without, M!unmap, M!drop, M!shutdown, M!Next, M!Spec, M!Range,
     M!Injection, M!IsInjective, M!Cardinality, M!LayoutAssumption,
     M!FrameAssumption, M!FramesForAssumption, MP!spaceVars, MP!vars, MP!Pid,
     MP!Page, MP!TRAP_CONTEXT, MP!Kernel, MP!Space, MP!floor, MP!ceil,
     MP!MapArea, MP!Pages, MP!PagesOf, MP!Segment, MP!user_stack, MP!from_elf,
     MP!kernel_stack_position, MP!KernelStack, MP!Overlaps, MP!Zero,
     MP!Untouched, MP!Garbage, MP!Written, MP!TrapContext, MP!FrameTracker_new,
     MP!get_top, MP!copy_data, MP!elf_image, MP!set_kernel_sp, MP!Nowhere,
     MP!Init, MP!Panic, MP!allocations, MP!Mapped, MP!fresh_table, MP!PageIn,
     MP!Owned, MP!Conflict, MP!filled, MP!create, MP!new, MP!copied_image,
     MP!fork, MP!cache_trap_cx, MP!released, MP!exec, MP!user_write,
     MP!kernel_store, MP!bad_pointer, MP!sys_read, MP!waitpid,
     MP!recycle_data_pages, MP!Without, MP!unmap, MP!drop, MP!shutdown,
     MP!Next, MP!Spec, MP!Range, MP!Injection, MP!IsInjective, MP!Cardinality,
     MP!LayoutAssumption, MP!FrameAssumption, MP!FramesForAssumption
<1>1. /\ M!Pid = MP!Pid /\ M!Page = MP!Page
      /\ M!TRAP_CONTEXT = MP!TRAP_CONTEXT /\ M!Kernel = MP!Kernel
  OBVIOUS
<1>2. ASSUME NEW p PROVE M!KernelStack(p) = MP!KernelStack(p) /\ M!get_top(p) = MP!get_top(p)
  OBVIOUS
<1>3. ASSUME NEW app, NEW k PROVE M!TrapContext(app, k) = MP!TrapContext(app, k)
  OBVIOUS
<1>4. M!Init <=> MP!Init
  OBVIOUS
<1>5. M!vars = MP!vars
  OBVIOUS
<1>6. ASSUME NEW app PROVE M!new(app) <=> MP!new(app)
  OBVIOUS
<1>7. ASSUME NEW p, NEW n PROVE M!fork(p, n) <=> MP!fork(p, n)
  OBVIOUS
<1>8. ASSUME NEW p, NEW app PROVE M!exec(p, app) <=> MP!exec(p, app)
  OBVIOUS
<1>9. ASSUME NEW p PROVE M!recycle_data_pages(p) <=> MP!recycle_data_pages(p)
  OBVIOUS
<1>10. ASSUME NEW p, NEW v, NEW x
       PROVE  /\ M!user_write(p, v, x) <=> MP!user_write(p, v, x)
              /\ M!sys_read(p, v, x) <=> MP!sys_read(p, v, x)
  OBVIOUS
<1>15. ASSUME NEW p, NEW z, NEW v, NEW x
       PROVE  M!waitpid(p, z, v, x) <=> MP!waitpid(p, z, v, x)
  OBVIOUS
<1>11. M!Next <=> MP!Next
  OBVIOUS
<1>12. M!LayoutAssumption <=> MP!LayoutAssumption
  OBVIOUS
<1>13. M!FrameAssumption <=> MP!FrameAssumption
  OBVIOUS
<1>14. M!FramesForAssumption <=> MP!FramesForAssumption
  OBVIOUS
<1> HIDE DEF
     M!spaceVars, M!vars, M!Pid, M!Page, M!TRAP_CONTEXT, M!Kernel, M!Space,
     M!floor, M!ceil, M!MapArea, M!Pages, M!PagesOf, M!Segment, M!user_stack,
     M!from_elf, M!kernel_stack_position, M!KernelStack, M!Overlaps, M!Zero,
     M!Untouched, M!Garbage, M!Written, M!TrapContext, M!FrameTracker_new,
     M!get_top, M!copy_data, M!elf_image, M!set_kernel_sp, M!Nowhere, M!Init,
     M!Panic, M!allocations, M!Mapped, M!fresh_table, M!PageIn, M!Owned,
     M!Conflict, M!filled, M!create, M!new, M!copied_image, M!fork,
     M!cache_trap_cx, M!released, M!exec, M!user_write, M!kernel_store,
     M!bad_pointer, M!sys_read, M!waitpid, M!recycle_data_pages,
     M!Without, M!unmap, M!drop, M!shutdown, M!Next, M!Spec, M!Range,
     M!Injection, M!IsInjective, M!Cardinality, M!LayoutAssumption,
     M!FrameAssumption, M!FramesForAssumption, MP!spaceVars, MP!vars, MP!Pid,
     MP!Page, MP!TRAP_CONTEXT, MP!Kernel, MP!Space, MP!floor, MP!ceil,
     MP!MapArea, MP!Pages, MP!PagesOf, MP!Segment, MP!user_stack, MP!from_elf,
     MP!kernel_stack_position, MP!KernelStack, MP!Overlaps, MP!Zero,
     MP!Untouched, MP!Garbage, MP!Written, MP!TrapContext, MP!FrameTracker_new,
     MP!get_top, MP!copy_data, MP!elf_image, MP!set_kernel_sp, MP!Nowhere,
     MP!Init, MP!Panic, MP!allocations, MP!Mapped, MP!fresh_table, MP!PageIn,
     MP!Owned, MP!Conflict, MP!filled, MP!create, MP!new, MP!copied_image,
     MP!fork, MP!cache_trap_cx, MP!released, MP!exec, MP!user_write,
     MP!kernel_store, MP!bad_pointer, MP!sys_read, MP!waitpid,
     MP!recycle_data_pages, MP!Without, MP!unmap, MP!drop, MP!shutdown,
     MP!Next, MP!Spec, MP!Range, MP!Injection, MP!IsInjective, MP!Cardinality,
     MP!LayoutAssumption, MP!FrameAssumption, MP!FramesForAssumption
<1> QED BY <1>1, <1>2, <1>3, <1>4, <1>5, <1>6, <1>7, <1>8, <1>9, <1>10, <1>11, <1>12, <1>13, <1>14, <1>15

(* What the theorems about MemorySet assume holds of the constants.        *)
LEMMA MemoryConstants ==
  MP!LayoutAssumption /\ MP!FrameAssumption /\ MP!FramesForAssumption
BY MemoryAssumption, OneModel

\* A live block has a live or a zombie memory, by its own state, and no other
\* memory is in use.
LivesAgree ==
  /\ \A t \in Live : /\ pid[t] \in MP!Pid
                     /\ proc[pid[t]] = IF t \in Runnable THEN "live" ELSE "zombie"
  /\ \A p \in MP!Pid : proc[p] # "none" => \E t \in Live : pid[t] = p

\* The context of a process that can run is that of the program the process
\* executes.
OwnProgram(t) ==
  MP!MemoryOf[pid[t]][MP!TRAP_CONTEXT] = MP!TrapContext(image[t], MP!get_top(pid[t]))

Together ==
  /\ mm_panic = "none"
  /\ LivesAgree
  /\ \A t \in Runnable : image[t] \in AppNames /\ OwnProgram(t)

\* A call has overwritten the trap context of its own process: the others have
\* theirs, and all have the areas of their programs.
Overwritten ==
  /\ mm_panic = "overwritten"
  /\ LivesAgree
  /\ \A t \in Runnable : /\ image[t] \in AppNames
                         /\ areas[pid[t]] = MP!from_elf(image[t])
                         /\ t # current => OwnProgram(t)

Agree == Together \/ Overwritten

\* The inductive invariant of the composition.
KInv ==
  /\ Inv /\ PidsOfBlocks /\ MP!Inv
  /\ ~booted => Init /\ \A p \in MP!Pid : proc[p] = "none"
  /\ booted /\ panic = "none" => Agree

\* What a step does: it is a step of both layers, and they agree afterwards
\* or the machine is off.
KStep ==
  /\ [Next]_vars /\ [MP!Next]_(MP!vars)
  /\ IF panic' = "none" THEN Agree' ELSE proc' = proc

(* proc has one of its three values for every pid.                         *)
LEMMA ProcShape ==
  ASSUME MP!Inv
  PROVE  proc \in [MP!Pid -> {"none", "live", "zombie"}]
BY DEF MP!Inv, MP!FramesOwnedOnce, MP!TypeOK

(* Two live blocks never have the same memory.                             *)
LEMMA DistinctPids ==
  ASSUME Inv, NEW t \in Live, NEW u \in Live, t # u
  PROVE  pid[t] # pid[u]
BY DEF Inv, PidsExact

(* A step of the scheduler, or a call without effect on memory.            *)
LEMMA QuietTogether ==
  ASSUME Together, SameLives, UNCHANGED <<image, memoryVars>>
  PROVE  Together'
<1>1. MP!MemoryOf' = MP!MemoryOf
  BY DEF memoryVars, MP!MemoryOf, MP!Visible
<1> QED BY <1>1 DEF Together, LivesAgree, OwnProgram, SameLives, memoryVars

LEMMA QuietOverwritten ==
  ASSUME Overwritten, SameLives, UNCHANGED <<image, current, memoryVars>>
  PROVE  Overwritten'
<1>1. MP!MemoryOf' = MP!MemoryOf
  BY DEF memoryVars, MP!MemoryOf, MP!Visible
<1> QED BY <1>1 DEF Overwritten, LivesAgree, OwnProgram, SameLives, memoryVars

(* fork: the new pid's memory is that of the new block, with the image of  *)
(* the caller in the child's own context.                                  *)
LEMMA ForkTogether ==
  ASSUME Inv, MP!Inv, Together, panic = "none", NEW c \in Tcb, NEW n \in Tcb,
         NextPid \in MP!Pid, sys_fork(c, n), MP!fork(pid[c], NextPid), mm_panic' = "none"
  PROVE  panic' = "none" /\ Together'
<1> DEFINE k == NextPid
           app == image[c]
<1>1. /\ c \in Runnable /\ c \in Live /\ Runnable \subseteq Live /\ Live \subseteq Tcb
  BY CurrentIsRunning DEF sys_fork, InUser, Live, Runnable
<1>2. /\ n \notin Live /\ panic' = panic
      /\ status' = [status EXCEPT ![n] = "Ready"]
      /\ pid' = [pid EXCEPT ![n] = k]
      /\ image' = [image EXCEPT ![n] = app]
  BY NextPidIsFree DEF sys_fork
<1>3. \A t \in Live : pid[t] # k
  BY NextPidIsFree
<1> HIDE DEF k, app
<1>4. Live' = Live \cup {n} /\ Runnable' = Runnable \cup {n}
  BY <1>2 DEF Live, Runnable, Inv, TypeOK
<1>5. /\ pid'[n] = k /\ image'[n] = app
      /\ \A t \in Live : pid'[t] = pid[t] /\ image'[t] = image[t]
  BY <1>1, <1>2 DEF Inv, TypeOK
<1>6. /\ pid[c] \in MP!Pid /\ k \in MP!Pid /\ MP!fork(pid[c], k)
      /\ app \in AppNames
      /\ MP!MemoryOf[pid[c]][MP!TRAP_CONTEXT] = MP!TrapContext(app, MP!get_top(pid[c]))
  BY <1>1 DEF Together, LivesAgree, OwnProgram, k, app
<1>7. /\ proc' = [proc EXCEPT ![k] = "live"]
      /\ MP!MemoryOf' = [MP!MemoryOf EXCEPT ![k] =
            [MP!MemoryOf[pid[c]] EXCEPT ![MP!TRAP_CONTEXT] = MP!OwnContext(@, k)]]
  BY <1>6, MP!forkSees, MemoryConstants DEF MP!Panic, Together
<1>8. proc'[k] = "live" /\ \A q \in MP!Pid \ {k} : proc'[q] = proc[q]
  BY <1>6, <1>7, ProcShape
<1>9. /\ MP!MemoryOf'[k][MP!TRAP_CONTEXT] = MP!TrapContext(app, MP!get_top(k))
      /\ \A q \in MP!Pid \ {k} : MP!MemoryOf'[q] = MP!MemoryOf[q]
  <2>1. MP!OwnContext(MP!MemoryOf[pid[c]][MP!TRAP_CONTEXT], k) = MP!TrapContext(app, MP!get_top(k))
    BY <1>6, MP!Contexts, MemoryConstants DEF MP!OwnContext
  <2> QED BY <1>6, <1>7, <2>1, MP!MemoryShape, MemoryConstants
<1>10. \A t \in Live' : /\ pid'[t] \in MP!Pid
                        /\ proc'[pid'[t]] = IF t \in Runnable' THEN "live" ELSE "zombie"
  BY <1>2, <1>3, <1>4, <1>5, <1>6, <1>8 DEF Together, LivesAgree, OwnProgram
<1>11. \A p \in MP!Pid : proc'[p] # "none" => \E t \in Live' : pid'[t] = p
  BY <1>4, <1>5, <1>8 DEF Together, LivesAgree, OwnProgram
<1>12. \A t \in Runnable' :
         /\ image'[t] \in AppNames
         /\ MP!MemoryOf'[pid'[t]][MP!TRAP_CONTEXT] = MP!TrapContext(image'[t], MP!get_top(pid'[t]))
  <2>1. ASSUME NEW t \in Runnable
        PROVE  /\ image'[t] \in AppNames
               /\ MP!MemoryOf'[pid'[t]][MP!TRAP_CONTEXT] = MP!TrapContext(image'[t], MP!get_top(pid'[t]))
    BY <1>1, <1>3, <1>5, <1>9 DEF Together, LivesAgree, OwnProgram
  <2> QED BY <1>4, <1>5, <1>6, <1>9, <2>1
<1> QED BY <1>2, <1>10, <1>11, <1>12 DEF Together, LivesAgree, OwnProgram

(* exec: the caller's memory is a fresh image of the program it names.     *)
LEMMA ExecTogether ==
  ASSUME Inv, MP!Inv, Together, panic = "none", NEW c \in Tcb, NEW app \in AppNames,
         sys_exec(c, app), MP!exec(pid[c], app), mm_panic' = "none"
  PROVE  panic' = "none" /\ Together'
<1>1. /\ c \in Runnable /\ c \in Live /\ Runnable \subseteq Live /\ Live \subseteq Tcb
  BY CurrentIsRunning DEF sys_exec, InUser, Live, Runnable
<1>2. /\ image' = [image EXCEPT ![c] = app] /\ panic' = panic
      /\ UNCHANGED <<status, pid>>
  BY DEF sys_exec
<1>3. Live' = Live /\ Runnable' = Runnable
  BY <1>2 DEF Live, Runnable
<1>4. image'[c] = app /\ \A t \in Live \ {c} : image'[t] = image[t]
  BY <1>1, <1>2 DEF Inv, TypeOK
<1>5. pid[c] \in MP!Pid
  BY <1>1 DEF Together, LivesAgree, OwnProgram
<1>6. proc' = proc /\ MP!MemoryOf' = [MP!MemoryOf EXCEPT ![pid[c]] = MP!FreshImage(app, pid[c])]
  BY <1>5, MP!execSees, MemoryConstants DEF MP!Panic
<1>7. /\ MP!MemoryOf'[pid[c]][MP!TRAP_CONTEXT] = MP!TrapContext(app, MP!get_top(pid[c]))
      /\ \A q \in MP!Pid \ {pid[c]} : MP!MemoryOf'[q] = MP!MemoryOf[q]
  BY <1>5, <1>6, MP!MemoryShape, MP!FreshImageContext, MemoryConstants
<1>8. \A t \in Runnable' :
         /\ image'[t] \in AppNames
         /\ MP!MemoryOf'[pid'[t]][MP!TRAP_CONTEXT] = MP!TrapContext(image'[t], MP!get_top(pid'[t]))
  <2>1. ASSUME NEW t \in Runnable, t # c
        PROVE  /\ image'[t] \in AppNames
               /\ MP!MemoryOf'[pid[t]][MP!TRAP_CONTEXT] = MP!TrapContext(image'[t], MP!get_top(pid[t]))
    <3>1. pid[t] # pid[c] /\ pid[t] \in MP!Pid
      BY <1>1, <2>1, DistinctPids DEF Together, LivesAgree, OwnProgram
    <3> QED BY <1>1, <1>4, <1>7, <2>1, <3>1 DEF Together, LivesAgree, OwnProgram
  <2> QED BY <1>2, <1>3, <1>4, <1>7, <2>1
<1> QED BY <1>2, <1>3, <1>6, <1>8 DEF Together, LivesAgree, OwnProgram

(* exit: block and memory become zombies together, the others stay.        *)
LEMMA ExitTogether ==
  ASSUME Inv, MP!Inv, Together, panic = "none", NEW c \in Tcb, c # INITPROC, current = c,
         NEW code, exit_current_and_run_next(c, code), MP!recycle_data_pages(pid[c])
  PROVE  panic' = "none" /\ Together'
<1>1. /\ c \in Runnable /\ c \in Live /\ Runnable \subseteq Live /\ Live \subseteq Tcb
      /\ strong[c] = 2
  BY CurrentIsRunning DEF Live, Runnable
<1>2. /\ status' = [status EXCEPT ![c] = "Zombie"] /\ pid' = pid
      /\ image' = [image EXCEPT ![c] = None] /\ panic' = panic
  <2>1. /\ status' = [status EXCEPT ![c] = "Zombie"] /\ pid' = pid
        /\ image' = [image EXCEPT ![c] = None] /\ drop_task(c)
    BY ExitBorrows DEF exit_current_and_run_next
  <2> QED BY <1>1, <2>1 DEF drop_task
<1>3. Live' = Live /\ Runnable' = Runnable \ {c}
  BY <1>1, <1>2 DEF Live, Runnable, Inv, TypeOK
<1>4. \A t \in Live \ {c} : image'[t] = image[t]
  BY <1>1, <1>2 DEF Inv, TypeOK
<1>5. pid[c] \in MP!Pid
  BY <1>1 DEF Together, LivesAgree, OwnProgram
<1>6. /\ proc' = [proc EXCEPT ![pid[c]] = "zombie"] /\ mm_panic' = mm_panic
      /\ MP!MemoryOf' = [MP!MemoryOf EXCEPT ![pid[c]] = MP!Blank]
  BY <1>5, MP!recycleSees, MemoryConstants DEF MP!recycle_data_pages
<1>7. /\ proc'[pid[c]] = "zombie"
      /\ \A q \in MP!Pid \ {pid[c]} : proc'[q] = proc[q] /\ MP!MemoryOf'[q] = MP!MemoryOf[q]
  BY <1>5, <1>6, ProcShape, MP!MemoryShape, MemoryConstants
<1>8. \A t \in Live \ {c} : pid[t] \in MP!Pid \ {pid[c]}
  BY <1>1, DistinctPids DEF Together, LivesAgree, OwnProgram
<1>9. \A t \in Live : /\ pid[t] \in MP!Pid
                      /\ proc'[pid[t]] = IF t \in Runnable' THEN "live" ELSE "zombie"
  BY <1>3, <1>5, <1>7, <1>8 DEF Together, LivesAgree, OwnProgram
<1>10. \A p \in MP!Pid : proc'[p] # "none" => \E t \in Live : pid[t] = p
  BY <1>1, <1>7 DEF Together, LivesAgree, OwnProgram
<1>11. \A t \in Runnable' :
         /\ image'[t] \in AppNames
         /\ MP!MemoryOf'[pid[t]][MP!TRAP_CONTEXT] = MP!TrapContext(image'[t], MP!get_top(pid[t]))
  BY <1>1, <1>3, <1>4, <1>7, <1>8 DEF Together, LivesAgree, OwnProgram
<1> QED BY <1>2, <1>3, <1>6, <1>9, <1>10, <1>11 DEF Together, LivesAgree, OwnProgram

(* The areas of a process that can run are those of the program it         *)
(* executes.                                                               *)
LEMMA AreasOfTheProgram ==
  ASSUME MP!Inv, Agree, NEW t \in Runnable
  PROVE  /\ t \in Live /\ pid[t] \in MP!Pid /\ proc[pid[t]] = "live"
         /\ image[t] \in AppNames /\ areas[pid[t]] = MP!from_elf(image[t])
<1>1. t \in Live
  BY DEF Runnable, Live
<1>2. pid[t] \in MP!Pid /\ proc[pid[t]] = "live" /\ image[t] \in AppNames
  BY <1>1 DEF Agree, Together, Overwritten, LivesAgree
<1>3. CASE Together
  <2>1. mem[table[pid[t]][MP!TRAP_CONTEXT]] = MP!TrapContext(image[t], MP!get_top(pid[t]))
    BY <1>2, <1>3, MP!ContextSeen, MemoryConstants DEF Together, OwnProgram
  <2>2. PICK app \in AppNames :
           /\ areas[pid[t]] = MP!from_elf(app)
           /\ mem[trap_cx_ppn[pid[t]]] = MP!TrapContext(app, MP!get_top(pid[t]))
    BY <1>2, <1>3, MP!LiveProgram, MemoryConstants, ZenonT(60) DEF Together
  <2>3. trap_cx_ppn[pid[t]] = table[pid[t]][MP!TRAP_CONTEXT]
    BY <1>2, MP!LiveContext, MemoryConstants, ZenonT(60)
  <2>4. app = image[t]
    BY <2>1, <2>2, <2>3 DEF MP!TrapContext
  <2> QED BY <1>1, <1>2, <2>2, <2>4
<1> QED BY <1>1, <1>2, <1>3 DEF Agree, Overwritten

(* A call of c has stored somewhere in the memory of c, and no space of a  *)
(* process that can run has changed.                                       *)
LEMMA StoredTogether ==
  ASSUME Inv, MP!Inv, Together, NEW c \in Runnable, current' = c, image' = image,
         Runnable' = Runnable, \A t \in Runnable : pid'[t] = pid[t], LivesAgree',
         MP!ContextsKept(pid[c]), mm_panic' \in {"none", "overwritten"},
         \A q \in MP!Pid : areas'[q] = areas[q]
  PROVE  Agree'
<1>1. ASSUME NEW t \in Runnable
      PROVE  /\ pid[t] \in MP!Pid /\ image[t] \in AppNames
             /\ areas[pid[t]] = MP!from_elf(image[t])
             /\ OwnProgram(t)
  BY AreasOfTheProgram DEF Agree, Together
<1>2. ASSUME NEW t \in Runnable PROVE t # c => pid[t] # pid[c]
  BY DistinctPids DEF Runnable, Live
<1>3. ASSUME NEW t \in Runnable, t # c \/ mm_panic' = "none" PROVE OwnProgram(t)'
  <2>1. MP!MemoryOf'[pid[t]][MP!TRAP_CONTEXT] = MP!MemoryOf[pid[t]][MP!TRAP_CONTEXT]
    BY <1>1, <1>2, <1>3 DEF MP!ContextsKept
  <2> QED BY <1>1, <2>1 DEF OwnProgram
<1>4. CASE mm_panic' = "none"
  BY <1>1, <1>3, <1>4 DEF Agree, Together
<1>5. CASE mm_panic' = "overwritten"
  <2>1. ASSUME NEW t \in Runnable
        PROVE  image'[t] \in AppNames /\ areas'[pid'[t]] = MP!from_elf(image'[t])
    BY <1>1
  <2> QED BY <1>3, <1>5, <2>1 DEF Agree, Overwritten
<1> QED BY <1>4, <1>5

(* The running program stores into a page it may write, ...                *)
LEMMA StoreTogether ==
  ASSUME Inv, MP!Inv, Together, panic = "none", NEW c \in Tcb, current = c,
         NEW v \in MP!Page, NEW x \in Data, MP!user_write(pid[c], v, x), UNCHANGED vars
  PROVE  Agree'
<1>1. c \in Runnable /\ c \in Live /\ UNCHANGED <<current, image, pid, status>>
  BY CurrentIsRunning DEF Live, Runnable, vars, tcbVars, schedVars
<1>2. Live' = Live /\ Runnable' = Runnable
  BY <1>1 DEF Live, Runnable
<1>3. pid[c] \in MP!Pid /\ proc[pid[c]] = "live" /\ mm_panic' = mm_panic /\ proc' = proc /\ areas' = areas
  BY <1>1 DEF Together, LivesAgree, MP!user_write, MP!spaceVars
<1>4. MP!ContextsKept(pid[c])
  BY <1>3, MP!user_writeSees, MemoryConstants DEF Together
<1>5. LivesAgree'
  BY <1>1, <1>2, <1>3 DEF Together, LivesAgree
<1> QED BY <1>1, <1>2, <1>3, <1>4, <1>5, StoredTogether DEF Together

(* ... or sys_read stores the character for it.                            *)
LEMMA ReadTogether ==
  ASSUME Inv, MP!Inv, Together, panic = "none", NEW c \in Tcb, sys_read_done(c),
         NEW v \in MP!Page, NEW x \in Data, MP!sys_read(pid[c], v, x), ~StoreFails
  PROVE  panic' = "none" /\ Agree'
<1>1. /\ c \in Runnable /\ c \in Live /\ current' = c /\ panic' = "none"
      /\ UNCHANGED <<image, pid, status>>
  BY CurrentIsRunning DEF Live, Runnable, sys_read_done, schedVars
<1>2. Live' = Live /\ Runnable' = Runnable
  BY <1>1 DEF Live, Runnable
<1>3. pid[c] \in MP!Pid
  BY <1>1 DEF Together, LivesAgree
<1>4. /\ proc' = proc /\ areas' = areas /\ MP!ContextsKept(pid[c])
      /\ mm_panic' \in {"none", "overwritten"}
  BY <1>3, MP!sys_readSees, MemoryConstants DEF Together, StoreFails, MP!Panic
<1>5. LivesAgree'
  BY <1>1, <1>2, <1>4 DEF Together, LivesAgree
<1> QED BY <1>1, <1>2, <1>4, <1>5, StoredTogether

(* waitpid: the collected block and its memory go together.                *)
LEMMA ReapTogether ==
  ASSUME Inv, MP!Inv, Together, panic = "none", NEW c \in Tcb, current = c,
         NEW arg \in Int, NEW i \in Reapable(c, arg), waitpid_reap(c, arg, i),
         NEW v \in MP!Page, NEW x \in Data,
         MP!waitpid(pid[c], pid[children[c][i]], v, x), ~StoreFails
  PROVE  panic' = "none" /\ Agree'
<1> DEFINE z == children[c][i]
<1>1. /\ z \in Live /\ z \notin Runnable /\ z \in Tcb
      /\ strong[z] = 1 /\ ~PidNotAllocated(pid[z])
  BY ReapedZombie
<1>2. /\ status' = [status EXCEPT ![z] = "Free"] /\ pid' = [pid EXCEPT ![z] = NoPid]
      /\ image' = image /\ panic' = panic /\ current' = c
  BY <1>1 DEF waitpid_reap, schedVars
<1>3. MP!waitpid(pid[c], pid[z], v, x) /\ c \in Runnable /\ c \in Live
  BY CurrentIsRunning DEF Runnable, Live
<1> HIDE DEF z
<1>4. Live' = Live \ {z} /\ Runnable' = Runnable /\ Runnable \subseteq Live /\ Live \subseteq Tcb
  BY <1>1, <1>2 DEF Live, Runnable, Inv, TypeOK
<1>5. \A t \in Live \ {z} : pid'[t] = pid[t]
  BY <1>2, <1>4 DEF Inv, TypeOK
<1>6. pid[z] \in MP!Pid /\ pid[c] \in MP!Pid
  BY <1>1, <1>3 DEF Together, LivesAgree
<1>7. /\ proc' = [proc EXCEPT ![pid[z]] = "none"] /\ \A q \in MP!Pid : areas'[q] = areas[q]
      /\ MP!ContextsKept(pid[c]) /\ mm_panic' \in {"none", "overwritten"}
  BY <1>3, <1>6, MP!waitpidSees, MemoryConstants DEF Together, StoreFails, MP!Panic
<1>8. proc'[pid[z]] = "none" /\ \A q \in MP!Pid \ {pid[z]} : proc'[q] = proc[q]
  BY <1>6, <1>7, ProcShape
<1>9. \A t \in Live \ {z} : pid[t] \in MP!Pid \ {pid[z]}
  BY <1>1, DistinctPids DEF Together, LivesAgree, OwnProgram
<1>10. \A t \in Live' : /\ pid'[t] \in MP!Pid
                        /\ proc'[pid'[t]] = IF t \in Runnable' THEN "live" ELSE "zombie"
  BY <1>4, <1>5, <1>8, <1>9 DEF Together, LivesAgree, OwnProgram
<1>11. \A p \in MP!Pid : proc'[p] # "none" => \E t \in Live' : pid'[t] = p
  BY <1>4, <1>5, <1>8 DEF Together, LivesAgree, OwnProgram
<1>12. \A t \in Runnable : pid'[t] = pid[t]
  BY <1>1, <1>4, <1>5
<1>13. LivesAgree'
  BY <1>10, <1>11 DEF LivesAgree
<1> QED BY <1>2, <1>3, <1>4, <1>7, <1>12, <1>13, StoredTogether

(* Boot: pid 0, the only block, gets the first memory.                     *)
LEMMA BootTogether ==
  ASSUME Init, MP!Inv, \A p \in MP!Pid : proc[p] = "none", mm_panic = "none",
         MP!new(InitApp), UNCHANGED vars, mm_panic' = "none"
  PROVE  Together'
<1>1. /\ Live' = {INITPROC} /\ Runnable' = {INITPROC} /\ pid'[INITPROC] = 0
      /\ image'[INITPROC] = InitApp /\ InitApp \in AppNames
  BY TaskAssumption DEF Init, Live, Runnable, vars, tcbVars
<1>2. 0 \in MP!Pid
  BY MemoryConstants DEF MP!LayoutAssumption, MP!Pid
<1>3. /\ proc' = [proc EXCEPT ![0] = "live"]
      /\ MP!MemoryOf' = [MP!MemoryOf EXCEPT ![0] = MP!FreshImage(InitApp, 0)]
  BY <1>1, MP!newSees, MemoryConstants DEF MP!Panic
<1>4. proc'[0] = "live" /\ \A q \in MP!Pid \ {0} : proc'[q] = "none"
  BY <1>2, <1>3, ProcShape
<1>5. MP!MemoryOf'[0][MP!TRAP_CONTEXT] = MP!TrapContext(InitApp, MP!get_top(0))
  BY <1>1, <1>2, <1>3, MP!MemoryShape, MP!FreshImageContext, MemoryConstants, ZenonT(60)
<1> QED BY <1>1, <1>2, <1>4, <1>5 DEF Together, LivesAgree, OwnProgram

-------------------------------------------------------------------------------
(* The steps of the composition.                                           *)

LEMMA ScheduleStep ==
  ASSUME Inv, Together, panic = "none", schedule
  PROVE  KStep
<1>0. UNCHANGED memoryVars
  BY DEF schedule
<1>1. ASSUME SameLives, UNCHANGED <<image, panic>>, [Next]_vars PROVE KStep
  <2>1. Together'
    BY <1>0, <1>1, QuietTogether
  <2>2. UNCHANGED MP!vars
    BY <1>0 DEF memoryVars, MP!vars, MP!spaceVars
  <2> QED BY <1>1, <2>1, <2>2 DEF KStep, Agree
<1>2. CASE run_tasks
  BY <1>1, <1>2, RunLives DEF Next, run_tasks
<1>3. ASSUME NEW c \in Tcb, trap_return(c) PROVE KStep
  BY <1>1, <1>3, LocalLives DEF Next, trap_return
<1>4. ASSUME NEW c \in Tcb, timer_interrupt(c) \/ sys_yield(c) PROVE KStep
  <2>1. SameLives
    BY <1>4, SuspendLives DEF timer_interrupt, sys_yield, InUser
  <2>2. UNCHANGED <<image, panic>>
    BY <1>4 DEF timer_interrupt, sys_yield, suspend_current_and_run_next
  <2> QED BY <1>1, <1>4, <2>1, <2>2 DEF Next, trap_handler
<1>5. ASSUME NEW c \in Tcb, sys_read_wait(c) PROVE KStep
  <2>1. UNCHANGED <<image, panic>>
    BY <1>5 DEF sys_read_wait, suspend_current_and_run_next
  <2> QED BY <1>1, <1>5, <2>1, ReadLives DEF Next, trap_handler, sys_read
<1>6. ASSUME NEW c \in Tcb, NEW arg \in {-1} \cup (0 .. pid_current),
             InUser(c), waitpid_none(c, arg)
      PROVE  KStep
  <2>1. SameLives /\ UNCHANGED <<image, panic>>
    BY <1>6, LocalLives DEF waitpid_none, tcbVars
  <2>2. trap_handler(c)
    BY <1>6 DEF trap_handler, sys_waitpid
  <2> QED BY <1>1, <2>1, <2>2 DEF Next
<1>7. ASSUME NEW c \in Tcb, NEW path \in Path \ AppNames, sys_exec(c, path) PROVE KStep
  <2>1. SameLives /\ UNCHANGED <<image, panic>>
    BY <1>7, LocalLives DEF sys_exec
  <2> QED BY <1>1, <1>7, <2>1 DEF Next, trap_handler
<1> QED BY <1>2, <1>3, <1>4, <1>5, <1>6, <1>7 DEF schedule

\* A call that runs out of frames, or is given a pointer to nowhere, is a panic
\* of both layers.
LEMMA FailStep ==
  ASSUME Inv, MP!Inv, Together, panic = "none", NEW c \in Tcb, unsupported(c),
         [MP!Next]_(MP!vars), proc' = proc
  PROVE  KStep
<1>1. Next /\ panic' # "none"
  BY DEF Next, trap_handler, unsupported, Panic
<1> QED BY <1>1 DEF KStep

LEMMA ForkStep ==
  ASSUME Inv, MP!Inv, Together, panic = "none", NEW c \in Tcb, NEW n \in Tcb, fork(c, n)
  PROVE  KStep
<1>1. NextPid \in MP!Pid /\ MP!fork(pid[c], NextPid) /\ InUser(c)
  BY OneModel DEF fork, sys_fork, unsupported
<1>2. pid[c] \in MP!Pid
  BY <1>1, CurrentIsRunning DEF Together, LivesAgree, InUser
<1>3. MP!Next
  BY <1>1, <1>2 DEF MP!Next, Together, LivesAgree
<1>4. CASE sys_fork(c, n) /\ Succeeds
  <2>1. panic' = "none" /\ Together'
    BY <1>1, <1>4, ForkTogether DEF Succeeds
  <2> QED BY <1>3, <1>4, <2>1 DEF KStep, Agree, Next, trap_handler
<1>5. CASE unsupported(c) /\ Fails
  <2>1. proc' = proc
    BY <1>1, <1>2, <1>5, MP!forkSees, MemoryConstants DEF Fails, Together, LivesAgree, MP!Panic
  <2> QED BY <1>3, <1>5, <2>1, FailStep
<1> QED BY <1>4, <1>5 DEF fork

LEMMA ExecStep ==
  ASSUME Inv, MP!Inv, Together, panic = "none", NEW c \in Tcb, NEW path \in AppNames,
         exec(c, path)
  PROVE  KStep
<1>1. MP!exec(pid[c], path) /\ InUser(c)
  BY OneModel DEF exec, sys_exec, unsupported
<1>2. pid[c] \in MP!Pid
  BY <1>1, CurrentIsRunning DEF Together, LivesAgree, InUser
<1>3. MP!Next
  BY <1>1, <1>2 DEF MP!Next, Together, LivesAgree
<1>4. CASE sys_exec(c, path) /\ Succeeds
  <2>1. panic' = "none" /\ Together'
    BY <1>1, <1>4, ExecTogether DEF Succeeds
  <2>2. path \in Path
    BY TaskAssumption
  <2> QED BY <1>3, <1>4, <2>1, <2>2 DEF KStep, Agree, Next, trap_handler
<1>5. CASE unsupported(c) /\ Fails
  <2>1. proc' = proc
    BY <1>1, <1>2, <1>5, MP!execSees, MemoryConstants DEF Fails, Together, LivesAgree, MP!Panic
  <2> QED BY <1>3, <1>5, <2>1, FailStep
<1> QED BY <1>4, <1>5 DEF exec

LEMMA ExitStep ==
  ASSUME Inv, MP!Inv, Together, panic = "none", NEW c \in Tcb, exit(c)
  PROVE  KStep
<1>1. c # INITPROC /\ MP!recycle_data_pages(pid[c]) /\ InUser(c) /\ trap_handler(c)
  BY OneModel DEF exit, release_on_exit, fault, sys_exit, trap_handler
<1>2. PICK code : exit_current_and_run_next(c, code)
  BY DEF exit, fault, sys_exit
<1>3. pid[c] \in MP!Pid
  BY <1>1, CurrentIsRunning DEF Together, LivesAgree, InUser
<1>4. MP!Next
  BY <1>1, <1>3 DEF MP!Next, Together, LivesAgree
<1>5. panic' = "none" /\ Together'
  BY <1>1, <1>2, ExitTogether DEF InUser
<1> QED BY <1>1, <1>4, <1>5 DEF KStep, Agree, Next

LEMMA ExitInitprocStep ==
  ASSUME Inv, Together, panic = "none", exit_initproc
  PROVE  KStep
<1>1. trap_handler(INITPROC) /\ INITPROC \in Tcb
  BY TaskAssumption DEF exit_initproc, trap_handler
<1>2. panic' # "none"
  BY <1>1, ExitBorrows DEF exit_initproc, fault, sys_exit, exit_current_and_run_next, Panic
<1>3. UNCHANGED MP!vars /\ proc' = proc
  BY DEF exit_initproc, memoryVars, MP!vars, MP!spaceVars
<1> QED BY <1>1, <1>2, <1>3 DEF KStep, Next

LEMMA StoreStep ==
  ASSUME Inv, MP!Inv, Together, panic = "none", NEW c \in Tcb, store(c)
  PROVE  KStep
<1>1. PICK v \in MP!Page, x \in Data : MP!user_write(pid[c], v, x)
  BY OneModel DEF store
<1>2. current = c /\ UNCHANGED vars /\ UNCHANGED panic
  BY DEF store, InUser, vars
<1>3. pid[c] \in MP!Pid
  BY <1>2, CurrentIsRunning DEF Together, LivesAgree
<1>4. MP!Next
  BY <1>1, <1>3 DEF MP!Next, Together
<1>5. Agree'
  BY <1>1, <1>2, StoreTogether
<1> QED BY <1>2, <1>4, <1>5 DEF KStep

LEMMA ReadStep ==
  ASSUME Inv, MP!Inv, Together, panic = "none", NEW c \in Tcb, read(c)
  PROVE  KStep
<1>1. PICK v \in MP!Page, x \in Data : MP!sys_read(pid[c], v, x)
  BY OneModel DEF read
<1>2. current = c
  BY DEF read
<1>3. pid[c] \in MP!Pid
  BY <1>2, CurrentIsRunning DEF Together, LivesAgree
<1>4. MP!Next
  BY <1>1, <1>3 DEF MP!Next, Together
<1>5. CASE ~StoreFails /\ sys_read_done(c)
  <2>1. panic' = "none" /\ Agree'
    BY <1>1, <1>5, ReadTogether
  <2> QED BY <1>4, <1>5, <2>1 DEF KStep, Next, trap_handler, sys_read
<1>6. CASE StoreFails /\ unsupported(c)
  <2>1. proc' = proc
    BY <1>1, <1>3, MP!sys_readSees, MemoryConstants DEF Together
  <2> QED BY <1>4, <1>6, <2>1, FailStep
<1> QED BY <1>5, <1>6 DEF read

LEMMA ReapStep ==
  ASSUME Inv, MP!Inv, Together, panic = "none", NEW c \in Tcb,
         NEW arg \in {-1} \cup (0 .. pid_current), reap(c, arg)
  PROVE  KStep
<1>1. PICK i \in Reapable(c, arg), v \in MP!Page, x \in Data :
        /\ MP!waitpid(pid[c], pid[children[c][i]], v, x)
        /\ \/ StoreFails /\ unsupported(c)
           \/ ~StoreFails /\ waitpid_reap(c, arg, i)
  BY OneModel DEF reap, release_on_drop
<1>2. InUser(c) /\ current = c
  BY DEF reap, InUser
<1>3. arg \in Int /\ c \in Tcb
  BY DEF Inv, TypeOK
<1>4. children[c][i] \in Live /\ c \in Live
  BY <1>1, <1>2, <1>3, ReapedZombie, CurrentIsRunning
<1>5. pid[children[c][i]] \in MP!Pid /\ pid[c] \in MP!Pid
  BY <1>4 DEF Together, LivesAgree
<1>6. MP!Next
  BY <1>1, <1>5 DEF MP!Next, Together
<1>7. CASE ~StoreFails /\ waitpid_reap(c, arg, i)
  <2>1. panic' = "none" /\ Agree'
    BY <1>1, <1>2, <1>3, <1>7, ReapTogether
  <2>2. trap_handler(c)
    BY <1>2, <1>7 DEF trap_handler, sys_waitpid
  <2> QED BY <1>6, <2>1, <2>2 DEF KStep, Next
<1>8. CASE StoreFails /\ unsupported(c)
  <2>1. proc' = proc
    BY <1>1, <1>5, <1>8, MP!waitpidSees, MemoryConstants DEF Together, StoreFails, MP!Panic
  <2> QED BY <1>6, <1>8, <2>1, FailStep
<1> QED BY <1>1, <1>7, <1>8

(* Boot: the first memory is made, or there are too few frames for it.     *)
LEMMA BootStep ==
  ASSUME KInv, add_initproc
  PROVE  /\ UNCHANGED vars /\ MP!Next
         /\ proc' = proc \/ (booted' /\ Together')
<1>1. /\ ~booted /\ mm_panic = "none" /\ MP!new(InitApp) /\ UNCHANGED vars
      /\ InitApp \in AppNames
  BY OneModel, TaskAssumption DEF add_initproc, booted
<1>2. Init /\ MP!Inv /\ \A p \in MP!Pid : proc[p] = "none"
  BY <1>1 DEF KInv
<1>3. MP!Next
  BY <1>1 DEF MP!Next
<1>4. CASE mm_panic' = "none"
  <2>1. Together'
    BY <1>1, <1>2, <1>4, BootTogether
  <2>2. proc'[0] = "live"
    <3>1. 0 \in MP!Pid
      BY MemoryConstants DEF MP!LayoutAssumption, MP!Pid
    <3> QED BY <1>1, <1>2, <1>4, <3>1, MP!newSees, MemoryConstants, ProcShape DEF MP!Panic
  <2> QED BY <1>1, <1>3, <2>1, <2>2 DEF booted
<1>5. CASE mm_panic' # "none"
  BY <1>1, <1>2, <1>3, <1>5, MP!newSees, MemoryConstants DEF MP!Panic
<1> QED BY <1>4, <1>5

LEMMA RunningStep ==
  ASSUME KInv, booted, ~off, KNext
  PROVE  KStep
<1>1. Inv /\ MP!Inv /\ Together /\ panic = "none"
  BY DEF KInv, off, Agree, Overwritten
<1>3. ~add_initproc
  BY DEF booted, add_initproc
<1>4. ASSUME NEW c \in Tcb, NEW n \in Tcb, fork(c, n) PROVE KStep
  BY <1>1, <1>4, ForkStep
<1>5. ASSUME NEW c \in Tcb, NEW path \in AppNames, exec(c, path) PROVE KStep
  BY <1>1, <1>5, ExecStep
<1>6. ASSUME NEW c \in Tcb, exit(c) PROVE KStep
  BY <1>1, <1>6, ExitStep
<1>7. ASSUME NEW c \in Tcb, NEW arg \in {-1} \cup (0 .. pid_current), reap(c, arg) PROVE KStep
  BY <1>1, <1>7, ReapStep
<1>8. ASSUME NEW c \in Tcb, store(c) \/ read(c) PROVE KStep
  BY <1>1, <1>8, StoreStep, ReadStep
<1> QED BY <1>1, <1>3, <1>4, <1>5, <1>6, <1>7, <1>8, ScheduleStep, ExitInitprocStep DEF KNext

(* Every step is a step of both layers and keeps the invariant.            *)
LEMMA KNextInv ==
  ASSUME KInv, [KNext]_<<vars, memoryVars>>
  PROVE  KInv' /\ [Next]_vars /\ [MP!Next]_(MP!vars)
<1>0. Inv /\ PidsOfBlocks /\ MP!Inv
  BY DEF KInv
<1>1. ASSUME [Next]_vars, [MP!Next]_(MP!vars) PROVE (Inv /\ PidsOfBlocks /\ MP!Inv)'
  BY <1>0, <1>1, NextInv, NextSeen, MP!NextInv, MemoryConstants
<1>2. ASSUME UNCHANGED vars PROVE Init => Init'
  BY <1>2 DEF Init, vars, tcbVars, schedVars, pidVars
<1>3. CASE UNCHANGED <<vars, memoryVars>>
  <2>1. UNCHANGED vars /\ UNCHANGED memoryVars
    BY <1>3
  <2>2. UNCHANGED MP!vars /\ UNCHANGED <<proc, image, panic, status, parent, pid>>
    BY <2>1 DEF vars, tcbVars, memoryVars, MP!vars, MP!spaceVars
  <2>3. Agree => Agree'
    BY <2>1, <2>2, QuietTogether, QuietOverwritten, LocalLives DEF Agree, vars, schedVars
  <2> QED BY <1>1, <1>2, <2>1, <2>2, <2>3 DEF KInv, booted
<1>4. CASE add_initproc
  <2>1. UNCHANGED vars /\ MP!Next /\ (proc' = proc \/ (booted' /\ Together'))
    BY <1>4, BootStep
  <2>2. ~booted /\ Init /\ \A p \in MP!Pid : proc[p] = "none"
    BY <1>4 DEF KInv, booted, add_initproc
  <2> QED BY <1>1, <1>2, <2>1, <2>2 DEF KInv, booted, Agree
<1>5. CASE booted /\ ~off /\ KNext
  <2>1. KStep
    BY <1>5, RunningStep
  <2>2. (Inv /\ PidsOfBlocks /\ MP!Inv)'
    BY <1>1, <2>1 DEF KStep
  <2>3. booted'
    <3>1. CASE panic' = "none"
      <4>1. INITPROC \in Runnable' /\ pid'[INITPROC] = 0 /\ INITPROC \in Live'
        BY <2>2, TaskAssumption DEF Inv, InitProcRunnable, PidsOfBlocks, Runnable, Live
      <4>2. proc'[0] = "live"
        BY <2>1, <3>1, <4>1 DEF KStep, Agree, Together, Overwritten, LivesAgree
      <4> QED BY <4>2 DEF booted
    <3>2. CASE panic' # "none"
      BY <1>5, <2>1, <3>2 DEF KStep, booted
    <3> QED BY <3>1, <3>2
  <2> QED BY <2>1, <2>2, <2>3 DEF KInv, KStep
<1> QED BY <1>3, <1>4, <1>5 DEF KNext

LEMMA KInitInv == KInit => KInv
<1> SUFFICES ASSUME KInit PROVE KInv
  OBVIOUS
<1>1. Init /\ MP!Init
  BY OneModel DEF KInit
<1>2. Inv /\ PidsOfBlocks /\ MP!Inv
  BY <1>1, InitInv, InitPids, MP!InitInv, MemoryConstants
<1>3. \A p \in MP!Pid : proc[p] = "none"
  BY <1>1 DEF MP!Init
<1>4. 0 \in MP!Pid
  BY MemoryConstants DEF MP!LayoutAssumption, MP!Pid
<1> QED BY <1>1, <1>2, <1>3, <1>4 DEF KInv, booted

(* The invariant holds in every reachable state, for any number of blocks  *)
(* and pids, any programs that fit the layout and any pool of frames.      *)
THEOREM KernelInvariant == KSpec => []KInv
BY KInitInv, KNextInv, PTL DEF KSpec

(* The composition implements both of its layers, so every theorem about   *)
(* the process layer and about the address spaces holds of it.             *)
THEOREM KernelIsBothLayers == KSpec => Spec /\ M!Spec
<1>1. KInit => Init /\ M!Init
  BY DEF KInit
<1>2. KInv /\ [KNext]_<<vars, memoryVars>> => [Next]_vars /\ [M!Next]_(M!vars)
  <2>1. M!Next <=> MP!Next
    BY OneModel
  <2>2. UNCHANGED MP!vars => UNCHANGED M!vars
    BY DEF M!vars, MP!vars, M!spaceVars, MP!spaceVars
  <2> QED BY <2>1, <2>2, KNextInv
<1> QED BY <1>1, <1>2, KernelInvariant, PTL DEF KSpec, Spec, M!Spec

(* A block and its memory live and die together, the kernel stacks mapped  *)
(* are those of the pids in use, and the next pid has no memory: no call   *)
(* finds the address spaces in a state it does not expect.                 *)
THEOREM MemoryAndTasks == KSpec => []MemoryFollowsTasks
<1>1. KInv => MemoryFollowsTasks
  <2> SUFFICES ASSUME KInv PROVE MemoryFollowsTasks
    OBVIOUS
  <2>1. mm_panic # "vpn is mapped before mapping"
    BY DEF KInv, MP!Inv, MP!FramesOwnedOnce, MP!TypeOK, MP!TablesMatchAreas
  <2>2. ASSUME booted, panic = "none"
        PROVE  /\ {p \in MP!Pid : proc[p] = "live"} = {pid[t] : t \in Runnable}
               /\ {p \in MP!Pid : proc[p] = "zombie"} = {pid[t] : t \in Live \ Runnable}
               /\ areas[MP!Kernel] = {MP!KernelStack(p) : p \in kstacks}
               /\ NextPid \in MP!Pid => proc[NextPid] = "none"
    <3>1. Inv /\ MP!Inv /\ LivesAgree /\ Runnable \subseteq Live
      BY <2>2 DEF KInv, Agree, Together, Overwritten, Runnable, Live
    <3>2. {p \in MP!Pid : proc[p] = "live"} = {pid[t] : t \in Runnable}
      BY <3>1 DEF LivesAgree
    <3>3. {p \in MP!Pid : proc[p] = "zombie"} = {pid[t] : t \in Live \ Runnable}
      BY <3>1 DEF LivesAgree
    <3>4. kstacks = {q \in MP!Pid : proc[q] # "none"}
      <4>1. kstacks = {pid[t] : t \in Live}
        BY <3>1 DEF Inv, PidsExact
      <4> QED BY <3>1, <4>1 DEF LivesAgree
    <3>5. areas[MP!Kernel] = {MP!KernelStack(p) : p \in kstacks}
      BY <3>1, <3>4 DEF MP!Inv, MP!AreasOK
    <3>6. NextPid \in MP!Pid => proc[NextPid] = "none"
      BY <3>1, NextPidIsFree DEF LivesAgree
    <3> QED BY <3>2, <3>3, <3>5, <3>6
  <2>3. /\ M!Pid = MP!Pid /\ M!Kernel = MP!Kernel
        /\ \A p : M!KernelStack(p) = MP!KernelStack(p)
    BY OneModel
  <2> QED BY <2>1, <2>2, <2>3 DEF MemoryFollowsTasks
<1> QED BY <1>1, KernelInvariant, PTL

(* A process is restored from the context of the program it last executed, *)
(* on its own kernel stack, whoever had its pid before, unless a call of   *)
(* its own has just made the kernel store into that context.               *)
THEOREM ContextOfTheProgram == KSpec => []ContextIsOfTheProgram
<1>1. KInv => ContextIsOfTheProgram
  <2> SUFFICES ASSUME KInv, booted, panic = "none", NEW t \in Runnable,
                      ~(t = current /\ mm_panic = "overwritten")
               PROVE  mem[table[pid[t]][M!TRAP_CONTEXT]] = M!TrapContext(image[t], M!get_top(pid[t]))
    BY DEF ContextIsOfTheProgram
  <2>1. MP!Inv /\ t \in Live /\ LivesAgree /\ OwnProgram(t)
    BY DEF KInv, Agree, Together, Overwritten, Runnable, Live
  <2>2. pid[t] \in MP!Pid /\ proc[pid[t]] = "live"
    BY <2>1 DEF LivesAgree
  <2>3. mem[table[pid[t]][MP!TRAP_CONTEXT]] = MP!TrapContext(image[t], MP!get_top(pid[t]))
    BY <2>1, <2>2, MP!ContextSeen, MemoryConstants DEF OwnProgram
  <2> QED BY <2>3, OneModel
<1> QED BY <1>1, KernelInvariant, PTL

-------------------------------------------------------------------------------
(* The frames in use.                                                      *)

(* The layout of M is that of MP.                                          *)
LEMMA OneLayout ==
  /\ StackPages = MP!StackPages
  /\ \A app : M!PagesOf(M!from_elf(app)) = MP!PagesOf(MP!from_elf(app))
<1>1. StackPages = MP!StackPages
  BY DEF StackPages, MP!StackPages
<1>2. ASSUME NEW app PROVE M!PagesOf(M!from_elf(app)) = MP!PagesOf(MP!from_elf(app))
  BY DEF M!PagesOf, M!from_elf, M!Pages, M!MapArea, M!floor, M!ceil, M!Segment, M!user_stack,
         M!TRAP_CONTEXT, MP!PagesOf, MP!from_elf, MP!Pages, MP!MapArea, MP!floor, MP!ceil,
         MP!Segment, MP!user_stack, MP!TRAP_CONTEXT
<1> QED BY <1>1, <1>2

\* The page of KERNEL_SPACE that is the i-th of the stack of t.
StackPage(t, i) == MP!KernelStack(pid[t]).l + i - 1

(* The i-th page of a kernel stack is a page of it, and every page is one  *)
(* of these.                                                               *)
LEMMA StackPageOf ==
  ASSUME Agree, NEW t \in Live
  PROVE  /\ \A i \in 1 .. StackPages : StackPage(t, i) \in MP!Pages(MP!KernelStack(pid[t]))
         /\ \A v \in MP!Pages(MP!KernelStack(pid[t])) :
               \E i \in 1 .. StackPages : StackPage(t, i) = v
         /\ \A i, j \in 1 .. StackPages : StackPage(t, i) = StackPage(t, j) => i = j
<1> DEFINE S == MP!KernelStack(pid[t])
           m == pid[t] * (MP!StackPages + 1)
<1>1. pid[t] \in MP!Pid
  BY DEF Agree, Together, Overwritten, LivesAgree
<1>2. MP!StackPages \in Nat
  BY MP!StackSize, MemoryConstants
<1>3. /\ S.l = TRAMPOLINE - m - MP!StackPages /\ S.r = TRAMPOLINE - m
      /\ S.l \in Nat /\ S.r \in Nat
  BY <1>1, MP!StackLayout, MemoryConstants
<1>4. m \in Int /\ TRAMPOLINE \in Int
  <2>1. pid[t] \in Int /\ TRAMPOLINE \in Int
    BY <1>1, MemoryConstants DEF MP!Pid, MP!LayoutAssumption
  <2> QED BY <1>2, <2>1
<1> HIDE DEF m
<1>5. S.r = S.l + StackPages /\ StackPages \in Nat
  BY <1>2, <1>3, <1>4, OneLayout
<1>6. MP!Pages(S) = S.l .. S.r - 1
  BY DEF MP!Pages
<1>7. \A i : StackPage(t, i) = S.l + i - 1
  BY DEF StackPage
<1> HIDE DEF S
<1>8. PICK l \in Nat : l = S.l
  BY <1>3
<1>9. PICK k \in Nat : k = StackPages
  BY <1>5
<1>10. MP!Pages(S) = l .. l + k - 1
  BY <1>5, <1>6, <1>8, <1>9
<1>11. /\ \A i \in 1 .. k : l + i - 1 \in l .. l + k - 1
       /\ \A v \in l .. l + k - 1 : v - l + 1 \in 1 .. k /\ l + (v - l + 1) - 1 = v
       /\ \A i, j \in 1 .. k : l + i - 1 = l + j - 1 => i = j
  OBVIOUS
<1>12. \A i : StackPage(t, i) = l + i - 1
  BY <1>7, <1>8
<1>13. \A v \in l .. l + k - 1 : \E i \in 1 .. k : StackPage(t, i) = v
  <2> SUFFICES ASSUME NEW v \in l .. l + k - 1
               PROVE  \E i \in 1 .. k : StackPage(t, i) = v
    OBVIOUS
  <2>1. PICK i \in 1 .. k : l + i - 1 = v
    BY <1>11
  <2> QED BY <1>12, <2>1
<1>14. \A i \in 1 .. k : StackPage(t, i) \in l .. l + k - 1
  BY <1>11, <1>12
<1>15. \A i, j \in 1 .. k : StackPage(t, i) = StackPage(t, j) => i = j
  BY <1>11, <1>12
<1> QED BY <1>9, <1>10, <1>13, <1>14, <1>15, Zenon DEF S

\* Where in the address spaces a page in use is.
SpaceOf(x) == IF x[1][1] = "image" THEN pid[x[1][2]] ELSE MP!Kernel
PageOf(x) == IF x[1][1] = "image" THEN x[2] ELSE StackPage(x[1][2], x[2])

(* A page in use is one of an image or one of a stack.                     *)
LEMMA PageKinds ==
  ASSUME NEW x
  PROVE  x \in PagesInUse <=>
           \/ \E t \in Runnable : \E v \in MP!PagesOf(MP!from_elf(image[t])) : x = <<<<"image", t>>, v>>
           \/ \E t \in Live : \E i \in 1 .. StackPages : x = <<<<"stack", t>>, i>>
<1> DEFINE I == UNION {{<<"image", t>>} \X M!PagesOf(M!from_elf(image[t])) : t \in Runnable}
           S == {<<"stack", t>> : t \in Live} \X (1 .. StackPages)
<1>1. ASSUME NEW t PROVE M!PagesOf(M!from_elf(image[t])) = MP!PagesOf(MP!from_elf(image[t]))
  BY OneLayout
<1>2. PagesInUse = I \cup S
  BY DEF PagesInUse
<1>3. x \in I <=>
        \E t \in Runnable : \E v \in M!PagesOf(M!from_elf(image[t])) : x = <<<<"image", t>>, v>>
  OBVIOUS
<1>4. x \in S <=> \E t \in Live : \E i \in 1 .. StackPages : x = <<<<"stack", t>>, i>>
  OBVIOUS
<1> HIDE DEF I, S
<1> QED BY <1>1, <1>2, <1>3, <1>4

(* The place of such a page.                                               *)
LEMMA PlaceOfPage ==
  /\ \A t, v : SpaceOf(<<<<"image", t>>, v>>) = pid[t] /\ PageOf(<<<<"image", t>>, v>>) = v
  /\ \A t, i : SpaceOf(<<<<"stack", t>>, i>>) = MP!Kernel /\ PageOf(<<<<"stack", t>>, i>>) = StackPage(t, i)
BY DEF SpaceOf, PageOf

(* It has a frame.                                                         *)
LEMMA PagesHaveFrames ==
  ASSUME MP!Inv, Agree, NEW x \in PagesInUse
  PROVE  /\ SpaceOf(x) \in MP!Space /\ PageOf(x) \in MP!Page
         /\ data_frames[SpaceOf(x)][PageOf(x)] \in Frame \ free
<1>1. MP!Kernel \in MP!Space /\ MP!Pid \subseteq MP!Space
  BY DEF MP!Space
<1>2. ASSUME NEW t \in Runnable, NEW v \in MP!PagesOf(MP!from_elf(image[t])), x = <<<<"image", t>>, v>>
      PROVE  /\ SpaceOf(x) \in MP!Space /\ PageOf(x) \in MP!Page
             /\ data_frames[SpaceOf(x)][PageOf(x)] \in Frame \ free
  <2>1. /\ pid[t] \in MP!Pid /\ proc[pid[t]] = "live"
        /\ image[t] \in AppNames /\ areas[pid[t]] = MP!from_elf(image[t])
    BY AreasOfTheProgram
  <2>2. v \in MP!Page
    BY <2>1, MP!ProgramLayout, MemoryConstants
  <2>3. data_frames[pid[t]][v] \in Frame \ free
    BY <2>1, <2>2, MP!LiveFrames, MemoryConstants
  <2>4. SpaceOf(x) = pid[t] /\ PageOf(x) = v
    BY <1>2, PlaceOfPage
  <2> QED BY <1>1, <2>1, <2>2, <2>3, <2>4
<1>3. ASSUME NEW t \in Live, NEW i \in 1 .. StackPages, x = <<<<"stack", t>>, i>>
      PROVE  /\ SpaceOf(x) \in MP!Space /\ PageOf(x) \in MP!Page
             /\ data_frames[SpaceOf(x)][PageOf(x)] \in Frame \ free
  <2>1. pid[t] \in MP!Pid /\ proc[pid[t]] # "none"
    BY DEF Agree, Together, Overwritten, LivesAgree
  <2>2. PICK v : v = StackPage(t, i)
    OBVIOUS
  <2>3. v \in MP!Pages(MP!KernelStack(pid[t]))
    BY <2>2, StackPageOf
  <2>4. v \in MP!Page /\ data_frames[MP!Kernel][v] \in Frame \ free
    BY <2>1, <2>3, MP!KernelFrames, MemoryConstants
  <2>5. SpaceOf(x) = MP!Kernel /\ PageOf(x) = v
    BY <1>3, <2>2, PlaceOfPage
  <2> QED BY <1>1, <2>4, <2>5
<1> QED BY <1>2, <1>3, PageKinds

(* Two pages in use are not in the same place.                             *)
LEMMA PlacesApart ==
  ASSUME Inv, MP!Inv, Agree, NEW x \in PagesInUse, NEW y \in PagesInUse,
         SpaceOf(x) = SpaceOf(y), PageOf(x) = PageOf(y)
  PROVE  x = y
<1>1. \A t \in Live : pid[t] \in MP!Pid /\ pid[t] # MP!Kernel
  <2>1. \A p \in MP!Pid : p # MP!Kernel
    BY MemoryConstants DEF MP!Pid, MP!Kernel, MP!LayoutAssumption
  <2> QED BY <2>1 DEF Agree, Together, Overwritten, LivesAgree
<1>2. Runnable \subseteq Live
  BY DEF Runnable, Live
<1>3. ASSUME NEW t \in Runnable, NEW v, x = <<<<"image", t>>, v>>,
             NEW u \in Runnable, NEW w, y = <<<<"image", u>>, w>>
      PROVE  x = y
  <2>1. pid[t] = pid[u] /\ v = w
    BY <1>3, PlaceOfPage
  <2>2. t = u
    BY <1>2, <2>1, DistinctPids
  <2> QED BY <1>3, <2>1, <2>2
<1>4. ASSUME NEW t \in Live, NEW i \in 1 .. StackPages, x = <<<<"stack", t>>, i>>,
             NEW u \in Live, NEW j \in 1 .. StackPages, y = <<<<"stack", u>>, j>>
      PROVE  x = y
  <2>1. StackPage(t, i) = StackPage(u, j)
    BY <1>4, PlaceOfPage
  <2>2. PICK v : v = StackPage(t, i)
    OBVIOUS
  <2>3. v \in MP!Pages(MP!KernelStack(pid[t])) /\ v \in MP!Pages(MP!KernelStack(pid[u]))
    BY <2>1, <2>2, StackPageOf
  <2>4. pid[t] = pid[u]
    BY <1>1, <2>3, MP!StacksApart, MemoryConstants
  <2>5. t = u
    BY <2>4, DistinctPids
  <2>6. i = j
    BY <2>1, <2>5, StackPageOf
  <2> QED BY <1>4, <2>5, <2>6
<1>5. ASSUME NEW t \in Runnable, NEW v, x = <<<<"image", t>>, v>>,
             NEW u \in Live, NEW j, y = <<<<"stack", u>>, j>>
      PROVE  FALSE
  BY <1>1, <1>2, <1>5, PlaceOfPage
<1>6. ASSUME NEW t \in Live, NEW i, x = <<<<"stack", t>>, i>>,
             NEW u \in Runnable, NEW w, y = <<<<"image", u>>, w>>
      PROVE  FALSE
  BY <1>1, <1>2, <1>6, PlaceOfPage
<1> QED BY <1>3, <1>4, <1>5, <1>6, PageKinds

(* Every frame in use is that of such a page.                              *)
LEMMA FramesHavePages ==
  ASSUME MP!Inv, Agree, NEW s \in MP!Space, NEW v \in MP!Page, data_frames[s][v] # NoFrame
  PROVE  \E x \in PagesInUse : SpaceOf(x) = s /\ PageOf(x) = v
<1>1. CASE s = MP!Kernel
  <2>1. /\ {w \in MP!Page : data_frames[MP!Kernel][w] # NoFrame} = MP!PagesOf(areas[MP!Kernel])
        /\ areas[MP!Kernel] = {MP!KernelStack(p) : p \in {q \in MP!Pid : proc[q] # "none"}}
    BY DEF MP!Inv, MP!TablesMatchAreas, MP!AreasOK
  <2>2. v \in MP!PagesOf(areas[MP!Kernel])
    BY <1>1, <2>1
  <2>3. PICK q \in MP!Pid : proc[q] # "none" /\ v \in MP!Pages(MP!KernelStack(q))
    BY <2>1, <2>2 DEF MP!PagesOf
  <2>4. PICK t \in Live : pid[t] = q
    BY <2>3 DEF Agree, Together, Overwritten, LivesAgree
  <2>5. PICK i \in 1 .. StackPages : StackPage(t, i) = v
    BY <2>3, <2>4, StackPageOf
  <2>6. PICK x : x = <<<<"stack", t>>, i>>
    OBVIOUS
  <2>7. x \in PagesInUse
    BY <2>6, PageKinds
  <2>8. SpaceOf(x) = s /\ PageOf(x) = v
    BY <1>1, <2>5, <2>6, PlaceOfPage
  <2> QED BY <2>7, <2>8
<1>2. CASE s # MP!Kernel
  <2>1. s \in MP!Pid
    BY <1>2 DEF MP!Space
  <2>2. proc[s] = "live"
    <3> SUFFICES ASSUME proc[s] # "live" PROVE FALSE
      OBVIOUS
    <3>1. data_frames[s] = MP!Nowhere
      BY <2>1 DEF MP!Inv, MP!AreasOK
    <3> QED BY <3>1 DEF MP!Nowhere
  <2>3. PICK t \in Live : pid[t] = s
    BY <2>1, <2>2 DEF Agree, Together, Overwritten, LivesAgree
  <2>4. t \in Runnable
    BY <2>2, <2>3 DEF Agree, Together, Overwritten, LivesAgree
  <2>5. areas[s] = MP!from_elf(image[t])
    BY <2>3, <2>4, AreasOfTheProgram
  <2>6. v \in MP!PagesOf(MP!from_elf(image[t]))
    BY <2>1, <2>2, <2>5, MP!LiveFrames, MemoryConstants
  <2>7. PICK x : x = <<<<"image", t>>, v>>
    OBVIOUS
  <2>8. x \in PagesInUse
    BY <2>4, <2>6, <2>7, PageKinds
  <2>9. SpaceOf(x) = s /\ PageOf(x) = v
    BY <2>3, <2>7, PlaceOfPage
  <2> QED BY <2>8, <2>9
<1> QED BY <1>1, <1>2

(* So the pages in use and the frames in use are as many.                  *)
LEMMA FramesCounted ==
  ASSUME Inv, MP!Inv, Agree
  PROVE  Cardinality(Frame \ free) = Cardinality(PagesInUse)
<1> DEFINE F == Frame \ free
           g == [x \in PagesInUse |-> data_frames[SpaceOf(x)][PageOf(x)]]
           P == MP!Space \X MP!Page
           E == {y \in P : data_frames[y[1]][y[2]] # NoFrame}
           h == [y \in E |-> data_frames[y[1]][y[2]]]
<1>1. /\ \A s, t \in MP!Space : \A v, w \in MP!Page :
            data_frames[s][v] = data_frames[t][w] /\ data_frames[s][v] # NoFrame => s = t /\ v = w
      /\ \A f \in Frame : f \notin free => \E s \in MP!Space : \E v \in MP!Page : data_frames[s][v] = f
  <2>1. MP!OwnedOnce(data_frames, free)
    BY MP!FramesOwnedOnceDef, MemoryConstants DEF MP!Inv
  <2> QED BY <2>1 DEF MP!OwnedOnce, MP!Inv, MP!FramesOwnedOnce
<1>2. NoFrame \notin Frame
  BY MemoryConstants DEF MP!FrameAssumption
<1>3. \A f \in F : \E s \in MP!Space : \E v \in MP!Page : data_frames[s][v] = f /\ f # NoFrame
  BY <1>1, <1>2
<1>4. g \in [PagesInUse -> F]
  BY PagesHaveFrames
<1>5. \A x, y \in PagesInUse : g[x] = g[y] => x = y
  <2> SUFFICES ASSUME NEW x \in PagesInUse, NEW y \in PagesInUse, g[x] = g[y]
               PROVE  x = y
    OBVIOUS
  <2>1. /\ SpaceOf(x) \in MP!Space /\ PageOf(x) \in MP!Page
        /\ SpaceOf(y) \in MP!Space /\ PageOf(y) \in MP!Page
        /\ data_frames[SpaceOf(x)][PageOf(x)] # NoFrame
    BY <1>2, PagesHaveFrames
  <2>2. SpaceOf(x) = SpaceOf(y) /\ PageOf(x) = PageOf(y)
    BY <1>1, <2>1
  <2> QED BY <2>2, PlacesApart
<1>6. \A f \in F : \E x \in PagesInUse : g[x] = f
  <2> SUFFICES ASSUME NEW f \in F PROVE \E x \in PagesInUse : g[x] = f
    OBVIOUS
  <2>1. PICK s \in MP!Space : \E v \in MP!Page : data_frames[s][v] = f /\ f # NoFrame
    BY <1>3
  <2>2. PICK v \in MP!Page : data_frames[s][v] = f /\ f # NoFrame
    BY <2>1
  <2>3. PICK x \in PagesInUse : SpaceOf(x) = s /\ PageOf(x) = v
    BY <2>2, FramesHavePages
  <2> QED BY <2>2, <2>3
<1> HIDE DEF g
<1>7. ExistsBijection(PagesInUse, F)
  <2>1. g \in Bijection(PagesInUse, F)
    BY <1>4, <1>5, <1>6, Fun_IsBij
  <2> QED BY <2>1 DEF ExistsBijection
<1>8. IsFiniteSet(E)
  <2>1. MaxPid \in Nat /\ TRAMPOLINE \in Nat
    BY MemoryConstants DEF MP!LayoutAssumption
  <2>2. MP!Space = 0 .. MaxPid + 1 /\ MP!Page = 0 .. TRAMPOLINE
    BY <2>1 DEF MP!Space, MP!Pid, MP!Kernel, MP!Page
  <2>3. IsFiniteSet(0 .. MaxPid + 1) /\ IsFiniteSet(0 .. TRAMPOLINE)
    BY <2>1, FS_Interval
  <2>4. IsFiniteSet(P)
    BY <2>2, <2>3, FS_Product
  <2> HIDE DEF P
  <2> QED BY <2>4, FS_Subset
<1>9. IsFiniteSet(F)
  <2>1. h \in [E -> F \cup {NoFrame}] /\ \A f \in F : \E y \in E : h[y] = f
    <3>1. \A y \in P : y[1] \in MP!Space /\ y[2] \in MP!Page
      OBVIOUS
    <3>2. \A y \in E : h[y] \in F
      BY <3>1, MP!OwnedFrames, MemoryConstants
    <3>3. ASSUME NEW f \in F PROVE \E y \in E : h[y] = f
      <4>1. PICK s \in MP!Space : \E v \in MP!Page : data_frames[s][v] = f /\ f # NoFrame
        BY <1>3
      <4>2. PICK v \in MP!Page : data_frames[s][v] = f /\ f # NoFrame
        BY <4>1
      <4>3. <<s, v>> \in E /\ h[<<s, v>>] = f
        BY <4>2
      <4> QED BY <4>3
    <3> QED BY <3>2, <3>3
  <2>2. h \in [E -> F]
    <3>1. \A y \in P : y[1] \in MP!Space /\ y[2] \in MP!Page
      OBVIOUS
    <3> QED BY <3>1, MP!OwnedFrames, MemoryConstants
  <2> HIDE DEF h, E
  <2>3. h \in Surjection(E, F)
    BY <2>1, <2>2, Fun_IsSurj
  <2> QED BY <1>8, <2>3, FS_Surjection
<1> HIDE DEF F
<1>10. ExistsBijection(F, PagesInUse)
  BY <1>7, Fun_ExistsBijSymmetric
<1> QED BY <1>9, <1>10, FS_Bijection DEF F

(* No sequence of fork, exec, exit and waitpid leaks a frame: as many are  *)
(* in use as the images that run and the kernel stacks have pages.         *)
THEOREM FramesAreNotLeaked == KSpec => []NoFrameLeaks
<1>1. KInv => NoFrameLeaks
  BY FramesCounted DEF KInv, NoFrameLeaks
<1> QED BY <1>1, KernelInvariant, PTL
===============================================================================
