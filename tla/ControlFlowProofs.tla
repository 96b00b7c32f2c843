--------------------------- MODULE ControlFlowProofs ---------------------------
(***************************************************************************)
(* Proof that the trap and switch code is right for any set of tasks and   *)
(* programs of any length: the hart is always on the stack and in the space*)
(* of PROCESSOR.current, every context that __switch loads has been saved, *)
(* and every program has a processor of its own.                           *)
(***************************************************************************)
EXTENDS ControlFlow, SequenceTheorems, TLAPS

-------------------------------------------------------------------------------
(* Sequences.                                                              *)

(* Pushing e: the elements are those of s and e; a new e keeps the         *)
(* sequence free of duplicates.                                            *)
LEMMA AppendLemma ==
  ASSUME NEW S, NEW s \in Seq(S), NEW e \in S
  PROVE  /\ Append(s, e) \in Seq(S)
         /\ Append(s, e) # <<>>
         /\ Range(Append(s, e)) = Range(s) \cup {e}
         /\ IsInjective(s) /\ e \notin Range(s) => IsInjective(Append(s, e))
<1>1. /\ Append(s, e) \in Seq(S)
      /\ Len(Append(s, e)) = Len(s) + 1
      /\ \A i \in 1 .. Len(s) : Append(s, e)[i] = s[i]
      /\ Append(s, e)[Len(s) + 1] = e
  OBVIOUS
<1>2. DOMAIN Append(s, e) = 1 .. Len(s) + 1 /\ DOMAIN s = 1 .. Len(s)
  BY <1>1
<1>3. Range(Append(s, e)) = Range(s) \cup {e}
  BY <1>1, <1>2 DEF Range
<1>4. ASSUME IsInjective(s), e \notin Range(s)
      PROVE  IsInjective(Append(s, e))
  BY <1>1, <1>2, <1>4 DEF Range, IsInjective
<1> QED BY <1>1, <1>3, <1>4

(* Taking the head of a queue without duplicates.                          *)
LEMMA TailLemma ==
  ASSUME NEW S, NEW s \in Seq(S), s # <<>>
  PROVE  /\ Tail(s) \in Seq(S)
         /\ Head(s) \in S
         /\ Head(s) \in Range(s)
         /\ IsInjective(s) => /\ IsInjective(Tail(s))
                              /\ Range(Tail(s)) = Range(s) \ {Head(s)}
<1>1. Len(s) \in Nat \ {0} /\ DOMAIN s = 1 .. Len(s)
  BY EmptySeq, LenProperties
<1>2. /\ Tail(s) \in Seq(S)
      /\ Len(Tail(s)) = Len(s) - 1
      /\ \A i \in 1 .. Len(s) - 1 : Tail(s)[i] = s[i + 1]
      /\ Head(s) \in S
  BY HeadTailProperties
<1>3. Head(s) = s[1]
  OBVIOUS
<1>4. DOMAIN Tail(s) = 1 .. Len(s) - 1
  BY <1>1, <1>2, LenProperties
<1>5. Head(s) \in Range(s)
  BY <1>1, <1>3 DEF Range
<1>6. ASSUME IsInjective(s)
      PROVE  IsInjective(Tail(s)) /\ Range(Tail(s)) = Range(s) \ {Head(s)}
  <2>1. \A i \in 2 .. Len(s) : i - 1 \in 1 .. Len(s) - 1 /\ s[i] = Tail(s)[i - 1]
    BY <1>1, <1>2
  <2>2. IsInjective(Tail(s))
    BY <1>1, <1>2, <1>4, <1>6 DEF IsInjective
  <2>3. ASSUME NEW x \in Range(Tail(s)) PROVE x \in Range(s) \ {Head(s)}
    <3>1. PICK j \in 1 .. Len(s) - 1 : x = s[j + 1]
      BY <1>2, <1>4, <2>3 DEF Range
    <3> QED BY <1>1, <1>3, <1>6, <3>1 DEF Range, IsInjective
  <2>4. ASSUME NEW x \in Range(s), x # Head(s) PROVE x \in Range(Tail(s))
    <3>1. PICK j \in 2 .. Len(s) : x = s[j]
      BY <1>1, <1>3, <2>4 DEF Range
    <3>2. j - 1 \in DOMAIN Tail(s) /\ x = Tail(s)[j - 1]
      BY <1>4, <2>1, <3>1
    <3> QED BY <3>2 DEF Range
  <2> QED BY <2>2, <2>3, <2>4
<1> QED BY <1>2, <1>5, <1>6

-------------------------------------------------------------------------------
(* Contexts.                                                               *)

(* Writing the answer or stepping over the ecall keeps a trap context one, *)
(* with its kernel stack.                                                  *)
LEMMA ContextUpdates ==
  ASSUME NEW cx \in TrapContext, NEW r \in {0, 1}
  PROVE  /\ [cx EXCEPT !.a0 = r] \in TrapContext
         /\ [cx EXCEPT !.a0 = r].kernel_sp = cx.kernel_sp
         /\ [cx EXCEPT !.a0 = r].sepc = cx.sepc
         /\ [cx EXCEPT !.a0 = r].a0 = r
         /\ skip_ecall(cx) \in TrapContext
         /\ skip_ecall(cx).kernel_sp = cx.kernel_sp
         /\ skip_ecall(cx).sepc = (cx.sepc + 1) % CodeSize
         /\ skip_ecall(cx).a0 = cx.a0
<1>1. cx.sepc \in 0 .. CodeSize - 1 /\ CodeSize \in Nat \ {0}
  BY IdleAssumption DEF TrapContext
<1>2. (cx.sepc + 1) % CodeSize \in 0 .. CodeSize - 1
  BY <1>1
<1>3. cx = [sepc |-> cx.sepc, a0 |-> cx.a0, kernel_sp |-> cx.kernel_sp]
  BY DEF TrapContext
<1> QED BY <1>2, <1>3 DEF TrapContext, skip_ecall

(* A program's first trap context returns to its own kernel stack.         *)
LEMMA FreshContext ==
  ASSUME NEW t \in Task
  PROVE  app_init_context(t) \in TrapContext /\ app_init_context(t).kernel_sp = t
BY IdleAssumption DEF app_init_context, TrapContext

(* What kernel code of a task finds when it starts a stretch.              *)
LEMMA InKernel ==
  ASSUME Inv, panic = "none", pc \in {"trap_handler", "trap_return", "resumed"}
  PROVE  /\ current \in Task /\ current # None /\ current # Idle
         /\ sp = current /\ satp = Idle
         /\ status[current] = "Running" /\ current \notin Range(ready_queue)
         /\ trap_cx[current] \in TrapContext /\ trap_cx[current].kernel_sp = current
         /\ pc # "resumed" => stack[current] = None
         /\ pc = "resumed" => stack[current] # None /\ stvec = "trap_from_kernel"
<1>1. current \in Task /\ sp = current /\ satp = Idle
  BY DEF Inv, HartIsConsistent
<1>2. status[current] = "Running" /\ current \notin Range(ready_queue)
  BY <1>1 DEF Inv, QueueOK
<1>3. trap_cx[current] \in TrapContext /\ trap_cx[current].kernel_sp = current
  BY <1>1, <1>2 DEF Inv, ContextsOK
<1>4. pc # "resumed" => stack[current] = None
  BY <1>1, <1>2 DEF Inv, StackOK
<1> QED BY <1>1, <1>2, <1>3, <1>4, IdleAssumption DEF Inv, HartOK

(* The trap context of the current task behind its ecall.                  *)
LEMMA CalledContext ==
  ASSUME Inv, panic = "none", pc = "trap_handler"
  PROVE  /\ called = [trap_cx EXCEPT ![current] = skip_ecall(trap_cx[current])]
         /\ called[current] = skip_ecall(trap_cx[current])
         /\ called[current] \in TrapContext /\ called[current].kernel_sp = current
         /\ called \in [Task -> TrapContext \cup {None}]
<1>1. called = [trap_cx EXCEPT ![current] = skip_ecall(trap_cx[current])]
  BY DEF called
<1>2. skip_ecall(trap_cx[current]) \in TrapContext
      /\ skip_ecall(trap_cx[current]).kernel_sp = current
  BY InKernel, ContextUpdates
<1>3. trap_cx \in [Task -> TrapContext \cup {None}] /\ current \in Task
  BY InKernel DEF Inv, ContextsOK
<1> QED BY <1>1, <1>2, <1>3

-------------------------------------------------------------------------------
(* The steps.                                                              *)

LEMMA InitInv == Init => Inv
<1> SUFFICES ASSUME Init PROVE Inv
  OBVIOUS
<1>1. /\ ready_queue \in Seq(Task) /\ Range(ready_queue) = {InitTask}
      /\ IsInjective(ready_queue)
  BY IdleAssumption DEF Init, Range, IsInjective
<1>2. /\ trap_cx[InitTask] = app_init_context(InitTask)
      /\ app_init_context(InitTask) \in TrapContext
      /\ app_init_context(InitTask).kernel_sp = InitTask
  BY FreshContext, IdleAssumption DEF Init
<1>3. HartIsConsistent
  BY <1>1, IdleAssumption DEF Init, HartIsConsistent, TypeOK
<1>4. ContextsOK
  <2>1. trap_cx \in [Task -> TrapContext \cup {None}]
    BY <1>2 DEF Init
  <2>2. task_cx \in [Task \cup {Idle} ->
                      [ra : {"zero", "trap_return", "resumed", "run_tasks"},
                       sp : Task \cup {Idle, None}]]
    BY DEF Init, goto_trap_return, zero_init
  <2> QED BY <1>2, <2>1, <2>2 DEF Init, ContextsOK
<1>5. ContextsAreSaved
  BY <1>2, IdleAssumption DEF Init, ContextsAreSaved, goto_trap_return
<1>6. QueueOK
  BY <1>1, IdleAssumption DEF Init, QueueOK
<1>7. StackOK /\ HartOK /\ NoKernelTrap
  BY DEF Init, StackOK, HartOK, NoKernelTrap
<1> QED BY <1>3, <1>4, <1>5, <1>6, <1>7 DEF Inv

(* A stretch that ends in trap_return with a new trap context of the       *)
(* current task and nothing else changed.                                  *)
LEMMA FinishInv ==
  ASSUME Inv, panic = "none", pc \in {"trap_handler", "resumed"},
         NEW cx \in TrapContext, cx.kernel_sp = current,
         trap_cx' = [trap_cx EXCEPT ![current] = cx],
         pc' = "trap_return", panic' = "none",
         (stack' = stack /\ pc # "resumed") \/ stack' = [stack EXCEPT ![sp] = None],
         stvec' \in {"trap_from_kernel", "TRAMPOLINE"}, cause' \in Causes \cup {None},
         UNCHANGED <<sp, satp, regs, task_cx, schedVars, panic>>
  PROVE  Inv'
<1>1. /\ current \in Task /\ sp = current /\ satp = Idle
      /\ status[current] = "Running"
  BY InKernel
<1>2. stack' = [stack EXCEPT ![current] = None]
  BY <1>1, InKernel DEF Inv, HartIsConsistent, TypeOK
<1>3. HartIsConsistent'
  BY <1>1, <1>2 DEF Inv, HartIsConsistent, TypeOK, schedVars
<1>4. ContextsOK'
  BY <1>1 DEF Inv, ContextsOK, schedVars
<1>5. ContextsAreSaved'
  <2>1. /\ \A t \in Task : t # current => trap_cx'[t] = trap_cx[t] /\ stack'[t] = stack[t]
        /\ status'[current] # "Ready"
    BY <1>1, <1>2 DEF Inv, ContextsOK, HartIsConsistent, TypeOK, schedVars
  <2> QED BY <1>1, <2>1 DEF Inv, ContextsAreSaved, schedVars
<1>6. QueueOK'
  BY DEF Inv, QueueOK, schedVars
<1>7. StackOK'
  BY <1>1, <1>2 DEF Inv, StackOK, HartIsConsistent, TypeOK, schedVars
<1>8. HartOK' /\ NoKernelTrap'
  BY <1>1 DEF HartOK, NoKernelTrap
<1> QED BY <1>3, <1>4, <1>5, <1>6, <1>7, <1>8 DEF Inv

(* Writing the answer into the trap context.                               *)
LEMMA FinishWrites ==
  ASSUME NEW cxs \in [Task -> TrapContext \cup {None}], current \in Task,
         cxs[current] \in TrapContext,
         NEW r \in {0, 1}, finish(cxs, r)
  PROVE  trap_cx' = [cxs EXCEPT ![current] = [cxs[current] EXCEPT !.a0 = r]]
BY DEF finish

(* suspend_current_and_run_next: the current task is queued, its caller is *)
(* left on its stack and its context saved; the idle control flow goes on. *)
LEMMA SuspendInv ==
  ASSUME Inv, panic = "none", pc \in {"trap_handler", "resumed"},
         NEW caller \in Callers, suspend_current_and_run_next(caller),
         NEW cx \in TrapContext, cx.kernel_sp = current,
         trap_cx' = [trap_cx EXCEPT ![current] = cx],
         stvec' = "trap_from_kernel", cause' \in Causes \cup {None}
  PROVE  Inv'
<1>1. /\ current \in Task /\ current # None /\ current # Idle
      /\ sp = current /\ satp = Idle
      /\ status[current] = "Running" /\ current \notin Range(ready_queue)
  BY InKernel
<1>2. panic' = "none"
  BY DEF suspend_current_and_run_next
<1> DEFINE saved == [ra |-> "resumed", sp |-> current]
           idle  == [ra |-> "run_tasks", sp |-> Idle]
<1>3. /\ task_cx' = [task_cx EXCEPT ![current] = saved]
      /\ task_cx[Idle] = idle
  BY <1>1 DEF suspend_current_and_run_next, switch, saved_context, Inv, ContextsAreSaved
<1>4. task_cx' \in [Task \cup {Idle} ->
                     [ra : {"zero", "trap_return", "resumed", "run_tasks"},
                      sp : Task \cup {Idle, None}]]
  BY <1>1, <1>3 DEF Inv, ContextsOK
<1>5. /\ task_cx'[Idle] = idle /\ task_cx'[current] = saved
      /\ \A t \in Task : t # current => task_cx'[t] = task_cx[t]
  BY <1>1, <1>3 DEF Inv, ContextsOK
<1>6. pc' = "run_tasks" /\ sp' = Idle
  <2>1. pc' = task_cx'[Idle].ra /\ sp' = task_cx'[Idle].sp
    BY DEF suspend_current_and_run_next, switch
  <2> QED BY <1>5, <2>1
<1>7. /\ satp' = Idle /\ current' = None /\ regs' = regs
      /\ status' = [status EXCEPT ![current] = "Ready"]
      /\ ready_queue' = Append(ready_queue, current)
      /\ stack' = [stack EXCEPT ![current] = caller]
  BY <1>1 DEF suspend_current_and_run_next
<1>8. /\ ready_queue' \in Seq(Task) /\ IsInjective(ready_queue')
      /\ Range(ready_queue') = Range(ready_queue) \cup {current}
  BY <1>1, <1>7, AppendLemma DEF Inv, HartIsConsistent, TypeOK, QueueOK
<1>9. /\ status'[current] = "Ready" /\ \A t \in Task : t # current => status'[t] = status[t]
      /\ stack'[current] = caller /\ \A t \in Task : t # current => stack'[t] = stack[t]
      /\ trap_cx'[current] = cx /\ \A t \in Task : t # current => trap_cx'[t] = trap_cx[t]
  BY <1>1, <1>7 DEF Inv, HartIsConsistent, TypeOK, ContextsOK
<1>10. HartIsConsistent'
  BY <1>1, <1>2, <1>6, <1>7, <1>8 DEF Inv, HartIsConsistent, TypeOK
<1>11. ContextsOK'
  <2>1. trap_cx' \in [Task -> TrapContext \cup {None}]
    BY <1>1 DEF Inv, ContextsOK
  <2> QED BY <1>4, <1>9, <2>1 DEF Inv, ContextsOK
<1>12. ContextsAreSaved'
  <2>1. caller # None
    BY IdleAssumption
  <2> QED BY <1>5, <1>7, <1>9, <2>1 DEF Inv, ContextsAreSaved
<1>13. QueueOK'
  BY <1>1, <1>7, <1>8, <1>9, IdleAssumption DEF Inv, QueueOK
<1>14. StackOK'
  BY <1>1, <1>9 DEF Inv, StackOK
<1>15. HartOK' /\ NoKernelTrap'
  BY <1>2, <1>6, <1>7 DEF HartOK, NoKernelTrap
<1> QED BY <1>10, <1>11, <1>12, <1>13, <1>14, <1>15 DEF Inv

(* The idle control flow takes the oldest Ready task.                      *)
LEMMA run_tasksInv ==
  ASSUME Inv, panic = "none", run_tasks
  PROVE  Inv'
<1> DEFINE next == Head(ready_queue)
           idle == [ra |-> "run_tasks", sp |-> Idle]
<1>1. /\ sp = Idle /\ satp = Idle /\ current = None
      /\ stvec = "trap_from_kernel"
  BY DEF run_tasks, Inv, HartIsConsistent, HartOK
<1>2. /\ ready_queue' \in Seq(Task) /\ IsInjective(ready_queue')
      /\ Range(ready_queue') = Range(ready_queue) \ {next}
      /\ next \in Task /\ next \in Range(ready_queue)
  BY TailLemma DEF run_tasks, Inv, HartIsConsistent, TypeOK, QueueOK
<1>3. panic' = "none"
  BY DEF run_tasks
<1>4. /\ task_cx' = [task_cx EXCEPT ![Idle] = idle]
      /\ pc' = task_cx'[next].ra /\ sp' = task_cx'[next].sp
      /\ status' = [status EXCEPT ![next] = "Running"]
      /\ current' = next
      /\ UNCHANGED <<satp, stvec, regs, cause, trap_cx, stack>>
  BY <1>1 DEF run_tasks, switch, csrVars
<1>5. /\ next # Idle /\ next # None /\ status[next] = "Ready"
  BY <1>2, IdleAssumption DEF Inv, QueueOK
<1>6. /\ task_cx' \in [Task \cup {Idle} ->
                        [ra : {"zero", "trap_return", "resumed", "run_tasks"},
                         sp : Task \cup {Idle, None}]]
      /\ task_cx'[Idle] = idle /\ \A t \in Task : task_cx'[t] = task_cx[t]
  BY <1>4, IdleAssumption DEF Inv, ContextsOK
<1>7. sp' = next /\ pc' = IF stack[next] = None THEN "trap_return" ELSE "resumed"
  BY <1>2, <1>4, <1>5, <1>6 DEF Inv, ContextsAreSaved
<1>8. status'[next] = "Running" /\ \A t \in Task : t # next => status'[t] = status[t]
  BY <1>2, <1>4 DEF Inv, HartIsConsistent, TypeOK
<1> HIDE DEF next
<1>9. HartIsConsistent'
  BY <1>1, <1>2, <1>3, <1>4, <1>7 DEF Inv, HartIsConsistent, TypeOK
<1>10. ContextsOK'
  BY <1>4, <1>5, <1>6, <1>8 DEF Inv, ContextsOK
<1>11. ContextsAreSaved'
  BY <1>4, <1>6, <1>8 DEF Inv, ContextsAreSaved
<1>12. QueueOK'
  BY <1>1, <1>2, <1>4, <1>8, IdleAssumption DEF Inv, QueueOK
<1>13. StackOK'
  BY <1>1, <1>2, <1>4, <1>7, <1>8, IdleAssumption DEF Inv, StackOK
<1>14. HartOK' /\ NoKernelTrap'
  BY <1>1, <1>3, <1>4, <1>7 DEF HartOK, NoKernelTrap
<1> QED BY <1>9, <1>10, <1>11, <1>12, <1>13, <1>14 DEF Inv

LEMMA trap_returnInv ==
  ASSUME Inv, panic = "none", trap_return
  PROVE  Inv'
<1>1. /\ current \in Task /\ status[current] = "Running"
      /\ trap_cx[current] \in TrapContext /\ stack[current] = None
  BY InKernel DEF trap_return
<1>2. panic' = "none"
  BY DEF trap_return
<1>3. regs' \in Registers
  BY <1>1 DEF trap_return, TrapContext, Registers
<1>4. /\ pc' = "user" /\ sp' = None /\ satp' = current /\ stvec' = "TRAMPOLINE"
      /\ UNCHANGED <<task_cx, status, current, ready_queue, cause, trap_cx, stack, panic>>
  BY DEF trap_return, user_trap_entry, schedVars
<1>5. HartIsConsistent'
  BY <1>1, <1>2, <1>3, <1>4 DEF Inv, HartIsConsistent, TypeOK
<1>6. ContextsOK' /\ ContextsAreSaved' /\ QueueOK'
  BY <1>4 DEF Inv, ContextsOK, ContextsAreSaved, QueueOK
<1>7. StackOK'
  BY <1>1, <1>4 DEF trap_return, Inv, StackOK
<1>8. HartOK' /\ NoKernelTrap'
  BY <1>1, <1>2, <1>3, <1>4 DEF HartOK, NoKernelTrap
<1> QED BY <1>5, <1>6, <1>7, <1>8 DEF Inv

LEMMA computeInv ==
  ASSUME Inv, panic = "none", compute
  PROVE  Inv'
<1>1. /\ pc = "user" /\ regs \in Registers
      /\ UNCHANGED <<pc, sp, task_cx, satp, stvec, status, current, ready_queue, cause,
                     trap_cx, stack, panic>>
  BY DEF compute, switchVars, csrVars, schedVars, Inv, HartOK
<1>2. regs' \in Registers
  <2>1. PICK x \in 0 .. 1 : regs' = [sepc |-> (regs.sepc + 1) % CodeSize, a0 |-> x]
    BY DEF compute
  <2>2. regs.sepc \in 0 .. CodeSize - 1 /\ CodeSize \in Nat \ {0}
    BY <1>1, IdleAssumption DEF Registers
  <2>3. (regs.sepc + 1) % CodeSize \in 0 .. CodeSize - 1
    BY <2>2
  <2> QED BY <2>1, <2>3 DEF Registers
<1>3. HartIsConsistent'
  BY <1>1, <1>2 DEF Inv, HartIsConsistent, TypeOK
<1>4. ContextsOK' /\ ContextsAreSaved' /\ QueueOK' /\ StackOK' /\ NoKernelTrap'
  BY <1>1 DEF Inv, ContextsOK, ContextsAreSaved, QueueOK, StackOK, NoKernelTrap
<1>5. HartOK'
  BY <1>1, <1>2 DEF HartOK
<1> QED BY <1>3, <1>4, <1>5 DEF Inv

LEMMA alltrapsInv ==
  ASSUME Inv, panic = "none", NEW c \in Causes, alltraps(c)
  PROVE  Inv'
<1>1. /\ current \in Task /\ satp = current /\ stvec = "TRAMPOLINE"
      /\ regs \in Registers /\ status[current] = "Running"
  BY DEF alltraps, Inv, HartIsConsistent, HartOK, QueueOK
<1>2. trap_cx[current] \in TrapContext /\ trap_cx[current].kernel_sp = current
  BY <1>1 DEF Inv, ContextsOK
<1> DEFINE cx == [trap_cx[current] EXCEPT !.sepc = regs.sepc, !.a0 = regs.a0]
<1>3. trap_cx' = [trap_cx EXCEPT ![current] = cx]
  BY <1>1, <1>2 DEF alltraps, Inv, ContextsOK
<1>4. cx \in TrapContext /\ cx.kernel_sp = current
  BY <1>1, <1>2 DEF TrapContext, Registers
<1> HIDE DEF cx
<1>5. /\ pc' = "trap_handler" /\ sp' = current /\ satp' = Idle /\ panic' = "none"
      /\ cause' = c /\ regs' = None
      /\ UNCHANGED <<stvec, task_cx, status, current, ready_queue, stack>>
  BY <1>1, <1>2 DEF alltraps, schedVars
<1>6. HartIsConsistent'
  BY <1>1, <1>5 DEF Inv, HartIsConsistent, TypeOK
<1>7. /\ trap_cx' \in [Task -> TrapContext \cup {None}]
      /\ trap_cx'[current] = cx
      /\ \A t \in Task : t # current => trap_cx'[t] = trap_cx[t]
  BY <1>1, <1>3, <1>4 DEF Inv, ContextsOK
<1>8. ContextsOK' /\ ContextsAreSaved'
  BY <1>1, <1>4, <1>5, <1>7 DEF Inv, ContextsOK, ContextsAreSaved
<1>9. QueueOK' /\ StackOK'
  BY <1>1, <1>5 DEF alltraps, Inv, QueueOK, StackOK
<1>10. HartOK' /\ NoKernelTrap'
  BY <1>1, <1>5 DEF HartOK, NoKernelTrap
<1> QED BY <1>6, <1>8, <1>9, <1>10 DEF Inv

-------------------------------------------------------------------------------
(* trap_handler.                                                           *)

LEMMA sys_forkInv ==
  ASSUME Inv, panic = "none", NEW n \in Task, sys_fork(n)
  PROVE  Inv'
<1>1. pc = "trap_handler" /\ cause' = None /\ stvec' = "trap_from_kernel"
  BY DEF sys_fork, handles
<1>2. /\ current \in Task /\ current # None /\ sp = current /\ satp = Idle
      /\ status[current] = "Running" /\ stack[current] = None
  BY <1>1, InKernel
<1>3. /\ called \in [Task -> TrapContext \cup {None}]
      /\ called[current] \in TrapContext /\ called[current].kernel_sp = current
      /\ \A t \in Task : t # current => called[t] = trap_cx[t]
  BY <1>1, <1>2, CalledContext DEF Inv, ContextsOK
<1>4. status[n] = "Free" /\ n # current /\ stack[n] = None /\ n \notin Range(ready_queue)
  BY <1>1, <1>2 DEF sys_fork, Inv, StackOK, QueueOK
<1>5. panic' = "none"
  BY DEF sys_fork
<1>6. child_cx(n) \in TrapContext /\ child_cx(n).kernel_sp = n
  BY <1>3 DEF child_cx, TrapContext
<1> DEFINE cxs == [called EXCEPT ![n] = child_cx(n)]
           cx  == [called[current] EXCEPT !.a0 = 1]
<1>7. /\ cxs \in [Task -> TrapContext \cup {None}]
      /\ cxs[current] = called[current]
      /\ cxs[n] = child_cx(n)
      /\ \A t \in Task : t # n => cxs[t] = called[t]
  BY <1>2, <1>3, <1>4, <1>6
<1>8. cx \in TrapContext /\ cx.kernel_sp = current
  BY <1>3, ContextUpdates
<1>9. trap_cx' = [cxs EXCEPT ![current] = cx]
  BY <1>2, <1>3, <1>7, FinishWrites DEF sys_fork
<1> HIDE DEF cxs, cx
<1>10. /\ trap_cx' \in [Task -> TrapContext \cup {None}]
       /\ trap_cx'[n] = child_cx(n) /\ trap_cx'[current] = cx
       /\ \A t \in Task : t # n /\ t # current => trap_cx'[t] = trap_cx[t]
  BY <1>2, <1>3, <1>4, <1>7, <1>8, <1>9
<1>11. /\ pc' = "trap_return" /\ UNCHANGED <<sp, satp, regs, current, stack, panic>>
       /\ status' = [status EXCEPT ![n] = "Ready"]
       /\ ready_queue' = Append(ready_queue, n)
       /\ task_cx' = [task_cx EXCEPT ![n] = goto_trap_return(n)]
  BY DEF sys_fork, finish
<1>12. /\ ready_queue' \in Seq(Task) /\ IsInjective(ready_queue')
       /\ Range(ready_queue') = Range(ready_queue) \cup {n}
  BY <1>4, <1>11, AppendLemma DEF Inv, HartIsConsistent, TypeOK, QueueOK
<1>13. /\ status' \in [Task -> {"Free", "Ready", "Running", "Zombie"}]
       /\ status'[n] = "Ready" /\ \A t \in Task : t # n => status'[t] = status[t]
  BY <1>11 DEF Inv, HartIsConsistent, TypeOK
<1>14. /\ task_cx' \in [Task \cup {Idle} ->
                         [ra : {"zero", "trap_return", "resumed", "run_tasks"},
                          sp : Task \cup {Idle, None}]]
       /\ task_cx'[n] = [ra |-> "trap_return", sp |-> n]
       /\ \A t \in Task \cup {Idle} : t # n => task_cx'[t] = task_cx[t]
  BY <1>11 DEF Inv, ContextsOK, goto_trap_return
<1>15. HartIsConsistent'
  BY <1>1, <1>2, <1>5, <1>11, <1>12, <1>13 DEF Inv, HartIsConsistent, TypeOK
<1>16. ContextsOK'
  BY <1>2, <1>6, <1>8, <1>10, <1>13, <1>14 DEF Inv, ContextsOK
<1>17. ContextsAreSaved'
  BY <1>2, <1>4, <1>6, <1>10, <1>11, <1>13, <1>14, IdleAssumption DEF Inv, ContextsAreSaved
<1>18. QueueOK'
  BY <1>4, <1>11, <1>12, <1>13 DEF Inv, QueueOK
<1>19. StackOK'
  BY <1>1, <1>4, <1>11, <1>13 DEF Inv, StackOK
<1>20. HartOK' /\ NoKernelTrap'
  BY <1>2, <1>5, <1>11 DEF HartOK, NoKernelTrap
<1> QED BY <1>15, <1>16, <1>17, <1>18, <1>19, <1>20 DEF Inv

(* The calls that only answer.                                             *)
LEMMA AnswerInv ==
  ASSUME Inv, panic = "none", pc = "trap_handler", cause' = None,
         stvec' = "trap_from_kernel", panic' = "none",
         NEW r \in {0, 1}, finish(called, r),
         UNCHANGED <<task_cx, schedVars, stack, panic>>
  PROVE  Inv'
<1>1. /\ called \in [Task -> TrapContext \cup {None}] /\ current \in Task
      /\ called[current] \in TrapContext /\ called[current].kernel_sp = current
      /\ called = [trap_cx EXCEPT ![current] = skip_ecall(trap_cx[current])]
      /\ trap_cx \in [Task -> TrapContext \cup {None}]
  BY CalledContext, InKernel DEF Inv, ContextsOK
<1> DEFINE cx == [called[current] EXCEPT !.a0 = r]
<1>2. trap_cx' = [called EXCEPT ![current] = cx]
  BY <1>1, FinishWrites
<1>3. cx \in TrapContext /\ cx.kernel_sp = current
  BY <1>1, ContextUpdates
<1> HIDE DEF cx
<1>4. trap_cx' = [trap_cx EXCEPT ![current] = cx]
  BY <1>1, <1>2
<1> QED BY <1>3, <1>4, FinishInv DEF finish

LEMMA sys_execInv ==
  ASSUME Inv, panic = "none", sys_exec
  PROVE  Inv'
<1>1. pc = "trap_handler" /\ cause' = None /\ stvec' = "trap_from_kernel"
  BY DEF sys_exec, handles
<1>2. /\ called \in [Task -> TrapContext \cup {None}] /\ current \in Task
      /\ called = [trap_cx EXCEPT ![current] = skip_ecall(trap_cx[current])]
      /\ trap_cx \in [Task -> TrapContext \cup {None}]
  BY <1>1, CalledContext, InKernel DEF Inv, ContextsOK
<1> DEFINE new == app_init_context(current)
           cxs == [called EXCEPT ![current] = new]
           cx  == [new EXCEPT !.a0 = 0]
<1>3. new \in TrapContext /\ new.kernel_sp = current
  BY <1>2, FreshContext
<1>4. cx \in TrapContext /\ cx.kernel_sp = current
  BY <1>3, ContextUpdates
<1>5. finish(cxs, 0) /\ UNCHANGED <<task_cx, schedVars, stack, panic>>
  BY DEF sys_exec
<1> HIDE DEF new
<1>6. cxs \in [Task -> TrapContext \cup {None}] /\ cxs[current] = new
  BY <1>2, <1>3
<1> HIDE DEF cxs
<1>7. trap_cx' = [cxs EXCEPT ![current] = cx]
  BY <1>5, <1>6 DEF finish
<1> HIDE DEF cx
<1>8. trap_cx' = [trap_cx EXCEPT ![current] = cx]
  BY <1>2, <1>7 DEF cxs
<1>9. panic' = "none"
  BY DEF sys_exec
<1> QED BY <1>1, <1>4, <1>5, <1>8, <1>9, FinishInv DEF finish

LEMMA sys_plainInv ==
  ASSUME Inv, panic = "none", sys_plain \/ sys_waitpid_none
  PROVE  Inv'
<1>1. pc = "trap_handler" /\ cause' = None /\ stvec' = "trap_from_kernel"
  BY DEF sys_plain, sys_waitpid_none, handles
<1>2. panic' = "none"
  BY DEF sys_plain, sys_waitpid_none
<1>3. PICK x \in {0, 1} : finish(called, x)
  BY DEF sys_plain, sys_waitpid_none
<1>4. UNCHANGED <<task_cx, schedVars, stack, panic>>
  BY DEF sys_plain, sys_waitpid_none
<1> QED BY <1>1, <1>2, <1>3, <1>4, AnswerInv

LEMMA sys_waitpidInv ==
  ASSUME Inv, panic = "none", NEW z \in Task, sys_waitpid(z)
  PROVE  Inv'
<1>1. pc = "trap_handler" /\ cause' = None /\ stvec' = "trap_from_kernel"
  BY DEF sys_waitpid, handles
<1>2. /\ current \in Task /\ current # None /\ sp = current /\ satp = Idle
      /\ status[current] = "Running" /\ stack[current] = None
  BY <1>1, InKernel
<1>3. /\ called \in [Task -> TrapContext \cup {None}]
      /\ called[current] \in TrapContext /\ called[current].kernel_sp = current
      /\ \A t \in Task : t # current => called[t] = trap_cx[t]
  BY <1>1, <1>2, CalledContext DEF Inv, ContextsOK
<1>4. status[z] = "Zombie" /\ z # current /\ stack[z] = None /\ z # Idle
  BY <1>1, <1>2, IdleAssumption DEF sys_waitpid, Inv, StackOK
<1>5. panic' = "none"
  BY DEF sys_waitpid
<1> DEFINE cx  == [called[current] EXCEPT !.a0 = 1]
<1>6. cx \in TrapContext /\ cx.kernel_sp = current
  BY <1>3, ContextUpdates
<1>7. trap_cx' = [called EXCEPT ![current] = cx]
  BY <1>2, <1>3, FinishWrites DEF sys_waitpid
<1> HIDE DEF cx
<1>8. /\ trap_cx' \in [Task -> TrapContext \cup {None}]
      /\ trap_cx'[current] = cx
      /\ \A t \in Task : t # current => trap_cx'[t] = trap_cx[t]
  BY <1>2, <1>3, <1>6, <1>7
<1>9. /\ pc' = "trap_return" /\ UNCHANGED <<sp, satp, regs, current, ready_queue, stack, panic>>
      /\ status' = [status EXCEPT ![z] = "Free"]
      /\ task_cx' = [task_cx EXCEPT ![z] = zero_init]
  BY DEF sys_waitpid, finish
<1>10. /\ status' \in [Task -> {"Free", "Ready", "Running", "Zombie"}]
       /\ status'[z] = "Free" /\ \A t \in Task : t # z => status'[t] = status[t]
  BY <1>9 DEF Inv, HartIsConsistent, TypeOK
<1>11. /\ task_cx' \in [Task \cup {Idle} ->
                         [ra : {"zero", "trap_return", "resumed", "run_tasks"},
                          sp : Task \cup {Idle, None}]]
       /\ \A t \in Task \cup {Idle} : t # z => task_cx'[t] = task_cx[t]
  BY <1>9 DEF Inv, ContextsOK, zero_init
<1>12. HartIsConsistent'
  BY <1>1, <1>2, <1>5, <1>9, <1>10 DEF Inv, HartIsConsistent, TypeOK
<1>13. ContextsOK'
  BY <1>2, <1>6, <1>8, <1>10, <1>11 DEF Inv, ContextsOK
<1>14. ContextsAreSaved'
  BY <1>2, <1>4, <1>6, <1>8, <1>9, <1>10, <1>11 DEF Inv, ContextsAreSaved
<1>15. QueueOK' /\ StackOK'
  BY <1>1, <1>2, <1>4, <1>9, <1>10 DEF Inv, QueueOK, StackOK
<1>16. HartOK' /\ NoKernelTrap'
  BY <1>2, <1>5, <1>9 DEF HartOK, NoKernelTrap
<1> QED BY <1>12, <1>13, <1>14, <1>15, <1>16 DEF Inv

LEMMA SuspendingCallsInv ==
  ASSUME Inv, panic = "none", timer_interrupt \/ sys_yield \/ sys_read
  PROVE  Inv'
<1>1. pc = "trap_handler" /\ cause' = None /\ stvec' = "trap_from_kernel"
  BY DEF timer_interrupt, sys_yield, sys_read, handles
<1>2. /\ current \in Task /\ trap_cx \in [Task -> TrapContext \cup {None}]
      /\ trap_cx[current] \in TrapContext /\ trap_cx[current].kernel_sp = current
  BY <1>1, InKernel DEF Inv, ContextsOK
<1>3. "timer" \in Callers /\ "yield" \in Callers /\ "read" \in Callers
  BY DEF Callers
<1>4. ASSUME NEW caller \in Callers, suspend_current_and_run_next(caller), trap_cx' = called
      PROVE  Inv'
  <2> DEFINE cx == called[current]
  <2>1. cx \in TrapContext /\ cx.kernel_sp = current
        /\ trap_cx' = [trap_cx EXCEPT ![current] = cx]
    BY <1>1, <1>4, CalledContext
  <2> HIDE DEF cx
  <2> QED BY <1>1, <1>4, <2>1, SuspendInv
<1>5. CASE timer_interrupt
  <2> DEFINE cx == trap_cx[current]
  <2>1. trap_cx' = [trap_cx EXCEPT ![current] = cx]
    BY <1>2, <1>5 DEF timer_interrupt
  <2>2. cx \in TrapContext /\ cx.kernel_sp = current
    BY <1>2
  <2> HIDE DEF cx
  <2>3. suspend_current_and_run_next("timer")
    BY <1>5 DEF timer_interrupt
  <2> QED BY <1>1, <1>3, <2>1, <2>2, <2>3, SuspendInv
<1>6. CASE sys_yield
  BY <1>3, <1>4, <1>6 DEF sys_yield
<1>7. CASE sys_read
  <2>1. CASE suspend_current_and_run_next("read") /\ trap_cx' = called
    BY <1>3, <1>4, <2>1
  <2>2. CASE /\ finish(called, 1)
             /\ UNCHANGED <<task_cx, schedVars, stack, panic>>
    BY <1>1, <2>2, AnswerInv
  <2> QED BY <1>7, <2>1, <2>2 DEF sys_read
<1> QED BY <1>5, <1>6, <1>7

LEMMA exitInv ==
  ASSUME Inv, panic = "none", exit_current_and_run_next
  PROVE  Inv'
<1>1. /\ pc = "trap_handler" /\ cause' = None /\ stvec' = "trap_from_kernel"
      /\ UNCHANGED <<satp, regs, stack>>
  BY DEF exit_current_and_run_next, handles
<1>2. /\ current \in Task /\ current # None /\ sp = current /\ satp = Idle
      /\ status[current] = "Running" /\ stack[current] = None
      /\ current \notin Range(ready_queue)
  BY <1>1, InKernel
<1>3. CASE current = InitTask
  <2>1. panic' = "INITPROC exits" /\ UNCHANGED <<switchVars, schedVars, trap_cx>>
    BY <1>3 DEF exit_current_and_run_next
  <2>2. HartIsConsistent'
    BY <1>1, <2>1 DEF Inv, HartIsConsistent, TypeOK, switchVars, schedVars
  <2>3. ContextsOK' /\ ContextsAreSaved' /\ QueueOK' /\ StackOK'
    BY <1>1, <2>1 DEF Inv, ContextsOK, ContextsAreSaved, QueueOK, StackOK, switchVars, schedVars
  <2>4. HartOK' /\ NoKernelTrap'
    BY <2>1 DEF HartOK, NoKernelTrap
  <2> QED BY <2>2, <2>3, <2>4 DEF Inv
<1>4. CASE current # InitTask
  <2>1. /\ status' = [status EXCEPT ![current] = "Zombie"]
        /\ current' = None
        /\ trap_cx' = [trap_cx EXCEPT ![current] = None]
        /\ switch(task_cx, Idle)
        /\ UNCHANGED <<ready_queue, panic>>
    BY <1>4 DEF exit_current_and_run_next
  <2>2. panic' = "none"
    BY <2>1
  <2>3. task_cx' = task_cx /\ pc' = "run_tasks" /\ sp' = Idle
    BY <1>2, <2>1 DEF switch, Inv, ContextsAreSaved
  <2>4. /\ status' \in [Task -> {"Free", "Ready", "Running", "Zombie"}]
        /\ status'[current] = "Zombie"
        /\ \A t \in Task : t # current => status'[t] = status[t]
    BY <1>2, <2>1 DEF Inv, HartIsConsistent, TypeOK
  <2>5. /\ trap_cx' \in [Task -> TrapContext \cup {None}]
        /\ \A t \in Task : t # current => trap_cx'[t] = trap_cx[t]
    BY <1>2, <2>1 DEF Inv, ContextsOK
  <2>6. HartIsConsistent'
    BY <1>1, <1>2, <2>1, <2>2, <2>3, <2>4 DEF Inv, HartIsConsistent, TypeOK
  <2>7. ContextsOK' /\ ContextsAreSaved'
    BY <1>1, <2>1, <2>3, <2>4, <2>5 DEF Inv, ContextsOK, ContextsAreSaved
  <2>8. QueueOK' /\ StackOK'
    BY <1>1, <1>2, <2>1, <2>4, IdleAssumption DEF Inv, QueueOK, StackOK
  <2>9. HartOK' /\ NoKernelTrap'
    BY <2>1, <2>2, <2>3 DEF HartOK, NoKernelTrap
  <2> QED BY <2>6, <2>7, <2>8, <2>9 DEF Inv
<1> QED BY <1>3, <1>4

(* Behind the __switch of a suspended task.                                *)
LEMMA ResumeInv ==
  ASSUME Inv, panic = "none", resume_timer \/ resume_yield \/ resume_read
  PROVE  Inv'
<1>1. pc = "resumed" /\ UNCHANGED <<stvec, cause>>
  BY DEF resume_timer, resume_yield, resume_read, returns_to
<1>2. /\ current \in Task /\ trap_cx \in [Task -> TrapContext \cup {None}]
      /\ trap_cx[current] \in TrapContext /\ trap_cx[current].kernel_sp = current
      /\ stvec = "trap_from_kernel" /\ stvec' = "trap_from_kernel"
      /\ cause' \in Causes \cup {None}
  BY <1>1, InKernel DEF Inv, ContextsOK, HartIsConsistent, TypeOK
<1> DEFINE same == trap_cx[current]
<1>3. same \in TrapContext /\ same.kernel_sp = current
      /\ trap_cx = [trap_cx EXCEPT ![current] = same]
  BY <1>2
<1>4. ASSUME NEW r \in {0, 1}, finish(trap_cx, r), popped, panic' = "none",
             UNCHANGED <<task_cx, schedVars, panic>>
      PROVE  Inv'
  <2> DEFINE cx == [trap_cx[current] EXCEPT !.a0 = r]
  <2>1. trap_cx' = [trap_cx EXCEPT ![current] = cx]
    BY <1>2, <1>4, FinishWrites
  <2>2. cx \in TrapContext /\ cx.kernel_sp = current
    BY <1>2, ContextUpdates
  <2> HIDE DEF cx
  <2> QED BY <1>1, <1>2, <1>4, <2>1, <2>2, FinishInv DEF finish, popped
<1> HIDE DEF same
<1>5. CASE resume_timer
  <2>1. /\ popped /\ pc' = "trap_return" /\ trap_cx' = trap_cx
        /\ UNCHANGED <<sp, satp, task_cx, schedVars, regs, panic>>
    BY <1>5 DEF resume_timer
  <2> QED BY <1>1, <1>2, <1>3, <2>1, FinishInv DEF popped
<1>6. CASE resume_yield
  BY <1>4, <1>6 DEF resume_yield
<1>7. CASE resume_read
  <2>1. CASE suspend_current_and_run_next("read") /\ UNCHANGED trap_cx
    BY <1>1, <1>2, <1>3, <2>1, SuspendInv DEF Callers
  <2>2. CASE /\ popped /\ finish(trap_cx, 1)
             /\ UNCHANGED <<task_cx, schedVars, panic>>
    BY <1>4, <2>2
  <2> QED BY <1>7, <2>1, <2>2 DEF resume_read
<1> QED BY <1>5, <1>6, <1>7

LEMMA NextInv ==
  ASSUME Inv, [Next]_vars
  PROVE  Inv'
<1>1. CASE UNCHANGED vars
  <2>1. /\ UNCHANGED <<pc, sp, task_cx, satp, stvec, status, current, ready_queue>>
        /\ UNCHANGED <<regs, cause, trap_cx, stack, panic>>
    BY <1>1 DEF vars, switchVars, csrVars, schedVars
  <2>2. TypeOK'
    BY <2>1 DEF Inv, HartIsConsistent, TypeOK
  <2>3. HartIsConsistent'
    BY <2>1, <2>2 DEF Inv, HartIsConsistent
  <2>4. ContextsOK' /\ ContextsAreSaved'
    BY <2>1 DEF Inv, ContextsOK, ContextsAreSaved
  <2>5. QueueOK' /\ StackOK' /\ HartOK' /\ NoKernelTrap'
    BY <2>1 DEF Inv, QueueOK, StackOK, HartOK, NoKernelTrap
  <2> QED BY <2>3, <2>4, <2>5 DEF Inv
<1>2. CASE panic = "none" /\ (run_tasks \/ trap_return \/ compute)
  BY <1>2, run_tasksInv, trap_returnInv, computeInv
<1>3. CASE panic = "none" /\ \E c \in Causes : Possible(c) /\ alltraps(c)
  BY <1>3, alltrapsInv
<1>4. CASE panic = "none" /\ trap_handler
  BY <1>4, sys_forkInv, sys_waitpidInv, sys_execInv, sys_plainInv, SuspendingCallsInv,
     exitInv, ResumeInv DEF trap_handler
<1> QED BY <1>1, <1>2, <1>3, <1>4 DEF Next, shutdown

-------------------------------------------------------------------------------
(* The theorems.                                                           *)

(* The invariant of traps and switches holds in every reachable state, for *)
(* any number of tasks and programs of any length.                         *)
THEOREM ControlInvariant == Spec => []Inv
BY InitInv, NextInv, PTL DEF Spec

(* The hart is on the stack and in the address space of PROCESSOR.current, *)
(* with the trap entry that belongs there.                                 *)
THEOREM HartConsistent == Spec => []HartIsConsistent
<1>1. Inv => HartIsConsistent
  BY DEF Inv
<1> QED BY <1>1, ControlInvariant, PTL

(* Every context that __switch can load has been saved and not been used   *)
(* since.                                                                  *)
THEOREM ContextsSaved == Spec => []ContextsAreSaved
<1>1. Inv => ContextsAreSaved
  BY DEF Inv
<1> QED BY <1>1, ControlInvariant, PTL

-------------------------------------------------------------------------------
(* Every program has a processor of its own.                               *)

Cpus == [t \in Task |-> Cpu(t)]

(* The instructions of a program are a ring: one back undoes one forward.  *)
LEMMA Ring ==
  ASSUME NEW i \in 0 .. CodeSize - 1
  PROVE  /\ (i + 1) % CodeSize \in 0 .. CodeSize - 1
         /\ (i + CodeSize - 1) % CodeSize \in 0 .. CodeSize - 1
         /\ (((i + 1) % CodeSize) + CodeSize - 1) % CodeSize = i
         /\ (((i + CodeSize - 1) % CodeSize) + 1) % CodeSize = i
<1>1. CodeSize \in Nat \ {0} /\ i \in Nat
  BY IdleAssumption
<1>2. (i + 1) % CodeSize = IF i = CodeSize - 1 THEN 0 ELSE i + 1
  BY <1>1
<1>3. (i + CodeSize - 1) % CodeSize = IF i = 0 THEN CodeSize - 1 ELSE i - 1
  BY <1>1
<1>4. (i + CodeSize) % CodeSize = i /\ (CodeSize - 1) % CodeSize = CodeSize - 1
  BY <1>1
<1>5. CodeSize % CodeSize = 0
  BY <1>1
<1> QED BY <1>1, <1>2, <1>3, <1>4, <1>5

(* A program that is not over has registers.                               *)
LEMMA CpuType ==
  ASSUME Inv, NEW t \in Task, status[t] \in {"Ready", "Running"},
         panic = "none"
  PROVE  Cpu(t) \in Registers /\ Cpu(t) # None
<1>1. CASE pc = "user" /\ current = t
  BY <1>1, IdleAssumption DEF Inv, HartOK, Cpu
<1>2. CASE ~(pc = "user" /\ current = t)
  <2>1. trap_cx[t].sepc \in 0 .. CodeSize - 1 /\ trap_cx[t].a0 \in {0, 1}
    BY DEF Inv, ContextsOK, TrapContext
  <2>2. BeforeCall(t, trap_cx[t].sepc) \in 0 .. CodeSize - 1
    BY <2>1, Ring DEF BeforeCall
  <2>3. Cpu(t) = [sepc |-> BeforeCall(t, trap_cx[t].sepc), a0 |-> trap_cx[t].a0]
    BY <1>2 DEF Cpu
  <2> QED BY <2>1, <2>2, <2>3, IdleAssumption DEF Registers
<1> QED BY <1>1, <1>2

(* A task whose status, trap context and caller a step leaves alone keeps  *)
(* its processor.                                                          *)
LEMMA CpuKept ==
  ASSUME NEW t \in Task,
         status'[t] \in {"Ready", "Running"} <=> status[t] \in {"Ready", "Running"},
         status[t] \in {"Ready", "Running"} => trap_cx'[t] = trap_cx[t],
         InCall(t)' <=> InCall(t),
         ~(pc = "user" /\ current = t), ~(pc' = "user" /\ current' = t)
  PROVE  Cpu(t)' = Cpu(t)
BY DEF Cpu, BeforeCall

(* Nobody's processor changes.                                             *)
LEMMA CpusKept ==
  ASSUME \A t \in Task : Cpu(t)' = Cpu(t)
  PROVE  UNCHANGED Cpus
BY DEF Cpus

(* One processor changes.                                                  *)
LEMMA CpusChange ==
  ASSUME NEW t \in Task, NEW r, Cpu(t)' = r, \A u \in Task \ {t} : Cpu(u)' = Cpu(u)
  PROVE  Cpus' = [Cpus EXCEPT ![t] = r]
BY DEF Cpus

(* A step behind an instruction or a call is a step of the virtual         *)
(* processor.                                                              *)
LEMMA ComputeStep ==
  ASSUME NEW t \in Task, Cpu(t) # None, NEW x \in {0, 1},
         Cpu(t)' = [sepc |-> (Cpu(t).sepc + 1) % CodeSize, a0 |-> x],
         \A u \in Task \ {t} : Cpu(u)' = Cpu(u)
  PROVE  Virtual!Next
<1> DEFINE r == [sepc |-> (Cpu(t).sepc + 1) % CodeSize, a0 |-> x]
<1>1. Cpus[t] = Cpu(t)
  BY DEF Cpus
<1>2. Cpus' = [Cpus EXCEPT ![t] = r]
  BY CpusChange
<1>3. Virtual!Behind(Cpus[t], x) = r
  BY <1>1 DEF Virtual!Behind
<1> HIDE DEF r
<1>4. x \in 0 .. 1 /\ Cpus' = [Cpus EXCEPT ![t] = Virtual!Behind(Cpus[t], x)]
  BY <1>2, <1>3
<1>5. Virtual!compute(t)
  BY <1>4 DEF Virtual!compute, Cpus
<1> QED BY <1>1, <1>5 DEF Virtual!Next, Cpus

LEMMA InitCpus ==
  ASSUME Init
  PROVE  Virtual!Init
<1>1. ASSUME NEW t \in Task
      PROVE  Cpu(t) = IF t = InitTask THEN Virtual!Reset ELSE None
  BY IdleAssumption
     DEF Init, Cpu, BeforeCall, InCall, Callers, Virtual!Reset, app_init_context
<1> QED BY <1>1 DEF Virtual!Init

(* The idle control flow, trap_return, __alltraps and the timer interrupt  *)
(* are invisible to the programs.                                          *)
LEMMA run_tasksCpus ==
  ASSUME Inv, panic = "none", run_tasks
  PROVE  UNCHANGED Cpus
<1> DEFINE next == Head(ready_queue)
<1>1. next \in Task /\ next \in Range(ready_queue)
  BY TailLemma DEF run_tasks, Inv, HartIsConsistent, TypeOK
<1>2. /\ status' = [status EXCEPT ![next] = "Running"] /\ status[next] = "Ready"
      /\ pc = "run_tasks" /\ UNCHANGED <<trap_cx, stack>>
      /\ \A t \in Task : task_cx'[t] = task_cx[t]
      /\ pc' = task_cx'[next].ra
  BY <1>1, IdleAssumption DEF run_tasks, Inv, QueueOK, ContextsOK, switch
<1>3. pc' # "user"
  BY <1>1, <1>2 DEF Inv, ContextsAreSaved
<1>4. ASSUME NEW t \in Task PROVE Cpu(t)' = Cpu(t)
  <2>1. status'[t] \in {"Ready", "Running"} <=> status[t] \in {"Ready", "Running"}
    BY <1>1, <1>2 DEF Inv, HartIsConsistent, TypeOK
  <2>2. InCall(t)' <=> InCall(t)
    BY <1>2 DEF InCall
  <2> QED BY <1>2, <1>3, <2>1, <2>2, CpuKept
<1> QED BY <1>4, CpusKept

LEMMA trap_returnCpus ==
  ASSUME Inv, panic = "none", trap_return
  PROVE  UNCHANGED Cpus
<1>1. /\ pc = "trap_return" /\ current \in Task /\ stack[current] = None
      /\ status[current] = "Running"
      /\ regs' = [sepc |-> trap_cx[current].sepc, a0 |-> trap_cx[current].a0]
      /\ pc' = "user" /\ UNCHANGED <<status, current, trap_cx, stack>>
  BY InKernel DEF trap_return, schedVars
<1>2. ASSUME NEW t \in Task PROVE Cpu(t)' = Cpu(t)
  <2>1. InCall(t)' <=> InCall(t)
    BY <1>1 DEF InCall
  <2>2. CASE t = current
    <3>1. Cpu(t)' = regs'
      BY <1>1, <2>2 DEF Cpu
    <3>2. ~InCall(t)
      BY <1>1, <2>2, IdleAssumption DEF InCall, Callers
    <3>3. Cpu(t) = [sepc |-> trap_cx[t].sepc, a0 |-> trap_cx[t].a0]
      BY <1>1, <2>2, <3>2 DEF Cpu, BeforeCall
    <3> QED BY <1>1, <2>2, <3>1, <3>3
  <2>3. CASE t # current
    BY <1>1, <2>1, <2>3, CpuKept
  <2> QED BY <2>2, <2>3
<1> QED BY <1>2, CpusKept

LEMMA alltrapsCpus ==
  ASSUME Inv, panic = "none", NEW c \in Causes, alltraps(c)
  PROVE  UNCHANGED Cpus
<1>1. /\ current \in Task /\ satp = current /\ pc = "user" /\ regs \in Registers
      /\ status[current] = "Running" /\ trap_cx[current] \in TrapContext
      /\ stack[current] = None /\ pc' = "trap_handler"
      /\ UNCHANGED <<status, current, stack>>
  BY DEF alltraps, Inv, HartIsConsistent, HartOK, QueueOK, ContextsOK, StackOK, schedVars
<1> DEFINE cx == [trap_cx[current] EXCEPT !.sepc = regs.sepc, !.a0 = regs.a0]
<1>2. trap_cx' = [trap_cx EXCEPT ![current] = cx]
  BY <1>1 DEF alltraps, Inv, ContextsOK
<1>3. cx.sepc = regs.sepc /\ cx.a0 = regs.a0
  BY <1>1 DEF TrapContext
<1> HIDE DEF cx
<1>4. trap_cx'[current] = cx /\ \A t \in Task : t # current => trap_cx'[t] = trap_cx[t]
  BY <1>1, <1>2 DEF Inv, ContextsOK
<1>5. ASSUME NEW t \in Task PROVE Cpu(t)' = Cpu(t)
  <2>1. InCall(t)' <=> InCall(t)
    BY <1>1 DEF InCall
  <2>2. CASE t = current
    <3>1. Cpu(t) = regs
      BY <1>1, <2>2 DEF Cpu
    <3>2. ~InCall(t)'
      BY <1>1, <2>1, <2>2, IdleAssumption DEF InCall, Callers
    <3>3. Cpu(t)' = [sepc |-> cx.sepc, a0 |-> cx.a0]
      BY <1>1, <1>4, <2>2, <3>2 DEF Cpu, BeforeCall
    <3>4. regs = [sepc |-> regs.sepc, a0 |-> regs.a0]
      BY <1>1 DEF Registers
    <3> QED BY <1>3, <3>1, <3>3, <3>4
  <2>3. CASE t # current
    BY <1>1, <1>4, <2>1, <2>3, CpuKept
  <2> QED BY <2>2, <2>3
<1> QED BY <1>5, CpusKept

LEMMA computeCpus ==
  ASSUME Inv, panic = "none", compute
  PROVE  Virtual!Next
<1>1. PICK x \in {0, 1} : regs' = [sepc |-> (regs.sepc + 1) % CodeSize, a0 |-> x]
  BY DEF compute
<1>2. /\ pc = "user" /\ current \in Task /\ status[current] = "Running"
      /\ UNCHANGED <<pc, status, current, trap_cx, stack>>
  BY DEF compute, Inv, HartIsConsistent, QueueOK, switchVars, schedVars
<1>3. PICK t \in Task : t = current
  BY <1>2
<1>4. Cpu(t) = regs /\ Cpu(t) # None /\ Cpu(t)' = regs'
  BY <1>2, <1>3, CpuType DEF Cpu
<1>5. ASSUME NEW u \in Task \ {t} PROVE Cpu(u)' = Cpu(u)
  <2>1. InCall(u)' <=> InCall(u)
    BY <1>2 DEF InCall
  <2> QED BY <1>2, <1>3, <2>1, CpuKept
<1>6. Cpu(t)' = [sepc |-> (Cpu(t).sepc + 1) % CodeSize, a0 |-> x]
  BY <1>1, <1>4
<1> QED BY <1>4, <1>5, <1>6, ComputeStep

(* The processor of a task in the kernel is in its trap context; a call    *)
(* that waits has not been made yet.                                       *)
LEMMA KernelCpu ==
  ASSUME NEW t \in Task, status[t] \in {"Ready", "Running"}, pc # "user"
  PROVE  Cpu(t) = [sepc |-> IF InCall(t) THEN (trap_cx[t].sepc + CodeSize - 1) % CodeSize
                            ELSE trap_cx[t].sepc,
                   a0   |-> trap_cx[t].a0]
BY DEF Cpu, BeforeCall

LEMMA KernelCpuAfter ==
  ASSUME NEW t \in Task, status'[t] \in {"Ready", "Running"}, pc' # "user"
  PROVE  Cpu(t)' = [sepc |-> IF InCall(t)' THEN (trap_cx'[t].sepc + CodeSize - 1) % CodeSize
                             ELSE trap_cx'[t].sepc,
                    a0   |-> trap_cx'[t].a0]
BY DEF Cpu, BeforeCall

(* A task with nothing on its kernel stack is not inside a system call.    *)
LEMMA NotInCall ==
  ASSUME NEW t \in Task
  PROVE  /\ stack[t] = None => ~InCall(t)
         /\ stack'[t] = None => ~InCall(t)'
BY IdleAssumption DEF InCall, Callers

(* A call that answers at once.                                            *)
LEMMA AnswerCpus ==
  ASSUME Inv, panic = "none", pc = "trap_handler", NEW x \in {0, 1}, finish(called, x),
         UNCHANGED <<current, stack>>,
         \A t \in Task : status'[t] \in {"Ready", "Running"} <=> status[t] \in {"Ready", "Running"}
  PROVE  Virtual!Next
<1>1. PICK t \in Task : t = current
  BY InKernel
<1>2. /\ status[t] = "Running" /\ trap_cx[t] \in TrapContext /\ stack[t] = None
      /\ trap_cx \in [Task -> TrapContext \cup {None}]
      /\ called \in [Task -> TrapContext \cup {None}] /\ called[t] \in TrapContext
      /\ called = [trap_cx EXCEPT ![t] = skip_ecall(trap_cx[t])]
      /\ called[t] = skip_ecall(trap_cx[t])
      /\ pc' = "trap_return"
  BY <1>1, InKernel, CalledContext DEF Inv, ContextsOK, finish
<1>3. trap_cx' = [called EXCEPT ![t] = [called[t] EXCEPT !.a0 = x]]
  BY <1>1 DEF finish
<1>4. /\ trap_cx'[t] = [called[t] EXCEPT !.a0 = x]
      /\ \A u \in Task : u # t => trap_cx'[u] = trap_cx[u]
  BY <1>2, <1>3
<1>5. trap_cx'[t].sepc = (trap_cx[t].sepc + 1) % CodeSize /\ trap_cx'[t].a0 = x
  <2>1. called[t].sepc = (trap_cx[t].sepc + 1) % CodeSize
    BY <1>2, ContextUpdates
  <2> QED BY <1>2, <1>4, <2>1 DEF TrapContext
<1>6. /\ Cpu(t) = [sepc |-> trap_cx[t].sepc, a0 |-> trap_cx[t].a0]
      /\ Cpu(t)' = [sepc |-> trap_cx'[t].sepc, a0 |-> trap_cx'[t].a0]
  BY <1>1, <1>2, NotInCall, KernelCpu, KernelCpuAfter
<1>7. Cpu(t) # None
  BY <1>2, CpuType
<1>8. ASSUME NEW u \in Task \ {t} PROVE Cpu(u)' = Cpu(u)
  <2>1. InCall(u)' <=> InCall(u)
    BY DEF InCall
  <2> QED BY <1>2, <1>4, <2>1, CpuKept
<1>9. Cpu(t)' = [sepc |-> (Cpu(t).sepc + 1) % CodeSize, a0 |-> x]
  BY <1>5, <1>6
<1> QED BY <1>7, <1>8, <1>9, ComputeStep

(* A task that is suspended: a call it waits in has not been made yet, a   *)
(* timer interrupt leaves its registers as they were.                      *)
LEMMA SuspendCpus ==
  ASSUME Inv, panic = "none", pc \in {"trap_handler", "resumed"},
         NEW caller \in Callers, suspend_current_and_run_next(caller),
         NEW cx \in TrapContext, trap_cx' = [trap_cx EXCEPT ![current] = cx],
         [sepc |-> IF caller \in {"yield", "read"} THEN (cx.sepc + CodeSize - 1) % CodeSize
                   ELSE cx.sepc,
          a0   |-> cx.a0] = Cpu(current)
  PROVE  UNCHANGED Cpus
<1>1. PICK t \in Task : t = current
  BY InKernel
<1>2. /\ status[t] = "Running" /\ sp = t /\ t # Idle
      /\ status' = [status EXCEPT ![t] = "Ready"] /\ stack' = [stack EXCEPT ![t] = caller]
  BY <1>1, InKernel DEF suspend_current_and_run_next
<1>3. /\ status'[t] = "Ready" /\ \A u \in Task : u # t => status'[u] = status[u]
      /\ stack'[t] = caller /\ \A u \in Task : u # t => stack'[u] = stack[u]
      /\ trap_cx'[t] = cx /\ \A u \in Task : u # t => trap_cx'[u] = trap_cx[u]
  BY <1>1, <1>2 DEF Inv, HartIsConsistent, TypeOK, ContextsOK
<1>4. pc' = "run_tasks"
  <2>1. pc' = task_cx[Idle].ra
    BY <1>1, <1>2 DEF suspend_current_and_run_next, switch, saved_context, Inv, ContextsOK
  <2> QED BY <1>1, <2>1, InKernel DEF Inv, ContextsAreSaved
<1>5. Cpu(t)' = Cpu(t)
  <2>1. InCall(t)' <=> caller \in {"yield", "read"}
    BY <1>3 DEF InCall
  <2>2. Cpu(t)' = [sepc |-> IF caller \in {"yield", "read"}
                            THEN (cx.sepc + CodeSize - 1) % CodeSize ELSE cx.sepc,
                   a0   |-> cx.a0]
    BY <1>3, <1>4, <2>1, KernelCpuAfter
  <2> QED BY <1>1, <2>2
<1>6. ASSUME NEW u \in Task, u # t PROVE Cpu(u)' = Cpu(u)
  <2>1. InCall(u)' <=> InCall(u)
    BY <1>3, <1>6 DEF InCall
  <2> QED BY <1>3, <1>4, <1>6, <2>1, CpuKept
<1> QED BY <1>5, <1>6, CpusKept

LEMMA sys_forkCpus ==
  ASSUME Inv, panic = "none", NEW n \in Task, sys_fork(n)
  PROVE  Virtual!Next
<1>1. pc = "trap_handler" /\ pc' = "trap_return"
  BY DEF sys_fork, handles, finish
<1>2. PICK t \in Task : t = current
  BY <1>1, InKernel
<1>3. /\ status[t] = "Running" /\ trap_cx[t] \in TrapContext /\ stack[t] = None
      /\ trap_cx \in [Task -> TrapContext \cup {None}]
      /\ called \in [Task -> TrapContext \cup {None}] /\ called[t] \in TrapContext
      /\ called = [trap_cx EXCEPT ![t] = skip_ecall(trap_cx[t])]
      /\ called[t] = skip_ecall(trap_cx[t])
  BY <1>1, <1>2, InKernel, CalledContext DEF Inv, ContextsOK
<1>4. /\ status[n] = "Free" /\ n # t /\ stack[n] = None
      /\ stack' = stack /\ current' = current
      /\ status' = [status EXCEPT ![n] = "Ready"]
  BY <1>1, <1>2, <1>3 DEF sys_fork, Inv, StackOK
<1>5. /\ status'[n] = "Ready" /\ \A u \in Task : u # n => status'[u] = status[u]
  BY <1>4 DEF Inv, HartIsConsistent, TypeOK
<1> DEFINE child == child_cx(n)
           cxs == [called EXCEPT ![n] = child]
<1>6. child \in TrapContext /\ child.sepc = (trap_cx[t].sepc + 1) % CodeSize /\ child.a0 = 0
  <2>1. called[t].sepc = (trap_cx[t].sepc + 1) % CodeSize
    BY <1>3, ContextUpdates
  <2>2. child = [called[t] EXCEPT !.kernel_sp = n, !.a0 = 0]
    BY <1>2 DEF child_cx
  <2> QED BY <1>3, <2>1, <2>2 DEF TrapContext
<1>7. finish(cxs, 1)
  BY DEF sys_fork
<1> HIDE DEF child
<1>8. /\ cxs \in [Task -> TrapContext \cup {None}] /\ cxs[t] = called[t]
      /\ cxs[n] = child
      /\ \A u \in Task : u # n /\ u # t => cxs[u] = trap_cx[u]
  BY <1>3, <1>4, <1>6
<1> HIDE DEF cxs
<1>9. trap_cx' = [cxs EXCEPT ![t] = [called[t] EXCEPT !.a0 = 1]]
  BY <1>2, <1>7, <1>8 DEF finish
<1>10. /\ trap_cx'[t] = [called[t] EXCEPT !.a0 = 1] /\ trap_cx'[n] = child
       /\ \A u \in Task : u # n /\ u # t => trap_cx'[u] = trap_cx[u]
  BY <1>4, <1>8, <1>9
<1>11. trap_cx'[t].sepc = (trap_cx[t].sepc + 1) % CodeSize /\ trap_cx'[t].a0 = 1
  <2>1. called[t].sepc = (trap_cx[t].sepc + 1) % CodeSize
    BY <1>3, ContextUpdates
  <2> QED BY <1>3, <1>10, <2>1 DEF TrapContext
<1>12. /\ Cpu(t) = [sepc |-> trap_cx[t].sepc, a0 |-> trap_cx[t].a0]
       /\ Cpu(t)' = [sepc |-> trap_cx'[t].sepc, a0 |-> trap_cx'[t].a0]
       /\ Cpu(n)' = [sepc |-> child.sepc, a0 |-> child.a0]
  BY <1>1, <1>3, <1>4, <1>5, <1>10, NotInCall, KernelCpu, KernelCpuAfter
<1>13. Cpu(n) = None /\ Cpu(t) # None
  BY <1>3, <1>4, CpuType DEF Cpu
<1>14. ASSUME NEW u \in Task, u # n, u # t PROVE Cpu(u)' = Cpu(u)
  <2>1. InCall(u)' <=> InCall(u)
    BY <1>4 DEF InCall
  <2> QED BY <1>1, <1>5, <1>10, <1>14, <2>1, CpuKept
<1>15. /\ Cpus[t] = Cpu(t) /\ Cpus[n] = None
       /\ Cpu(t)' = Virtual!Behind(Cpus[t], 1)
       /\ Cpu(n)' = Virtual!Behind(Cpus[t], 0)
  <2>1. /\ Cpu(t).sepc = trap_cx[t].sepc /\ Cpus[t] = Cpu(t) /\ Cpus[n] = Cpu(n)
    BY <1>12 DEF Cpus
  <2>2. \A x : Virtual!Behind(Cpus[t], x) = [sepc |-> (Cpus[t].sepc + 1) % CodeSize, a0 |-> x]
    BY DEF Virtual!Behind
  <2> QED BY <1>6, <1>11, <1>12, <1>13, <2>1, <2>2
<1> DEFINE rt == Virtual!Behind(Cpus[t], 1)
           rn == Virtual!Behind(Cpus[t], 0)
<1>16. Cpu(t)' = rt /\ Cpu(n)' = rn
  BY <1>15
<1> HIDE DEF rt, rn
<1>17. Cpus' = [Cpus EXCEPT ![t] = rt, ![n] = rn]
  BY <1>4, <1>14, <1>16 DEF Cpus
<1>18. Virtual!fork(t, n)
  BY <1>15, <1>17 DEF Virtual!fork, Cpus, rt, rn
<1> QED BY <1>13, <1>15, <1>18 DEF Virtual!Next, Cpus

LEMMA sys_execCpus ==
  ASSUME Inv, panic = "none", sys_exec
  PROVE  Virtual!Next
<1>1. pc = "trap_handler" /\ pc' = "trap_return" /\ UNCHANGED <<status, current, stack>>
  BY DEF sys_exec, handles, finish, schedVars
<1>2. PICK t \in Task : t = current
  BY <1>1, InKernel
<1>3. /\ status[t] = "Running" /\ stack[t] = None
      /\ trap_cx \in [Task -> TrapContext \cup {None}]
      /\ called = [trap_cx EXCEPT ![t] = skip_ecall(trap_cx[t])]
  BY <1>1, <1>2, InKernel, CalledContext DEF Inv, ContextsOK
<1>4. trap_cx' = [[called EXCEPT ![t] = app_init_context(t)] EXCEPT ![t].a0 = 0]
  BY <1>2 DEF sys_exec, finish
<1>5. /\ trap_cx'[t] = [sepc |-> 0, a0 |-> 0, kernel_sp |-> t]
      /\ \A u \in Task : u # t => trap_cx'[u] = trap_cx[u]
  BY <1>3, <1>4 DEF app_init_context
<1>6. Cpu(t)' = Virtual!Reset
  BY <1>1, <1>3, <1>5, NotInCall, KernelCpuAfter DEF Virtual!Reset
<1>7. Cpu(t) # None
  BY <1>3, CpuType
<1>8. ASSUME NEW u \in Task \ {t} PROVE Cpu(u)' = Cpu(u)
  <2>1. InCall(u)' <=> InCall(u)
    BY <1>1 DEF InCall
  <2> QED BY <1>1, <1>5, <2>1, CpuKept
<1>9. Cpus' = [Cpus EXCEPT ![t] = Virtual!Reset]
  BY <1>6, <1>8, CpusChange
<1>10. Virtual!exec(t) /\ Cpus[t] # None
  BY <1>7, <1>9 DEF Virtual!exec, Cpus
<1> QED BY <1>10 DEF Virtual!Next, Cpus

LEMMA AnsweringCallsCpus ==
  ASSUME Inv, panic = "none",
         sys_plain \/ sys_waitpid_none \/ \E z \in Task : sys_waitpid(z)
  PROVE  Virtual!Next
<1>1. pc = "trap_handler" /\ UNCHANGED <<current, stack>>
  BY DEF sys_plain, sys_waitpid_none, sys_waitpid, handles, schedVars
<1>2. PICK x \in {0, 1} : finish(called, x)
  <2>1. CASE sys_plain
    BY <2>1 DEF sys_plain
  <2>2. CASE sys_waitpid_none \/ \E z \in Task : sys_waitpid(z)
    <3>1. finish(called, 1)
      BY <2>2 DEF sys_waitpid_none, sys_waitpid
    <3> QED BY <3>1
  <2> QED BY <2>1, <2>2
<1>3. \A t \in Task : status'[t] \in {"Ready", "Running"} <=> status[t] \in {"Ready", "Running"}
  <2>1. CASE sys_plain \/ sys_waitpid_none
    BY <2>1 DEF sys_plain, sys_waitpid_none, schedVars
  <2>2. ASSUME NEW z \in Task, sys_waitpid(z)
        PROVE  \A t \in Task :
                 status'[t] \in {"Ready", "Running"} <=> status[t] \in {"Ready", "Running"}
    <3>1. status[z] = "Zombie" /\ status' = [status EXCEPT ![z] = "Free"]
      BY <2>2 DEF sys_waitpid
    <3> QED BY <3>1 DEF Inv, HartIsConsistent, TypeOK
  <2> QED BY <2>1, <2>2
<1> QED BY <1>1, <1>2, <1>3, AnswerCpus

LEMMA SuspendingCallsCpus ==
  ASSUME Inv, panic = "none", timer_interrupt \/ sys_yield \/ sys_read
  PROVE  Virtual!Next \/ UNCHANGED Cpus
<1>1. pc = "trap_handler"
  BY DEF timer_interrupt, sys_yield, sys_read, handles
<1>2. /\ current \in Task /\ trap_cx \in [Task -> TrapContext \cup {None}]
      /\ trap_cx[current] \in TrapContext /\ stack[current] = None
      /\ status[current] = "Running"
  BY <1>1, InKernel DEF Inv, ContextsOK
<1>3. Cpu(current) = [sepc |-> trap_cx[current].sepc, a0 |-> trap_cx[current].a0]
  BY <1>1, <1>2, NotInCall, KernelCpu
<1>4. ASSUME NEW caller \in {"yield", "read"}, suspend_current_and_run_next(caller),
             trap_cx' = called
      PROVE  UNCHANGED Cpus
  <2> DEFINE cx == called[current]
             old == trap_cx[current]
  <2>1. cx \in TrapContext /\ trap_cx' = [trap_cx EXCEPT ![current] = cx]
    BY <1>1, <1>4, CalledContext
  <2>2. cx.sepc = (old.sepc + 1) % CodeSize /\ cx.a0 = old.a0
    BY <1>1, <1>2, CalledContext, ContextUpdates
  <2>3. old.sepc \in 0 .. CodeSize - 1
    BY <1>2 DEF TrapContext
  <2>4. (cx.sepc + CodeSize - 1) % CodeSize = old.sepc
    BY <2>2, <2>3, Ring
  <2> HIDE DEF cx
  <2>5. [sepc |-> (cx.sepc + CodeSize - 1) % CodeSize, a0 |-> cx.a0] = Cpu(current)
    BY <1>3, <2>2, <2>4
  <2> QED BY <1>1, <1>4, <2>1, <2>5, SuspendCpus DEF Callers
<1>5. CASE timer_interrupt
  <2> DEFINE cx == trap_cx[current]
  <2>1. trap_cx' = [trap_cx EXCEPT ![current] = cx] /\ cx \in TrapContext
    BY <1>2, <1>5 DEF timer_interrupt
  <2>2. suspend_current_and_run_next("timer")
    BY <1>5 DEF timer_interrupt
  <2> HIDE DEF cx
  <2>3. [sepc |-> cx.sepc, a0 |-> cx.a0] = Cpu(current)
    BY <1>3 DEF cx
  <2> QED BY <1>1, <2>1, <2>2, <2>3, SuspendCpus DEF Callers
<1>6. CASE sys_yield
  BY <1>4, <1>6 DEF sys_yield
<1>7. CASE sys_read
  <2>1. CASE suspend_current_and_run_next("read") /\ trap_cx' = called
    BY <1>4, <2>1
  <2>2. CASE /\ finish(called, 1)
             /\ UNCHANGED <<task_cx, schedVars, stack, panic>>
    BY <1>1, <2>2, AnswerCpus DEF schedVars
  <2> QED BY <1>7, <2>1, <2>2 DEF sys_read
<1> QED BY <1>5, <1>6, <1>7

LEMMA exitCpus ==
  ASSUME Inv, panic = "none", exit_current_and_run_next
  PROVE  Virtual!Next \/ UNCHANGED Cpus
<1>1. pc = "trap_handler" /\ stack' = stack
  BY DEF exit_current_and_run_next, handles
<1>2. PICK t \in Task : t = current
  BY <1>1, InKernel
<1>3. status[t] = "Running" /\ t # None
  BY <1>1, <1>2, InKernel
<1>4. CASE t = InitTask
  <2>1. UNCHANGED <<pc, status, current, trap_cx, stack>>
    BY <1>1, <1>2, <1>4 DEF exit_current_and_run_next, switchVars, schedVars
  <2>2. ASSUME NEW u \in Task PROVE Cpu(u)' = Cpu(u)
    <3>1. InCall(u)' <=> InCall(u)
      BY <2>1 DEF InCall
    <3> QED BY <1>1, <2>1, <3>1, CpuKept
  <2> QED BY <2>2, CpusKept
<1>5. CASE t # InitTask
  <2>1. /\ status' = [status EXCEPT ![t] = "Zombie"]
        /\ trap_cx' = [trap_cx EXCEPT ![t] = None]
        /\ switch(task_cx, Idle)
    BY <1>2, <1>5 DEF exit_current_and_run_next
  <2>2. pc' = "run_tasks"
    BY <1>2, <1>3, <2>1 DEF switch, Inv, ContextsAreSaved
  <2>3. /\ status'[t] = "Zombie"
        /\ \A u \in Task : u # t => status'[u] = status[u] /\ trap_cx'[u] = trap_cx[u]
    BY <2>1 DEF Inv, HartIsConsistent, TypeOK, ContextsOK
  <2>4. ASSUME NEW u \in Task \ {t} PROVE Cpu(u)' = Cpu(u)
    <3>1. InCall(u)' <=> InCall(u)
      BY <1>1 DEF InCall
    <3> QED BY <1>1, <2>2, <2>3, <3>1, CpuKept
  <2>5. Cpu(t)' = None
    BY <2>3 DEF Cpu
  <2>6. Cpus' = [Cpus EXCEPT ![t] = None]
    BY <2>4, <2>5, CpusChange
  <2>7. Cpu(t) # None
    BY <1>3, CpuType
  <2>8. Virtual!stop(t) /\ Cpus[t] # None
    BY <2>6, <2>7 DEF Virtual!stop, Cpus
  <2> QED BY <2>8 DEF Virtual!Next, Cpus
<1> QED BY <1>4, <1>5

LEMMA ResumeCpus ==
  ASSUME Inv, panic = "none", resume_timer \/ resume_yield \/ resume_read
  PROVE  Virtual!Next \/ UNCHANGED Cpus
<1>1. pc = "resumed"
  BY DEF resume_timer, resume_yield, resume_read, returns_to
<1>2. PICK t \in Task : t = current
  BY <1>1, InKernel
<1>3. /\ status[t] = "Running" /\ sp = t /\ trap_cx[t] \in TrapContext
      /\ trap_cx \in [Task -> TrapContext \cup {None}]
      /\ stack \in [Task -> Callers \cup {None}]
  BY <1>1, <1>2, InKernel DEF Inv, ContextsOK, HartIsConsistent, TypeOK
<1>4. ASSUME NEW x \in {0, 1}, finish(trap_cx, x), popped, UNCHANGED schedVars, InCall(t)
      PROVE  Virtual!Next
  <2>1. /\ pc' = "trap_return" /\ UNCHANGED <<status, current>>
        /\ stack'[t] = None /\ \A u \in Task : u # t => stack'[u] = stack[u]
    BY <1>3, <1>4 DEF finish, popped, schedVars
  <2>2. trap_cx' = [trap_cx EXCEPT ![t] = [trap_cx[t] EXCEPT !.a0 = x]]
    BY <1>2, <1>4 DEF finish
  <2>3. /\ trap_cx'[t].sepc = trap_cx[t].sepc /\ trap_cx'[t].a0 = x
        /\ \A u \in Task : u # t => trap_cx'[u] = trap_cx[u]
    BY <1>3, <2>2 DEF TrapContext
  <2>4. /\ Cpu(t) = [sepc |-> (trap_cx[t].sepc + CodeSize - 1) % CodeSize, a0 |-> trap_cx[t].a0]
        /\ Cpu(t)' = [sepc |-> trap_cx'[t].sepc, a0 |-> trap_cx'[t].a0]
    BY <1>1, <1>3, <1>4, <2>1, NotInCall, KernelCpu, KernelCpuAfter
  <2>5. ASSUME NEW u \in Task \ {t} PROVE Cpu(u)' = Cpu(u)
    <3>1. InCall(u)' <=> InCall(u)
      BY <2>1 DEF InCall
    <3> QED BY <1>1, <2>1, <2>3, <3>1, CpuKept
  <2>6. trap_cx[t].sepc \in 0 .. CodeSize - 1
    BY <1>3 DEF TrapContext
  <2>7. (Cpu(t).sepc + 1) % CodeSize = trap_cx[t].sepc
    BY <2>4, <2>6, Ring
  <2>8. Cpu(t) # None
    BY <1>3, CpuType
  <2>9. Cpu(t)' = [sepc |-> (Cpu(t).sepc + 1) % CodeSize, a0 |-> x]
    BY <2>3, <2>4, <2>7
  <2> QED BY <2>5, <2>8, <2>9, ComputeStep
<1>5. CASE resume_timer
  <2>1. /\ stack[t] = "timer" /\ pc' = "trap_return" /\ UNCHANGED <<trap_cx, status, current>>
        /\ stack' = [stack EXCEPT ![t] = None]
    BY <1>3, <1>5 DEF resume_timer, returns_to, popped, schedVars
  <2>2. ASSUME NEW u \in Task PROVE Cpu(u)' = Cpu(u)
    <3>1. InCall(u)' <=> InCall(u)
      BY <1>3, <2>1, IdleAssumption DEF InCall, Callers
    <3> QED BY <1>1, <2>1, <3>1, CpuKept
  <2> QED BY <2>2, CpusKept
<1>6. CASE resume_yield
  <2>1. InCall(t) /\ popped /\ finish(trap_cx, 0) /\ UNCHANGED schedVars
    BY <1>3, <1>6 DEF resume_yield, returns_to, InCall
  <2> QED BY <1>4, <2>1
<1>7. CASE resume_read
  <2>1. InCall(t)
    BY <1>3, <1>7 DEF resume_read, returns_to, InCall
  <2>2. CASE suspend_current_and_run_next("read") /\ UNCHANGED trap_cx
    <3> DEFINE cx == trap_cx[current]
    <3>1. cx \in TrapContext /\ trap_cx' = [trap_cx EXCEPT ![current] = cx]
      BY <1>2, <1>3, <2>2
    <3>2. Cpu(t) = [sepc |-> (trap_cx[t].sepc + CodeSize - 1) % CodeSize, a0 |-> trap_cx[t].a0]
      BY <1>1, <1>3, <2>1, KernelCpu
    <3>3. [sepc |-> (cx.sepc + CodeSize - 1) % CodeSize, a0 |-> cx.a0] = Cpu(current)
      BY <1>2, <3>2
    <3> HIDE DEF cx
    <3> QED BY <1>1, <2>2, <3>1, <3>3, SuspendCpus DEF Callers
  <2>3. CASE /\ popped /\ finish(trap_cx, 1)
             /\ UNCHANGED <<task_cx, schedVars, panic>>
    BY <1>4, <2>1, <2>3
  <2> QED BY <1>7, <2>2, <2>3 DEF resume_read
<1> QED BY <1>5, <1>6, <1>7

LEMMA NextCpus ==
  ASSUME Inv, [Next]_vars
  PROVE  [Virtual!Next]_Cpus
<1>1. CASE UNCHANGED vars
  <2>1. UNCHANGED <<pc, status, current, regs, trap_cx, stack>>
    BY <1>1 DEF vars, switchVars, schedVars
  <2>2. ASSUME NEW t \in Task PROVE Cpu(t)' = Cpu(t)
    BY <2>1 DEF Cpu, BeforeCall, InCall
  <2> QED BY <2>2, CpusKept
<1>2. CASE panic = "none" /\ (run_tasks \/ trap_return \/ compute)
  BY <1>2, run_tasksCpus, trap_returnCpus, computeCpus
<1>3. CASE panic = "none" /\ \E c \in Causes : Possible(c) /\ alltraps(c)
  BY <1>3, alltrapsCpus
<1>4. CASE panic = "none" /\ trap_handler
  BY <1>4, sys_forkCpus, sys_execCpus, AnsweringCallsCpus, SuspendingCallsCpus, exitCpus,
     ResumeCpus DEF trap_handler
<1> QED BY <1>1, <1>2, <1>3, <1>4 DEF Next, shutdown

(* The trap and switch code implements a processor for every program: its  *)
(* registers survive every interrupt and every other process, and a system *)
(* call is made once and answered in a0, also for the child of fork and    *)
(* for a call that waits in the kernel.                                    *)
THEOREM VirtualCpuRefinement == Spec => VirtualCpuSpec
<1>1. Init => Virtual!Init
  BY InitCpus
<1>2. Inv /\ [Next]_vars => [Virtual!Next]_Cpus
  BY NextCpus
<1>3. Inv /\ [Next]_vars => [Virtual!Next]_[t \in Task |-> Cpu(t)]
  BY <1>2 DEF Cpus
<1> QED BY <1>1, <1>3, ControlInvariant, PTL DEF Spec, VirtualCpuSpec, Virtual!Spec
===============================================================================
