---------------------------- MODULE SchedProofs ----------------------------
(***************************************************************************)
(* Theorems about the Core-0 scheduler, for every size of the thread       *)
(* table, every amount of memory and every number of callers.              *)
(***************************************************************************)
EXTENDS Sched, PhysMemProofs

\* A slot number taken modulo the size of the table is in the table.
LEMMA SlotModulo ==
  ASSUME NEW k \in Int
  PROVE  k % MAX_THREADS \in TSlots /\ k % UINT32_RANGE \in 0 .. UINT32_RANGE - 1
  BY SchedConstants DEF TSlots

\* Types, and what the round-robin search and the id counter guarantee.
SchedInv == TypeOK /\ RunningIsCurrent /\ ThreadIdsUnique

\* sched_init starts without threads.
LEMMA InitSchedInv == Init => SchedInv
  <1> SUFFICES ASSUME Init PROVE SchedInv
    OBVIOUS
  <1>1. 0 \in TSlots /\ 0 \in ThreadIds /\ 0 \in Pages
    BY SchedConstants, MmConstants DEF TSlots, ThreadIds, Pages
  <1>2. NoThread \in Tcb /\ NoThread.state = "READY" /\ NoThread.thread_id = 0
    BY <1>1 DEF NoThread, Tcb, ThreadStates
  <1>3. NotReturning \in [slot: TSlots, id: ThreadIds]
    BY <1>1 DEF NotReturning
  <1>4. mm \in State
    BY mm_initTyped DEF Init
  <1>5. TypeOK
    BY <1>1, <1>2, <1>3, <1>4, SchedConstants DEF TypeOK, Init, sched_init
  <1>6. RunningIsCurrent /\ ThreadIdsUnique
    BY <1>2 DEF Init, sched_init, RunningIsCurrent, ThreadIdsUnique
  <1>7. QED
    BY <1>5, <1>6 DEF SchedInv

\* A step that changes at most the states of threads, and makes only the
\* slot that is current afterwards RUNNING.
LEMMA StateChange ==
  ASSUME SchedInv, threads' \in [TSlots -> Tcb], next_thread_id' = next_thread_id,
         \A s \in TSlots : threads'[s].thread_id = threads[s].thread_id,
         \A s \in TSlots : threads'[s].state = "RUNNING" => s = current_thread'
  PROVE  RunningIsCurrent' /\ ThreadIdsUnique'
  BY DEF SchedInv, RunningIsCurrent, ThreadIdsUnique

\* Every operation preserves the invariant.
LEMMA NextSchedInv == SchedInv /\ [Next]_vars => SchedInv'
  <1> SUFFICES ASSUME SchedInv, [Next]_vars PROVE SchedInv'
    OBVIOUS
  <1>t. TypeOK /\ RunningIsCurrent /\ ThreadIdsUnique
    BY DEF SchedInv
  <1>m. mm \in State /\ threads \in [TSlots -> Tcb] /\ current_thread \in TSlots
    BY <1>t DEF TypeOK
  <1>f. \A s \in TSlots : /\ threads[s].thread_id \in ThreadIds
                          /\ threads[s].state \in ThreadStates
                          /\ threads[s].stack_base \in Pages
    BY <1>m DEF Tcb
  <1>s. ASSUME NEW s \in TSlots, NEW v \in ThreadStates
        PROVE  /\ [threads EXCEPT ![s].state = v] \in [TSlots -> Tcb]
               /\ \A t \in TSlots :
                    /\ [threads EXCEPT ![s].state = v][t].thread_id = threads[t].thread_id
                    /\ [threads EXCEPT ![s].state = v][t].state =
                         IF t = s THEN v ELSE threads[t].state
    BY <1>m DEF Tcb
  <1>z. NotReturning \in [slot: TSlots, id: ThreadIds]
    BY SchedConstants DEF NotReturning, TSlots, ThreadIds
  <1>1. ASSUME NEW start \in Pages, AddMemory(start)
        PROVE  SchedInv'
    <2>1. /\ mm' = mm_reserve(mm, start, total_pages - start, "AVAILABLE", 0)
          /\ UNCHANGED <<threads, num_threads, current_thread, next_thread_id,
                         returning, terminations>>
      BY <1>1 DEF AddMemory
    <2>2. /\ start \in Nat /\ total_pages - start \in Nat
          /\ "AVAILABLE" \in MemTypes /\ 0 \in Owners
      BY MmConstants DEF Pages, MemTypes
    <2>3. mm' \in State
      BY <1>m, <2>1, <2>2, mm_reserveTyped
    <2>4. QED
      BY <1>t, <2>1, <2>3 DEF SchedInv, TypeOK, RunningIsCurrent, ThreadIdsUnique
  <1>2. ASSUME NEW c \in Callers, sched_create_thread(c)
        PROVE  SchedInv'
    <2>1. PICK s \in FreeThreadSlot, p \in FirstFit(mm, StackPages, 1) :
            /\ mm' = mm_alloc(mm, p, StackPages, "KERNEL", 0)
            /\ IF p = 0
               THEN UNCHANGED <<threads, num_threads, next_thread_id, returning>>
               ELSE /\ threads' = [threads EXCEPT ![s] =
                         [thread_id |-> next_thread_id, state |-> "READY",
                          stack_base |-> p]]
                    /\ next_thread_id' = next_thread_id + 1
                    /\ num_threads' = (num_threads + 1) % UINT32_RANGE
                    /\ returning' = [returning EXCEPT ![c] =
                                       [slot |-> s, id |-> next_thread_id]]
      BY <1>2 DEF sched_create_thread
    <2>2. UNCHANGED <<current_thread, terminations>> /\ next_thread_id <= MaxThreadId
      BY <1>2 DEF sched_create_thread
    <2>3. s \in TSlots /\ p \in Pages /\ p \in Int /\ StackPages \in Nat
          /\ "KERNEL" \in MemTypes /\ 0 \in Owners
      BY SchedConstants, MmConstants
         DEF FreeThreadSlot, FirstFit, Candidates, Available, Pages, MemTypes
    <2>4. mm' \in State
      BY <1>m, <2>1, <2>3, mm_allocTyped
    <2>5. CASE p = 0
      BY <1>t, <2>1, <2>2, <2>4, <2>5
         DEF SchedInv, TypeOK, RunningIsCurrent, ThreadIdsUnique
    <2>6. CASE p # 0
      <3> DEFINE new == [thread_id |-> next_thread_id, state |-> "READY",
                         stack_base |-> p]
      <3>1. next_thread_id \in ThreadIds /\ next_thread_id + 1 \in 1 .. MaxThreadId + 1
        BY <1>t, <2>2, SchedConstants DEF TypeOK, ThreadIds
      <3>2. new \in Tcb
        BY <2>3, <3>1 DEF Tcb, ThreadStates
      <3>3. threads' \in [TSlots -> Tcb]
        BY <1>m, <2>1, <2>6, <3>2
      <3>4. num_threads' \in 0 .. UINT32_RANGE - 1
        <4>1. num_threads + 1 \in Int
          BY <1>t, SchedConstants DEF TypeOK
        <4>2. QED
          BY <2>1, <2>6, <4>1, SlotModulo
      <3>5. returning' \in [Callers -> [slot: TSlots, id: ThreadIds]]
        BY <1>t, <2>1, <2>3, <2>6, <3>1 DEF TypeOK
      <3>6. TypeOK'
        BY <1>t, <2>1, <2>2, <2>4, <2>6, <3>1, <3>3, <3>4, <3>5 DEF TypeOK
      <3>7. \A t \in TSlots :
              /\ threads'[t].thread_id = IF t = s THEN next_thread_id ELSE threads[t].thread_id
              /\ threads'[t].state = IF t = s THEN "READY" ELSE threads[t].state
        BY <1>m, <2>1, <2>3, <2>6
      <3>8. RunningIsCurrent'
        BY <1>t, <2>2, <3>7 DEF RunningIsCurrent
      <3>9. \A t \in TSlots : threads[t].thread_id \in Int /\ next_thread_id \in Nat \ {0}
        BY <1>f, <1>t, SchedConstants DEF ThreadIds, TypeOK
      <3>10. next_thread_id' = next_thread_id + 1
        BY <2>1, <2>6
      <3>11. ThreadIdsUnique'
        BY <1>t, <3>7, <3>9, <3>10 DEF ThreadIdsUnique
      <3>12. QED
        BY <3>6, <3>8, <3>11 DEF SchedInv
    <2>7. QED
      BY <2>5, <2>6
  <1>3. ASSUME NEW c \in Callers, ReturnThreadId(c)
        PROVE  SchedInv'
    BY <1>3, <1>t, <1>z
       DEF ReturnThreadId, SchedInv, TypeOK, RunningIsCurrent, ThreadIdsUnique
  <1>4. ASSUME NEW id \in ThreadIds, sched_terminate_thread(id)
        PROVE  SchedInv'
    <2>1. PICK s \in SlotOf(id) :
            /\ threads' = [threads EXCEPT ![s].state = "TERMINATED"]
            /\ mm' = mm_free(mm, threads[s].stack_base)
      BY <1>4 DEF sched_terminate_thread
    <2>2. s \in TSlots /\ "TERMINATED" \in ThreadStates
      BY DEF SlotOf, ThreadStates
    <2>3. mm' \in State
      BY <1>m, <2>1, mm_freeTyped
    <2>4. /\ num_threads' = (num_threads - 1) % UINT32_RANGE
          /\ terminations' = terminations + 1 /\ terminations < MaxTerminate
          /\ UNCHANGED <<current_thread, next_thread_id, returning>>
      BY <1>4 DEF sched_terminate_thread
    <2>5. num_threads' \in 0 .. UINT32_RANGE - 1
      <3>1. num_threads - 1 \in Int
        BY <1>t, SchedConstants DEF TypeOK
      <3>2. QED
        BY <2>4, <3>1, SlotModulo
    <2>6. terminations' \in 0 .. MaxTerminate
      BY <1>t, <2>4, SchedConstants DEF TypeOK
    <2>7. threads' \in [TSlots -> Tcb]
      BY <1>s, <2>1, <2>2
    <2>8. TypeOK'
      BY <1>t, <2>3, <2>4, <2>5, <2>6, <2>7 DEF TypeOK
    <2>9. \A t \in TSlots : /\ threads'[t].thread_id = threads[t].thread_id
                            /\ threads'[t].state = "RUNNING" => t = current_thread'
      BY <1>s, <1>t, <2>1, <2>2, <2>4 DEF RunningIsCurrent
    <2>10. QED
      BY <2>4, <2>7, <2>8, <2>9, StateChange DEF SchedInv
  <1>5. ASSUME sched_block \/ \E id \in ThreadIds : sched_unblock(id)
        PROVE  SchedInv'
    <2>1. PICK s \in TSlots, v \in {"BLOCKED", "READY"} :
            threads' = [threads EXCEPT ![s].state = v]
      BY <1>5, <1>m DEF sched_block, sched_unblock
    <2>2. UNCHANGED <<mm, num_threads, current_thread, next_thread_id, returning,
                      terminations>>
      BY <1>5 DEF sched_block, sched_unblock
    <2>3. v \in ThreadStates
      BY DEF ThreadStates
    <2>4. threads' \in [TSlots -> Tcb]
      BY <1>s, <2>1, <2>3
    <2>5. \A t \in TSlots : /\ threads'[t].thread_id = threads[t].thread_id
                            /\ threads'[t].state = "RUNNING" => t = current_thread'
      BY <1>s, <1>t, <2>1, <2>2, <2>3 DEF RunningIsCurrent
    <2>6. TypeOK'
      BY <1>t, <2>2, <2>4 DEF TypeOK
    <2>7. QED
      BY <2>2, <2>4, <2>5, <2>6, StateChange DEF SchedInv
  <1>6. ASSUME sched_schedule
        PROVE  SchedInv'
    <2>1. PICK i \in NextReady :
            /\ After(i) # current_thread
            /\ threads' = [threads EXCEPT ![current_thread].state = "READY",
                                          ![After(i)].state = "RUNNING"]
            /\ current_thread' = After(i)
      BY <1>6 DEF sched_schedule
    <2>2. After(i) \in TSlots
      <3>1. current_thread + i \in Int
        BY <1>m, SchedConstants DEF NextReady, TSlots
      <3>2. QED
        BY <3>1, SlotModulo DEF After
    <2>3. UNCHANGED <<mm, num_threads, next_thread_id, returning, terminations>>
      BY <1>6 DEF sched_schedule
    <2>4. threads' \in [TSlots -> Tcb]
      BY <1>m, <2>1, <2>2 DEF Tcb, ThreadStates
    <2>5. \A t \in TSlots :
            /\ threads'[t].thread_id = threads[t].thread_id
            /\ threads'[t].state = IF t = After(i) THEN "RUNNING"
                                   ELSE IF t = current_thread THEN "READY"
                                   ELSE threads[t].state
      BY <1>m, <2>1, <2>2 DEF Tcb
    <2>6. \A t \in TSlots : threads'[t].state = "RUNNING" => t = current_thread'
      BY <1>t, <2>1, <2>5 DEF RunningIsCurrent
    <2>7. TypeOK'
      BY <1>t, <2>1, <2>2, <2>3, <2>4 DEF TypeOK
    <2>8. QED
      BY <2>3, <2>4, <2>5, <2>6, <2>7, StateChange DEF SchedInv
  <1>7. CASE UNCHANGED vars
    BY <1>7, <1>t DEF vars, SchedInv, TypeOK, RunningIsCurrent, ThreadIdsUnique
  <1>8. QED
    BY <1>1, <1>2, <1>3, <1>4, <1>5, <1>6, <1>7 DEF Next

\* At most one thread is RUNNING and it is the current one, and thread ids are
\* unique, whatever is created, terminated, blocked and scheduled.
THEOREM OneThreadRuns == Spec => []ThreadsSound
  <1>1. SchedInv => ThreadsSound
    BY DEF SchedInv, ThreadsSound
  <1>2. QED
    BY <1>1, InitSchedInv, NextSchedInv, PTL DEF Spec

-----------------------------------------------------------------------------
(***************************************************************************)
(* Stacks.  While no thread was terminated, a live stack lies in memory    *)
(* and its frames are KERNEL, so that mm_alloc's search, which looks at    *)
(* AVAILABLE frames only, finds the next stack elsewhere.  Before the      *)
(* first thread there is no stack that AddMemory could retype.             *)
(***************************************************************************)
StackInv ==
  terminations = 0 => \A s \in LiveSlots :
    /\ \A p \in Stack(s) : p \in Pages /\ mm.frames[p].type = "KERNEL"
    /\ \A t \in LiveSlots \ {s} : Stack(s) \cap Stack(t) = {}

\* A step that leaves memory, ids and stack addresses alone, and makes no
\* terminated thread live again while none was terminated.
LEMMA SameStacks ==
  ASSUME SchedInv, StackInv, threads' \in [TSlots -> Tcb],
         UNCHANGED <<mm, terminations>>,
         \A s \in TSlots : /\ threads'[s].thread_id = threads[s].thread_id
                           /\ threads'[s].stack_base = threads[s].stack_base,
         terminations = 0 => \A s \in TSlots :
           threads'[s].thread_id # 0 /\ threads'[s].state # "TERMINATED"
             => threads[s].state # "TERMINATED"
  PROVE  StackInv'
  <1> SUFFICES ASSUME terminations = 0
               PROVE  StackInv'
    BY DEF StackInv
  <1>1. LiveSlots' \subseteq LiveSlots /\ \A s \in TSlots : Stack(s)' = Stack(s)
    BY DEF LiveSlots, Stack
  <1>2. LiveSlots' \subseteq TSlots /\ mm' = mm
    BY DEF LiveSlots
  <1>3. QED
    BY <1>1, <1>2 DEF StackInv

\* Without a termination no thread is TERMINATED.
NoneTerminated ==
  terminations = 0 => \A s \in TSlots : threads[s].state # "TERMINATED"

LEMMA NextStackInv == SchedInv /\ StackInv /\ NoneTerminated /\ [Next]_vars
                        => StackInv' /\ NoneTerminated'
  <1> SUFFICES ASSUME SchedInv, StackInv, NoneTerminated, [Next]_vars
               PROVE  StackInv' /\ NoneTerminated'
    OBVIOUS
  <1>t. /\ mm \in State /\ threads \in [TSlots -> Tcb] /\ current_thread \in TSlots
        /\ next_thread_id \in Nat \ {0} /\ terminations \in Nat
        /\ \A s \in TSlots : threads[s].thread_id \in Nat
    BY SchedConstants DEF SchedInv, TypeOK, Tcb, ThreadIds
  <1>n. SchedInv'
    BY NextSchedInv
  <1>o. threads' \in [TSlots -> Tcb]
    BY <1>n DEF SchedInv, TypeOK
  <1>1. ASSUME NEW start \in Pages, AddMemory(start)
        PROVE  StackInv' /\ NoneTerminated'
    <2>1. next_thread_id = 1 /\ UNCHANGED <<threads, terminations>>
      BY <1>1 DEF AddMemory
    <2>2. \A s \in TSlots : threads[s].thread_id = 0
      BY <1>t, <2>1 DEF SchedInv, ThreadIdsUnique
    <2>3. LiveSlots' = {}
      BY <2>1, <2>2 DEF LiveSlots
    <2>4. QED
      BY <2>1, <2>3 DEF StackInv, NoneTerminated
  <1>2. ASSUME NEW c \in Callers, sched_create_thread(c)
        PROVE  StackInv' /\ NoneTerminated'
    <2>1. PICK s \in FreeThreadSlot, p \in FirstFit(mm, StackPages, 1) :
            /\ mm' = mm_alloc(mm, p, StackPages, "KERNEL", 0)
            /\ IF p = 0 THEN threads' = threads
               ELSE threads' = [threads EXCEPT ![s] =
                      [thread_id |-> next_thread_id, state |-> "READY",
                       stack_base |-> p]]
      BY <1>2 DEF sched_create_thread
    <2>2. terminations' = terminations
      BY <1>2 DEF sched_create_thread
    <2>3. /\ s \in TSlots /\ p \in Pages /\ p \in Int /\ StackPages \in Nat
          /\ "KERNEL" \in MemTypes /\ 0 \in Owners
          /\ Run(p, StackPages) \subseteq Available(mm)
      BY SchedConstants, MmConstants
         DEF FreeThreadSlot, FirstFit, Candidates, Available, Pages, MemTypes
    <2>4. mm'.frames = SetFrames(mm, Run(p, StackPages), "KERNEL", 0)
      <3>1. mm_alloc(mm, p, StackPages, "KERNEL", 0).frames =
              SetFrames(mm, Run(p, StackPages), "KERNEL", 0)
        BY <1>t, <2>3, mm_allocTyped
      <3>2. QED
        BY <2>1, <3>1
    <2>5. \A q \in Pages :
            mm'.frames[q].type = IF q \in Run(p, StackPages) THEN "KERNEL"
                                 ELSE mm.frames[q].type
      BY <2>4 DEF SetFrames
    <2>6. Run(p, StackPages) \subseteq Pages
      BY <2>3 DEF Available
    <2>7. NoneTerminated'
      BY <1>t, <2>1, <2>2, <2>3 DEF NoneTerminated
    <2> SUFFICES ASSUME terminations = 0
                 PROVE  StackInv'
      BY <2>2, <2>7 DEF StackInv
    <2>8. \A t \in LiveSlots :
            /\ \A q \in Stack(t) : q \in Pages /\ mm.frames[q].type = "KERNEL"
            /\ \A u \in LiveSlots \ {t} : Stack(t) \cap Stack(u) = {}
      BY DEF StackInv
    <2>9. \A t \in LiveSlots : Stack(t) \cap Run(p, StackPages) = {}
      BY <2>3, <2>8 DEF Available
    <2>10. CASE p = 0
      <3>1. LiveSlots' = LiveSlots /\ \A t \in LiveSlots : Stack(t)' = Stack(t)
        BY <2>1, <2>10 DEF LiveSlots, Stack
      <3>2. QED
        BY <2>5, <2>8, <3>1 DEF StackInv
    <2>11. CASE p # 0
      <3>1. \A t \in TSlots :
              threads'[t] = IF t = s THEN [thread_id |-> next_thread_id,
                                           state |-> "READY", stack_base |-> p]
                            ELSE threads[t]
        BY <1>t, <2>1, <2>3, <2>11
      <3>2. Stack(s)' = Run(p, StackPages)
        BY <2>3, <3>1 DEF Stack
      <3>3. \A t \in LiveSlots' \ {s} : t \in LiveSlots /\ Stack(t)' = Stack(t)
        BY <3>1 DEF LiveSlots, Stack
      <3>4. ASSUME NEW t \in LiveSlots', NEW q \in Stack(t)'
            PROVE  q \in Pages /\ mm'.frames[q].type = "KERNEL"
        <4>1. CASE t = s
          BY <2>5, <2>6, <3>2, <4>1
        <4>2. CASE t # s
          BY <2>5, <2>8, <3>3, <4>2
        <4>3. QED
          BY <4>1, <4>2
      <3>5. ASSUME NEW t \in LiveSlots', NEW u \in LiveSlots' \ {t}
            PROVE  Stack(t)' \cap Stack(u)' = {}
        <4>1. CASE t = s
          BY <2>9, <3>2, <3>3, <4>1
        <4>2. CASE u = s
          BY <2>9, <3>2, <3>3, <4>2
        <4>3. CASE t # s /\ u # s
          BY <2>8, <3>3, <4>3
        <4>4. QED
          BY <4>1, <4>2, <4>3
      <3>6. QED
        BY <3>4, <3>5 DEF StackInv
    <2>12. QED
      BY <2>10, <2>11
  <1>3. ASSUME NEW id \in ThreadIds, sched_terminate_thread(id)
        PROVE  StackInv' /\ NoneTerminated'
    <2>1. terminations' # 0
      BY <1>3, <1>t DEF sched_terminate_thread
    <2>2. QED
      BY <2>1 DEF StackInv, NoneTerminated
  <1>4. CASE sched_block \/ \E id \in ThreadIds : sched_unblock(id)
    <2>1. PICK s \in TSlots, v \in {"BLOCKED", "READY"} :
            threads' = [threads EXCEPT ![s].state = v]
      BY <1>4, <1>t DEF sched_block, sched_unblock
    <2>2. UNCHANGED <<mm, terminations>>
      BY <1>4 DEF sched_block, sched_unblock
    <2>3. \A t \in TSlots : /\ threads'[t].thread_id = threads[t].thread_id
                            /\ threads'[t].stack_base = threads[t].stack_base
                            /\ threads'[t].state \in {threads[t].state, "BLOCKED", "READY"}
      BY <1>t, <2>1 DEF Tcb
    <2>4. NoneTerminated'
      BY <2>2, <2>3 DEF NoneTerminated
    <2>5. StackInv'
      BY <1>o, <2>2, <2>3, SameStacks DEF NoneTerminated
    <2>6. QED
      BY <2>4, <2>5
  <1>5. CASE sched_schedule
    <2>1. PICK i : threads' = [threads EXCEPT ![current_thread].state = "READY",
                                             ![After(i)].state = "RUNNING"]
      BY <1>5 DEF sched_schedule
    <2>2. UNCHANGED <<mm, terminations>>
      BY <1>5 DEF sched_schedule
    <2>3. \A t \in TSlots : /\ threads'[t].thread_id = threads[t].thread_id
                            /\ threads'[t].stack_base = threads[t].stack_base
                            /\ threads'[t].state \in {threads[t].state, "RUNNING", "READY"}
      BY <1>t, <2>1 DEF Tcb
    <2>4. NoneTerminated'
      BY <2>2, <2>3 DEF NoneTerminated
    <2>5. StackInv'
      BY <1>o, <2>2, <2>3, SameStacks DEF NoneTerminated
    <2>6. QED
      BY <2>4, <2>5
  <1>6. CASE (\E c \in Callers : ReturnThreadId(c)) \/ UNCHANGED vars
    BY <1>6 DEF ReturnThreadId, vars, StackInv, NoneTerminated, LiveSlots, Stack
  <1>7. QED
    BY <1>1, <1>2, <1>3, <1>4, <1>5, <1>6 DEF Next

\* Until a thread is terminated every live thread keeps a stack of its own,
\* also when sched_create_thread takes the slot of a READY thread.
THEOREM StacksStayIntact == Spec => []StacksIntact
  <1>1. Init => StackInv /\ NoneTerminated
    BY DEF Init, sched_init, NoThread, StackInv, NoneTerminated, LiveSlots
  <1>2. StackInv => StacksIntact
    BY DEF StackInv, StacksIntact
  <1>3. QED
    BY <1>1, <1>2, InitSchedInv, NextSchedInv, NextStackInv, PTL DEF Spec
=============================================================================
