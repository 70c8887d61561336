------------------------------- MODULE Sched -------------------------------
(***************************************************************************)
(* The Core-0 scheduler (Core-0/sched/sched.c) on top of the frame         *)
(* allocator: a table of thread control blocks, a round-robin search       *)
(* driven by the timer, and thread stacks from mm_alloc and mm_free.       *)
(*                                                                         *)
(* Every operation runs under the scheduler's spinlock, with the           *)
(* allocator's lock inside it, and is one step; only the read of the       *)
(* return value of sched_create_thread comes after the unlock.             *)
(*                                                                         *)
(* THREAD_STATE_READY is 0, so a slot that was never used looks READY.     *)
(*                                                                         *)
(* Abstracted: time_slice, total_time, timer_ticks and priority are        *)
(* counted or stored and decide nothing; entry_point and arg are never     *)
(* called, since no context switch is implemented; sched_yield is empty    *)
(* and sched_sleep is a busy loop.                                         *)
(***************************************************************************)
EXTENDS PhysMem

CONSTANTS
  Callers,      \* contexts that call sched_create_thread
  MAX_THREADS,  \* slots of the thread table
  StackPages,   \* STACK_SIZE in pages
  UINT32_RANGE, \* num_threads wraps here: 2^32 in the code
  MaxThreadId,  \* bound: thread ids generated in a behaviour
  MaxTerminate  \* bound: calls of sched_terminate_thread

ASSUME SchedConstants ==
  /\ MAX_THREADS \in Nat \ {0} /\ StackPages \in Nat \ {0}
  /\ UINT32_RANGE \in Nat \ {0}
  /\ MaxThreadId \in Nat /\ MaxTerminate \in Nat
  /\ "KERNEL" \in UsedTypes

VARIABLES
  threads,
  num_threads,
  current_thread,  \* a slot number
  next_thread_id,
  returning,       \* the call of sched_create_thread a caller returns from
  terminations     \* history: calls of sched_terminate_thread so far

vars == <<mm, threads, num_threads, current_thread, next_thread_id, returning,
          terminations>>

TSlots == 0 .. MAX_THREADS - 1
ThreadIds == 0 .. MaxThreadId
ThreadStates == {"READY", "RUNNING", "BLOCKED", "TERMINATED"}
Tcb == [thread_id: ThreadIds, state: ThreadStates, stack_base: Pages]
NoThread == [thread_id |-> 0, state |-> "READY", stack_base |-> 0]
NotReturning == [slot |-> 0, id |-> 0]

-----------------------------------------------------------------------------
\* The first slot that is TERMINATED or whose state is 0.
FreeThreadSlot ==
  {s \in TSlots :
     /\ threads[s].state \in {"TERMINATED", "READY"}
     /\ \A t \in 0 .. s - 1 : threads[t].state \notin {"TERMINATED", "READY"}}

\* The slot of a thread id; an id stays in its slot after termination.
SlotOf(id) ==
  {s \in TSlots : /\ threads[s].thread_id = id
                  /\ \A t \in 0 .. s - 1 : threads[t].thread_id # id}

\* The slot i positions after the current one.
After(i) == (current_thread + i) % MAX_THREADS

\* The distance of the first READY slot among the next num_threads ones.
NextReady ==
  {i \in 1 .. num_threads :
     /\ threads[After(i)].state = "READY"
     /\ \A j \in 1 .. i - 1 : threads[After(j)].state # "READY"}

\* sched_init clears the table.  Its idle thread gets no stack, since mm_init
\* leaves every frame reserved, and is not created.
sched_init ==
  /\ threads = [s \in TSlots |-> NoThread]
  /\ num_threads = 0
  /\ current_thread = 0
  /\ next_thread_id = 1

Init ==
  /\ mm = mm_init
  /\ sched_init
  /\ returning = [c \in Callers |-> NotReturning]
  /\ terminations = 0

\* Boot code hands the frames from one page up to the allocator, once.
AddMemory(start) ==
  /\ Available(mm) = {} /\ next_thread_id = 1
  /\ mm' = mm_reserve(mm, start, total_pages - start, "AVAILABLE", 0)
  /\ UNCHANGED <<threads, num_threads, current_thread, next_thread_id,
                 returning, terminations>>

\* The locked part of sched_create_thread.  A stack at address 0 is taken for
\* a failed allocation: its pages are allocated and the call returns 0.
sched_create_thread(c) ==
  /\ returning[c] = NotReturning
  /\ next_thread_id <= MaxThreadId
  /\ \E s \in FreeThreadSlot, p \in FirstFit(mm, StackPages, 1) :
       /\ mm' = mm_alloc(mm, p, StackPages, "KERNEL", 0)
       /\ IF p = 0
          THEN UNCHANGED <<threads, num_threads, next_thread_id, returning>>
          ELSE /\ threads' = [threads EXCEPT ![s] =
                    [thread_id |-> next_thread_id, state |-> "READY", stack_base |-> p]]
               /\ next_thread_id' = next_thread_id + 1
               /\ num_threads' = (num_threads + 1) % UINT32_RANGE
               /\ returning' = [returning EXCEPT ![c] =
                                  [slot |-> s, id |-> next_thread_id]]
  /\ UNCHANGED <<current_thread, terminations>>

\* tcb->thread_id is read for the return value, without the lock.
ReturnThreadId(c) ==
  /\ returning[c] # NotReturning
  /\ returning' = [returning EXCEPT ![c] = NotReturning]
  /\ UNCHANGED <<mm, threads, num_threads, current_thread, next_thread_id, terminations>>

\* Callers name threads by ids sched_create_thread has returned.
KnownId(id) ==
  id \in 1 .. next_thread_id - 1 /\ \A c \in Callers : returning[c].id # id

\* sched_terminate_thread: whatever the thread's state is.
sched_terminate_thread(id) ==
  /\ KnownId(id)
  /\ terminations < MaxTerminate
  /\ \E s \in SlotOf(id) :
       /\ threads' = [threads EXCEPT ![s].state = "TERMINATED"]
       /\ mm' = mm_free(mm, threads[s].stack_base)
  /\ num_threads' = (num_threads - 1) % UINT32_RANGE
  /\ terminations' = terminations + 1
  /\ UNCHANGED <<current_thread, next_thread_id, returning>>

\* sched_block marks the current slot BLOCKED, whatever its state is: also a
\* slot no thread was created in, and one whose thread has been terminated.
sched_block ==
  /\ threads' = [threads EXCEPT ![current_thread].state = "BLOCKED"]
  /\ UNCHANGED <<mm, num_threads, current_thread, next_thread_id, returning,
                 terminations>>

\* sched_unblock makes the first BLOCKED slot with that id READY.
sched_unblock(id) ==
  LET blocked(s) == threads[s].thread_id = id /\ threads[s].state = "BLOCKED" IN
  /\ KnownId(id)
  /\ \E s \in TSlots :
       /\ blocked(s) /\ \A t \in 0 .. s - 1 : ~blocked(t)
       /\ threads' = [threads EXCEPT ![s].state = "READY"]
  /\ UNCHANGED <<mm, num_threads, current_thread, next_thread_id, returning,
                 terminations>>

\* Mutant: the thread that was running keeps its state.
sched_schedule_NoPreempt ==
  /\ \E i \in NextReady :
       /\ After(i) # current_thread
       /\ threads' = [threads EXCEPT ![After(i)].state = "RUNNING"]
       /\ current_thread' = After(i)
  /\ UNCHANGED <<mm, num_threads, next_thread_id, returning, terminations>>

\* sched_schedule, called by the timer: switch to the next READY slot.  The
\* slot that was current becomes READY, whatever its state was.
sched_schedule ==
  /\ \E i \in NextReady :
       /\ After(i) # current_thread
       /\ threads' = [threads EXCEPT ![current_thread].state = "READY",
                                     ![After(i)].state = "RUNNING"]
       /\ current_thread' = After(i)
  /\ UNCHANGED <<mm, num_threads, next_thread_id, returning, terminations>>

Next ==
  \/ \E start \in Pages : AddMemory(start)
  \/ \E c \in Callers : sched_create_thread(c) \/ ReturnThreadId(c)
  \/ \E id \in ThreadIds : sched_terminate_thread(id)
  \/ sched_block
  \/ \E id \in ThreadIds : sched_unblock(id)
  \/ sched_schedule

Spec == Init /\ [][Next]_vars
-----------------------------------------------------------------------------
(* Properties. *)

\* The table, the counters and the memory have their types.
TypeOK ==
  /\ mm \in State
  /\ threads \in [TSlots -> Tcb]
  /\ num_threads \in 0 .. UINT32_RANGE - 1
  /\ current_thread \in TSlots
  /\ next_thread_id \in 1 .. MaxThreadId + 1
  /\ returning \in [Callers -> [slot: TSlots, id: ThreadIds]]
  /\ terminations \in 0 .. MaxTerminate

\* Only the current slot is RUNNING, so at most one thread runs.
RunningIsCurrent ==
  \A s \in TSlots : threads[s].state = "RUNNING" => s = current_thread

\* No two slots carry the same thread id, so that a call that names a thread
\* reaches the thread that was meant.
ThreadIdsUnique ==
  \A s \in TSlots :
    /\ threads[s].thread_id < next_thread_id
    /\ \A t \in TSlots :
         threads[s].thread_id = threads[t].thread_id
           => s = t \/ threads[s].thread_id = 0

\* The threads that were created and not terminated.
LiveSlots ==
  {s \in TSlots : threads[s].thread_id # 0 /\ threads[s].state # "TERMINATED"}

Stack(s) == Run(threads[s].stack_base, StackPages)

\* Until a thread is terminated, every live thread has a stack of kernel frames
\* that no other live thread shares.
StacksIntact ==
  terminations = 0 => \A s \in LiveSlots :
    /\ \A p \in Stack(s) : mm.frames[p].type = "KERNEL"
    /\ \A t \in LiveSlots \ {s} : Stack(s) \cap Stack(t) = {}

\* The table is well formed, whatever the timer and the callers do: one thread
\* runs at most, and a thread id leads to one thread.
ThreadsSound == TypeOK /\ RunningIsCurrent /\ ThreadIdsUnique
=============================================================================
