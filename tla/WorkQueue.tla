----------------------------- MODULE WorkQueue -----------------------------
(***************************************************************************)
(* pipeline::WorkQueue<T>: the bounded multi-producer / multi-consumer     *)
(* blocking queue that joins the stages of both pipelines.                 *)
(*                                                                         *)
(* A critical section guarded by mutex_ is one step: from taking the lock  *)
(* to releasing it, or to the atomic "release and block" of a              *)
(* condition_variable wait.  What happens outside the lock is a step of    *)
(* its own: the wake-up of a waiter, and the two notify_all() calls that   *)
(* close() makes after it has released the mutex.  A waiter may also wake  *)
(* with no notification (spurious wake-up).                                *)
(*                                                                         *)
(* The callers are those of the pipelines: a producer pushes until push()  *)
(* returns false, a consumer pops until pop() returns nullopt, a closer    *)
(* calls close() once, at any time, whoever else has called it.            *)
(***************************************************************************)
EXTENDS Naturals, Sequences, FiniteSets

CONSTANTS Producers, Consumers, Closers,
          Items,      \* values pushed
          Capacity,   \* capacity_
          MaxPushes   \* bound: pushes accepted in one behaviour

ASSUME ThreadsAssumption ==
    /\ IsFiniteSet(Producers) /\ IsFiniteSet(Consumers)
    /\ Producers \cap Consumers = {}
    /\ Producers \cap Closers = {}
    /\ Consumers \cap Closers = {}
ASSUME BoundsAssumption == Capacity \in Nat \ {0} /\ MaxPushes \in Nat

VARIABLES queue,      \* queue_
          closed,     \* closed_
          not_full,   \* threads blocked on not_full_
          not_empty,  \* threads blocked on not_empty_
          pc,         \* where each thread is
          taken       \* history: the items popped, in order

vars == <<queue, closed, not_full, not_empty, pc, taken>>

Threads == Producers \cup Consumers \cup Closers

\* "run": about to take mutex_ (entering the operation, or woken in wait());
\* "wait": blocked on a condition variable; "done": told the queue is closed;
\* "notify_full", "notify_empty": a closer between its unlock and its return.
Init ==
    /\ queue = << >>
    /\ closed = FALSE
    /\ not_full = {}
    /\ not_empty = {}
    /\ pc = [t \in Threads |-> "run"]
    /\ taken = << >>

Goto(t, l) == pc' = [pc EXCEPT ![t] = l]

----------------------------------------------------------------------------
\* Mutant: the notification is forgotten.
NotifyNobody(waiters) == {{}}

\* notify_one(): the sets of waiters it may wake, one of them if there is any.
NotifyOne(waiters) == IF waiters = {} THEN {{}} ELSE {{t} : t \in waiters}

Wake(S) == pc' = [t \in Threads |-> IF t \in S THEN "run" ELSE pc[t]]

\* push(): the predicate of the wait is false, so the thread blocks.
PushWait(p) ==
    /\ pc[p] = "run"
    /\ ~closed
    /\ Len(queue) >= Capacity
    /\ not_full' = not_full \cup {p}
    /\ Goto(p, "wait")
    /\ UNCHANGED <<queue, closed, not_empty, taken>>

\* Mutant: push() drops the item and returns true.
PushClosedSilently(p) ==
    /\ pc[p] = "run" /\ closed
    /\ UNCHANGED <<queue, closed, not_full, not_empty, pc, taken>>

\* push() on a closed queue returns false.
PushClosed(p) ==
    /\ pc[p] = "run"
    /\ closed
    /\ Goto(p, "done")
    /\ UNCHANGED <<queue, closed, not_full, not_empty, taken>>

\* push() with room: enqueue, not_empty_.notify_one(), return true.
PushItem(p, v) ==
    /\ pc[p] = "run"
    /\ ~closed
    /\ Len(queue) < Capacity
    /\ Len(taken) + Len(queue) < MaxPushes
    /\ queue' = Append(queue, v)
    /\ \E woken \in NotifyOne(not_empty) :
          /\ not_empty' = not_empty \ woken
          /\ Wake(woken)
    /\ UNCHANGED <<closed, not_full, taken>>

----------------------------------------------------------------------------
\* Mutant: pop() waits on the wrong condition variable.
PopWaitNotFull(c) ==
    /\ pc[c] = "run" /\ ~closed /\ queue = << >>
    /\ not_full' = not_full \cup {c}
    /\ Goto(c, "wait")
    /\ UNCHANGED <<queue, closed, not_empty, taken>>

\* pop(): nothing queued and not closed, so the thread blocks.
PopWait(c) ==
    /\ pc[c] = "run"
    /\ ~closed
    /\ queue = << >>
    /\ not_empty' = not_empty \cup {c}
    /\ Goto(c, "wait")
    /\ UNCHANGED <<queue, closed, not_full, taken>>

\* Mutant: pop() tests closed_ before it looks at the queue.
PopClosedUndrained(c) ==
    /\ pc[c] = "run" /\ closed
    /\ Goto(c, "done")
    /\ UNCHANGED <<queue, closed, not_full, not_empty, taken>>

\* pop() on a closed and drained queue returns nullopt.
PopClosed(c) ==
    /\ pc[c] = "run"
    /\ closed
    /\ queue = << >>
    /\ Goto(c, "done")
    /\ UNCHANGED <<queue, closed, not_full, not_empty, taken>>

\* Mutant: the last item is handed out only after close().
PopItemLate(c) ==
    /\ pc[c] = "run" /\ (Len(queue) > 1 \/ (closed /\ queue # << >>))
    /\ taken' = Append(taken, Head(queue)) /\ queue' = Tail(queue)
    /\ \E woken \in NotifyOne(not_full) : not_full' = not_full \ woken /\ Wake(woken)
    /\ UNCHANGED <<closed, not_empty>>

\* pop() of the front item, closed or not, then not_full_.notify_one().
PopItem(c) ==
    /\ pc[c] = "run"
    /\ queue # << >>
    /\ taken' = Append(taken, Head(queue))
    /\ queue' = Tail(queue)
    /\ \E woken \in NotifyOne(not_full) :
          /\ not_full' = not_full \ woken
          /\ Wake(woken)
    /\ UNCHANGED <<closed, not_empty>>

----------------------------------------------------------------------------
\* close() under the lock: a later call returns at once, and does not wait
\* for the first one to have notified anybody.
CloseFlag(k) ==
    /\ pc[k] = "run"
    /\ closed' = TRUE
    /\ Goto(k, IF closed THEN "done" ELSE "notify_full")
    /\ UNCHANGED <<queue, not_full, not_empty, taken>>

\* close(), mutex_ released: not_full_.notify_all().
CloseNotifyFull(k) ==
    /\ pc[k] = "notify_full"
    /\ not_full' = {}
    /\ pc' = [t \in Threads |-> IF t = k THEN "notify_empty"
                                ELSE IF t \in not_full THEN "run" ELSE pc[t]]
    /\ UNCHANGED <<queue, closed, not_empty, taken>>

\* close(): not_empty_.notify_all(), then return.
CloseNotifyEmpty(k) ==
    /\ pc[k] = "notify_empty"
    /\ not_empty' = {}
    /\ pc' = [t \in Threads |-> IF t = k THEN "done"
                                ELSE IF t \in not_empty THEN "run" ELSE pc[t]]
    /\ UNCHANGED <<queue, closed, not_full, taken>>

\* A condition variable may return with no notification; wait() rechecks.
SpuriousWakeup(t) ==
    /\ t \in not_full \cup not_empty
    /\ not_full' = not_full \ {t}
    /\ not_empty' = not_empty \ {t}
    /\ Goto(t, "run")
    /\ UNCHANGED <<queue, closed, taken>>

----------------------------------------------------------------------------
Push(p) == PushWait(p) \/ PushClosed(p) \/ \E v \in Items : PushItem(p, v)
Pop(c) == PopWait(c) \/ PopClosed(c) \/ PopItem(c)
Close(k) == CloseFlag(k) \/ CloseNotifyFull(k) \/ CloseNotifyEmpty(k)

Next ==
    \/ \E p \in Producers : Push(p)
    \/ \E c \in Consumers : Pop(c)
    \/ \E k \in Closers : Close(k)
    \/ \E t \in Threads : SpuriousWakeup(t)

\* The scheduler runs every thread that is not blocked.  No spurious wake-up
\* is ever promised, and close() is called by somebody only if a caller does,
\* so a closer is fair only once it is inside close().
Fairness ==
    /\ \A p \in Producers : WF_vars(Push(p))
    /\ \A c \in Consumers : WF_vars(Pop(c))
    /\ \A k \in Closers : WF_vars(CloseNotifyFull(k) \/ CloseNotifyEmpty(k))

Spec == Init /\ [][Next]_vars
FairSpec == Spec /\ Fairness

----------------------------------------------------------------------------
\* Types of the queue's fields, and the waiters are threads of the right kind.
TypeOK ==
    /\ queue \in Seq(Items)
    /\ taken \in Seq(Items)
    /\ closed \in BOOLEAN
    /\ not_full \in SUBSET Producers
    /\ not_empty \in SUBSET Consumers
    /\ pc \in [Threads -> {"run", "wait", "done", "notify_full", "notify_empty"}]

\* No wake-up is lost: while the queue is open, a consumer stays blocked only
\* if every queued item has a running consumer to take it, and a producer
\* stays blocked only if every free slot has a running producer to fill it.
\* After close() has returned (its notifications done) nobody is blocked.
RunningConsumers == {c \in Consumers : pc[c] = "run"}
RunningProducers == {p \in Producers : pc[p] = "run"}
Notifying(l) == \E k \in Closers : pc[k] \in l

NoLostWakeup ==
    /\ ~closed /\ not_empty # {} => Len(queue) <= Cardinality(RunningConsumers)
    /\ ~closed /\ not_full # {} => Capacity - Len(queue) <= Cardinality(RunningProducers)
    /\ closed /\ not_full # {} => Notifying({"notify_full"})
    /\ closed /\ not_empty # {} => Notifying({"notify_full", "notify_empty"})

\* The queue with its condition variables implements the closable FIFO of
\* the header's contract: drained in order after close(), nothing dropped,
\* false / nullopt only when closed (and, for nullopt, empty).
Contract == INSTANCE ClosableQueue WITH
                accepted  <- taken \o queue,
                delivered <- Len(taken),
                shut      <- closed,
                refused   <- {t \in Producers \cup Consumers : pc[t] = "done"}
ImplementsContract == Contract!Spec

\* Every item a push() accepted is popped, whoever else competes for it.
EveryItemDelivered ==
    \A n \in 1..MaxPushes : Len(taken) + Len(queue) >= n ~> Len(taken) >= n

\* close() releases every caller: each producer gets false and each consumer
\* drains the queue and gets nullopt.
CloseReleasesAll ==
    closed ~> \A t \in Producers \cup Consumers : pc[t] = "done"
=============================================================================
