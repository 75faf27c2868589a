-------------------------- MODULE WorkQueueProofs --------------------------
(***************************************************************************)
(* Proofs about WorkQueue, for any finite sets of producers and consumers, *)
(* any set of closers and any capacity: type correctness, the absence of   *)
(* lost wake-ups, and the implementation of the contract ClosableQueue.    *)
(***************************************************************************)
EXTENDS WorkQueue, TLAPS, FiniteSetTheorems, SequenceTheorems

\* Every blocked thread is in the wait set of its own condition variable, and
\* only a closer is ever about to notify.
WaitInv ==
    /\ \A p \in Producers : pc[p] = "wait" <=> p \in not_full
    /\ \A c \in Consumers : pc[c] = "wait" <=> c \in not_empty

\* The inductive strengthening of NoLostWakeup.
QueueInv == TypeOK /\ WaitInv /\ NoLostWakeup

----------------------------------------------------------------------------
\* The three kinds of threads exclude each other.
LEMMA ThreadKinds ==
    /\ \A p \in Producers : p \in Threads /\ p \notin Consumers /\ p \notin Closers
    /\ \A c \in Consumers : c \in Threads /\ c \notin Producers /\ c \notin Closers
    /\ \A k \in Closers : k \in Threads /\ k \notin Producers /\ k \notin Consumers
  BY ThreadsAssumption DEF Threads

\* A new queue is well typed.
LEMMA TypeInit == Init => TypeOK
<1> SUFFICES ASSUME Init PROVE TypeOK
  OBVIOUS
<1>1. queue \in Seq(Items) /\ taken \in Seq(Items)
  BY DEF Init
<1>2. closed \in BOOLEAN
  BY Zenon DEF Init
<1> QED
  BY <1>1, <1>2 DEF Init, TypeOK

\* The fields of the queue keep their types (WorkQueue.hpp, lines 79-86).
THEOREM TypeCorrect == Spec => []TypeOK
<1>1. Init => TypeOK
  BY TypeInit
<1>2. TypeOK /\ [Next]_vars => TypeOK'
  <2> SUFFICES ASSUME TypeOK, [Next]_vars PROVE TypeOK'
    OBVIOUS
  <2> USE DEF TypeOK, Goto, Wake, NotifyOne
  <2>1. ASSUME NEW p \in Producers, PushWait(p) PROVE TypeOK'
    BY <2>1 DEF PushWait
  <2>2. ASSUME NEW p \in Producers, PushClosed(p) PROVE TypeOK'
    BY <2>2 DEF PushClosed
  <2>3. ASSUME NEW p \in Producers, NEW v \in Items, PushItem(p, v) PROVE TypeOK'
    BY <2>3 DEF PushItem
  <2>4. ASSUME NEW c \in Consumers, PopWait(c) PROVE TypeOK'
    BY <2>4 DEF PopWait
  <2>5. ASSUME NEW c \in Consumers, PopClosed(c) PROVE TypeOK'
    BY <2>5 DEF PopClosed
  <2>6. ASSUME NEW c \in Consumers, PopItem(c) PROVE TypeOK'
    BY <2>6 DEF PopItem
  <2>7. ASSUME NEW k \in Closers, CloseFlag(k) PROVE TypeOK'
    BY <2>7 DEF CloseFlag
  <2>8. ASSUME NEW k \in Closers, CloseNotifyFull(k) PROVE TypeOK'
    BY <2>8 DEF CloseNotifyFull
  <2>9. ASSUME NEW k \in Closers, CloseNotifyEmpty(k) PROVE TypeOK'
    BY <2>9 DEF CloseNotifyEmpty
  <2>10. ASSUME NEW t \in Threads, SpuriousWakeup(t) PROVE TypeOK'
    BY <2>10 DEF SpuriousWakeup
  <2>11. CASE UNCHANGED vars
    BY <2>11 DEF vars
  <2> QED
    BY <2>1, <2>2, <2>3, <2>4, <2>5, <2>6, <2>7, <2>8, <2>9, <2>10, <2>11
       DEF Next, Push, Pop, Close
<1> QED
  BY <1>1, <1>2, PTL DEF Spec

----------------------------------------------------------------------------
\* What a notification does to the number of running threads of one kind.
LEMMA WokenCount ==
    ASSUME NEW S, IsFiniteSet(S), NEW f, NEW g,
           NEW w \in S, f[w] # "run", g[w] = "run",
           \A t \in S \ {w} : g[t] = f[t]
    PROVE  Cardinality({t \in S : g[t] = "run"}) =
               Cardinality({t \in S : f[t] = "run"}) + 1
<1> DEFINE R == {t \in S : f[t] = "run"}
<1>1. IsFiniteSet(R) /\ w \notin R
  BY FS_Subset
<1>2. {t \in S : g[t] = "run"} = R \cup {w}
  OBVIOUS
<1> QED
  BY <1>1, <1>2, FS_AddElement

\* The counts of running threads are natural numbers.
LEMMA RunningCounts ==
    /\ Cardinality(RunningConsumers) \in Nat
    /\ Cardinality(RunningProducers) \in Nat
  BY FS_Subset, FS_CardinalityType, ThreadsAssumption
     DEF RunningConsumers, RunningProducers

\* Blocked threads and wait sets agree after every step.
LEMMA WaitInvStep == TypeOK /\ WaitInv /\ [Next]_vars => WaitInv'
<1> SUFFICES ASSUME TypeOK, WaitInv, [Next]_vars PROVE WaitInv'
  OBVIOUS
<1> USE ThreadKinds DEF TypeOK, WaitInv, Goto, Wake, NotifyOne
<1>1. ASSUME NEW p \in Producers, PushWait(p) PROVE WaitInv'
  BY <1>1 DEF PushWait
<1>2. ASSUME NEW p \in Producers, PushClosed(p) PROVE WaitInv'
  BY <1>2 DEF PushClosed
<1>3. ASSUME NEW p \in Producers, NEW v \in Items, PushItem(p, v) PROVE WaitInv'
  BY <1>3 DEF PushItem
<1>4. ASSUME NEW c \in Consumers, PopWait(c) PROVE WaitInv'
  BY <1>4 DEF PopWait
<1>5. ASSUME NEW c \in Consumers, PopClosed(c) PROVE WaitInv'
  BY <1>5 DEF PopClosed
<1>6. ASSUME NEW c \in Consumers, PopItem(c) PROVE WaitInv'
  BY <1>6 DEF PopItem
<1>7. ASSUME NEW k \in Closers, CloseFlag(k) PROVE WaitInv'
  BY <1>7 DEF CloseFlag
<1>8. ASSUME NEW k \in Closers, CloseNotifyFull(k) PROVE WaitInv'
  BY <1>8 DEF CloseNotifyFull
<1>9. ASSUME NEW k \in Closers, CloseNotifyEmpty(k) PROVE WaitInv'
  BY <1>9 DEF CloseNotifyEmpty
<1>10. ASSUME NEW t \in Threads, SpuriousWakeup(t) PROVE WaitInv'
  BY <1>10 DEF SpuriousWakeup
<1>11. CASE UNCHANGED vars
  BY <1>11 DEF vars
<1> QED
  BY <1>1, <1>2, <1>3, <1>4, <1>5, <1>6, <1>7, <1>8, <1>9, <1>10, <1>11
     DEF Next, Push, Pop, Close

----------------------------------------------------------------------------
\* No step loses a wake-up.
LEMMA NoLostWakeupStep == QueueInv /\ [Next]_vars => NoLostWakeup'
<1> SUFFICES ASSUME QueueInv, [Next]_vars PROVE NoLostWakeup'
  OBVIOUS
<1> USE ThreadKinds, RunningCounts, BoundsAssumption
<1>1. ASSUME NEW p \in Producers, PushWait(p) PROVE NoLostWakeup'
  <2>1. Cardinality(RunningProducers') \in Nat
    BY FS_Subset, FS_CardinalityType, ThreadsAssumption DEF RunningProducers
  <2>2. RunningConsumers' = RunningConsumers
    BY <1>1 DEF PushWait, Goto, RunningConsumers, QueueInv, TypeOK
  <2>3. Capacity - Len(queue') <= Cardinality(RunningProducers')
    BY <1>1, <2>1 DEF PushWait, QueueInv, TypeOK
  <2> QED
    BY <1>1, <2>2, <2>3 DEF PushWait, Goto, NoLostWakeup, Notifying, QueueInv, TypeOK
<1>2. ASSUME NEW p \in Producers, PushClosed(p) PROVE NoLostWakeup'
  BY <1>2 DEF PushClosed, Goto, NoLostWakeup, Notifying, QueueInv, TypeOK
<1>3. ASSUME NEW p \in Producers, NEW v \in Items, PushItem(p, v) PROVE NoLostWakeup'
  <2>1. PICK woken \in NotifyOne(not_empty) : not_empty' = not_empty \ woken /\ Wake(woken)
    BY <1>3 DEF PushItem
  <2>2. RunningProducers' = RunningProducers
    BY <2>1 DEF NotifyOne, Wake, RunningProducers, QueueInv, TypeOK
  <2>3. Len(queue') = Len(queue) + 1
    BY <1>3 DEF PushItem, QueueInv, TypeOK
  <2>4. not_empty # {} => Cardinality(RunningConsumers') = Cardinality(RunningConsumers) + 1
    <3> SUFFICES ASSUME not_empty # {}
                 PROVE  Cardinality(RunningConsumers') = Cardinality(RunningConsumers) + 1
      OBVIOUS
    <3>1. PICK w \in not_empty : woken = {w}
      BY <2>1 DEF NotifyOne
    <3>2. /\ w \in Consumers /\ pc[w] # "run" /\ pc'[w] = "run"
          /\ \A t \in Consumers \ {w} : pc'[t] = pc[t]
      BY <2>1, <3>1 DEF Wake, QueueInv, TypeOK, WaitInv
    <3> QED
      BY <3>2, WokenCount, ThreadsAssumption DEF RunningConsumers
  <2>5. not_empty = {} => not_empty' = {}
    BY <2>1
  <2> QED
    BY <1>3, <2>2, <2>3, <2>4, <2>5 DEF PushItem, NoLostWakeup, QueueInv, TypeOK
<1>4. ASSUME NEW c \in Consumers, PopWait(c) PROVE NoLostWakeup'
  <2>1. Cardinality(RunningConsumers') \in Nat
    BY FS_Subset, FS_CardinalityType, ThreadsAssumption DEF RunningConsumers
  <2>2. RunningProducers' = RunningProducers
    BY <1>4 DEF PopWait, Goto, RunningProducers, QueueInv, TypeOK
  <2>3. Len(queue') <= Cardinality(RunningConsumers')
    BY <1>4, <2>1 DEF PopWait, QueueInv, TypeOK
  <2> QED
    BY <1>4, <2>2, <2>3 DEF PopWait, Goto, NoLostWakeup, Notifying, QueueInv, TypeOK
<1>5. ASSUME NEW c \in Consumers, PopClosed(c) PROVE NoLostWakeup'
  BY <1>5 DEF PopClosed, Goto, NoLostWakeup, Notifying, QueueInv, TypeOK
<1>6. ASSUME NEW c \in Consumers, PopItem(c) PROVE NoLostWakeup'
  <2>1. PICK woken \in NotifyOne(not_full) : not_full' = not_full \ woken /\ Wake(woken)
    BY <1>6 DEF PopItem
  <2>2. RunningConsumers' = RunningConsumers
    BY <2>1 DEF NotifyOne, Wake, RunningConsumers, QueueInv, TypeOK
  <2>3. Len(queue') = Len(queue) - 1 /\ Len(queue) \in Nat
    BY <1>6 DEF PopItem, QueueInv, TypeOK
  <2>4. not_full # {} => Cardinality(RunningProducers') = Cardinality(RunningProducers) + 1
    <3> SUFFICES ASSUME not_full # {}
                 PROVE  Cardinality(RunningProducers') = Cardinality(RunningProducers) + 1
      OBVIOUS
    <3>1. PICK w \in not_full : woken = {w}
      BY <2>1 DEF NotifyOne
    <3>2. /\ w \in Producers /\ pc[w] # "run" /\ pc'[w] = "run"
          /\ \A t \in Producers \ {w} : pc'[t] = pc[t]
      BY <2>1, <3>1 DEF Wake, QueueInv, TypeOK, WaitInv
    <3> QED
      BY <3>2, WokenCount, ThreadsAssumption DEF RunningProducers
  <2>5. not_full = {} => not_full' = {}
    BY <2>1
  <2>6. Notifying({"notify_full"})' <=> Notifying({"notify_full"})
    BY <2>1 DEF NotifyOne, Wake, Notifying, QueueInv, TypeOK
  <2>7. Notifying({"notify_full", "notify_empty"})' <=> Notifying({"notify_full", "notify_empty"})
    BY <2>1 DEF NotifyOne, Wake, Notifying, QueueInv, TypeOK
  <2> QED
    BY <1>6, <2>1, <2>2, <2>3, <2>4, <2>5, <2>6, <2>7 DEF PopItem, NoLostWakeup, QueueInv, TypeOK
<1>7. ASSUME NEW k \in Closers, CloseFlag(k) PROVE NoLostWakeup'
  BY <1>7 DEF CloseFlag, Goto, NoLostWakeup, Notifying, QueueInv, TypeOK
<1>8. ASSUME NEW k \in Closers, CloseNotifyFull(k) PROVE NoLostWakeup'
  <2>1. RunningConsumers' = RunningConsumers
    BY <1>8 DEF CloseNotifyFull, RunningConsumers, QueueInv, TypeOK
  <2> QED
    BY <1>8, <2>1 DEF CloseNotifyFull, NoLostWakeup, Notifying, QueueInv, TypeOK
<1>9. ASSUME NEW k \in Closers, CloseNotifyEmpty(k) PROVE NoLostWakeup'
  <2>1. RunningProducers' = RunningProducers
    BY <1>9 DEF CloseNotifyEmpty, RunningProducers, QueueInv, TypeOK
  <2> QED
    BY <1>9, <2>1 DEF CloseNotifyEmpty, NoLostWakeup, Notifying, QueueInv, TypeOK
<1>10. ASSUME NEW t \in Threads, SpuriousWakeup(t) PROVE NoLostWakeup'
  <2>1. /\ RunningConsumers \subseteq RunningConsumers'
        /\ RunningProducers \subseteq RunningProducers'
    BY <1>10 DEF SpuriousWakeup, Goto, RunningConsumers, RunningProducers, QueueInv, TypeOK
  <2>2. IsFiniteSet(RunningConsumers') /\ IsFiniteSet(RunningProducers')
    BY FS_Subset, ThreadsAssumption DEF RunningConsumers, RunningProducers
  <2>3. /\ Cardinality(RunningConsumers) <= Cardinality(RunningConsumers')
        /\ Cardinality(RunningConsumers') \in Nat
    BY <2>1, <2>2, FS_Subset, FS_CardinalityType
  <2>4. /\ Cardinality(RunningProducers) <= Cardinality(RunningProducers')
        /\ Cardinality(RunningProducers') \in Nat
    BY <2>1, <2>2, FS_Subset, FS_CardinalityType
  <2>5. \A k \in Closers : pc'[k] = pc[k]
    BY <1>10 DEF SpuriousWakeup, Goto, QueueInv, TypeOK
  <2> QED
    BY <1>10, <2>3, <2>4, <2>5 DEF SpuriousWakeup, NoLostWakeup, Notifying, QueueInv, TypeOK
<1>11. CASE UNCHANGED vars
  BY <1>11 DEF vars, NoLostWakeup, Notifying, RunningConsumers, RunningProducers, QueueInv
<1> QED
  BY <1>1, <1>2, <1>3, <1>4, <1>5, <1>6, <1>7, <1>8, <1>9, <1>10, <1>11
     DEF Next, Push, Pop, Close

\* No wake-up is lost by push(), pop() or close(): the condition-variable
\* protocol of WorkQueue.hpp (lines 32-71) never leaves a thread asleep that
\* could proceed, for any number of threads and any capacity.
THEOREM WakeupsNeverLost == Spec => []NoLostWakeup
<1>1. Init => QueueInv
  <2> SUFFICES ASSUME Init PROVE QueueInv
    OBVIOUS
  <2>1. TypeOK
    BY TypeInit
  <2>2. WaitInv /\ NoLostWakeup
    BY ThreadKinds DEF Init, WaitInv, NoLostWakeup
  <2> QED
    BY <2>1, <2>2 DEF QueueInv
<1>2. TypeOK /\ TypeOK' /\ QueueInv /\ [Next]_vars => QueueInv'
  BY WaitInvStep, NoLostWakeupStep DEF QueueInv
<1>3. QueueInv => NoLostWakeup
  BY DEF QueueInv
<1> QED
  BY <1>1, <1>2, <1>3, TypeCorrect, PTL DEF Spec

----------------------------------------------------------------------------
\* The history of accepted items under the operations of the queue.
LEMMA AcceptedItems ==
    ASSUME NEW S, NEW t \in Seq(S), NEW q \in Seq(S), NEW v \in S
    PROVE  /\ Len(t \o q) = Len(t) + Len(q)
           /\ t \o Append(q, v) = Append(t \o q, v)
           /\ q # << >> => Append(t, Head(q)) \o Tail(q) = t \o q
           /\ q = << >> => t \o q = t
<1>1. Len(t \o q) = Len(t) + Len(q)
  OBVIOUS
<1>2. t \o Append(q, v) = Append(t \o q, v)
  OBVIOUS
<1>3. q # << >> => Append(t, Head(q)) \o Tail(q) = t \o q
  OBVIOUS
<1>4. q = << >> => t \o q = t
  OBVIOUS
<1> QED
  BY <1>1, <1>2, <1>3, <1>4

\* Every step of the queue is a step of its contract, or a stutter.
LEMMA ContractStep == TypeOK /\ WaitInv /\ [Next]_vars => [Contract!Next]_Contract!qvars
<1> SUFFICES ASSUME TypeOK, WaitInv, [Next]_vars PROVE [Contract!Next]_Contract!qvars
  OBVIOUS
<1> DEFINE Refused == {t \in Producers \cup Consumers : pc[t] = "done"}
           Accepted == taken \o queue
<1> USE ThreadKinds
<1>0. Len(Accepted) = Len(taken) + Len(queue) /\ Len(taken) \in Nat /\ Len(queue) \in Nat
  BY DEF TypeOK
<1>1. ASSUME NEW p \in Producers, PushWait(p) PROVE UNCHANGED Contract!qvars
  <2>1. Refused' = Refused
    BY <1>1 DEF PushWait, Goto, TypeOK
  <2> QED
    BY <1>1, <2>1 DEF PushWait, Contract!qvars
<1>2. ASSUME NEW p \in Producers, PushClosed(p) PROVE Contract!Refuse(p)
  <2>1. Refused' = Refused \cup {p}
    BY <1>2 DEF PushClosed, Goto, TypeOK
  <2> QED
    BY <1>2, <2>1 DEF PushClosed, Contract!Refuse
<1>3. ASSUME NEW p \in Producers, NEW v \in Items, PushItem(p, v) PROVE Contract!Accept(v)
  <2>1. Refused' = Refused
    BY <1>3 DEF PushItem, Wake, NotifyOne, TypeOK, WaitInv
  <2>2. Accepted' = Append(Accepted, v)
    BY <1>3, AcceptedItems DEF PushItem, TypeOK
  <2>3. Len(Accepted) - Len(taken) < Capacity
    BY <1>0, <1>3, BoundsAssumption DEF PushItem
  <2> QED
    BY <1>3, <2>1, <2>2, <2>3 DEF PushItem, Contract!Accept
<1>4. ASSUME NEW c \in Consumers, PopWait(c) PROVE UNCHANGED Contract!qvars
  <2>1. Refused' = Refused
    BY <1>4 DEF PopWait, Goto, TypeOK
  <2> QED
    BY <1>4, <2>1 DEF PopWait, Contract!qvars
<1>5. ASSUME NEW c \in Consumers, PopClosed(c) PROVE Contract!EndOfQueue(c)
  <2>1. Refused' = Refused \cup {c}
    BY <1>5 DEF PopClosed, Goto, TypeOK
  <2>2. Len(taken) = Len(Accepted)
    BY <1>0, <1>5 DEF PopClosed
  <2> QED
    BY <1>5, <2>1, <2>2 DEF PopClosed, Contract!EndOfQueue
<1>6. ASSUME NEW c \in Consumers, PopItem(c) PROVE Contract!Deliver
  <2>1. Refused' = Refused
    BY <1>6 DEF PopItem, Wake, NotifyOne, TypeOK, WaitInv
  <2>2. Accepted' = Accepted
    <3>1. Head(queue) \in Items
      BY <1>6 DEF PopItem, TypeOK
    <3> QED
      BY <1>6, <3>1, AcceptedItems DEF PopItem, TypeOK
  <2>3. Len(taken) < Len(Accepted) /\ Len(taken') = Len(taken) + 1
    BY <1>0, <1>6 DEF PopItem, TypeOK
  <2> QED
    BY <1>6, <2>1, <2>2, <2>3 DEF PopItem, Contract!Deliver
<1>7. ASSUME NEW k \in Closers, CloseFlag(k) PROVE Contract!Shut \/ UNCHANGED Contract!qvars
  <2>1. Refused' = Refused
    BY <1>7 DEF CloseFlag, Goto, TypeOK
  <2>2. closed \in BOOLEAN
    BY DEF TypeOK
  <2> QED
    BY <1>7, <2>1, <2>2 DEF CloseFlag, Contract!Shut, Contract!qvars
<1>8. ASSUME NEW k \in Closers, CloseNotifyFull(k) PROVE UNCHANGED Contract!qvars
  <2>1. Refused' = Refused
    BY <1>8 DEF CloseNotifyFull, TypeOK, WaitInv
  <2> QED
    BY <1>8, <2>1 DEF CloseNotifyFull, Contract!qvars
<1>9. ASSUME NEW k \in Closers, CloseNotifyEmpty(k) PROVE UNCHANGED Contract!qvars
  <2>1. Refused' = Refused
    BY <1>9 DEF CloseNotifyEmpty, TypeOK, WaitInv
  <2> QED
    BY <1>9, <2>1 DEF CloseNotifyEmpty, Contract!qvars
<1>10. ASSUME NEW t \in Threads, SpuriousWakeup(t) PROVE UNCHANGED Contract!qvars
  <2>1. Refused' = Refused
    BY <1>10 DEF SpuriousWakeup, Goto, TypeOK, WaitInv
  <2> QED
    BY <1>10, <2>1 DEF SpuriousWakeup, Contract!qvars
<1>11. CASE UNCHANGED vars
  BY <1>11 DEF vars, Contract!qvars
<1> QED
  BY <1>1, <1>2, <1>3, <1>4, <1>5, <1>6, <1>7, <1>8, <1>9, <1>10, <1>11
     DEF Next, Push, Pop, Close, Contract!Next

\* push(), pop() and close() (WorkQueue.hpp, lines 32-71) implement the
\* contract in the header's comment, lines 13-20, as an atomic closable FIFO.
THEOREM QueueImplementsContract == Spec => ImplementsContract
<1>1. Init => Contract!Init
  <2> SUFFICES ASSUME Init PROVE Contract!Init
    OBVIOUS
  <2>1. taken \o queue = << >> /\ Len(taken) = 0
    BY DEF Init
  <2>2. {t \in Producers \cup Consumers : pc[t] = "done"} = {}
    BY ThreadKinds DEF Init
  <2> QED
    BY <2>1, <2>2 DEF Init, Contract!Init
<1>2. Init => WaitInv
  BY ThreadKinds DEF Init, WaitInv
<1>3. TypeOK /\ WaitInv /\ [Next]_vars => WaitInv'
  BY WaitInvStep
<1>4. TypeOK /\ WaitInv /\ [Next]_vars => [Contract!Next]_Contract!qvars
  BY ContractStep
<1> QED
  BY <1>1, <1>2, <1>3, <1>4, TypeCorrect, PTL DEF Spec, ImplementsContract, Contract!Spec
=============================================================================
