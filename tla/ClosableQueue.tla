--------------------------- MODULE ClosableQueue ---------------------------
(***************************************************************************)
(* What pipeline::WorkQueue<T> promises (the contract in the comment of    *)
(* WorkQueue.hpp), with no mutex, condition variable or waiting thread:    *)
(* a bounded FIFO that can be closed once.  A push or a pop is one atomic  *)
(* step that is taken when the operation can complete.                     *)
(***************************************************************************)
EXTENDS Naturals, Sequences

CONSTANTS Producers,  \* threads that push until push() returns false
          Consumers,  \* threads that pop until pop() returns nullopt
          Items,      \* the values pushed
          Capacity    \* capacity_, at least 1

VARIABLES accepted,   \* every item a push() accepted, in order of acceptance
          delivered,  \* how many of them a pop() has returned
          shut,       \* closed_
          refused     \* threads whose last call returned false / nullopt

qvars == <<accepted, delivered, shut, refused>>

Init ==
    /\ accepted = << >>
    /\ delivered = 0
    /\ shut = FALSE
    /\ refused = {}

\* push() returns true.
Accept(v) ==
    /\ ~shut
    /\ Len(accepted) - delivered < Capacity
    /\ accepted' = Append(accepted, v)
    /\ UNCHANGED <<delivered, shut, refused>>

\* push() returns false.
Refuse(p) ==
    /\ shut
    /\ refused' = refused \cup {p}
    /\ UNCHANGED <<accepted, delivered, shut>>

\* pop() returns the oldest accepted item not returned before.
Deliver ==
    /\ delivered < Len(accepted)
    /\ delivered' = delivered + 1
    /\ UNCHANGED <<accepted, shut, refused>>

\* pop() returns nullopt: the queue is closed and drained.
EndOfQueue(c) ==
    /\ shut
    /\ delivered = Len(accepted)
    /\ refused' = refused \cup {c}
    /\ UNCHANGED <<accepted, delivered, shut>>

Shut ==
    /\ ~shut
    /\ shut' = TRUE
    /\ UNCHANGED <<accepted, delivered, refused>>

Next ==
    \/ \E v \in Items : Accept(v)
    \/ \E p \in Producers : Refuse(p)
    \/ Deliver
    \/ \E c \in Consumers : EndOfQueue(c)
    \/ Shut

Spec == Init /\ [][Next]_qvars
=============================================================================
