----------------------------- MODULE TaskDeque -----------------------------
(***************************************************************************)
(* What a worker's deque promises its users, whatever the interleaving:    *)
(* the owner pushes and pops at one end, thieves take from the other, a    *)
(* pushed task is handed out exactly once, and the owner is told "empty"   *)
(* only when the deque is empty.  A thief may always come back without a   *)
(* task.  Deque is the step-by-step implementation of this specification   *)
(* (src/src/hclib-deque.c); Runtime uses the operations as atomic steps.   *)
(***************************************************************************)
EXTENDS Integers, Sequences

CONSTANTS Owner, Thieves, Tasks, NULL, Capacity

VARIABLES
    q,      \* the tasks in the deque, oldest first
    ret     \* the value each process last obtained from pop or steal

vars == <<q, ret>>

Procs == {Owner} \cup Thieves
Queued == {q[i] : i \in DOMAIN q}

Init ==
    /\ q = << >>
    /\ ret = [p \in Procs |-> NULL]

\* deque_push returning 1.
Push(task) ==
    /\ Len(q) < Capacity
    /\ task \notin Queued
    /\ q' = Append(q, task)
    /\ UNCHANGED ret

\* deque_pop returning the youngest task.
Pop ==
    /\ q # << >>
    /\ ret' = [ret EXCEPT ![Owner] = q[Len(q)]]
    /\ q' = SubSeq(q, 1, Len(q) - 1)

\* deque_pop returning NULL.
PopEmpty ==
    /\ q = << >>
    /\ ret' = [ret EXCEPT ![Owner] = NULL]
    /\ UNCHANGED q

\* deque_steal returning the oldest task.
Steal(p) ==
    /\ q # << >>
    /\ ret' = [ret EXCEPT ![p] = Head(q)]
    /\ q' = Tail(q)

\* deque_steal returning 0.
StealNone(p) ==
    /\ ret' = [ret EXCEPT ![p] = NULL]
    /\ UNCHANGED q

Next ==
    \/ \E task \in Tasks : Push(task)
    \/ Pop
    \/ PopEmpty
    \/ \E p \in Thieves : Steal(p) \/ StealNone(p)

Spec == Init /\ [][Next]_vars
=============================================================================
