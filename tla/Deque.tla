------------------------------- MODULE Deque -------------------------------
(***************************************************************************)
(* The work-stealing deque of src/src/hclib-deque.c, one step per access   *)
(* to shared memory, on the memory model of the x86 machines the runtime   *)
(* is built for (TSO).  The only store of an operation that is not drained *)
(* by a fence or a locked instruction before the next load of shared       *)
(* memory is the owner's store to `tail', so the store buffer is the pair  *)
(* tail (what the owner has stored) and tailMem (what the other threads    *)
(* read); Flush moves one to the other and hc_mfence() waits for it.       *)
(***************************************************************************)
EXTENDS Integers, Sequences

CONSTANTS
    Owner,      \* the worker that owns the deque
    Thieves,    \* the workers that steal from it
    Tasks,      \* task pointers
    NULL,
    Capacity,   \* INIT_DEQUE_CAPACITY
    MaxIndex    \* bound on head and tail; the C code has INT_MAX

ASSUME ConstantsAssumption ==
    /\ Capacity \in Nat \ {0}
    /\ MaxIndex \in Nat
    /\ Owner \notin Thieves
    /\ NULL \notin Tasks

VARIABLES
    head,       \* deq->head
    tail,       \* deq->tail as the owner sees it
    tailMem,    \* deq->tail in memory
    data,       \* deq->data
    pc,         \* where each process is inside its current operation
    h,          \* local `head' of each process
    t,          \* local `t' (or the argument `entry' of a push)
    ret         \* what each process last obtained from pop or steal

vars == <<head, tail, tailMem, data, pc, h, t, ret>>

Procs == {Owner} \cup Thieves
Slots == 0 .. Capacity - 1
Maybe == Tasks \cup {NULL}
Slot(i) == i % Capacity

(***************************************************************************)
(* The index one past the youngest task that has not been handed out.      *)
(* Between its decrement of tail and its decision the owner has not yet    *)
(* taken the task at tail; between its last CAS and its reset of tail the  *)
(* deque is empty.                                                         *)
(***************************************************************************)
EffTail ==
    CASE pc[Owner] \in {"pop", "popCas"} -> tail + 1
      [] pc[Owner] = "popReset"          -> head
      [] OTHER                           -> tail

Window == head .. EffTail - 1
Queued == {data[Slot(i)] : i \in Window}
Drained == tailMem = tail

\* deque_init; the slots were zeroed by the calloc of the locale's deques.
Init ==
    /\ head = 0
    /\ tail = 0
    /\ tailMem = 0
    /\ data = [i \in Slots |-> NULL]
    /\ pc = [p \in Procs |-> "idle"]
    /\ h = [p \in Procs |-> 0]
    /\ t = [p \in Procs |-> NULL]
    /\ ret = [p \in Procs |-> NULL]

Goto(p, from, to) == pc[p] = from /\ pc' = [pc EXCEPT ![p] = to]

\* The store buffer drains.
Flush ==
    /\ ~Drained
    /\ tailMem' = tail
    /\ UNCHANGED <<head, tail, data, pc, h, t, ret>>

-----------------------------------------------------------------------------
(* deque_push *)

\* size == INIT_DEQUE_CAPACITY: the push gives up.
PushFull ==
    /\ pc[Owner] = "idle"
    /\ tail - head = Capacity
    /\ UNCHANGED vars

\* Mutant of PushCheck: the test for a full ring is off by one.
PushCheckOffByOne(task) ==
    /\ Goto(Owner, "idle", "push")
    /\ tail - head # Capacity + 1
    /\ tail < MaxIndex
    /\ task \notin Queued
    /\ t' = [t EXCEPT ![Owner] = task]
    /\ UNCHANGED <<head, tail, tailMem, data, h, ret>>

\* The size check passes; a task is in at most one deque slot at a time.
PushCheck(task) ==
    /\ Goto(Owner, "idle", "push")
    /\ tail - head # Capacity
    /\ tail < MaxIndex
    /\ task \notin Queued
    /\ t' = [t EXCEPT ![Owner] = task]
    /\ UNCHANGED <<head, tail, tailMem, data, h, ret>>

PushWrite ==
    /\ Goto(Owner, "push", "publish")
    /\ data' = [data EXCEPT ![Slot(tail)] = t[Owner]]
    /\ UNCHANGED <<head, tail, tailMem, h, t, ret>>

\* hc_mfence(); deq->tail++
PushPublish ==
    /\ Goto(Owner, "publish", "idle")
    /\ Drained
    /\ tail' = tail + 1
    /\ UNCHANGED <<head, tailMem, data, h, t, ret>>

-----------------------------------------------------------------------------
(* deque_pop *)

\* hc_mfence(); deq->tail = tail - 1
PopDecrement ==
    /\ Goto(Owner, "idle", "pop")
    /\ Drained
    /\ tail' = tail - 1
    /\ UNCHANGED <<head, tailMem, data, h, t, ret>>

\* Mutant of PopFence: the fence is missing.
NoFence == TRUE

\* hc_mfence() between the store of tail and the load of head.
PopFence == Drained

\* size < 0
PopEmpty ==
    /\ Goto(Owner, "pop", "popReset")
    /\ PopFence
    /\ tail - head < 0
    /\ ret' = [ret EXCEPT ![Owner] = NULL]
    /\ UNCHANGED <<head, tail, tailMem, data, h, t>>

\* size > 0: no thief can reach this slot, the task is taken without a CAS.
PopMany ==
    /\ Goto(Owner, "pop", "idle")
    /\ PopFence
    /\ tail - head > 0
    /\ ret' = [ret EXCEPT ![Owner] = data[Slot(tail)]]
    /\ UNCHANGED <<head, tail, tailMem, data, h, t>>

\* size == 0: one task is left and the thieves compete for it.
PopLast ==
    /\ Goto(Owner, "pop", "popCas")
    /\ PopFence
    /\ tail - head = 0
    /\ h' = [h EXCEPT ![Owner] = head]
    /\ t' = [t EXCEPT ![Owner] = data[Slot(tail)]]
    /\ UNCHANGED <<head, tail, tailMem, data, ret>>

\* Mutant of PopCas: the last task is taken without a look at head.
PopWithoutCas ==
    /\ Goto(Owner, "popCas", "popReset")
    /\ head' = h[Owner] + 1
    /\ ret' = [ret EXCEPT ![Owner] = t[Owner]]
    /\ UNCHANGED <<tail, tailMem, data, h, t>>

PopCas ==
    /\ Goto(Owner, "popCas", "popReset")
    /\ IF head = h[Owner]
       THEN head' = head + 1 /\ ret' = [ret EXCEPT ![Owner] = t[Owner]]
       ELSE UNCHANGED head   /\ ret' = [ret EXCEPT ![Owner] = NULL]
    /\ UNCHANGED <<tail, tailMem, data, h, t>>

\* Mutant of PopReset: tail is left behind head.
PopKeepsTail ==
    /\ Goto(Owner, "popReset", "idle")
    /\ UNCHANGED <<head, tail, tailMem, data, h, t, ret>>

\* deq->tail = deq->head; return
PopReset ==
    /\ Goto(Owner, "popReset", "idle")
    /\ tail' = head
    /\ UNCHANGED <<head, tailMem, data, h, t, ret>>

-----------------------------------------------------------------------------
(* deque_steal; STEAL_CHUNK_SIZE is 1 *)

StealReadHead(p) ==
    /\ Goto(p, "idle", "tail")
    /\ h' = [h EXCEPT ![p] = head]
    /\ UNCHANGED <<head, tail, tailMem, data, t, ret>>

\* Mutant of StealEmpty: a deque with one task may pass for empty.
StealEmptyOffByOne(p) ==
    /\ Goto(p, "tail", "idle")
    /\ tailMem - h[p] <= 1
    /\ ret' = [ret EXCEPT ![p] = NULL]
    /\ UNCHANGED <<head, tail, tailMem, data, h, t>>

\* tail - head <= 0
StealEmpty(p) ==
    /\ Goto(p, "tail", "idle")
    /\ tailMem - h[p] <= 0
    /\ ret' = [ret EXCEPT ![p] = NULL]
    /\ UNCHANGED <<head, tail, tailMem, data, h, t>>

StealReadTail(p) ==
    /\ Goto(p, "tail", "data")
    /\ tailMem - h[p] > 0
    /\ UNCHANGED <<head, tail, tailMem, data, h, t, ret>>

StealReadData(p) ==
    /\ Goto(p, "data", "cas")
    /\ t' = [t EXCEPT ![p] = data[Slot(h[p])]]
    /\ UNCHANGED <<head, tail, tailMem, data, h, ret>>

StealWin(p) ==
    /\ Goto(p, "cas", "idle")
    /\ head = h[p]
    /\ head' = head + 1
    /\ ret' = [ret EXCEPT ![p] = t[p]]
    /\ UNCHANGED <<tail, tailMem, data, h, t>>

\* The CAS is lost and `success', never assigned, happens to be zero.
StealLose(p) ==
    /\ Goto(p, "cas", "idle")
    /\ head # h[p]
    /\ ret' = [ret EXCEPT ![p] = NULL]
    /\ UNCHANGED <<head, tail, tailMem, data, h, t>>

\* The CAS is lost and `success' happens to be non-zero: the loop repeats
\* and reads head again.
StealRetry(p) ==
    /\ Goto(p, "cas", "tail")
    /\ head # h[p]
    /\ h' = [h EXCEPT ![p] = head]
    /\ UNCHANGED <<head, tail, tailMem, data, t, ret>>

-----------------------------------------------------------------------------
Push == PushFull \/ (\E task \in Tasks : PushCheck(task)) \/ PushWrite \/ PushPublish

PopRest == PopEmpty \/ PopMany \/ PopLast \/ PopCas \/ PopReset

Pop == PopDecrement \/ PopRest

Steal(p) ==
    \/ StealReadHead(p) \/ StealEmpty(p) \/ StealReadTail(p) \/ StealReadData(p)
    \/ StealWin(p) \/ StealLose(p) \/ StealRetry(p)

Next == Flush \/ Push \/ Pop \/ (\E p \in Thieves : Steal(p))

Spec == Init /\ [][Next]_vars

(***************************************************************************)
(* A store buffer drains, an operation the owner began is carried on, and  *)
(* a thief keeps stealing (the search loop of find_and_run_task).  Whether *)
(* the owner starts another push or pop is up to the program.              *)
(***************************************************************************)
Fairness ==
    /\ WF_vars(Flush)
    /\ WF_vars(PushWrite \/ PushPublish \/ PopRest)
    /\ \A p \in Thieves : WF_vars(Steal(p))

FairSpec == Spec /\ Fairness

-----------------------------------------------------------------------------
(* Properties *)

\* Types, and the bounds of the indices: tail is never less than -1, where
\* the decrement of deque_pop leaves it for a moment in an empty deque.
TypeOK ==
    /\ head \in 0 .. MaxIndex
    /\ tail \in -1 .. MaxIndex
    /\ tailMem \in -1 .. MaxIndex
    /\ data \in [Slots -> Maybe]
    /\ pc \in [Procs -> {"idle", "push", "publish", "pop", "popCas",
                         "popReset", "tail", "data", "cas"}]
    /\ h \in [Procs -> 0 .. MaxIndex]
    /\ t \in [Procs -> Maybe]
    /\ ret \in [Procs -> Maybe]

\* No slot is reused while the task in it is still to be handed out: the
\* live window never exceeds the ring, and no task sits in it twice.
WindowSound ==
    /\ head <= EffTail
    /\ EffTail - head <= Capacity
    /\ \A i, j \in Window : i # j => data[Slot(i)] # data[Slot(j)]
    /\ NULL \notin Queued

\* A process whose CAS on head would now succeed holds the oldest task that
\* has not been handed out, although it read head, tail and the slot in
\* steps of their own (the comment at the top of deque_steal).
CasTakesOldest ==
    \A p \in Procs :
        (pc[p] \in {"cas", "popCas"} /\ h[p] = head) =>
            /\ head < EffTail
            /\ t[p] = data[Slot(head)]

\* The live window as a sequence, oldest task first.
Contents == [i \in 1 .. (EffTail - head) |-> data[Slot(head + i - 1)]]
Abstract == INSTANCE TaskDeque WITH q <- Contents

\* The deque implements its abstract specification: every task pushed is
\* handed out once, to the owner in LIFO and to thieves in FIFO order, and
\* pop says "empty" only of an empty deque.
ImplementsTaskDeque == Abstract!Spec

\* As long as thieves keep looking for work, a pushed task does not stay in
\* the deque for ever (the store of tail reaches memory, and a CAS is lost
\* only to someone who took a task).
HandedOut == \A task \in Tasks : task \in Queued ~> task \notin Queued

-----------------------------------------------------------------------------
(* The inductive strengthening of the invariants, proved in DequeProofs. *)

\* Where the owner is says how far tail is from the window.  The room found
\* by the size check of deque_push is still there when the slot is written,
\* because head only grows.
OwnerInv ==
    /\ pc[Owner] \in {"idle", "push", "publish", "pop", "popCas", "popReset"}
    /\ pc[Owner] \in {"push", "publish"} =>
           /\ tail < MaxIndex
           /\ tail - head < Capacity
           /\ t[Owner] \in Tasks \ Queued
    /\ pc[Owner] = "publish" => data[Slot(tail)] = t[Owner]
    /\ pc[Owner] \in {"pop", "popCas"} => tail < MaxIndex
    /\ pc[Owner] = "popCas" => tailMem = tail /\ tail = h[Owner] /\ tail <= head
    /\ pc[Owner] = "popReset" => tail = head - 1

\* Other threads never see a tail beyond the live window.
VisibleInv == tailMem <= EffTail

\* A thief that still has the current head saw a non-empty deque, and the
\* deque is still not empty.
ThiefInv ==
    \A p \in Thieves :
        /\ pc[p] \in {"idle", "tail", "data", "cas"}
        /\ h[p] <= head
        /\ (pc[p] \in {"data", "cas"} /\ h[p] = head) => head < EffTail

IInv == TypeOK /\ WindowSound /\ CasTakesOldest /\ OwnerInv /\ VisibleInv /\ ThiefInv
=============================================================================
