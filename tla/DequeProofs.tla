---------------------------- MODULE DequeProofs ----------------------------
(***************************************************************************)
(* Proofs about Deque, for every capacity, every set of thieves and every  *)
(* set of tasks.                                                           *)
(***************************************************************************)
EXTENDS Deque, SequenceTheorems, TLAPS

\* The ring is indexed within deq->data.
LEMMA SlotInRange ==
    ASSUME NEW i \in Int
    PROVE  Slot(i) \in Slots
BY ConstantsAssumption, SMT DEF Slot, Slots

\* Two indices less than a capacity apart never share a slot, so a push
\* never overwrites a task that is still in the window.
LEMMA SlotsDistinct ==
    ASSUME NEW i \in Int, NEW j \in Int, i < j, j < i + Capacity
    PROVE  Slot(i) # Slot(j)
<1> DEFINE x == i \div Capacity
           y == j \div Capacity
<1>1. /\ x \in Int /\ y \in Int
      /\ i = Capacity * x + Slot(i)
      /\ j = Capacity * y + Slot(j)
  BY ConstantsAssumption, SMT DEF Slot
<1>2. Slot(i) \in Int /\ Slot(j) \in Int
  BY SlotInRange, ConstantsAssumption, SMT DEF Slots
<1> HIDE DEF x, y
<1>3. SUFFICES ASSUME Slot(i) = Slot(j) PROVE FALSE
  OBVIOUS
<1>4. y > x
  BY <1>1, <1>2, <1>3, ConstantsAssumption, SMT
<1>5. Capacity * y >= Capacity * (x + 1)
  BY <1>1, <1>4, ConstantsAssumption, SMT
<1> QED
  BY <1>1, <1>2, <1>3, <1>5, ConstantsAssumption, SMT

-----------------------------------------------------------------------------
(* The inductive invariant *)

\* A new deque (deque_init) satisfies the invariant.
LEMMA InitIInv == Init => IInv
BY ConstantsAssumption, SlotInRange, SMT
DEF Init, IInv, TypeOK, WindowSound, CasTakesOldest, OwnerInv, VisibleInv, ThiefInv,
    EffTail, Window, Queued, Procs, Slots, Maybe

\* Every step of push, pop and steal, and every drain of the store buffer,
\* preserves the invariant.
LEMMA NextIInv == IInv /\ [Next]_vars => IInv'
<1> SUFFICES ASSUME IInv, [Next]_vars PROVE IInv'
  OBVIOUS
<1> USE ConstantsAssumption
<1>a. TypeOK /\ WindowSound /\ CasTakesOldest /\ OwnerInv /\ VisibleInv /\ ThiefInv
  BY DEF IInv
<1>b. Owner \in Procs /\ \A p \in Thieves : p \in Procs /\ p # Owner
  BY DEF Procs
<1> USE DEF Goto, EffTail, Window, Queued
<1>1. ASSUME Flush PROVE IInv'
  <2> USE <1>1, <1>a, <1>b DEF Flush, Drained
  <2>1. TypeOK'
    BY SMT DEF TypeOK, Maybe, OwnerInv
  <2>2. WindowSound'
    BY SlotInRange, SMT DEF TypeOK, Maybe, WindowSound, OwnerInv
  <2>3. CasTakesOldest'
    BY SlotInRange, SMT DEF TypeOK, WindowSound, CasTakesOldest, OwnerInv, ThiefInv, Procs
  <2>4. OwnerInv'
    BY SlotInRange, SMT DEF TypeOK, WindowSound, OwnerInv
  <2>5. VisibleInv' /\ ThiefInv'
    BY SMT DEF TypeOK, WindowSound, OwnerInv, VisibleInv, ThiefInv
  <2> QED BY <2>1, <2>2, <2>3, <2>4, <2>5 DEF IInv
<1>2. ASSUME PushFull PROVE IInv'
  BY <1>2, <1>a DEF PushFull, vars, IInv, TypeOK, WindowSound, CasTakesOldest, OwnerInv,
     VisibleInv, ThiefInv
<1>3. ASSUME NEW task \in Tasks, PushCheck(task) PROVE IInv'
  <2> USE <1>3, <1>a, <1>b DEF PushCheck
  <2>1. TypeOK'
    BY SMT DEF TypeOK, Maybe, OwnerInv
  <2>2. WindowSound'
    BY SlotInRange, SMT DEF TypeOK, Maybe, WindowSound, OwnerInv
  <2>3. CasTakesOldest'
    BY SlotInRange, SMT DEF TypeOK, WindowSound, CasTakesOldest, OwnerInv, ThiefInv, Procs
  <2>4. OwnerInv'
    BY SlotInRange, SMT DEF TypeOK, WindowSound, OwnerInv
  <2>5. VisibleInv' /\ ThiefInv'
    BY SMT DEF TypeOK, WindowSound, OwnerInv, VisibleInv, ThiefInv
  <2> QED BY <2>1, <2>2, <2>3, <2>4, <2>5 DEF IInv
<1>4. ASSUME PushWrite PROVE IInv'
  <2> USE <1>4, <1>a, <1>b DEF PushWrite
  <2>1. TypeOK'
    BY SlotInRange, SMT DEF TypeOK, Maybe, OwnerInv
  <2>2. WindowSound'
    BY SlotInRange, SlotsDistinct, SMT DEF TypeOK, Maybe, WindowSound, OwnerInv
  <2>3. CasTakesOldest'
    BY SlotInRange, SlotsDistinct, SMT DEF TypeOK, WindowSound, CasTakesOldest, OwnerInv, ThiefInv, Procs
  <2>4. OwnerInv'
    BY SlotInRange, SlotsDistinct, SMT DEF TypeOK, WindowSound, OwnerInv
  <2>5. VisibleInv' /\ ThiefInv'
    BY SMT DEF TypeOK, WindowSound, OwnerInv, VisibleInv, ThiefInv
  <2> QED BY <2>1, <2>2, <2>3, <2>4, <2>5 DEF IInv
<1>5. ASSUME PushPublish PROVE IInv'
  <2> USE <1>5, <1>a, <1>b DEF PushPublish, Drained
  <2>1. TypeOK'
    BY SMT DEF TypeOK, Maybe, OwnerInv
  <2>2. WindowSound'
    BY SlotInRange, SMT DEF TypeOK, Maybe, WindowSound, OwnerInv
  <2>3. CasTakesOldest'
    BY SlotInRange, SMT DEF TypeOK, WindowSound, CasTakesOldest, OwnerInv, ThiefInv, Procs
  <2>4. OwnerInv'
    BY SlotInRange, SMT DEF TypeOK, WindowSound, OwnerInv
  <2>5. VisibleInv' /\ ThiefInv'
    BY SMT DEF TypeOK, WindowSound, OwnerInv, VisibleInv, ThiefInv
  <2> QED BY <2>1, <2>2, <2>3, <2>4, <2>5 DEF IInv
<1>6. ASSUME PopDecrement PROVE IInv'
  <2> USE <1>6, <1>a, <1>b DEF PopDecrement, Drained
  <2>1. TypeOK'
    BY SMT DEF TypeOK, Maybe, OwnerInv, WindowSound, CasTakesOldest
  <2>2. WindowSound'
    BY SlotInRange, SMT DEF TypeOK, Maybe, WindowSound, OwnerInv
  <2>3. CasTakesOldest'
    BY SlotInRange, SMT DEF TypeOK, WindowSound, CasTakesOldest, OwnerInv, ThiefInv, Procs
  <2>4. OwnerInv'
    BY SlotInRange, SMT DEF TypeOK, WindowSound, OwnerInv
  <2>5. VisibleInv' /\ ThiefInv'
    BY SMT DEF TypeOK, WindowSound, OwnerInv, VisibleInv, ThiefInv
  <2> QED BY <2>1, <2>2, <2>3, <2>4, <2>5 DEF IInv
<1>7. ASSUME PopEmpty PROVE IInv'
  <2> USE <1>7, <1>a, <1>b DEF PopEmpty, PopFence, Drained
  <2>1. TypeOK'
    BY SMT DEF TypeOK, Maybe, OwnerInv
  <2>2. WindowSound'
    BY SlotInRange, SMT DEF TypeOK, Maybe, WindowSound, OwnerInv
  <2>3. CasTakesOldest'
    BY SlotInRange, SMT DEF TypeOK, WindowSound, CasTakesOldest, OwnerInv, ThiefInv, Procs
  <2>4. OwnerInv'
    BY SlotInRange, SMT DEF TypeOK, WindowSound, OwnerInv
  <2>5. VisibleInv' /\ ThiefInv'
    BY SMT DEF TypeOK, WindowSound, OwnerInv, VisibleInv, ThiefInv
  <2> QED BY <2>1, <2>2, <2>3, <2>4, <2>5 DEF IInv
<1>8. ASSUME PopMany PROVE IInv'
  <2> USE <1>8, <1>a, <1>b DEF PopMany, PopFence, Drained
  <2>1. TypeOK'
    BY SlotInRange, SMT DEF TypeOK, Maybe, OwnerInv
  <2>2. WindowSound'
    BY SlotInRange, SMT DEF TypeOK, Maybe, WindowSound, OwnerInv
  <2>3. CasTakesOldest'
    BY SlotInRange, SMT DEF TypeOK, WindowSound, CasTakesOldest, OwnerInv, ThiefInv, Procs
  <2>4. OwnerInv'
    BY SlotInRange, SMT DEF TypeOK, WindowSound, OwnerInv
  <2>5. VisibleInv' /\ ThiefInv'
    BY SMT DEF TypeOK, WindowSound, OwnerInv, VisibleInv, ThiefInv
  <2> QED BY <2>1, <2>2, <2>3, <2>4, <2>5 DEF IInv
<1>9. ASSUME PopLast PROVE IInv'
  <2> USE <1>9, <1>a, <1>b DEF PopLast, PopFence, Drained
  <2>1. TypeOK'
    BY SlotInRange, SMT DEF TypeOK, Maybe, OwnerInv
  <2>2. WindowSound'
    BY SlotInRange, SMT DEF TypeOK, Maybe, WindowSound, OwnerInv
  <2>3. CasTakesOldest'
    BY SlotInRange, SMT DEF TypeOK, WindowSound, CasTakesOldest, OwnerInv, ThiefInv, Procs
  <2>4. OwnerInv'
    BY SlotInRange, SMT DEF TypeOK, WindowSound, OwnerInv
  <2>5. VisibleInv' /\ ThiefInv'
    BY SMT DEF TypeOK, WindowSound, OwnerInv, VisibleInv, ThiefInv
  <2> QED BY <2>1, <2>2, <2>3, <2>4, <2>5 DEF IInv
<1>10. ASSUME PopCas PROVE IInv'
  <2> USE <1>10, <1>a, <1>b DEF PopCas
  <2>1. TypeOK'
    BY SMT DEF TypeOK, Maybe, OwnerInv, WindowSound, CasTakesOldest
  <2>2. WindowSound'
    BY SlotInRange, SMT DEF TypeOK, Maybe, WindowSound, OwnerInv, CasTakesOldest
  <2>3. CasTakesOldest'
    BY SlotInRange, SMT DEF TypeOK, WindowSound, CasTakesOldest, OwnerInv, ThiefInv, Procs
  <2>4. OwnerInv'
    BY SlotInRange, SMT DEF TypeOK, WindowSound, OwnerInv, CasTakesOldest
  <2>5. VisibleInv' /\ ThiefInv'
    BY SMT DEF TypeOK, WindowSound, OwnerInv, VisibleInv, ThiefInv, CasTakesOldest
  <2> QED BY <2>1, <2>2, <2>3, <2>4, <2>5 DEF IInv
<1>11. ASSUME PopReset PROVE IInv'
  <2> USE <1>11, <1>a, <1>b DEF PopReset
  <2>1. TypeOK'
    BY SMT DEF TypeOK, Maybe, OwnerInv, WindowSound, CasTakesOldest
  <2>2. WindowSound'
    BY SlotInRange, SMT DEF TypeOK, Maybe, WindowSound, OwnerInv
  <2>3. CasTakesOldest'
    BY SlotInRange, SMT DEF TypeOK, WindowSound, CasTakesOldest, OwnerInv, ThiefInv, Procs
  <2>4. OwnerInv'
    BY SlotInRange, SMT DEF TypeOK, WindowSound, OwnerInv
  <2>5. VisibleInv' /\ ThiefInv'
    BY SMT DEF TypeOK, WindowSound, OwnerInv, VisibleInv, ThiefInv
  <2> QED BY <2>1, <2>2, <2>3, <2>4, <2>5 DEF IInv
<1>12. ASSUME NEW p \in Thieves, StealReadHead(p) PROVE IInv'
  <2> USE <1>12, <1>a, <1>b DEF StealReadHead
  <2>1. TypeOK'
    BY SMT DEF TypeOK, Maybe, OwnerInv
  <2>2. WindowSound'
    BY SlotInRange, SMT DEF TypeOK, Maybe, WindowSound, OwnerInv
  <2>3. CasTakesOldest'
    BY SlotInRange, SMT DEF TypeOK, WindowSound, CasTakesOldest, OwnerInv, ThiefInv, Procs
  <2>4. OwnerInv'
    BY SlotInRange, SMT DEF TypeOK, WindowSound, OwnerInv
  <2>5. VisibleInv' /\ ThiefInv'
    BY SMT DEF TypeOK, WindowSound, OwnerInv, VisibleInv, ThiefInv
  <2> QED BY <2>1, <2>2, <2>3, <2>4, <2>5 DEF IInv
<1>13. ASSUME NEW p \in Thieves, StealEmpty(p) PROVE IInv'
  <2> USE <1>13, <1>a, <1>b DEF StealEmpty
  <2>1. TypeOK'
    BY SMT DEF TypeOK, Maybe, OwnerInv
  <2>2. WindowSound'
    BY SlotInRange, SMT DEF TypeOK, Maybe, WindowSound, OwnerInv
  <2>3. CasTakesOldest'
    BY SlotInRange, SMT DEF TypeOK, WindowSound, CasTakesOldest, OwnerInv, ThiefInv, Procs
  <2>4. OwnerInv'
    BY SlotInRange, SMT DEF TypeOK, WindowSound, OwnerInv
  <2>5. VisibleInv' /\ ThiefInv'
    BY SMT DEF TypeOK, WindowSound, OwnerInv, VisibleInv, ThiefInv
  <2> QED BY <2>1, <2>2, <2>3, <2>4, <2>5 DEF IInv
<1>14. ASSUME NEW p \in Thieves, StealReadTail(p) PROVE IInv'
  <2> USE <1>14, <1>a, <1>b DEF StealReadTail
  <2>1. TypeOK'
    BY SMT DEF TypeOK, Maybe, OwnerInv
  <2>2. WindowSound'
    BY SlotInRange, SMT DEF TypeOK, Maybe, WindowSound, OwnerInv
  <2>3. CasTakesOldest'
    BY SlotInRange, SMT DEF TypeOK, WindowSound, CasTakesOldest, OwnerInv, ThiefInv, Procs
  <2>4. OwnerInv'
    BY SlotInRange, SMT DEF TypeOK, WindowSound, OwnerInv
  <2>5. VisibleInv' /\ ThiefInv'
    BY SMT DEF TypeOK, WindowSound, OwnerInv, VisibleInv, ThiefInv
  <2> QED BY <2>1, <2>2, <2>3, <2>4, <2>5 DEF IInv
<1>15. ASSUME NEW p \in Thieves, StealReadData(p) PROVE IInv'
  <2> USE <1>15, <1>a, <1>b DEF StealReadData
  <2>1. TypeOK'
    BY SlotInRange, SMT DEF TypeOK, Maybe, OwnerInv
  <2>2. WindowSound'
    BY SlotInRange, SMT DEF TypeOK, Maybe, WindowSound, OwnerInv
  <2>3. CasTakesOldest'
    BY SlotInRange, SMT DEF TypeOK, WindowSound, CasTakesOldest, OwnerInv, ThiefInv, Procs
  <2>4. OwnerInv'
    BY SlotInRange, SMT DEF TypeOK, WindowSound, OwnerInv
  <2>5. VisibleInv' /\ ThiefInv'
    BY SMT DEF TypeOK, WindowSound, OwnerInv, VisibleInv, ThiefInv
  <2> QED BY <2>1, <2>2, <2>3, <2>4, <2>5 DEF IInv
<1>16. ASSUME NEW p \in Thieves, StealWin(p) PROVE IInv'
  <2> USE <1>16, <1>a, <1>b DEF StealWin
  <2>1. TypeOK'
    BY SMT DEF TypeOK, Maybe, OwnerInv, WindowSound, CasTakesOldest
  <2>2. WindowSound'
    BY SlotInRange, SMT DEF TypeOK, Maybe, WindowSound, OwnerInv, CasTakesOldest
  <2>3. CasTakesOldest'
    BY SlotInRange, SMT DEF TypeOK, WindowSound, CasTakesOldest, OwnerInv, ThiefInv, Procs
  <2>4. OwnerInv'
    BY SlotInRange, SMT DEF TypeOK, WindowSound, OwnerInv, CasTakesOldest
  <2>5. VisibleInv' /\ ThiefInv'
    BY SMT DEF TypeOK, WindowSound, OwnerInv, VisibleInv, ThiefInv, CasTakesOldest
  <2> QED BY <2>1, <2>2, <2>3, <2>4, <2>5 DEF IInv
<1>17. ASSUME NEW p \in Thieves, StealLose(p) PROVE IInv'
  <2> USE <1>17, <1>a, <1>b DEF StealLose
  <2>1. TypeOK'
    BY SMT DEF TypeOK, Maybe, OwnerInv
  <2>2. WindowSound'
    BY SlotInRange, SMT DEF TypeOK, Maybe, WindowSound, OwnerInv
  <2>3. CasTakesOldest'
    BY SlotInRange, SMT DEF TypeOK, WindowSound, CasTakesOldest, OwnerInv, ThiefInv, Procs
  <2>4. OwnerInv'
    BY SlotInRange, SMT DEF TypeOK, WindowSound, OwnerInv
  <2>5. VisibleInv' /\ ThiefInv'
    BY SMT DEF TypeOK, WindowSound, OwnerInv, VisibleInv, ThiefInv
  <2> QED BY <2>1, <2>2, <2>3, <2>4, <2>5 DEF IInv
<1>18. ASSUME NEW p \in Thieves, StealRetry(p) PROVE IInv'
  <2> USE <1>18, <1>a, <1>b DEF StealRetry
  <2>1. TypeOK'
    BY SMT DEF TypeOK, Maybe, OwnerInv
  <2>2. WindowSound'
    BY SlotInRange, SMT DEF TypeOK, Maybe, WindowSound, OwnerInv
  <2>3. CasTakesOldest'
    BY SlotInRange, SMT DEF TypeOK, WindowSound, CasTakesOldest, OwnerInv, ThiefInv, Procs
  <2>4. OwnerInv'
    BY SlotInRange, SMT DEF TypeOK, WindowSound, OwnerInv
  <2>5. VisibleInv' /\ ThiefInv'
    BY SMT DEF TypeOK, WindowSound, OwnerInv, VisibleInv, ThiefInv
  <2> QED BY <2>1, <2>2, <2>3, <2>4, <2>5 DEF IInv
<1>19. ASSUME UNCHANGED vars PROVE IInv'
  BY <1>19, <1>a DEF vars, IInv, TypeOK, WindowSound, CasTakesOldest, OwnerInv,
     VisibleInv, ThiefInv
<1> QED
  BY <1>1, <1>2, <1>3, <1>4, <1>5, <1>6, <1>7, <1>8, <1>9, <1>10, <1>11, <1>12, <1>13, <1>14, <1>15, <1>16, <1>17, <1>18, <1>19
  DEF Next, Push, Pop, PopRest, Steal

\* The invariant holds in every reachable state.
THEOREM DequeInvariant == Spec => []IInv
<1>1. Init => IInv
  BY InitIInv
<1>2. IInv /\ [Next]_vars => IInv'
  BY NextIInv
<1> QED
  BY <1>1, <1>2, PTL DEF Spec

\* Indices, slots and locals of push, pop and steal stay in range.
THEOREM DequeTypeOK == Spec => []TypeOK
BY DequeInvariant, PTL DEF IInv

\* No live slot is reused and no task sits in the deque twice.
THEOREM DequeWindowSound == Spec => []WindowSound
BY DequeInvariant, PTL DEF IInv

\* Whoever wins the CAS on head takes the oldest live task.
THEOREM DequeCasTakesOldest == Spec => []CasTakesOldest
BY DequeInvariant, PTL DEF IInv

-----------------------------------------------------------------------------
(* Deque implements TaskDeque *)

\* The live window is a sequence of tasks.
LEMMA ContentsSeq ==
    ASSUME IInv
    PROVE  /\ Contents \in Seq(Tasks)
           /\ Len(Contents) = EffTail - head
           /\ \A i \in 1 .. (EffTail - head) : Contents[i] = data[Slot(head + i - 1)]
<1>1. EffTail - head \in Nat /\ head \in Int
  BY SMT DEF IInv, TypeOK, WindowSound, EffTail
<1>2. \A i \in 1 .. (EffTail - head) : data[Slot(head + i - 1)] \in Tasks
  <2> TAKE i \in 1 .. (EffTail - head)
  <2>1. head + i - 1 \in Window
    BY <1>1, SMT DEF IInv, TypeOK, EffTail, Window
  <2>2. data[Slot(head + i - 1)] \in Queued
    BY <2>1 DEF Queued
  <2>3. data[Slot(head + i - 1)] \in Maybe
    BY <1>1, SlotInRange, SMT DEF IInv, TypeOK
  <2> QED
    BY <2>2, <2>3 DEF IInv, WindowSound, Maybe
<1>3. Contents \in [1 .. (EffTail - head) -> Tasks]
  BY <1>2 DEF Contents
<1> QED
  BY <1>1, <1>3, SMT DEF Contents

\* A new deque is an empty abstract one.
LEMMA InitRefines == Init => Abstract!Init
<1> SUFFICES ASSUME Init PROVE Abstract!Init
  OBVIOUS
<1>1. EffTail - head = 0
  BY SMT DEF Init, EffTail, Procs
<1>2. Contents = << >>
  BY <1>1, SMT DEF Contents
<1> QED
  BY <1>2 DEF Init, Abstract!Init, Abstract!Procs, Procs

\* Every step of the deque is a step of TaskDeque or leaves its state alone.
LEMMA NextRefines == IInv /\ IInv' /\ [Next]_vars => [Abstract!Next]_(Abstract!vars)
<1> SUFFICES ASSUME IInv, IInv', [Next]_vars PROVE [Abstract!Next]_(Abstract!vars)
  OBVIOUS
<1> USE ConstantsAssumption
<1>a. TypeOK /\ WindowSound /\ CasTakesOldest /\ OwnerInv /\ VisibleInv /\ ThiefInv
  BY DEF IInv
<1>b. Owner \in Procs /\ \A p \in Thieves : p \in Procs /\ p # Owner
  BY DEF Procs
<1>c. /\ Contents \in Seq(Tasks)
      /\ Len(Contents) = EffTail - head
      /\ \A i \in 1 .. (EffTail - head) : Contents[i] = data[Slot(head + i - 1)]
  BY ContentsSeq
<1>d. /\ Contents' \in Seq(Tasks)
      /\ Len(Contents') = EffTail' - head'
      /\ \A i \in 1 .. (EffTail' - head') : Contents'[i] = data'[Slot(head' + i - 1)]
  <2>1. /\ EffTail' - head' \in Nat /\ head' \in Int
        /\ \A i \in 1 .. (EffTail' - head') : data'[Slot(head' + i - 1)] \in Tasks
    <3>1. EffTail' - head' \in Nat /\ head' \in Int
      BY SMT DEF IInv, TypeOK, WindowSound, EffTail
    <3>2. ASSUME NEW i \in 1 .. (EffTail' - head')
          PROVE  data'[Slot(head' + i - 1)] \in Tasks
      <4>1. head' + i - 1 \in Window'
        BY <3>1, SMT DEF IInv, TypeOK, EffTail, Window
      <4>2. data'[Slot(head' + i - 1)] \in Queued'
        BY <4>1 DEF Queued, Slot
      <4>3. data'[Slot(head' + i - 1)] \in Maybe
        BY <3>1, SlotInRange, SMT DEF IInv, TypeOK
      <4> QED
        BY <4>2, <4>3 DEF IInv, WindowSound, Maybe
    <3> QED
      BY <3>1, <3>2
  <2>2. Contents' \in [1 .. (EffTail' - head') -> Tasks]
    BY <2>1 DEF Contents, Slot
  <2> QED
    BY <2>1, <2>2, SMT DEF Contents, Slot
<1>e. head \in Int /\ EffTail \in Int /\ tail \in Int
  BY <1>a, SMT DEF TypeOK, EffTail
<1>same. ASSUME head' = head, EffTail' = EffTail, data' = data, ret' = ret
         PROVE  UNCHANGED Abstract!vars
  BY <1>same DEF Contents, Abstract!vars
<1>1. ASSUME \/ Flush \/ PushFull \/ (\E task \in Tasks : PushCheck(task)) \/ PopDecrement
             \/ PopLast \/ PopReset \/ UNCHANGED vars
      PROVE  UNCHANGED Abstract!vars
  <2>1. EffTail' = EffTail
    BY <1>1, <1>a, <1>b, SMT
    DEF Flush, PushFull, PushCheck, PopDecrement, PopLast, PopReset, vars, Goto, EffTail,
        TypeOK, Drained
  <2> QED
    BY <1>1, <1>same, <2>1
    DEF Flush, PushFull, PushCheck, PopDecrement, PopLast, PopReset, vars
<1>2. ASSUME NEW p \in Thieves,
             StealReadHead(p) \/ StealReadTail(p) \/ StealReadData(p) \/ StealRetry(p)
      PROVE  UNCHANGED Abstract!vars
  <2>1. EffTail' = EffTail
    BY <1>2, <1>a, <1>b, SMT
    DEF StealReadHead, StealReadTail, StealReadData, StealRetry, Goto, EffTail, TypeOK
  <2> QED
    BY <1>2, <1>same, <2>1 DEF StealReadHead, StealReadTail, StealReadData, StealRetry
<1>3. ASSUME PushWrite PROVE UNCHANGED Abstract!vars
  <2>1. head' = head /\ EffTail' = EffTail /\ EffTail = tail /\ tail - head < Capacity
    BY <1>3, <1>a, <1>b, SMT DEF PushWrite, Goto, EffTail, TypeOK, OwnerInv
  <2>2. \A i \in 1 .. (EffTail - head) : data'[Slot(head + i - 1)] = data[Slot(head + i - 1)]
    BY <1>3, <1>a, <1>e, <2>1, SlotInRange, SlotsDistinct, SMT DEF PushWrite, TypeOK
  <2> QED
    BY <1>3, <2>1, <2>2 DEF PushWrite, Contents, Abstract!vars, Slot
<1>4. ASSUME PushPublish PROVE Abstract!Push(t[Owner])
  <2>1. /\ head' = head /\ EffTail = tail /\ EffTail' = EffTail + 1 /\ tail - head < Capacity
        /\ data' = data /\ ret' = ret
        /\ data[Slot(tail)] = t[Owner] /\ t[Owner] \in Tasks \ Queued
    BY <1>4, <1>a, <1>b, SMT DEF PushPublish, Goto, EffTail, TypeOK, OwnerInv
  <2>2. t[Owner] \notin Abstract!Queued
    BY <1>c, <1>e, <2>1, SMT DEF Abstract!Queued, Queued, Window
  <2>3. Contents' = Append(Contents, t[Owner])
    BY <1>c, <1>d, <1>e, <2>1, SMT
  <2> QED
    BY <1>c, <2>1, <2>2, <2>3, SMT DEF Abstract!Push
<1>5. ASSUME PopEmpty PROVE Abstract!PopEmpty
  <2>1. EffTail - head = 0 /\ EffTail' - head' = 0
    BY <1>5, <1>a, <1>b, SMT DEF PopEmpty, Goto, EffTail, TypeOK, WindowSound
  <2>2. Contents = << >> /\ Contents' = << >>
    BY <1>c, <1>d, <2>1, SMT
  <2> QED
    BY <1>5, <2>2 DEF PopEmpty, Abstract!PopEmpty
<1>6. ASSUME PopMany PROVE Abstract!Pop
  <2>1. /\ head' = head /\ data' = data /\ EffTail = tail + 1 /\ EffTail' = tail /\ tail > head
    BY <1>6, <1>a, <1>b, SMT DEF PopMany, Goto, EffTail, TypeOK
  <2>2. Contents' = SubSeq(Contents, 1, Len(Contents) - 1)
    BY <1>c, <1>d, <1>e, <2>1, SMT
  <2>3. Contents # << >> /\ Contents[Len(Contents)] = data[Slot(tail)]
    BY <1>c, <1>e, <2>1, SMT
  <2> QED
    BY <1>6, <2>2, <2>3 DEF PopMany, Abstract!Pop
<1>7. ASSUME PopCas PROVE Abstract!Pop \/ Abstract!PopEmpty
  <2>1. EffTail = tail + 1 /\ EffTail' = head' /\ data' = data /\ tail = h[Owner]
    BY <1>7, <1>a, <1>b, SMT DEF PopCas, Goto, EffTail, TypeOK, OwnerInv
  <2>2. Contents' = << >>
    BY <1>d, <2>1, <1>a, SMT DEF IInv, TypeOK
  <2>3. CASE head = h[Owner]
    <3>1. t[Owner] = data[Slot(head)]
      BY <1>7, <1>a, <1>b, <2>3, SMT DEF PopCas, Goto, CasTakesOldest
    <3>2. EffTail - head = 1
      BY <1>e, <2>1, <2>3, SMT
    <3>3. Len(Contents) = 1 /\ Contents[1] = t[Owner]
      BY <1>c, <1>e, <3>1, <3>2, SMT
    <3>4. Contents # << >>
      BY <1>c, <3>3, SMT
    <3>5. SubSeq(Contents, 1, 0) = << >>
      BY SubSeqEmpty
    <3>6. Contents' = SubSeq(Contents, 1, Len(Contents) - 1)
      BY <2>2, <3>3, <3>5
    <3> QED
      BY <1>7, <2>3, <3>3, <3>4, <3>6 DEF PopCas, Abstract!Pop
  <2>4. CASE head # h[Owner]
    <3>a. pc[Owner] = "popCas"
      BY ONLY <1>7, Zenon DEF PopCas, Goto
    <3>b. tail <= head /\ head <= EffTail
      BY ONLY <1>a, <3>a, Zenon DEF OwnerInv, WindowSound
    <3>c. EffTail - head = 0
      BY ONLY <1>e, <2>1, <2>4, <3>b, SMT
    <3>1. Len(Contents) = 0
      BY ONLY <1>c, <3>c
    <3>2. Contents = << >>
      BY <1>c, <3>1, SMT
    <3> QED
      BY <1>7, <2>2, <2>4, <3>2 DEF PopCas, Abstract!PopEmpty
  <2> QED
    BY <2>3, <2>4
<1>8. ASSUME NEW p \in Thieves, StealWin(p) PROVE Abstract!Steal(p)
  <2>1. /\ head' = head + 1 /\ data' = data /\ head < EffTail /\ t[p] = data[Slot(head)]
    BY <1>8, <1>a, <1>b, SMT DEF StealWin, Goto, CasTakesOldest
  <2>2. Contents # << >> /\ Head(Contents) = t[p]
    BY <1>c, <1>e, <2>1, SMT
  <2>3. EffTail' = EffTail \/ pc[Owner] = "popReset"
    BY <1>8, <1>a, <1>b, SMT DEF StealWin, Goto, EffTail, TypeOK
  <2>4. EffTail' = EffTail
    BY <2>1, <2>3, <1>e, SMT DEF EffTail
  <2>5. Contents' = Tail(Contents)
    BY <1>c, <1>d, <1>e, <2>1, <2>4, SMT
  <2> QED
    BY <1>8, <2>2, <2>5 DEF StealWin, Abstract!Steal
<1>9. ASSUME NEW p \in Thieves, StealEmpty(p) \/ StealLose(p) PROVE Abstract!StealNone(p)
  <2>1. head' = head /\ data' = data /\ EffTail' = EffTail
    BY <1>9, <1>a, <1>b, SMT DEF StealEmpty, StealLose, Goto, EffTail, TypeOK
  <2> QED
    BY <1>9, <2>1 DEF StealEmpty, StealLose, Contents, Abstract!StealNone
<1>10. PushPublish => t[Owner] \in Tasks
  BY <1>a, SMT DEF PushPublish, Goto, OwnerInv
<1> QED
  BY <1>1, <1>2, <1>3, <1>4, <1>5, <1>6, <1>7, <1>8, <1>9, <1>10
  DEF Next, Push, Pop, PopRest, Steal, Abstract!Next

\* The step-by-step deque implements the abstract one: in every execution,
\* with any number of thieves, each pushed task is handed out exactly once
\* and in deque order.
THEOREM DequeImplementsTaskDeque == Spec => ImplementsTaskDeque
<1>1. Init => Abstract!Init
  BY InitRefines
<1>2. IInv /\ IInv' /\ [Next]_vars => [Abstract!Next]_(Abstract!vars)
  BY NextRefines
<1> QED
  BY <1>1, <1>2, DequeInvariant, PTL DEF Spec, ImplementsTaskDeque, Abstract!Spec
=============================================================================
