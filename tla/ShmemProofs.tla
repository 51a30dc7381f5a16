---------------------------- MODULE ShmemProofs ----------------------------
(***************************************************************************)
(* LockExclusion of the OpenSHMEM and SOS modules, for any programs whose  *)
(* tasks clear the locks that they set (ProgramsAssumption).               *)
(*                                                                         *)
(* The calls that set locks are the places of the chains of promises, one  *)
(* chain for each lock of each PE.  A place is active from set_lock until  *)
(* its promise is put, and free when it waits for no other place.  The     *)
(* argument: a chain has one free place at most, because each place is     *)
(* waited for by one other at most and nobody waits for the last one; the  *)
(* free place is the one in live, and the PE of a task that the library    *)
(* granted a lock owns it.  Two holders of a lock are then tasks of one PE *)
(* and free places of one chain.                                           *)
(*                                                                         *)
(* And TicketsDistinct, for programs that only add to their counters: what *)
(* a fetching add takes is less than its counter from then on.             *)
(*                                                                         *)
(* BarrierCompletes, for programs whose collective calls are in step: a PE *)
(* that has left a barrier knows that all have entered it, and a PE enters *)
(* it when nothing that it sent is on its way.                             *)
(*                                                                         *)
(* SignalAfterData, for signals that have a place of their own: a signal   *)
(* on its way is of a later epoch than the data that is on its way too.    *)
(***************************************************************************)
EXTENDS Mpi, Chains, FiniteSetTheorems, SequenceTheorems

Stages == {"idle", "run", "await", "posted", "entered", "pending", "done", "put", "waiting"}

IsLock(t, j) == j \in DOMAIN program.code[t] /\ program.code[t][j].via = "lock"
IsUnlock(t, j) == j \in DOMAIN program.code[t] /\ program.code[t][j].via = "unlock"
KeyAt(t, j) == KeyIn(program, program.code[t][j].a)
ClearsAt(t, i, k) == IsUnlock(t, i) /\ KeyAt(t, i) = k

\* Call j of task t has taken its place in the chain of its lock.
Queued(t, j) ==
    /\ IsLock(t, j)
    /\ j < pc[t] \/ (j = pc[t] /\ stage[t] \in {"await", "posted", "done"})

\* Its promise was not put yet.
Active(t, j) == Queued(t, j) /\ \A i \in j + 1 .. pc[t] - 1 : ~ClearsAt(t, i, KeyAt(t, j))

\* It waits for the place before.
Waits(t, j) == j = pc[t] /\ await[t] # NULL /\ await[t] \notin satisfied

Free(t, j) == Active(t, j) /\ ~Waits(t, j)

\* Task t has taken live away, or has cleared a lock in the library.
Leaving(t, k) == stage[t] = "put" /\ ClearsAt(t, pc[t], k)
Cleared(t, k) == stage[t] \in {"done", "put"} /\ ClearsAt(t, pc[t], k)

\* The library has granted the lock of a place and not taken it back.
Owned(t, j) ==
    /\ Active(t, j)
    /\ j = pc[t] => stage[t] = "done"
    /\ j # pc[t] => ~Cleared(t, KeyAt(t, j))

\* x is a place in the chain k of PE p.
PlaceIn(x, p, k) ==
    \E t \in Tasks, j \in Nat :
        x = <<t, j>> /\ PEOf[t] = p /\ Queued(t, j) /\ KeyAt(t, j) = k

-----------------------------------------------------------------------------
(* The inductive invariant *)

Keys == Locks \cup {AnyLock}

Types ==
    /\ program \in Programs
    /\ pc \in [Tasks -> Nat] /\ stage \in [Tasks -> Stages]
    /\ DOMAIN conds = Tasks /\ DOMAIN turn = Tasks
    /\ busy \in [PEs -> Tasks \cup {NULL}]
    /\ owner \in [Locks -> PEs \cup {NULL}]
    /\ DOMAIN last = PEs /\ (\A p \in PEs : DOMAIN last[p] = Keys)
    /\ DOMAIN live = PEs /\ (\A p \in PEs : DOMAIN live[p] = Keys)
    /\ DOMAIN await = Tasks /\ DOMAIN toPut = Tasks
    /\ \A m \in flight : m.to \in PEs /\ m.a \in Addrs
    /\ aborted = FALSE

\* Where a task is in its code; the tasks that were not started.
Control ==
    \A t \in Tasks :
        /\ pc[t] >= 1 /\ pc[t] <= Len(program.code[t]) + 1
        /\ stage[t] = "idle" => pc[t] = 1
        /\ stage[t] \notin {"idle", "run", "waiting"} => pc[t] \in DOMAIN program.code[t]
        /\ stage[t] = "await" => IsLock(t, pc[t])
        /\ stage[t] = "put" => IsUnlock(t, pc[t])
        /\ stage[t] \in {"entered", "pending"} => ~IsLock(t, pc[t]) /\ ~IsUnlock(t, pc[t])
        /\ \A i \in DOMAIN program.code[t] :
                i >= pc[t] /\ Starts(program.code[t][i]) => stage[program.code[t][i].a] = "idle"

BusyInv ==
    \A p \in PEs : busy[p] # NULL =>
        /\ stage[busy[p]] \in {"posted", "entered"} /\ PEOf[busy[p]] = p
        /\ IsLock(busy[p], pc[busy[p]]) => ~Waits(busy[p], pc[busy[p]])

\* A call that the library has returned from waited for its place.
ThroughInv ==
    \A t \in Tasks : stage[t] = "done" /\ IsLock(t, pc[t]) => ~Waits(t, pc[t])

OneFree ==
    \A t, u \in Tasks : \A i, j \in Nat :
        Free(t, i) /\ Free(u, j) /\ PEOf[t] = PEOf[u] /\ KeyAt(t, i) = KeyAt(u, j)
            => <<t, i>> = <<u, j>>

\* What a waiting place waits for is a place of its chain, not the last one,
\* and nobody else waits for it.
WaitInv ==
    \A t \in Tasks : \A j \in Nat :
        Active(t, j) /\ Waits(t, j) =>
            /\ PlaceIn(await[t], PEOf[t], KeyAt(t, j))
            /\ await[t] # last[PEOf[t]][KeyAt(t, j)]
            /\ \A u \in Tasks : \A i \in Nat :
                    Active(u, i) /\ Waits(u, i) /\ await[u] = await[t] => u = t

LastInv ==
    \A p \in PEs : \A k \in Keys :
        last[p][k] # NULL => PlaceIn(last[p][k], p, k)

\* As long as a chain has a free place, its last promise is not put.
EndInv ==
    \A t \in Tasks : \A j \in Nat :
        Free(t, j) => LET x == last[PEOf[t]][KeyAt(t, j)] IN x # NULL /\ x \notin satisfied

SatisfiedInv == \A t \in Tasks : \A j \in Nat : <<t, j>> \in satisfied /\ IsLock(t, j) => j < pc[t]

LiveInv ==
    \A p \in PEs : \A k \in Keys : live[p][k] # NULL =>
        \E t \in Tasks, j \in Nat :
            /\ live[p][k] = <<t, j>> /\ PEOf[t] = p /\ KeyAt(t, j) = k
            /\ Active(t, j) /\ j < pc[t] /\ ~Leaving(t, k)

GrantedInv ==
    \A t \in Tasks : \A j \in Nat :
        Active(t, j) /\ j < pc[t] /\ ~Leaving(t, KeyAt(t, j)) => live[PEOf[t]][KeyAt(t, j)] = <<t, j>>

PutInv ==
    \A t \in Tasks : stage[t] = "put" =>
        \E j \in Nat : toPut[t] = <<t, j>> /\ Active(t, j) /\ j < pc[t] /\ KeyAt(t, j) = KeyAt(t, pc[t])

OwnerInv == \A t \in Tasks : \A j \in Nat : Owned(t, j) => owner[program.code[t][j].a] = PEOf[t]

Chained == OneFree /\ WaitInv /\ LastInv /\ EndInv /\ SatisfiedInv
Held == LiveInv /\ GrantedInv /\ PutInv /\ OwnerInv
LockInv == Types /\ Control /\ BusyInv /\ ThroughInv /\ Chained /\ Held

-----------------------------------------------------------------------------
(* Facts about the programs *)

\* The code of a task is a sequence of well-formed calls.
LEMMA CodeFacts ==
    ASSUME Types, NEW t \in Tasks
    PROVE  /\ Len(program.code[t]) \in Nat
           /\ DOMAIN program.code[t] = 1 .. Len(program.code[t])
           /\ \A i \in DOMAIN program.code[t] : i \in Nat /\ i >= 1 /\ WellFormed(program.code[t][i])
           /\ Bracketed(program, program.code[t])
           /\ PEOf[t] \in PEs
<1>1. /\ Len(program.code[t]) \in Nat
      /\ DOMAIN program.code[t] = 1 .. Len(program.code[t])
      /\ \A i \in DOMAIN program.code[t] : WellFormed(program.code[t][i])
      /\ Bracketed(program, program.code[t])
  BY ProgramsAssumption DEF Types
<1> QED BY <1>1, ShmemAssumption

\* The lock of a call that sets or clears one, and the key of its chain.
LEMMA LockFacts ==
    ASSUME Types, NEW t \in Tasks, NEW i, IsLock(t, i) \/ IsUnlock(t, i)
    PROVE  /\ i \in Nat /\ i >= 1
           /\ program.code[t][i].a \in Locks /\ KeyAt(t, i) \in Keys
           /\ IsLock(t, i) => program.code[t][i].lib = "set_lock" /\ ~IsUnlock(t, i)
           /\ IsUnlock(t, i) => program.code[t][i].lib = "clear_lock" /\ ~IsLock(t, i)
<1>1. i \in DOMAIN program.code[t] /\ i \in Nat /\ i >= 1 /\ WellFormed(program.code[t][i])
  BY CodeFacts DEF IsLock, IsUnlock
<1>2. program.code[t][i].a \in Locks
  BY <1>1 DEF WellFormed, IsLock, IsUnlock
<1>3. KeyAt(t, i) \in Keys
  BY <1>2 DEF KeyAt, KeyIn, Keys
<1>4. IsLock(t, i) => program.code[t][i].lib = "set_lock" /\ ~IsUnlock(t, i)
  BY <1>1 DEF WellFormed, IsLock, IsUnlock, shmem_set_lock, Instr
<1>5. IsUnlock(t, i) => program.code[t][i].lib = "clear_lock" /\ ~IsLock(t, i)
  BY <1>1 DEF WellFormed, IsLock, IsUnlock, shmem_clear_lock, Instr
<1> QED BY <1>1, <1>2, <1>3, <1>4, <1>5

\* The call that sets the lock that call i clears.
LEMMA AtUnlock ==
    ASSUME Types, NEW t \in Tasks, NEW i, IsUnlock(t, i)
    PROVE  \E j \in Nat :
             /\ j < i /\ IsLock(t, j) /\ program.code[t][j].a = program.code[t][i].a
             /\ KeyAt(t, j) = KeyAt(t, i)
             /\ \A m \in j + 1 .. i - 1 : ~ClearsAt(t, m, KeyAt(t, i)) /\ ~(IsLock(t, m) /\ KeyAt(t, m) = KeyAt(t, i))
<1>1. i \in DOMAIN program.code[t] /\ i \in Nat /\ program.code[t][i].via = "unlock"
  BY CodeFacts DEF IsUnlock
<1>2. PICK j \in 1 .. i - 1 :
        /\ program.code[t][j] = shmem_set_lock(program.code[t][i].a)
        /\ \A m \in j + 1 .. i - 1 :
              ~(program.code[t][m].via \in {"lock", "unlock"} /\ KeyIn(program, program.code[t][m].a) = KeyIn(program, program.code[t][i].a))
  BY <1>1, CodeFacts DEF Bracketed
<1>3. j \in Nat /\ j < i /\ j \in DOMAIN program.code[t]
  BY <1>1, <1>2, CodeFacts
<1>4. program.code[t][j].via = "lock" /\ program.code[t][j].a = program.code[t][i].a
  BY <1>2 DEF shmem_set_lock, Instr
<1>5. \A m \in j + 1 .. i - 1 : ~ClearsAt(t, m, KeyAt(t, i)) /\ ~(IsLock(t, m) /\ KeyAt(t, m) = KeyAt(t, i))
  BY <1>2 DEF ClearsAt, KeyAt, IsLock, IsUnlock
<1> QED BY <1>3, <1>4, <1>5 DEF IsLock, KeyAt

\* Between two calls that set locks of a chain, the first of the locks is cleared.
LEMMA BetweenLocks ==
    ASSUME Types, NEW t \in Tasks, NEW i, NEW j, IsLock(t, i), IsLock(t, j), i < j,
           KeyAt(t, i) = KeyAt(t, j)
    PROVE  \E m \in i + 1 .. j - 1 : program.code[t][m] = shmem_clear_lock(program.code[t][i].a) /\ ClearsAt(t, m, KeyAt(t, i))
<1>1. i \in DOMAIN program.code[t] /\ j \in DOMAIN program.code[t] /\ i \in Nat /\ j \in Nat /\ i >= 1
  BY CodeFacts DEF IsLock
<1>2. PICK m \in i + 1 .. j - 1 : program.code[t][m] = shmem_clear_lock(program.code[t][i].a)
  BY <1>1, CodeFacts DEF Bracketed, IsLock, KeyAt
<1>3. m \in DOMAIN program.code[t]
  BY <1>1, <1>2, CodeFacts
<1>4. program.code[t][m].via = "unlock" /\ program.code[t][m].a = program.code[t][i].a
  BY <1>2 DEF shmem_clear_lock, Instr
<1>5. ClearsAt(t, m, KeyAt(t, i))
  BY <1>3, <1>4 DEF ClearsAt, KeyAt, IsUnlock
<1> QED BY <1>2, <1>5

-----------------------------------------------------------------------------
(* Steps that leave the chains alone *)

\* Task t is in no call that sets or clears a lock.
Off(t) == ~IsLock(t, pc[t]) /\ ~IsUnlock(t, pc[t])

\* A step in which task t neither takes, gets nor gives up a place.
Quiet(t) ==
    \/ pc'[t] = pc[t] /\ stage'[t] = stage[t]
    \/ pc'[t] = pc[t] /\ Off(t)
    \/ pc'[t] = pc[t] + 1 /\ Off(t) /\ stage'[t] \in {"run", "waiting"}
    \/ pc'[t] = pc[t] /\ IsLock(t, pc[t]) /\ stage[t] = "await" /\ stage'[t] = "posted"
    \/ pc'[t] = pc[t] /\ IsUnlock(t, pc[t]) /\ stage[t] = "run" /\ stage'[t] = "posted"
    \/ pc'[t] = pc[t] /\ stage[t] \in {"idle", "waiting"} /\ stage'[t] \in {"run", "waiting"}

\* The library returns from a call of task t that sets or clears a lock.
Returned(t) ==
    /\ pc'[t] = pc[t] /\ ~Off(t) /\ stage[t] = "posted" /\ stage'[t] = "done"
    /\ IsLock(t, pc[t]) => ~Waits(t, pc[t])

\* The program does not change, and with it neither do its calls.
LEMMA SameCode ==
    ASSUME program' = program, NEW t, NEW j, NEW k
    PROVE  /\ IsLock(t, j)' <=> IsLock(t, j)
           /\ IsUnlock(t, j)' <=> IsUnlock(t, j)
           /\ KeyAt(t, j)' = KeyAt(t, j)
           /\ ClearsAt(t, j, k)' <=> ClearsAt(t, j, k)
BY DEF IsLock, IsUnlock, KeyAt, ClearsAt

\* A task that stays where it is keeps its places.
LEMMA SamePlaces ==
    ASSUME program' = program, NEW t, pc'[t] = pc[t], stage'[t] = stage[t], NEW j, NEW k
    PROVE  /\ Queued(t, j)' <=> Queued(t, j)
           /\ Active(t, j)' <=> Active(t, j)
           /\ Leaving(t, k)' <=> Leaving(t, k)
           /\ Owned(t, j)' <=> Owned(t, j)
BY SameCode DEF Queued, Active, Leaving, Owned, Cleared, IsLock, IsUnlock, KeyAt, ClearsAt

\* So does a task that takes a quiet step, or that the library returns to.
LEMMA QuietPlaces ==
    ASSUME Types, NEW t \in Tasks, program' = program, Quiet(t) \/ Returned(t), NEW j \in Nat, NEW k
    PROVE  /\ Queued(t, j)' <=> Queued(t, j)
           /\ Active(t, j)' <=> Active(t, j)
           /\ Leaving(t, k)' <=> Leaving(t, k)
           /\ Quiet(t) => (Owned(t, j)' <=> Owned(t, j))
           /\ Active(t, j) => (j < pc'[t] <=> j < pc[t]) /\ (j = pc'[t] <=> j = pc[t])
           /\ Active(t, j) /\ j = pc[t] => IsLock(t, pc[t])
<1>0. pc[t] \in Nat
  BY DEF Types
<1>a. Active(t, j) /\ j = pc[t] => IsLock(t, pc[t])
  BY DEF Active, Queued
<1>1. CASE pc'[t] = pc[t] /\ stage'[t] = stage[t]
  BY <1>1, <1>a, SamePlaces
<1>2. CASE pc'[t] = pc[t] /\ Off(t)
  <2>1. Queued(t, j)' <=> Queued(t, j)
    BY <1>0, <1>2, SameCode DEF Queued, Off
  <2>2. Active(t, j)' <=> Active(t, j)
    BY <1>2, <2>1, SameCode DEF Active
  <2>3. \A l : ~ClearsAt(t, pc[t], l) /\ ~ClearsAt(t, pc[t], l)'
    BY <1>2, SameCode DEF ClearsAt, Off
  <2>4. ~Leaving(t, k)' /\ ~Leaving(t, k)
    BY <1>2, <2>3, SameCode DEF Leaving, ClearsAt, IsUnlock, Off
  <2>5. \A l : ~Cleared(t, l)' /\ ~Cleared(t, l)
    BY <1>2, <2>3, SameCode DEF Cleared, ClearsAt, IsUnlock, Off
  <2>6. Active(t, j) => j # pc[t]
    BY <1>a, <1>2 DEF Off
  <2>7. Owned(t, j)' <=> Owned(t, j)
    BY <1>2, <2>2, <2>5, <2>6 DEF Owned
  <2> QED BY <1>a, <1>2, <2>1, <2>2, <2>4, <2>7
<1>3. CASE pc'[t] = pc[t] + 1 /\ Off(t) /\ stage'[t] \in {"run", "waiting"}
  <2>1. Queued(t, j)' <=> Queued(t, j)
    BY <1>0, <1>3, SameCode DEF Queued, Off
  <2>2. Queued(t, j) => j < pc[t]
    BY <1>0, <1>3 DEF Queued, Off
  <2>3. \A l : ~ClearsAt(t, pc[t], l)
    BY <1>3 DEF ClearsAt, Off
  <2>4. j < pc[t] => j + 1 .. pc'[t] - 1 = (j + 1 .. pc[t] - 1) \cup {pc[t]}
    BY <1>0, <1>3
  <2>5. Active(t, j)' <=> Active(t, j)
    BY <1>3, <2>1, <2>2, <2>3, <2>4, SameCode DEF Active
  <2>6. ~Leaving(t, k)' /\ ~Leaving(t, k)
    BY <1>3, <2>3 DEF Leaving
  <2>7. \A l : ~Cleared(t, l)' /\ ~Cleared(t, l)
    BY <1>3, <2>3 DEF Cleared
  <2>8. Active(t, j) => j < pc[t] /\ j < pc'[t]
    BY <1>0, <1>3, <2>2 DEF Active
  <2>9. Active(t, j) => j # pc[t] /\ j # pc'[t]
    BY <1>0, <1>3, <2>8
  <2>10. Owned(t, j)' <=> Owned(t, j)
    BY <2>5, <2>7, <2>9 DEF Owned
  <2> QED BY <1>a, <2>1, <2>5, <2>6, <2>8, <2>9, <2>10
<1>4. CASE pc'[t] = pc[t] /\ IsLock(t, pc[t]) /\ stage[t] = "await" /\ stage'[t] = "posted"
  BY <1>4, <1>a, SameCode DEF Queued, Active, Leaving, Owned, Cleared
<1>5. CASE pc'[t] = pc[t] /\ IsUnlock(t, pc[t]) /\ stage[t] = "run" /\ stage'[t] = "posted"
  <2>1. ~IsLock(t, pc[t])
    BY <1>5, LockFacts
  <2>2. Queued(t, j)' <=> Queued(t, j)
    BY <1>5, <2>1, SameCode DEF Queued
  <2>3. Active(t, j)' <=> Active(t, j)
    BY <1>5, <2>2, SameCode DEF Active
  <2>4. Active(t, j) => j # pc[t]
    BY <1>a, <2>1
  <2>5. Owned(t, j)' <=> Owned(t, j)
    BY <1>5, <2>3, <2>4 DEF Owned, Cleared
  <2>6. ~Leaving(t, k)' /\ ~Leaving(t, k)
    BY <1>5 DEF Leaving
  <2> QED BY <1>a, <1>5, <2>2, <2>3, <2>5, <2>6
<1>6. CASE pc'[t] = pc[t] /\ stage[t] \in {"idle", "waiting"} /\ stage'[t] \in {"run", "waiting"}
  <2>1. Queued(t, j)' <=> Queued(t, j)
    BY <1>6, SameCode DEF Queued
  <2>2. Active(t, j)' <=> Active(t, j)
    BY <1>6, <2>1, SameCode DEF Active
  <2>3. Active(t, j) => j # pc[t]
    BY <1>0, <1>6 DEF Active, Queued
  <2>4. ~Leaving(t, k)' /\ ~Leaving(t, k) /\ \A l : ~Cleared(t, l)' /\ ~Cleared(t, l)
    BY <1>6 DEF Leaving, Cleared
  <2>5. Owned(t, j)' <=> Owned(t, j)
    BY <1>6, <2>2, <2>3, <2>4 DEF Owned
  <2> QED BY <1>a, <1>6, <2>1, <2>2, <2>4, <2>5
<1>7. CASE Returned(t)
  <2>1. pc'[t] = pc[t] /\ stage[t] = "posted" /\ stage'[t] = "done"
    BY <1>7 DEF Returned
  <2>2. Queued(t, j)' <=> Queued(t, j)
    BY <2>1, SameCode DEF Queued
  <2>3. Active(t, j)' <=> Active(t, j)
    BY <2>1, <2>2, SameCode DEF Active
  <2>4. ~Leaving(t, k)' /\ ~Leaving(t, k)
    BY <2>1 DEF Leaving
  <2>5. ~Quiet(t)
    BY <1>0, <1>7 DEF Quiet, Returned, Off
  <2> QED BY <1>a, <2>1, <2>2, <2>3, <2>4, <2>5
<1> QED BY <1>1, <1>2, <1>3, <1>4, <1>5, <1>6, <1>7 DEF Quiet

\* Such a step of every task preserves what the invariant says of the chains,
\* when the promises that it puts are not those of locks.
LEMMA ChainStep ==
    ASSUME LockInv, Control', program' = program,
           last' = last, live' = live, toPut' = toPut,
           \A t \in Tasks : (Quiet(t) \/ Returned(t)) /\ (IsLock(t, pc[t]) => await'[t] = await[t]),
           satisfied \subseteq satisfied',
           \A x \in satisfied' \ satisfied : \E t \in Tasks : x = <<t, pc[t]>> /\ ~IsLock(t, pc[t])
    PROVE  ThroughInv' /\ Chained' /\ LiveInv' /\ GrantedInv' /\ PutInv'
<1>0. /\ Types /\ Control /\ ThroughInv /\ OneFree /\ WaitInv /\ LastInv /\ EndInv /\ SatisfiedInv
      /\ LiveInv /\ GrantedInv /\ PutInv /\ OwnerInv
  BY DEF LockInv, Chained, Held
<1>1. ASSUME NEW t \in Tasks, NEW j \in Nat, NEW k
      PROVE  /\ Queued(t, j)' <=> Queued(t, j)
             /\ Active(t, j)' <=> Active(t, j)
             /\ Leaving(t, k)' <=> Leaving(t, k)
             /\ Active(t, j) => (j < pc'[t] <=> j < pc[t]) /\ (j = pc'[t] <=> j = pc[t])
             /\ KeyAt(t, j)' = KeyAt(t, j)
             /\ IsLock(t, j)' <=> IsLock(t, j)
  BY <1>0, QuietPlaces, SameCode
<1>2. ASSUME NEW x, NEW p, NEW k, PlaceIn(x, p, k)
      PROVE  PlaceIn(x, p, k)' /\ (x \in satisfied' <=> x \in satisfied)
  <2>1. PICK t \in Tasks, j \in Nat : x = <<t, j>> /\ PEOf[t] = p /\ Queued(t, j) /\ KeyAt(t, j) = k
    BY <1>2 DEF PlaceIn
  <2>2. PlaceIn(x, p, k)'
    BY <1>1, <2>1 DEF PlaceIn
  <2>3. IsLock(t, j)
    BY <2>1 DEF Queued
  <2> QED BY <2>1, <2>2, <2>3
<1>3. ASSUME NEW t \in Tasks, NEW j \in Nat, Active(t, j)
      PROVE  /\ Waits(t, j)' <=> Waits(t, j)
             /\ j = pc[t] => await'[t] = await[t]
  <2>1. CASE j # pc[t]
    BY <1>1, <1>3, <2>1 DEF Waits
  <2>2. CASE j = pc[t]
    <3>1. IsLock(t, pc[t]) /\ await'[t] = await[t] /\ j = pc'[t]
      BY <1>1, <1>3, <2>2 DEF Active, Queued
    <3>2. Waits(t, j) => await[t] \notin satisfied'
      BY <1>0, <1>2, <1>3 DEF WaitInv, Waits
    <3> QED BY <2>2, <3>1, <3>2 DEF Waits
  <2> QED BY <2>1, <2>2
<1>4. \A t \in Tasks, j \in Nat : Free(t, j)' <=> Free(t, j)
  BY <1>1, <1>3 DEF Free
<1>5. ThroughInv'
  <2> SUFFICES ASSUME NEW t \in Tasks, stage'[t] = "done", IsLock(t, pc[t])', Waits(t, pc[t])'
               PROVE  FALSE
    BY DEF ThroughInv
  <2>1. pc'[t] = pc[t] /\ (stage'[t] = stage[t] \/ Returned(t)) /\ IsLock(t, pc[t])
    BY SameCode DEF Quiet, Returned, Off, IsLock
  <2>2. await'[t] = await[t]
    BY <2>1
  <2>3. ~Waits(t, pc[t])
    BY <1>0, <2>1 DEF ThroughInv, Returned
  <2> QED BY <2>1, <2>2, <2>3 DEF Waits
<1>6. OneFree'
  BY <1>0, <1>1, <1>4 DEF OneFree
<1>7. LastInv'
  BY <1>0, <1>2 DEF LastInv
<1>8. WaitInv'
  <2> SUFFICES ASSUME NEW t \in Tasks, NEW j \in Nat, Active(t, j)', Waits(t, j)'
               PROVE  /\ PlaceIn(await[t], PEOf[t], KeyAt(t, j))'
                      /\ await'[t] # last'[PEOf[t]][KeyAt(t, j)']
                      /\ \A u \in Tasks : \A i \in Nat :
                           Active(u, i)' /\ Waits(u, i)' /\ await'[u] = await'[t] => u = t
    BY DEF WaitInv
  <2>1. Active(t, j) /\ Waits(t, j) /\ await'[t] = await[t] /\ KeyAt(t, j)' = KeyAt(t, j)
    BY <1>1, <1>3 DEF Waits
  <2>2. PICK x, k : x = await[t] /\ k = KeyAt(t, j)
    OBVIOUS
  <2>3. PlaceIn(x, PEOf[t], k)
    BY <1>0, <2>1, <2>2 DEF WaitInv
  <2>4. PlaceIn(x, PEOf[t], k)'
    BY <1>2, <2>3
  <2>5. PlaceIn(await[t], PEOf[t], KeyAt(t, j))'
    BY <2>1, <2>2, <2>4 DEF PlaceIn
  <2>6. \A u \in Tasks : \A i \in Nat : Active(u, i)' /\ Waits(u, i)' => Active(u, i) /\ Waits(u, i) /\ await'[u] = await[u]
    BY <1>1, <1>3 DEF Waits
  <2> QED BY <1>0, <2>1, <2>5, <2>6 DEF WaitInv
<1>9. EndInv'
  <2> SUFFICES ASSUME NEW t \in Tasks, NEW j \in Nat, Free(t, j)'
               PROVE  LET x == last'[PEOf[t]][KeyAt(t, j)'] IN x # NULL /\ x \notin satisfied'
    BY DEF EndInv
  <2>1. PICK k : k = KeyAt(t, j) /\ k = KeyAt(t, j)' /\ k \in Keys
    BY <1>0, <1>1, <1>4, LockFacts DEF Free, Active, Queued
  <2>2. Free(t, j)
    BY <1>4
  <2>3. last[PEOf[t]][k] # NULL /\ last[PEOf[t]][k] \notin satisfied
    BY <1>0, <2>1, <2>2 DEF EndInv
  <2>4. PlaceIn(last[PEOf[t]][k], PEOf[t], k)
    BY <1>0, <2>1, <2>3, CodeFacts DEF LastInv
  <2>5. last[PEOf[t]][k] \notin satisfied'
    BY <1>2, <2>3, <2>4
  <2> QED BY <2>1, <2>3, <2>5
<1>10. SatisfiedInv'
  <2> SUFFICES ASSUME NEW t \in Tasks, NEW j \in Nat, <<t, j>> \in satisfied', IsLock(t, j)'
               PROVE  j < pc'[t]
    BY DEF SatisfiedInv
  <2>1. IsLock(t, j)
    BY SameCode
  <2>2. <<t, j>> \in satisfied
    BY <2>1
  <2>3. j < pc[t] /\ pc[t] \in Nat
    BY <1>0, <2>1, <2>2 DEF SatisfiedInv, Types
  <2> QED BY <2>3 DEF Quiet, Returned
<1>11. LiveInv'
  BY <1>0, <1>1 DEF LiveInv
<1>12. GrantedInv'
  BY <1>0, <1>1 DEF GrantedInv
<1>13. PutInv'
  <2> SUFFICES ASSUME NEW t \in Tasks, stage'[t] = "put"
               PROVE  \E j \in Nat : toPut'[t] = <<t, j>> /\ Active(t, j)' /\ j < pc'[t] /\ KeyAt(t, j)' = KeyAt(t, pc[t])'
    BY DEF PutInv
  <2>1. IsUnlock(t, pc[t])'
    BY DEF Control
  <2>2. pc'[t] = pc[t] /\ stage[t] = "put"
    BY <2>1, SameCode DEF Quiet, Returned, Off, IsUnlock
  <2>3. KeyAt(t, pc[t])' = KeyAt(t, pc[t])
    BY <2>2 DEF KeyAt
  <2> QED BY <1>0, <1>1, <2>2, <2>3 DEF PutInv
<1> QED BY <1>5, <1>6, <1>7, <1>8, <1>9, <1>10, <1>11, <1>12, <1>13 DEF Chained

\* A quiet step of every task also keeps the owners of the locks.
LEMMA QuietStep ==
    ASSUME LockInv, Control', program' = program,
           last' = last, live' = live, toPut' = toPut, owner' = owner,
           \A t \in Tasks : Quiet(t) /\ (IsLock(t, pc[t]) => await'[t] = await[t]),
           satisfied \subseteq satisfied',
           \A x \in satisfied' \ satisfied : \E t \in Tasks : x = <<t, pc[t]>> /\ ~IsLock(t, pc[t])
    PROVE  ThroughInv' /\ Chained' /\ Held'
<1>1. ThroughInv' /\ Chained' /\ LiveInv' /\ GrantedInv' /\ PutInv'
  BY ChainStep
<1>2. Types /\ OwnerInv
  BY DEF LockInv, Held
<1>3. \A t \in Tasks : \A j \in Nat : Owned(t, j)' <=> Owned(t, j)
  BY <1>2, QuietPlaces
<1>4. OwnerInv'
  BY <1>2, <1>3 DEF OwnerInv
<1> QED BY <1>1, <1>4 DEF Held

-----------------------------------------------------------------------------
(* Control, and the interconnect workers *)

\* A call that starts a task is the only one that does.
LEMMA StartFacts ==
    ASSUME Types, NEW t \in Tasks, NEW i \in DOMAIN program.code[t], Starts(program.code[t][i])
    PROVE  /\ program.code[t][i].a \in Tasks \ program.start
           /\ \A u \in Tasks : \A j \in DOMAIN program.code[u] :
                Starts(program.code[u][j]) /\ program.code[u][j].a = program.code[t][i].a => u = t /\ j = i
           /\ program.code[t][i].via = "async" =>
                /\ 1 \in DOMAIN program.code[program.code[t][i].a]
                /\ program.code[program.code[t][i].a][1].via \in {"nic", "request"}
<1>1. StartedOnce(program)
  BY ProgramsAssumption DEF Types
<1>2. ASSUME NEW u \in Tasks, NEW j \in DOMAIN program.code[u]
      PROVE  /\ program.code[t][i].a \in Tasks \ program.start
             /\ Starts(program.code[u][j]) /\ program.code[u][j].a = program.code[t][i].a => <<t, i>> = <<u, j>>
             /\ program.code[t][i].via = "async" =>
                    /\ 1 \in DOMAIN program.code[program.code[t][i].a]
                    /\ program.code[program.code[t][i].a][1].via \in {"nic", "request"}
  <2>1. program.code[t][i].a \in Tasks \ program.start
    BY ONLY <1>1, Starts(program.code[t][i]), t \in Tasks, i \in DOMAIN program.code[t] DEF StartedOnce
  <2>2. Starts(program.code[u][j]) /\ program.code[u][j].a = program.code[t][i].a => <<t, i>> = <<u, j>>
    BY ONLY <1>1, Starts(program.code[t][i]), t \in Tasks, i \in DOMAIN program.code[t], u \in Tasks,
            j \in DOMAIN program.code[u] DEF StartedOnce
  <2>3. program.code[t][i].via = "async" =>
            /\ 1 \in DOMAIN program.code[program.code[t][i].a]
            /\ program.code[program.code[t][i].a][1].via \in {"nic", "request"}
    BY ONLY <1>1, Starts(program.code[t][i]), t \in Tasks, i \in DOMAIN program.code[t] DEF StartedOnce
  <2> QED BY ONLY <2>1, <2>2, <2>3
<1>3. ASSUME NEW u \in Tasks, NEW j \in DOMAIN program.code[u],
             Starts(program.code[u][j]), program.code[u][j].a = program.code[t][i].a
      PROVE  u = t /\ j = i
  <2>1. <<t, i>> = <<u, j>>
    BY <1>2, <1>3, Zenon
  <2> QED BY ONLY <2>1
<1> QED BY <1>2, <1>3, Zenon

\* A task that was started goes to another stage of its call.
LEMMA GoesControl ==
    ASSUME Types, Control, NEW t \in Tasks, NEW s \in Stages \ {"idle"},
           program' = program, pc' = pc, stage' = [stage EXCEPT ![t] = s],
           stage[t] # "idle",
           s \notin {"run", "waiting"} => pc[t] \in DOMAIN program.code[t],
           s = "await" => IsLock(t, pc[t]),
           s = "put" => IsUnlock(t, pc[t]),
           s \in {"entered", "pending"} => Off(t)
    PROVE  Control'
<1> SUFFICES ASSUME NEW u \in Tasks
             PROVE  /\ pc'[u] >= 1 /\ pc'[u] <= Len(program.code[u]) + 1
                    /\ stage'[u] = "idle" => pc'[u] = 1
                    /\ stage'[u] \notin {"idle", "run", "waiting"} => pc'[u] \in DOMAIN program.code[u]
                    /\ stage'[u] = "await" => IsLock(u, pc[u])'
                    /\ stage'[u] = "put" => IsUnlock(u, pc[u])'
                    /\ stage'[u] \in {"entered", "pending"} => ~IsLock(u, pc[u])' /\ ~IsUnlock(u, pc[u])'
                    /\ \A i \in DOMAIN program.code[u] :
                         i >= pc'[u] /\ Starts(program.code[u][i]) => stage'[program.code[u][i].a] = "idle"
  BY DEF Control
<1>0. stage \in [Tasks -> Stages]
  BY DEF Types
<1>1. \A i : (IsLock(u, i)' <=> IsLock(u, i)) /\ (IsUnlock(u, i)' <=> IsUnlock(u, i))
  BY SameCode
<1>a. (IsLock(u, pc[u])' <=> IsLock(u, pc[u])) /\ (IsUnlock(u, pc[u])' <=> IsUnlock(u, pc[u]))
  BY DEF IsLock, IsUnlock
<1>2. \A i \in DOMAIN program.code[u] :
         i >= pc'[u] /\ Starts(program.code[u][i]) => stage'[program.code[u][i].a] = "idle"
  BY <1>0, StartFacts DEF Control
<1>3. CASE u = t
  BY <1>0, <1>a, <1>2, <1>3 DEF Control, Off
<1>4. CASE u # t
  BY <1>0, <1>a, <1>2, <1>4 DEF Control
<1> QED BY <1>3, <1>4

\* A task that was started goes on to its next call.
LEMMA ReturnsControl ==
    ASSUME Types, Control, NEW t \in Tasks,
           program' = program, pc' = [pc EXCEPT ![t] = @ + 1], stage' = [stage EXCEPT ![t] = "run"],
           stage[t] # "idle", pc[t] \in DOMAIN program.code[t]
    PROVE  Control'
<1> SUFFICES ASSUME NEW u \in Tasks
             PROVE  /\ pc'[u] >= 1 /\ pc'[u] <= Len(program.code[u]) + 1
                    /\ stage'[u] = "idle" => pc'[u] = 1
                    /\ stage'[u] \notin {"idle", "run", "waiting"} => pc'[u] \in DOMAIN program.code[u]
                    /\ stage'[u] = "await" => IsLock(u, pc[u])'
                    /\ stage'[u] = "put" => IsUnlock(u, pc[u])'
                    /\ stage'[u] \in {"entered", "pending"} => ~IsLock(u, pc[u])' /\ ~IsUnlock(u, pc[u])'
                    /\ \A i \in DOMAIN program.code[u] :
                         i >= pc'[u] /\ Starts(program.code[u][i]) => stage'[program.code[u][i].a] = "idle"
  BY DEF Control
<1>0. stage \in [Tasks -> Stages] /\ pc \in [Tasks -> Nat]
  BY DEF Types
<1>1. \A i \in DOMAIN program.code[u] : i \in Nat
  BY CodeFacts
<1>2. pc'[u] = (IF u = t THEN pc[u] + 1 ELSE pc[u]) /\ pc[u] \in Nat
  BY <1>0
<1>3. \A i \in DOMAIN program.code[u] : i >= pc'[u] => i >= pc[u]
  BY <1>1, <1>2
<1>4. \A i \in DOMAIN program.code[u] :
         i >= pc'[u] /\ Starts(program.code[u][i]) => stage'[program.code[u][i].a] = "idle"
  BY <1>0, <1>3, StartFacts DEF Control
<1>5. CASE u = t
  <2>1. pc'[u] >= 1 /\ pc'[u] <= Len(program.code[u]) + 1
    BY <1>2, <1>5, CodeFacts
  <2> QED BY <1>0, <1>4, <1>5, <2>1
<1>6. CASE u # t
  <2>1. pc'[u] = pc[u] /\ stage'[u] = stage[u]
    BY <1>0, <1>6
  <2>2. (IsLock(u, pc[u])' <=> IsLock(u, pc[u])) /\ (IsUnlock(u, pc[u])' <=> IsUnlock(u, pc[u]))
    BY <2>1 DEF IsLock, IsUnlock
  <2> QED BY <1>4, <2>1, <2>2 DEF Control
<1> QED BY <1>5, <1>6

\* The interconnect workers stay in the calls that they are in.
LEMMA SameBusy ==
    ASSUME BusyInv, Types, program' = program,
           \A p \in PEs : busy'[p] \in {busy[p], NULL},
           \A p \in PEs : busy'[p] # NULL =>
                /\ stage'[busy[p]] = stage[busy[p]] /\ pc'[busy[p]] = pc[busy[p]]
                /\ IsLock(busy[p], pc[busy[p]]) => await'[busy[p]] = await[busy[p]],
           satisfied \subseteq satisfied'
    PROVE  BusyInv'
<1> SUFFICES ASSUME NEW p \in PEs, busy'[p] # NULL
             PROVE  /\ stage'[busy'[p]] \in {"posted", "entered"} /\ PEOf[busy'[p]] = p
                    /\ IsLock(busy[p], pc[busy[p]])' => ~Waits(busy[p], pc[busy[p]])'
  BY DEF BusyInv
<1>1. PICK t : t = busy[p] /\ t = busy'[p]
  OBVIOUS
<1>2. /\ stage[t] \in {"posted", "entered"} /\ PEOf[t] = p
      /\ IsLock(t, pc[t]) => ~Waits(t, pc[t])
      /\ stage'[t] = stage[t] /\ pc'[t] = pc[t] /\ (IsLock(t, pc[t]) => await'[t] = await[t])
  BY <1>1 DEF BusyInv
<1>3. IsLock(t, pc[t])' => ~Waits(t, pc[t])'
  BY <1>2, SameCode DEF Waits, IsLock
<1> QED BY <1>1, <1>2, <1>3 DEF IsLock, Waits

\* A step of a task outside the interconnect workers does not disturb them.
LEMMA OtherBusy ==
    ASSUME BusyInv, Types, program' = program, busy' = busy,
           \A u \in Tasks : stage[u] \in {"posted", "entered"} =>
                stage'[u] = stage[u] /\ pc'[u] = pc[u] /\ (IsLock(u, pc[u]) => await'[u] = await[u]),
           satisfied \subseteq satisfied'
    PROVE  BusyInv'
<1>1. \A p \in PEs : busy[p] # NULL => busy[p] \in Tasks /\ stage[busy[p]] \in {"posted", "entered"}
  BY DEF BusyInv, Types
<1> QED BY <1>1, SameBusy

\* What a call does to the library: only the calls that set and clear a lock
\* change who owns one.
LEMMA EffectFacts ==
    ASSUME Types, NEW t \in Tasks, NEW c, NEW ins, WellFormed(ins), Effect(t, c, ins)
    PROVE  /\ \A m \in flight' : m.to \in PEs /\ m.a \in Addrs
           /\ ins.lib \notin {"set_lock", "clear_lock"} => owner' = owner
           /\ ins.lib = "set_lock" =>
                owner[ins.a] \in {NULL, PEOf[t]} /\ owner' = [owner EXCEPT ![ins.a] = PEOf[t]]
           /\ ins.lib = "clear_lock" => owner' = [owner EXCEPT ![ins.a] = NULL]
<1>1. \A m \in flight : m.to \in PEs /\ m.a \in Addrs
  BY DEF Types
<1>2. CASE ins.lib \in {"put", "p", "add"}
  <2>1. PICK k, v, e : flight' = flight \cup {Message(t, c, k, ins.a, v, ins.pe, e)}
    BY <1>2 DEF Effect, Fetching, Collective
  <2>2. owner' = owner
    BY <1>2 DEF Effect, Fetching, Collective
  <2>3. ins.a \in Addrs /\ ins.pe \in PEs
    BY <1>2 DEF WellFormed
  <2> QED BY <1>1, <1>2, <2>1, <2>2, <2>3 DEF Message
<1>3. CASE ins.lib = "put_signal"
  <2>1. PutSignal(t, c, ins) /\ owner' = owner
    BY <1>3 DEF Effect, Fetching, Collective
  <2>2. ins.a \in Addrs /\ ins.pe \in PEs /\ ins.v[1] \in Addrs
    BY <1>3 DEF WellFormed
  <2> QED BY <1>1, <1>3, <2>1, <2>2 DEF PutSignal, Message
<1>4. CASE ins.lib \notin {"put", "p", "add", "put_signal", "set_lock", "clear_lock"}
  <2>1. flight' = flight /\ owner' = owner
    BY <1>4 DEF Effect
  <2> QED BY <1>1, <1>4, <2>1
<1>5. CASE ins.lib \in {"set_lock", "clear_lock"}
  <2>1. flight' = flight
    BY <1>5 DEF Effect, Fetching, Collective
  <2>2. ins.lib = "set_lock" => owner[ins.a] \in {NULL, PEOf[t]} /\ owner' = [owner EXCEPT ![ins.a] = PEOf[t]]
    BY DEF Effect, Fetching, Collective
  <2>3. ins.lib = "clear_lock" => owner' = [owner EXCEPT ![ins.a] = NULL]
    BY DEF Effect, Fetching, Collective
  <2> QED BY <1>1, <1>5, <2>1, <2>2, <2>3
<1> QED BY <1>2, <1>3, <1>4, <1>5

\* A task in a stage of a call is at a call of its code.
LEMMA NowFacts ==
    ASSUME Types, Control, NEW t \in Tasks,
           stage[t] \notin {"idle", "run", "waiting"} \/ ~Ended(t)
    PROVE  /\ pc[t] \in DOMAIN program.code[t] /\ WellFormed(Now(t)) /\ ~Ended(t)
           /\ IsLock(t, pc[t]) <=> Now(t).via = "lock"
           /\ IsUnlock(t, pc[t]) <=> Now(t).via = "unlock"
           /\ Off(t) <=> Now(t).via \notin {"lock", "unlock"}
           /\ KeyAt(t, pc[t]) = Key(Now(t).a)
<1>1. pc[t] \in Nat /\ pc[t] >= 1
  BY DEF Types, Control
<1>2. pc[t] \in DOMAIN program.code[t] /\ ~Ended(t)
  BY <1>1, CodeFacts DEF Control, Ended
<1>3. WellFormed(Now(t))
  BY <1>2, CodeFacts DEF Now
<1> QED BY <1>2, <1>3 DEF IsLock, IsUnlock, Off, Now, KeyAt, Key

-----------------------------------------------------------------------------
(* The steps that leave the chains alone *)

\* No task moves.
LEMMA StillStep ==
    ASSUME LockInv, UNCHANGED <<program, pc, stage, locking>>, owner' = owner, Types', BusyInv'
    PROVE  LockInv'
<1>0. Types /\ Control
  BY DEF LockInv
<1>1. /\ program' = program /\ pc' = pc /\ stage' = stage /\ last' = last /\ live' = live
      /\ await' = await /\ toPut' = toPut /\ satisfied' = satisfied
  BY DEF locking
<1>2. Control'
  BY <1>0, <1>1 DEF Control, IsLock, IsUnlock
<1>3. ThroughInv' /\ Chained' /\ Held'
  BY <1>1, <1>2, QuietStep DEF Quiet
<1> QED BY <1>2, <1>3 DEF LockInv

\* NicRun
LEMMA NicRunStep ==
    ASSUME LockInv, NEW t \in Tasks, NicRun(t)
    PROVE  LockInv'
<1>0. Types /\ Control /\ BusyInv /\ PEOf[t] \in PEs
  BY CodeFacts DEF LockInv
<1>1. /\ stage[t] = "posted" /\ busy' = [busy EXCEPT ![PEOf[t]] = t]
      /\ await[t] = NULL \/ await[t] \in satisfied
      /\ UNCHANGED <<tasks, flight, owner, locking, aborted>>
  BY DEF NicRun, In
<1>2. UNCHANGED <<program, pc, stage, conds, turn, last, live, await, toPut, satisfied>>
  BY <1>1 DEF tasks, locking
<1>3. Types'
  BY <1>0, <1>1, <1>2 DEF Types
<1>4. BusyInv'
  <2> SUFFICES ASSUME NEW p \in PEs, busy'[p] # NULL
               PROVE  /\ stage[busy'[p]] \in {"posted", "entered"} /\ PEOf[busy'[p]] = p
                      /\ IsLock(busy'[p], pc[busy'[p]]) => ~Waits(busy'[p], pc[busy'[p]])
    BY <1>2 DEF BusyInv, IsLock, Waits
  <2>1. CASE p = PEOf[t]
    <3>1. busy'[p] = t
      BY <1>0, <1>1, <2>1 DEF Types
    <3> QED BY <1>1, <2>1, <3>1 DEF Waits
  <2>2. CASE p # PEOf[t]
    <3>1. busy'[p] = busy[p]
      BY <1>0, <1>1, <2>2 DEF Types
    <3> QED BY <1>0, <3>1 DEF BusyInv
  <2> QED BY <2>1, <2>2
<1> QED BY <1>1, <1>2, <1>3, <1>4, StillStep

\* Deliver
LEMMA DeliverStep ==
    ASSUME LockInv, NEW m \in flight, Deliver(m)
    PROVE  LockInv'
<1>0. Types /\ BusyInv
  BY DEF LockInv
<1>1. /\ UNCHANGED <<tasks, busy, owner, locking, aborted>> /\ flight' \subseteq flight
  BY DEF Deliver
<1>2. UNCHANGED <<program, pc, stage, conds, turn, last, live, await, toPut, satisfied>>
  BY <1>1 DEF tasks, locking
<1>3. Types'
  BY <1>0, <1>1, <1>2 DEF Types
<1>4. BusyInv'
  BY <1>0, <1>1, <1>2, OtherBusy
<1> QED BY <1>1, <1>2, <1>3, <1>4, StillStep

\* Buffer, Match, and steps that change nothing
LEMMA IdleStep ==
    ASSUME LockInv, UNCHANGED <<tasks, busy, flight, owner, locking, aborted>>
    PROVE  LockInv'
<1>0. Types /\ BusyInv
  BY DEF LockInv
<1>2. UNCHANGED <<program, pc, stage, conds, turn, last, live, await, toPut, satisfied>>
  BY DEF tasks, locking
<1>3. Types'
  BY <1>0, <1>2 DEF Types
<1>4. BusyInv'
  BY <1>0, <1>2, OtherBusy
<1> QED BY <1>2, <1>3, <1>4, StillStep

\* A task goes to another stage of its call, and no place changes.
LEMMA GoStep ==
    ASSUME LockInv, NEW t \in Tasks, NEW s \in Stages \ {"idle"}, Goes(t, s), UNCHANGED <<locking, owner, aborted>>,
           stage[t] # "idle", pc[t] \in DOMAIN program.code[t],
           \/ Off(t) /\ s \notin {"await", "put"}
           \/ IsLock(t, pc[t]) /\ stage[t] = "await" /\ s = "posted"
           \/ IsUnlock(t, pc[t]) /\ stage[t] = "run" /\ s = "posted",
           \A m \in flight' : m.to \in PEs /\ m.a \in Addrs,
           busy' \in [PEs -> Tasks \cup {NULL}], BusyInv'
    PROVE  LockInv'
<1>0. Types /\ Control
  BY DEF LockInv
<1>1. /\ stage' = [stage EXCEPT ![t] = s]
      /\ UNCHANGED <<program, pc, conds, turn, last, live, await, toPut, satisfied>>
  BY DEF Goes, locking
<1>2. Types'
  BY <1>0, <1>1 DEF Types
<1>3. Control'
  BY <1>0, <1>1, GoesControl DEF Off
<1>4. \A u \in Tasks : u # t => pc'[u] = pc[u] /\ stage'[u] = stage[u]
  BY <1>0, <1>1 DEF Types
<1>5. pc'[t] = pc[t] /\ stage'[t] = s
  BY <1>0, <1>1 DEF Types
<1>6. \A u \in Tasks : Quiet(u)
  BY <1>4, <1>5 DEF Quiet
<1>7. ThroughInv' /\ Chained' /\ Held'
  BY <1>1, <1>3, <1>6, QuietStep
<1> QED BY <1>2, <1>3, <1>7 DEF LockInv

\* A call that is not about locks returns.
LEMMA ReturnStep ==
    ASSUME LockInv, NEW t \in Tasks, Returns(t), stage[t] \notin {"idle", "posted", "entered"}, Off(t), ~Ended(t),
           UNCHANGED <<busy, last, live, await, toPut, owner, aborted>>,
           satisfied' \in {satisfied, satisfied \cup {Mine(t)}},
           \A m \in flight' : m.to \in PEs /\ m.a \in Addrs
    PROVE  LockInv'
<1>0. Types /\ Control /\ BusyInv
  BY DEF LockInv
<1>1. /\ stage' = [stage EXCEPT ![t] = "run"] /\ pc' = [pc EXCEPT ![t] = @ + 1]
      /\ turn' = [turn EXCEPT ![t] = {}] /\ UNCHANGED <<program, conds>>
  BY DEF Returns
<1>2. Types'
  BY <1>0, <1>1 DEF Types, Stages
<1>3. Control'
  BY <1>0, <1>1, NowFacts, ReturnsControl
<1>4. \A u \in Tasks : u # t => pc'[u] = pc[u] /\ stage'[u] = stage[u]
  BY <1>0, <1>1 DEF Types
<1>5. pc'[t] = pc[t] + 1 /\ stage'[t] = "run"
  BY <1>0, <1>1 DEF Types
<1>6. \A u \in Tasks : Quiet(u)
  BY <1>4, <1>5 DEF Quiet
<1>7. BusyInv'
  BY <1>0, <1>1, <1>4, OtherBusy
<1>8. \A x \in satisfied' \ satisfied : x = <<t, pc[t]>> /\ ~IsLock(t, pc[t])
  BY DEF Mine, Off
<1>9. ThroughInv' /\ Chained' /\ Held'
  BY <1>1, <1>3, <1>6, <1>8, QuietStep
<1> QED BY <1>2, <1>3, <1>7, <1>9 DEF LockInv

\* The workers when a task that is not in a call of theirs moves.
LEMMA GoBusy ==
    ASSUME LockInv, NEW t \in Tasks, NEW s, Goes(t, s), UNCHANGED <<busy, locking>>,
           stage[t] \notin {"posted", "entered"}
    PROVE  BusyInv'
<1>0. Types /\ BusyInv
  BY DEF LockInv
<1>1. /\ stage' = [stage EXCEPT ![t] = s]
      /\ UNCHANGED <<program, pc, conds, turn, last, live, await, toPut, satisfied>>
  BY DEF Goes, locking
<1>2. \A u \in Tasks : u # t => stage'[u] = stage[u]
  BY <1>0, <1>1 DEF Types
<1> QED BY <1>0, <1>1, <1>2, OtherBusy

\* A call leaves the interconnect worker.
LEMMA LeaveBusy ==
    ASSUME LockInv, NEW t \in Tasks, NEW s, Goes(t, s), Inside(t), UNCHANGED locking,
           busy' = [busy EXCEPT ![PEOf[t]] = NULL]
    PROVE  BusyInv' /\ busy' \in [PEs -> Tasks \cup {NULL}]
<1>0. Types /\ BusyInv
  BY DEF LockInv
<1>1. /\ stage' = [stage EXCEPT ![t] = s]
      /\ UNCHANGED <<program, pc, conds, turn, last, live, await, toPut, satisfied>>
  BY DEF Goes, locking
<1>2. \A p \in PEs : busy'[p] = IF p = PEOf[t] THEN NULL ELSE busy[p]
  BY <1>0 DEF Types
<1>3. \A p \in PEs : busy'[p] # NULL => busy[p] # t /\ busy[p] \in Tasks
  BY <1>0, <1>2 DEF BusyInv, Types
<1>4. \A u \in Tasks : u # t => stage'[u] = stage[u]
  BY <1>0, <1>1 DEF Types
<1>5. BusyInv'
  BY <1>0, <1>1, <1>2, <1>3, <1>4, SameBusy
<1> QED BY <1>0, <1>5 DEF Types

\* A call enters the library for a while.
LEMMA EnterBusy ==
    ASSUME LockInv, NEW t \in Tasks, Goes(t, "entered"), Inside(t), Off(t), UNCHANGED <<busy, locking>>
    PROVE  BusyInv'
<1>0. Types /\ BusyInv
  BY DEF LockInv
<1>1. /\ stage' = [stage EXCEPT ![t] = "entered"]
      /\ UNCHANGED <<program, pc, conds, turn, last, live, await, toPut, satisfied>>
  BY DEF Goes, locking
<1> SUFFICES ASSUME NEW p \in PEs, busy[p] # NULL
             PROVE  /\ stage'[busy[p]] \in {"posted", "entered"} /\ PEOf[busy[p]] = p
                    /\ IsLock(busy[p], pc[busy[p]]) => ~Waits(busy[p], pc[busy[p]])
  BY <1>1 DEF BusyInv, IsLock, Waits
<1>2. busy[p] \in Tasks
  BY <1>0 DEF Types
<1>3. stage'[busy[p]] = IF busy[p] = t THEN "entered" ELSE stage[busy[p]]
  BY <1>0, <1>1, <1>2 DEF Types
<1> QED BY <1>0, <1>3 DEF BusyInv, Off

\* NicEnter
LEMMA NicEnterStep ==
    ASSUME LockInv, NEW t \in Tasks, NicEnter(t)
    PROVE  LockInv'
<1>0. Types /\ Control
  BY DEF LockInv
<1>1. /\ Inside(t) /\ stage[t] = "posted" /\ Now(t).lib \in Collective /\ Goes(t, "entered")
      /\ UNCHANGED <<busy, flight, owner, locking, aborted>>
  BY DEF NicEnter
<1>2. Off(t) /\ pc[t] \in DOMAIN program.code[t]
  <2>1. pc[t] \in DOMAIN program.code[t]
    BY <1>0, <1>1, NowFacts
  <2>2. IsLock(t, pc[t]) \/ IsUnlock(t, pc[t]) => Now(t).lib \in {"set_lock", "clear_lock"}
    BY <1>0, LockFacts DEF Now
  <2> QED BY <1>1, <2>1, <2>2 DEF Off, Collective
<1>3. BusyInv'
  BY <1>1, <1>2, EnterBusy
<1>4. /\ \A m \in flight' : m.to \in PEs /\ m.a \in Addrs
      /\ busy' \in [PEs -> Tasks \cup {NULL}]
  BY <1>0, <1>1 DEF Types
<1>5. "entered" \in Stages \ {"idle"}
  BY DEF Stages
<1> QED BY <1>1, <1>2, <1>3, <1>4, <1>5, GoStep

\* MakeRequest
LEMMA MakeRequestStep ==
    ASSUME LockInv, NEW t \in Tasks, MakeRequest(t)
    PROVE  LockInv'
<1>0. Types /\ Control
  BY DEF LockInv
<1>1. /\ Inside(t) /\ stage[t] = "posted" /\ Now(t).via = "request"
      /\ UNCHANGED <<flight, owner, locking, aborted>>
  BY DEF MakeRequest
<1>2. Off(t) /\ pc[t] \in DOMAIN program.code[t]
  BY <1>0, <1>1, NowFacts
<1>3. \A m \in flight' : m.to \in PEs /\ m.a \in Addrs
  BY <1>0, <1>1 DEF Types
<1>4. CASE Goes(t, "entered") /\ UNCHANGED busy
  <2>1. BusyInv' /\ busy' \in [PEs -> Tasks \cup {NULL}]
    BY <1>0, <1>1, <1>2, <1>4, EnterBusy DEF Types
  <2>2. "entered" \in Stages \ {"idle"}
    BY DEF Stages
  <2> QED BY <1>1, <1>2, <1>3, <1>4, <2>1, <2>2, GoStep
<1>5. CASE Goes(t, "pending") /\ busy' = [busy EXCEPT ![PEOf[t]] = NULL]
  <2>1. BusyInv' /\ busy' \in [PEs -> Tasks \cup {NULL}]
    BY <1>1, <1>5, LeaveBusy
  <2>2. "pending" \in Stages \ {"idle"}
    BY DEF Stages
  <2> QED BY <1>1, <1>2, <1>3, <1>5, <2>1, <2>2, GoStep
<1> QED BY <1>4, <1>5 DEF MakeRequest

\* NicReturn, of a call that is not about locks
LEMMA NicReturnStep ==
    ASSUME LockInv, NEW t \in Tasks, NicReturn(t), Off(t)
    PROVE  LockInv'
<1>0. Types /\ Control
  BY DEF LockInv
<1>1. /\ Inside(t) /\ Effect(t, Default, Now(t)) /\ busy' = [busy EXCEPT ![PEOf[t]] = NULL]
      /\ Goes(t, "done") /\ UNCHANGED <<locking, aborted>>
  BY DEF NicReturn
<1>2. stage[t] \in {"posted", "entered"}
  BY <1>1 DEF Inside
<1>3. pc[t] \in DOMAIN program.code[t] /\ WellFormed(Now(t)) /\ Now(t).via \notin {"lock", "unlock"}
  BY <1>0, <1>2, NowFacts
<1>4. Now(t).lib \notin {"set_lock", "clear_lock"}
  BY <1>3 DEF WellFormed
<1>5. owner' = owner /\ \A m \in flight' : m.to \in PEs /\ m.a \in Addrs
  BY <1>0, <1>1, <1>3, <1>4, EffectFacts
<1>6. BusyInv' /\ busy' \in [PEs -> Tasks \cup {NULL}]
  BY <1>1, LeaveBusy
<1>7. "done" \in Stages \ {"idle"}
  BY DEF Stages
<1> QED BY <1>1, <1>2, <1>3, <1>5, <1>6, <1>7, GoStep

\* RequestReturn
LEMMA RequestReturnStep ==
    ASSUME LockInv, NEW t \in Tasks, RequestReturn(t)
    PROVE  LockInv'
<1>0. Types /\ Control
  BY DEF LockInv
<1>1. /\ Inside(t) /\ stage[t] = "entered" /\ Now(t).via = "request"
      /\ busy' = [busy EXCEPT ![PEOf[t]] = NULL] /\ Goes(t, "done")
      /\ UNCHANGED <<flight, owner, locking, aborted>>
  BY DEF RequestReturn
<1>2. Off(t) /\ pc[t] \in DOMAIN program.code[t]
  BY <1>0, <1>1, NowFacts
<1>3. \A m \in flight' : m.to \in PEs /\ m.a \in Addrs
  BY <1>0, <1>1 DEF Types
<1>4. BusyInv' /\ busy' \in [PEs -> Tasks \cup {NULL}]
  BY <1>1, LeaveBusy
<1>5. "done" \in Stages \ {"idle"}
  BY DEF Stages
<1> QED BY <1>1, <1>2, <1>3, <1>4, <1>5, GoStep

\* A task outside the interconnect workers goes on in its call: Post,
\* sos_set_lock_wait, poll_on_pending, and parts of QuietAll and clear_lock
LEMMA OutsideStep ==
    ASSUME LockInv, NEW t \in Tasks, NEW s \in {"posted", "done"}, Goes(t, s), UNCHANGED <<library, locking, aborted>>,
           stage[t] \in {"run", "await", "pending"}, ~Ended(t),
           \/ Off(t)
           \/ IsLock(t, pc[t]) /\ stage[t] = "await" /\ s = "posted"
           \/ IsUnlock(t, pc[t]) /\ stage[t] = "run" /\ s = "posted"
    PROVE  LockInv'
<1>0. Types /\ Control
  BY DEF LockInv
<1>1. UNCHANGED <<busy, flight, owner>>
  BY DEF library
<1>2. BusyInv' /\ busy' \in [PEs -> Tasks \cup {NULL}]
  BY <1>0, <1>1, GoBusy DEF Types
<1>3. pc[t] \in DOMAIN program.code[t]
  BY <1>0, NowFacts
<1>4. \A m \in flight' : m.to \in PEs /\ m.a \in Addrs
  BY <1>0, <1>1 DEF Types
<1>5. s \in Stages \ {"idle"} /\ s \notin {"await", "put"}
  BY DEF Stages
<1> QED BY <1>1, <1>2, <1>3, <1>4, <1>5, GoStep

\* QuietAll
LEMMA QuietAllStep ==
    ASSUME LockInv, NEW t \in Tasks, QuietAll(t)
    PROVE  LockInv'
<1>0. Types /\ Control /\ BusyInv
  BY DEF LockInv
<1>1. /\ stage[t] = "run" /\ ~Ended(t) /\ Now(t).via = "quiet" /\ UNCHANGED <<library, locking, aborted>>
  BY DEF QuietAll, In
<1>2. Off(t)
  BY <1>0, <1>1, NowFacts
<1>3. CASE Goes(t, "posted")
  BY <1>1, <1>2, <1>3, OutsideStep
<1>4. CASE /\ \E c \in Contexts : turn' = [turn EXCEPT ![t] = @ \cup {c}]
           /\ UNCHANGED <<program, pc, stage, conds>>
  <2>1. UNCHANGED <<program, pc, stage, conds, busy, flight, owner, last, live, await, toPut, satisfied, aborted>>
    BY <1>1, <1>4 DEF library, locking
  <2>2. DOMAIN turn' = Tasks
    BY <1>0, <1>4 DEF Types
  <2>3. Types'
    BY <1>0, <2>1, <2>2 DEF Types
  <2>4. BusyInv'
    BY <1>0, <2>1, OtherBusy
  <2> QED BY <1>1, <2>1, <2>3, <2>4, StillStep
<1> QED BY <1>3, <1>4 DEF QuietAll

\* poll_on_waits
LEMMA PollStep ==
    ASSUME LockInv, NEW t \in Tasks, poll_on_waits(t)
    PROVE  LockInv'
<1>0. Types /\ Control /\ BusyInv
  BY DEF LockInv
<1>1. stage[t] = "waiting" /\ UNCHANGED <<library, locking, aborted>>
  BY DEF poll_on_waits
<1>2. UNCHANGED <<busy, flight, owner, last, live, await, toPut, satisfied>>
  BY <1>1 DEF library, locking
<1>3. CASE UNCHANGED tasks
  BY <1>1, <1>2, <1>3, IdleStep
<1>4. CASE /\ stage' = [stage EXCEPT ![t] = "run"] /\ conds' = [conds EXCEPT ![t] = {}]
           /\ UNCHANGED <<program, pc, turn>>
  <2>1. Types'
    BY <1>0, <1>1, <1>2, <1>4 DEF Types, Stages
  <2>2. Control'
    <3>1. "run" \in Stages \ {"idle"}
      BY DEF Stages
    <3> QED BY <1>0, <1>1, <1>4, <3>1, GoesControl
  <2>3. \A u \in Tasks : u # t => stage'[u] = stage[u]
    BY <1>0, <1>4 DEF Types
  <2>4. stage'[t] = "run"
    BY <1>0, <1>4 DEF Types
  <2>5. \A u \in Tasks : Quiet(u)
    BY <1>1, <1>4, <2>3, <2>4 DEF Quiet
  <2>6. BusyInv'
    BY <1>0, <1>1, <1>2, <1>4, <2>3, OtherBusy
  <2>7. ThroughInv' /\ Chained' /\ Held'
    BY <1>2, <1>4, <2>2, <2>5, QuietStep
  <2> QED BY <2>1, <2>2, <2>6, <2>7 DEF LockInv
<1> QED BY <1>3, <1>4 DEF poll_on_waits

\* Resume
LEMMA ResumeStep ==
    ASSUME LockInv, NEW t \in Tasks, Resume(t)
    PROVE  LockInv'
<1>0. Types /\ Control
  BY DEF LockInv
<1>1. /\ stage[t] = "done" /\ ~Ended(t) /\ Now(t).via \in {"nic", "quiet", "request"} /\ Returns(t)
      /\ satisfied' = satisfied \cup {Mine(t)}
      /\ UNCHANGED <<busy, flight, owner, last, live, await, toPut, aborted>>
  BY DEF Resume, In
<1>2. Off(t)
  BY <1>0, <1>1, NowFacts
<1>3. \A m \in flight' : m.to \in PEs /\ m.a \in Addrs
  BY <1>0, <1>1 DEF Types
<1> QED BY <1>1, <1>2, <1>3, ReturnStep

\* Waitall
LEMMA WaitallStep ==
    ASSUME LockInv, NEW t \in Tasks, Waitall(t)
    PROVE  LockInv'
<1>0. Types /\ Control
  BY DEF LockInv
<1>1. /\ stage[t] = "run" /\ ~Ended(t) /\ Now(t).via = "waitall" /\ Returns(t)
      /\ UNCHANGED <<library, locking, aborted>>
  BY DEF Waitall, In
<1>2. Off(t)
  BY <1>0, <1>1, NowFacts
<1>3. UNCHANGED <<busy, flight, owner, last, live, await, toPut, satisfied>>
  BY <1>1 DEF library, locking
<1>4. \A m \in flight' : m.to \in PEs /\ m.a \in Addrs
  BY <1>0, <1>3 DEF Types
<1> QED BY <1>1, <1>2, <1>3, <1>4, ReturnStep

\* OnContext
LEMMA OnContextStep ==
    ASSUME LockInv, NEW t \in Tasks, OnContext(t)
    PROVE  LockInv'
<1>0. Types /\ Control
  BY DEF LockInv
<1>1. /\ stage[t] = "run" /\ ~Ended(t) /\ Now(t).via = "ctx" /\ Returns(t)
      /\ UNCHANGED <<busy, locking, aborted>>
  BY DEF OnContext, In
<1>2. Off(t) /\ WellFormed(Now(t))
  BY <1>0, <1>1, NowFacts
<1>3. Now(t).lib \notin {"set_lock", "clear_lock"}
  BY <1>1, <1>2 DEF WellFormed
<1>4. PICK c \in Contexts : Effect(t, c, Now(t))
  BY DEF OnContext
<1>5. owner' = owner /\ \A m \in flight' : m.to \in PEs /\ m.a \in Addrs
  BY <1>0, <1>2, <1>3, <1>4, EffectFacts
<1>6. UNCHANGED <<last, live, await, toPut, satisfied>>
  BY <1>1 DEF locking
<1> QED BY <1>1, <1>2, <1>5, <1>6, ReturnStep

\* A task goes on, and itself waits or has started another one.
LEMMA SpawnControl ==
    ASSUME Types, Control, NEW t \in Tasks, ~Ended(t), stage[t] = "run",
           NEW u \in Tasks, NEW s \in {"waiting", "posted"},
           program' = program, pc' = [pc EXCEPT ![t] = @ + 1], stage' = [stage EXCEPT ![u] = s],
           \/ u = t /\ s = "waiting"
           \/ Starts(Now(t)) /\ u = Now(t).a /\ (s = "posted" => 1 \in DOMAIN program.code[u])
    PROVE  Control' /\ (u # t => stage[u] = "idle" /\ pc[u] = 1)
<1>0. stage \in [Tasks -> Stages] /\ pc \in [Tasks -> Nat]
  BY DEF Types
<1>1. pc[t] \in DOMAIN program.code[t]
  BY NowFacts
<1>2. u # t => stage[u] = "idle" /\ pc[u] = 1 /\ Starts(program.code[t][pc[t]]) /\ u = program.code[t][pc[t]].a
  BY <1>0, <1>1 DEF Control, Now
<1>3. ASSUME NEW v \in Tasks, NEW i \in DOMAIN program.code[v], i >= pc'[v], Starts(program.code[v][i])
      PROVE  stage'[program.code[v][i].a] = "idle"
  <2>1. i \in Nat /\ pc[v] \in Nat /\ pc'[v] = (IF v = t THEN pc[v] + 1 ELSE pc[v])
    BY <1>0, CodeFacts
  <2>2. i >= pc[v] /\ <<v, i>> # <<t, pc[t]>>
    BY <1>3, <2>1
  <2>3. PICK a : a = program.code[v][i].a
    OBVIOUS
  <2>4. a \in Tasks /\ stage[a] = "idle"
    BY <1>3, <2>2, <2>3, StartFacts DEF Control
  <2>5. a # u
    <3>1. CASE u = t
      BY <2>4, <3>1
    <3>2. CASE u # t
      <4>1. \A x \in Tasks : \A j \in DOMAIN program.code[x] :
              Starts(program.code[x][j]) /\ program.code[x][j].a = program.code[t][pc[t]].a => x = t /\ j = pc[t]
        BY <1>1, <1>2, <3>2, StartFacts, Zenon
      <4>2. a = u => v = t /\ i = pc[t]
        BY <1>2, <1>3, <2>3, <3>2, <4>1, Zenon
      <4> QED BY <2>2, <4>2, Zenon
    <3> QED BY <3>1, <3>2
  <2> QED BY <1>0, <2>3, <2>4, <2>5
<1>4. ASSUME NEW v \in Tasks
      PROVE  /\ pc'[v] >= 1 /\ pc'[v] <= Len(program.code[v]) + 1
             /\ stage'[v] = "idle" => pc'[v] = 1
             /\ stage'[v] \notin {"idle", "run", "waiting"} => pc'[v] \in DOMAIN program.code[v]
             /\ stage'[v] = "await" => IsLock(v, pc[v])'
             /\ stage'[v] = "put" => IsUnlock(v, pc[v])'
             /\ stage'[v] \in {"entered", "pending"} => ~IsLock(v, pc[v])' /\ ~IsUnlock(v, pc[v])'
  <2>1. /\ pc[v] \in Nat /\ pc'[v] = (IF v = t THEN pc[v] + 1 ELSE pc[v]) /\ pc[v] >= 1
        /\ stage'[v] = (IF v = u THEN s ELSE stage[v])
    BY <1>0 DEF Control
  <2>2. pc'[v] >= 1 /\ pc'[v] <= Len(program.code[v]) + 1
    <3>1. CASE v = t
      BY <1>1, <2>1, <3>1, CodeFacts
    <3>2. CASE v # t
      BY <2>1, <3>2 DEF Control
    <3> QED BY <3>1, <3>2
  <2>3. CASE v = u
    <3>1. u = t => s = "waiting"
      BY <1>0, <1>1 DEF Control, Now
    <3>2. s = "posted" => pc'[v] = 1 /\ 1 \in DOMAIN program.code[v]
      BY <1>2, <2>1, <2>3, <3>1
    <3> QED BY <2>1, <2>2, <2>3, <3>2
  <2>4. CASE v # u /\ v = t
    BY <2>1, <2>2, <2>4
  <2>5. CASE v # u /\ v # t
    <3>1. pc'[v] = pc[v] /\ stage'[v] = stage[v]
      BY <2>1, <2>5
    <3>2. (IsLock(v, pc[v])' <=> IsLock(v, pc[v])) /\ (IsUnlock(v, pc[v])' <=> IsUnlock(v, pc[v]))
      BY <3>1 DEF IsLock, IsUnlock
    <3> QED BY <3>1, <3>2 DEF Control
  <2> QED BY <2>3, <2>4, <2>5
<1>5. Control'
  BY <1>3, <1>4 DEF Control
<1> QED BY <1>2, <1>5

\* enqueue_wait_set
LEMMA EnqueueStep ==
    ASSUME LockInv, NEW t \in Tasks, enqueue_wait_set(t)
    PROVE  LockInv'
<1>0. Types /\ Control /\ BusyInv
  BY DEF LockInv
<1>1. PICK u : u = IF Now(t).lib = "wait" THEN t ELSE Now(t).a
  OBVIOUS
<1>2. /\ stage[t] = "run" /\ ~Ended(t) /\ Now(t).via = "wait"
      /\ stage' = [stage EXCEPT ![u] = "waiting"] /\ pc' = [pc EXCEPT ![t] = @ + 1]
      /\ DOMAIN conds' = DOMAIN conds
      /\ UNCHANGED <<program, turn, library, locking, aborted>>
  BY <1>1 DEF enqueue_wait_set, In
<1>3. Off(t) /\ pc[t] \in DOMAIN program.code[t]
  BY <1>0, <1>2, NowFacts
<1>4. u \in Tasks /\ (u = t \/ (Starts(Now(t)) /\ u = Now(t).a))
  <2>1. CASE Now(t).lib = "wait"
    BY <1>1, <2>1
  <2>2. CASE Now(t).lib # "wait"
    <3>1. Starts(Now(t))
      BY <1>2, <2>2 DEF Starts
    <3>2. u = Now(t).a
      BY <1>1, <2>2
    <3>3. Now(t).a \in Tasks
      BY <1>0, <1>3, <3>1, StartFacts DEF Now
    <3> QED BY <3>1, <3>2, <3>3
  <2> QED BY <2>1, <2>2
<1>5. Control' /\ (u # t => stage[u] = "idle" /\ pc[u] = 1)
  BY <1>0, <1>2, <1>4, SpawnControl
<1>6. UNCHANGED <<busy, flight, owner, last, live, await, toPut, satisfied>>
  BY <1>2 DEF library, locking
<1>7. Types'
  BY <1>0, <1>2, <1>4, <1>6 DEF Types, Stages
<1>8. \A v \in Tasks : /\ pc'[v] = (IF v = t THEN pc[v] + 1 ELSE pc[v])
                       /\ stage'[v] = (IF v = u THEN "waiting" ELSE stage[v])
  BY <1>0, <1>2 DEF Types
<1>9. \A v \in Tasks : Quiet(v)
  BY <1>2, <1>3, <1>4, <1>5, <1>8 DEF Quiet
<1>10. BusyInv'
  BY <1>0, <1>2, <1>5, <1>6, <1>8, OtherBusy
<1>11. ThroughInv' /\ Chained' /\ Held'
  BY <1>2, <1>5, <1>6, <1>9, QuietStep
<1> QED BY <1>5, <1>7, <1>10, <1>11 DEF LockInv

\* async_nb_await_at
LEMMA AsyncStep ==
    ASSUME LockInv, NEW t \in Tasks, async_nb_await_at(t)
    PROVE  LockInv'
<1>0. Types /\ Control /\ BusyInv
  BY DEF LockInv
<1>1. PICK u : u = Now(t).a
  OBVIOUS
<1>2. /\ stage[t] = "run" /\ ~Ended(t) /\ Now(t).via = "async"
      /\ stage' = [stage EXCEPT ![u] = "posted"] /\ pc' = [pc EXCEPT ![t] = @ + 1]
      /\ await' = [await EXCEPT ![u] = Now(t).b]
      /\ UNCHANGED <<program, conds, turn, library, last, live, toPut, satisfied, aborted>>
  BY <1>1 DEF async_nb_await_at, In
<1>3. Off(t) /\ pc[t] \in DOMAIN program.code[t] /\ Starts(Now(t))
  BY <1>0, <1>2, NowFacts DEF Starts
<1>4. /\ u \in Tasks
      /\ 1 \in DOMAIN program.code[u] /\ program.code[u][1].via \in {"nic", "request"}
  BY <1>0, <1>1, <1>2, <1>3, StartFacts DEF Now
<1>5. Control' /\ (u # t => stage[u] = "idle" /\ pc[u] = 1)
  BY <1>0, <1>1, <1>2, <1>3, <1>4, SpawnControl
<1>6. u # t /\ Off(u)
  <2>1. stage[u] = "idle"
    BY <1>0, <1>1, <1>3 DEF Control, Now, Types
  <2>2. u # t /\ pc[u] = 1
    BY <1>2, <1>5, <2>1
  <2> QED BY <1>4, <2>2 DEF Off, IsLock, IsUnlock
<1>7. UNCHANGED <<busy, flight, owner>>
  BY <1>2 DEF library
<1>8. Types'
  BY <1>0, <1>2, <1>4, <1>7 DEF Types, Stages
<1>9. \A v \in Tasks : /\ pc'[v] = (IF v = t THEN pc[v] + 1 ELSE pc[v])
                       /\ stage'[v] = (IF v = u THEN "posted" ELSE stage[v])
                       /\ v # u => await'[v] = await[v]
  BY <1>0, <1>2 DEF Types
<1>10. \A v \in Tasks : Quiet(v) /\ (IsLock(v, pc[v]) => await'[v] = await[v])
  BY <1>2, <1>3, <1>6, <1>9 DEF Quiet, Off
<1>11. BusyInv'
  BY <1>0, <1>2, <1>5, <1>6, <1>7, <1>9, OtherBusy
<1>12. ThroughInv' /\ Chained' /\ Held'
  BY <1>2, <1>5, <1>7, <1>10, QuietStep
<1> QED BY <1>5, <1>8, <1>11, <1>12 DEF LockInv

-----------------------------------------------------------------------------
(* The steps of the locks *)

\* A task that is about to clear a lock, or does, has the free place of the
\* chain; it is in live until the task takes it.
LEMMA UnlockPlace ==
    ASSUME LockInv, NEW t \in Tasks, IsUnlock(t, pc[t])
    PROVE  \E j \in Nat :
             /\ j < pc[t] /\ Free(t, j) /\ IsLock(t, j)
             /\ program.code[t][j].a = program.code[t][pc[t]].a
             /\ KeyAt(t, j) = KeyAt(t, pc[t])
             /\ stage[t] # "put" => live[PEOf[t]][KeyAt(t, pc[t])] = <<t, j>>
             /\ stage[t] \notin {"done", "put"} => Owned(t, j)
             /\ last[PEOf[t]][KeyAt(t, pc[t])] # NULL
<1>0. Types /\ GrantedInv /\ EndInv /\ pc[t] \in Nat
  BY DEF LockInv, Held, Chained, Types
<1>1. PICK j \in Nat :
             /\ j < pc[t] /\ IsLock(t, j) /\ program.code[t][j].a = program.code[t][pc[t]].a
             /\ KeyAt(t, j) = KeyAt(t, pc[t])
             /\ \A m \in j + 1 .. pc[t] - 1 : ~ClearsAt(t, m, KeyAt(t, pc[t]))
  BY <1>0, AtUnlock
<1>2. Active(t, j)
  BY <1>1 DEF Active, Queued
<1>3. Free(t, j) /\ j # pc[t]
  BY <1>0, <1>1, <1>2 DEF Free, Waits
<1>4. stage[t] # "put" => live[PEOf[t]][KeyAt(t, pc[t])] = <<t, j>>
  BY <1>0, <1>1, <1>2 DEF GrantedInv, Leaving
<1>5. stage[t] \notin {"done", "put"} => Owned(t, j)
  BY <1>2, <1>3 DEF Owned, Cleared
<1>6. last[PEOf[t]][KeyAt(t, pc[t])] # NULL
  BY <1>0, <1>1, <1>3 DEF EndInv
<1> QED BY <1>1, <1>3, <1>4, <1>5, <1>6

\* A place is not NULL.
LEMMA PlaceNotNull ==
    ASSUME NEW t \in Tasks, NEW j \in Nat
    PROVE  <<t, j>> # NULL
BY ShmemAssumption

\* clear_lock: the assertions hold.
LEMMA ClearStep ==
    ASSUME LockInv, NEW t \in Tasks, clear_lock(t)
    PROVE  LockInv'
<1>0. Types /\ Control
  BY DEF LockInv
<1>1. stage[t] = "run" /\ ~Ended(t) /\ Now(t).via = "unlock"
  BY DEF clear_lock, In
<1>2. IsUnlock(t, pc[t]) /\ KeyAt(t, pc[t]) = Key(Now(t).a)
  BY <1>0, <1>1, NowFacts
<1>3. live[PEOf[t]][Key(Now(t).a)] # NULL /\ last[PEOf[t]][Key(Now(t).a)] # NULL
  BY <1>1, <1>2, UnlockPlace, PlaceNotNull
<1>4. Goes(t, "posted") /\ UNCHANGED <<library, locking, aborted>>
  BY <1>3 DEF clear_lock
<1> QED BY <1>1, <1>2, <1>4, OutsideStep

\* set_lock: the task takes the last place of the chain.
LEMMA SetStep ==
    ASSUME LockInv, NEW t \in Tasks, set_lock(t)
    PROVE  LockInv'
<1>0. /\ Types /\ Control /\ BusyInv /\ ThroughInv /\ OneFree /\ WaitInv /\ LastInv /\ EndInv /\ SatisfiedInv
      /\ LiveInv /\ GrantedInv /\ PutInv /\ OwnerInv
  BY DEF LockInv, Chained, Held
<1>1. PICK p, k, n, s : p = PEOf[t] /\ k = KeyAt(t, pc[t]) /\ n = pc[t] /\ s = IF program.module = "sos" THEN "await" ELSE "posted"
  OBVIOUS
<1>2. stage[t] = "run" /\ ~Ended(t) /\ Now(t).via = "lock"
  BY DEF set_lock, In
<1>3. /\ IsLock(t, n) /\ k = Key(Now(t).a) /\ n \in Nat /\ k \in Keys /\ p \in PEs
      /\ s \in {"await", "posted"} /\ n \in DOMAIN program.code[t]
  BY <1>0, <1>1, <1>2, NowFacts, LockFacts, CodeFacts
<1>4. /\ await' = [await EXCEPT ![t] = last[p][k]]
      /\ last' = [last EXCEPT ![p][k] = <<t, n>>]
      /\ stage' = [stage EXCEPT ![t] = s]
      /\ UNCHANGED <<program, pc, conds, turn, library, live, toPut, satisfied, aborted>>
  BY <1>1, <1>3 DEF set_lock, Goes, Mine
<1>5. UNCHANGED <<busy, flight, owner>>
  BY <1>4 DEF library
<1>6. \A u \in Tasks : u # t => await'[u] = await[u] /\ stage'[u] = stage[u] /\ pc'[u] = pc[u]
  BY <1>0, <1>4 DEF Types
<1>7. await'[t] = last[p][k] /\ stage'[t] = s /\ pc'[t] = n
  BY <1>0, <1>1, <1>4 DEF Types
<1>8. /\ last'[p][k] = <<t, n>>
      /\ \A q \in PEs, l \in Keys : <<q, l>> # <<p, k>> => last'[q][l] = last[q][l]
      /\ DOMAIN last' = PEs /\ \A q \in PEs : DOMAIN last'[q] = Keys
  <2>1. DOMAIN last = PEs /\ \A q \in PEs : DOMAIN last[q] = Keys
    BY <1>0 DEF Types
  <2> QED BY <1>3, <1>4, <2>1
<1>9. Types'
  <2>1. s \in Stages
    BY <1>3 DEF Stages
  <2> QED BY <1>0, <1>4, <1>5, <1>8, <2>1 DEF Types
<1>10. Control'
  <2>1. s \in Stages \ {"idle"}
    BY <1>3 DEF Stages
  <2> QED BY <1>0, <1>1, <1>2, <1>3, <1>4, <2>1, GoesControl
<1>11. BusyInv'
  BY <1>0, <1>2, <1>4, <1>5, <1>6, OtherBusy
\* The places.
<1>12. ASSUME NEW u \in Tasks, NEW j \in Nat, NEW l
       PROVE  /\ <<u, j>> # <<t, n>> =>
                   /\ Queued(u, j)' <=> Queued(u, j)
                   /\ Active(u, j)' <=> Active(u, j)
                   /\ Free(u, j)' <=> Free(u, j)
                   /\ Owned(u, j)' <=> Owned(u, j)
                   /\ Active(u, j) => (Waits(u, j)' <=> Waits(u, j)) /\ (Waits(u, j) => u # t)
              /\ Leaving(u, l)' <=> Leaving(u, l)
              /\ KeyAt(u, j)' = KeyAt(u, j) /\ (IsLock(u, j)' <=> IsLock(u, j))
  <2>1. KeyAt(u, j)' = KeyAt(u, j) /\ (IsLock(u, j)' <=> IsLock(u, j))
    BY <1>4, SameCode
  <2>2. CASE u # t
    <3>1. /\ Queued(u, j)' <=> Queued(u, j)
          /\ Active(u, j)' <=> Active(u, j)
          /\ Owned(u, j)' <=> Owned(u, j)
          /\ Leaving(u, l)' <=> Leaving(u, l)
      BY <1>4, <1>6, <2>2, SamePlaces
    <3>2. Waits(u, j)' <=> Waits(u, j)
      BY <1>4, <1>6, <2>2 DEF Waits
    <3> QED BY <2>1, <2>2, <3>1, <3>2 DEF Free
  <2>3. CASE u = t
    <3>1. ~Leaving(t, l)' /\ ~Leaving(t, l)
      BY <1>2, <1>3, <1>7 DEF Leaving
    <3>2. \A m : ~Cleared(t, m)' /\ ~Cleared(t, m)
      BY <1>2, <1>3, <1>7, SameCode, <1>0, LockFacts, <1>1, <1>4 DEF Cleared, ClearsAt
    <3>3. ASSUME j # n
          PROVE  /\ Queued(t, j)' <=> Queued(t, j)
                 /\ Active(t, j)' <=> Active(t, j)
                 /\ ~Waits(t, j)' /\ ~Waits(t, j)
      <4>1. Queued(t, j)' <=> Queued(t, j)
        BY <1>1, <1>4, <1>7, <3>3, SameCode DEF Queued
      <4>2. Active(t, j)' <=> Active(t, j)
        BY <1>1, <1>4, <1>7, <4>1, SameCode DEF Active
      <4> QED BY <1>1, <1>7, <3>3, <4>1, <4>2 DEF Waits
    <3>4. j # n => (Owned(t, j)' <=> Owned(t, j))
      BY <1>1, <1>7, <3>2, <3>3 DEF Owned
    <3> QED BY <2>1, <2>3, <3>1, <3>3, <3>4 DEF Free
  <2> QED BY <2>2, <2>3
<1>13. ~Queued(t, n) /\ ~Active(t, n)
  BY <1>1, <1>2, <1>3 DEF Queued, Active
<1>14. Queued(t, n)' /\ KeyAt(t, n)' = k
  <2>1. KeyAt(t, n)' = KeyAt(t, n) /\ (IsLock(t, n)' <=> IsLock(t, n)) /\ IsLock(t, n)
    BY <1>3, <1>12
  <2>2. n = pc'[t] /\ stage'[t] \in {"await", "posted", "done"}
    BY ONLY <1>3, <1>7
  <2>3. KeyAt(t, n) = k
    BY ONLY <1>1, Zenon
  <2> QED BY ONLY <2>1, <2>2, <2>3, Zenon DEF Queued
<1>15. Active(t, n)' /\ (Waits(t, n)' <=> last[p][k] # NULL /\ last[p][k] \notin satisfied)
  <2>1. n + 1 .. pc'[t] - 1 = {}
    BY <1>3, <1>7
  <2>2. Active(t, n)'
    BY <1>14, <2>1 DEF Active
  <2> QED BY <1>4, <1>7, <2>2 DEF Waits
<1>16. <<t, n>> \notin satisfied
  BY <1>0, <1>1, <1>3 DEF SatisfiedInv
<1>17. \A x, q, l : PlaceIn(x, q, l) => PlaceIn(x, q, l)' /\ x # <<t, n>>
  <2> SUFFICES ASSUME NEW x, NEW q, NEW l, PlaceIn(x, q, l)
               PROVE  PlaceIn(x, q, l)' /\ x # <<t, n>>
    OBVIOUS
  <2>1. PICK u \in Tasks, j \in Nat : x = <<u, j>> /\ PEOf[u] = q /\ Queued(u, j) /\ KeyAt(u, j) = l
    BY DEF PlaceIn
  <2>2. x # <<t, n>>
    BY <1>13, <2>1
  <2>3. Queued(u, j)' /\ KeyAt(u, j)' = l
    BY <1>12, <2>1, <2>2
  <2> QED BY <2>1, <2>2, <2>3 DEF PlaceIn
<1>18. ThroughInv'
  <2> SUFFICES ASSUME NEW u \in Tasks, stage'[u] = "done", IsLock(u, pc[u])', Waits(u, pc[u])'
               PROVE  FALSE
    BY DEF ThroughInv
  <2>1. u # t
    BY <1>3, <1>7
  <2>2. stage[u] = "done" /\ IsLock(u, pc[u]) /\ Waits(u, pc[u])
    BY <1>4, <1>6, <2>1, SameCode DEF Waits, IsLock
  <2> QED BY <1>0, <2>2 DEF ThroughInv
\* A free new place has no other free place beside it: its chain had ended.
<1>19. ASSUME Free(t, n)', NEW u \in Tasks, NEW j \in Nat, Free(u, j), PEOf[u] = p, KeyAt(u, j) = k
       PROVE  FALSE
  <2>1. last[p][k] = NULL \/ last[p][k] \in satisfied
    BY <1>15, <1>19 DEF Free
  <2> QED BY <1>0, <1>19, <2>1 DEF EndInv
<1>20. OneFree'
  <2> SUFFICES ASSUME NEW u \in Tasks, NEW v \in Tasks, NEW i \in Nat, NEW j \in Nat,
                      Free(u, i)', Free(v, j)', PEOf[u] = PEOf[v], KeyAt(u, i)' = KeyAt(v, j)'
               PROVE  <<u, i>> = <<v, j>>
    BY DEF OneFree
  <2>1. CASE <<u, i>> # <<t, n>> /\ <<v, j>> # <<t, n>>
    BY <1>0, <1>12, <2>1 DEF OneFree
  <2>2. CASE <<u, i>> = <<t, n>> /\ <<v, j>> # <<t, n>>
    BY <1>1, <1>12, <1>14, <1>19, <2>2
  <2>3. CASE <<u, i>> # <<t, n>> /\ <<v, j>> = <<t, n>>
    BY <1>1, <1>12, <1>14, <1>19, <2>3
  <2> QED BY <2>1, <2>2, <2>3
<1>21. LastInv'
  <2> SUFFICES ASSUME NEW q \in PEs, NEW l \in Keys, last'[q][l] # NULL
               PROVE  PlaceIn(last[q][l], q, l)'
    BY DEF LastInv
  <2>1. CASE <<q, l>> = <<p, k>>
    <3>1. PlaceIn(last[p][k], p, k)'
      BY <1>1, <1>3, <1>8, <1>14 DEF PlaceIn
    <3> QED BY <2>1, <3>1 DEF PlaceIn
  <2>2. CASE <<q, l>> # <<p, k>>
    <3>1. PICK x : x = last[q][l] /\ x = last'[q][l]
      BY <1>8, <2>2
    <3>2. PlaceIn(x, q, l)'
      BY <1>0, <1>17, <3>1 DEF LastInv
    <3> QED BY <3>1, <3>2 DEF PlaceIn
  <2> QED BY <2>1, <2>2
\* Nobody waited for the place that the new one waits for.
<1>22. ASSUME NEW u \in Tasks, NEW j \in Nat, Active(u, j), Waits(u, j), last[p][k] # NULL
       PROVE  await[u] # last[p][k]
  <2>1. PICK x : x = last[p][k]
    OBVIOUS
  <2>2. PICK v \in Tasks, i \in Nat : x = <<v, i>> /\ PEOf[v] = p /\ KeyAt(v, i) = k
    BY <1>0, <1>3, <1>22, <2>1 DEF LastInv, PlaceIn
  <2> SUFFICES ASSUME await[u] = x PROVE FALSE
    BY <2>1
  <2>3. PlaceIn(x, PEOf[u], KeyAt(u, j)) /\ x # last[PEOf[u]][KeyAt(u, j)]
    BY <1>0, <1>22 DEF WaitInv
  <2>4. PICK y \in Tasks, h \in Nat : x = <<y, h>> /\ PEOf[y] = PEOf[u] /\ KeyAt(y, h) = KeyAt(u, j)
    BY <2>3 DEF PlaceIn
  <2>5. y = v /\ h = i
    BY <2>2, <2>4
  <2> QED BY <2>1, <2>2, <2>3, <2>4, <2>5
<1>23. WaitInv'
  <2> SUFFICES ASSUME NEW u \in Tasks, NEW j \in Nat, Active(u, j)', Waits(u, j)'
               PROVE  /\ PlaceIn(await[u], PEOf[u], KeyAt(u, j))'
                      /\ await'[u] # last'[PEOf[u]][KeyAt(u, j)']
                      /\ \A v \in Tasks : \A i \in Nat :
                           Active(v, i)' /\ Waits(v, i)' /\ await'[v] = await'[u] => v = u
    BY DEF WaitInv
  <2>1. \A v \in Tasks : \A i \in Nat :
          Active(v, i)' /\ Waits(v, i)' /\ v # t => Active(v, i) /\ Waits(v, i) /\ await'[v] = await[v]
    BY <1>6, <1>12
  <2>2. \A i \in Nat : Active(t, i)' /\ Waits(t, i)' => i = n /\ last[p][k] # NULL /\ await'[t] = last[p][k]
    BY <1>7, <1>15 DEF Waits
  <2>3. CASE u = t
    <3>1. PICK x : x = last[p][k]
      OBVIOUS
    <3>2. j = n /\ x # NULL /\ await'[t] = x /\ KeyAt(u, j)' = k
      BY <1>14, <2>2, <2>3, <3>1
    <3>3. PlaceIn(x, p, k)
      BY <1>0, <1>3, <3>1, <3>2 DEF LastInv
    <3>4. PlaceIn(x, p, k)' /\ x # <<t, n>>
      BY <1>17, <3>3
    <3>5. PlaceIn(await[u], PEOf[u], KeyAt(u, j))'
      BY <1>1, <2>3, <3>2, <3>4 DEF PlaceIn
    <3>6. await'[u] # last'[PEOf[u]][KeyAt(u, j)']
      BY <1>1, <1>8, <2>3, <3>2, <3>4
    <3>7. \A v \in Tasks : \A i \in Nat : Active(v, i)' /\ Waits(v, i)' /\ await'[v] = await'[u] => v = u
      BY <1>22, <2>1, <2>3, <3>1, <3>2
    <3> QED BY <3>5, <3>6, <3>7
  <2>4. CASE u # t
    <3>1. Active(u, j) /\ Waits(u, j) /\ await'[u] = await[u] /\ KeyAt(u, j)' = KeyAt(u, j)
      BY <1>12, <2>1, <2>4
    <3>2. PICK x, q, l : x = await[u] /\ q = PEOf[u] /\ l = KeyAt(u, j)
      OBVIOUS
    <3>3. PlaceIn(x, q, l) /\ x # last[q][l]
      BY <1>0, <3>1, <3>2 DEF WaitInv
    <3>4. PlaceIn(x, q, l)' /\ x # <<t, n>>
      BY <1>17, <3>3
    <3>5. PlaceIn(await[u], PEOf[u], KeyAt(u, j))'
      BY <3>1, <3>2, <3>4 DEF PlaceIn
    <3>6. q \in PEs /\ l \in Keys
      BY <1>0, <3>1, <3>2, CodeFacts, LockFacts DEF Active, Queued
    <3>7. x # last'[q][l]
      BY <1>8, <3>3, <3>4, <3>6
    <3>8. \A v \in Tasks : \A i \in Nat : Active(v, i)' /\ Waits(v, i)' /\ await'[v] = await'[u] => v = u
      <4> SUFFICES ASSUME NEW v \in Tasks, NEW i \in Nat, Active(v, i)', Waits(v, i)', await'[v] = await'[u]
                   PROVE  v = u
        OBVIOUS
      <4>1. CASE v = t
        BY <1>22, <2>2, <3>1, <4>1
      <4>2. CASE v # t
        BY <1>0, <2>1, <3>1, <4>2 DEF WaitInv
      <4> QED BY <4>1, <4>2
    <3> QED BY <3>1, <3>2, <3>5, <3>7, <3>8
  <2> QED BY <2>3, <2>4
<1>24. EndInv'
  <2> SUFFICES ASSUME NEW u \in Tasks, NEW j \in Nat, Free(u, j)'
               PROVE  LET x == last'[PEOf[u]][KeyAt(u, j)'] IN x # NULL /\ x \notin satisfied'
    BY DEF EndInv
  <2>1. PICK q, l : q = PEOf[u] /\ l = KeyAt(u, j)
    OBVIOUS
  <2>2. IsLock(u, j) /\ KeyAt(u, j)' = l
    BY <1>12, <2>1 DEF Free, Active, Queued
  <2>3. q \in PEs /\ l \in Keys
    BY <1>0, <2>1, <2>2, CodeFacts, LockFacts
  <2>4. CASE <<q, l>> = <<p, k>>
    BY <1>3, <1>4, <1>8, <1>16, <2>1, <2>2, <2>4, PlaceNotNull
  <2>5. CASE <<q, l>> # <<p, k>>
    <3>1. <<u, j>> # <<t, n>>
      BY <1>1, <2>1, <2>5
    <3>2. Free(u, j)
      BY <1>12, <3>1
    <3> QED BY <1>0, <1>4, <1>8, <2>1, <2>2, <2>3, <2>5, <3>2 DEF EndInv
  <2> QED BY <2>4, <2>5
<1>25. SatisfiedInv'
  BY <1>0, <1>4, <1>12 DEF SatisfiedInv
<1>26. LiveInv'
  <2> SUFFICES ASSUME NEW q \in PEs, NEW l \in Keys, live'[q][l] # NULL
               PROVE  \E u \in Tasks, j \in Nat :
                        /\ live'[q][l] = <<u, j>> /\ PEOf[u] = q /\ KeyAt(u, j)' = l
                        /\ Active(u, j)' /\ j < pc'[u] /\ ~Leaving(u, l)'
    BY DEF LiveInv
  <2>1. PICK u \in Tasks, j \in Nat :
                        /\ live[q][l] = <<u, j>> /\ PEOf[u] = q /\ KeyAt(u, j) = l
                        /\ Active(u, j) /\ j < pc[u] /\ ~Leaving(u, l)
    BY <1>0, <1>4 DEF LiveInv
  <2>2. <<u, j>> # <<t, n>>
    BY <1>13, <2>1
  <2>3. Active(u, j)' /\ KeyAt(u, j)' = l /\ ~Leaving(u, l)' /\ j < pc'[u]
    BY <1>4, <1>12, <2>1, <2>2
  <2> QED BY <1>4, <2>1, <2>3
<1>27. GrantedInv'
  <2> SUFFICES ASSUME NEW u \in Tasks, NEW j \in Nat, Active(u, j)', j < pc'[u], ~Leaving(u, KeyAt(u, j))'
               PROVE  live'[PEOf[u]][KeyAt(u, j)'] = <<u, j>>
    BY DEF GrantedInv
  <2>1. <<u, j>> # <<t, n>>
    BY <1>3, <1>7
  <2>2. PICK l : l = KeyAt(u, j) /\ l = KeyAt(u, j)'
    BY <1>12
  <2>3. ~Leaving(u, l)'
    BY <2>2 DEF Leaving, ClearsAt
  <2>4. ~Leaving(u, l) /\ Active(u, j)
    BY <1>12, <2>1, <2>3
  <2> QED BY <1>0, <1>4, <2>2, <2>4 DEF GrantedInv
<1>28. PutInv'
  <2> SUFFICES ASSUME NEW u \in Tasks, stage'[u] = "put"
               PROVE  \E j \in Nat : toPut'[u] = <<u, j>> /\ Active(u, j)' /\ j < pc'[u] /\ KeyAt(u, j)' = KeyAt(u, pc[u])'
    BY DEF PutInv
  <2>1. u # t
    BY <1>3, <1>7
  <2>2. stage[u] = "put" /\ KeyAt(u, pc[u])' = KeyAt(u, pc[u])
    BY <1>4, <1>6, <2>1 DEF KeyAt
  <2> QED BY <1>0, <1>4, <1>12, <2>1, <2>2 DEF PutInv
<1>29. OwnerInv'
  <2> SUFFICES ASSUME NEW u \in Tasks, NEW j \in Nat, Owned(u, j)'
               PROVE  owner'[program'.code[u][j].a] = PEOf[u]
    BY DEF OwnerInv
  <2>1. <<u, j>> # <<t, n>>
    BY <1>3, <1>7 DEF Owned
  <2> QED BY <1>0, <1>4, <1>5, <1>12, <2>1 DEF OwnerInv
<1> QED
  BY <1>9, <1>10, <1>11, <1>18, <1>20, <1>21, <1>23, <1>24, <1>25, <1>26, <1>27, <1>28, <1>29
  DEF LockInv, Chained, Held

\* A place whose lock was granted is free.
LEMMA OwnedFree ==
    ASSUME LockInv, NEW t \in Tasks, NEW j \in Nat, Owned(t, j)
    PROVE  Free(t, j)
<1>1. ThroughInv
  BY DEF LockInv
<1>2. Active(t, j) /\ IsLock(t, j) /\ (j = pc[t] => stage[t] = "done")
  BY DEF Owned, Active, Queued
<1> QED BY <1>1, <1>2 DEF Free, ThroughInv, Waits

\* NicReturn, of a call that sets or clears a lock
LEMMA NicLockStep ==
    ASSUME LockInv, NEW t \in Tasks, NicReturn(t), ~Off(t)
    PROVE  LockInv'
<1>0. Types /\ Control /\ BusyInv /\ OneFree /\ OwnerInv
  BY DEF LockInv, Chained, Held
<1>1. /\ Inside(t) /\ Effect(t, Default, Now(t)) /\ busy' = [busy EXCEPT ![PEOf[t]] = NULL]
      /\ Goes(t, "done") /\ UNCHANGED <<locking, aborted>>
  BY DEF NicReturn
<1>2. stage[t] = "posted" /\ busy[PEOf[t]] = t
  BY <1>0, <1>1 DEF Inside, Control, Off
<1>3. PICK n, p, a : n = pc[t] /\ p = PEOf[t] /\ a = program.code[t][n].a
  OBVIOUS
<1>4. /\ n \in DOMAIN program.code[t] /\ n \in Nat /\ a \in Locks /\ p \in PEs /\ Now(t).a = a
      /\ IsLock(t, n) \/ IsUnlock(t, n)
      /\ WellFormed(Now(t)) /\ KeyAt(t, n) = KeyIn(program, a)
      /\ IsLock(t, n) => Now(t).lib = "set_lock" /\ ~IsUnlock(t, n)
      /\ IsUnlock(t, n) => Now(t).lib = "clear_lock" /\ ~IsLock(t, n)
  <2>1. n \in DOMAIN program.code[t] /\ WellFormed(Now(t)) /\ (IsLock(t, n) \/ IsUnlock(t, n))
    BY <1>0, <1>2, <1>3, NowFacts DEF Off
  <2> QED BY <1>0, <1>3, <2>1, LockFacts, CodeFacts DEF Now, KeyAt
<1>5. /\ stage' = [stage EXCEPT ![t] = "done"]
      /\ UNCHANGED <<program, pc, conds, turn, last, live, await, toPut, satisfied>>
  BY <1>1 DEF Goes, locking
<1>6. /\ \A m \in flight' : m.to \in PEs /\ m.a \in Addrs
      /\ IsLock(t, n) => owner[a] \in {NULL, p} /\ owner' = [owner EXCEPT ![a] = p]
      /\ IsUnlock(t, n) => owner' = [owner EXCEPT ![a] = NULL]
  BY <1>0, <1>1, <1>3, <1>4, EffectFacts
<1>7. BusyInv' /\ busy' \in [PEs -> Tasks \cup {NULL}]
  BY <1>1, LeaveBusy
<1>8. owner \in [Locks -> PEs \cup {NULL}] /\ owner' \in [Locks -> PEs \cup {NULL}]
  BY <1>0, <1>4, <1>6 DEF Types
<1>9. Types'
  BY <1>0, <1>1, <1>5, <1>6, <1>7, <1>8 DEF Types, Stages
<1>10. Control'
  <2>1. "done" \in Stages \ {"idle"}
    BY DEF Stages
  <2> QED BY <1>0, <1>2, <1>3, <1>4, <1>5, <2>1, GoesControl
<1>11. \A u \in Tasks : u # t => stage'[u] = stage[u] /\ pc'[u] = pc[u]
  BY <1>0, <1>5 DEF Types
<1>12. stage'[t] = "done" /\ pc'[t] = n
  BY <1>0, <1>3, <1>5 DEF Types
<1>13. Returned(t)
  <2>1. IsLock(t, pc[t]) => ~Waits(t, pc[t])
    BY <1>0, <1>2, <1>3, <1>4, ShmemAssumption DEF BusyInv
  <2> QED BY <1>2, <1>3, <1>12, <2>1 DEF Returned
<1>14. ThroughInv' /\ Chained' /\ LiveInv' /\ GrantedInv' /\ PutInv'
  <2>1. \A u \in Tasks : Quiet(u) \/ Returned(u)
    BY <1>11, <1>13 DEF Quiet
  <2> QED BY <1>5, <1>10, <2>1, ChainStep
<1>15. ASSUME NEW u \in Tasks, NEW j \in Nat, Owned(u, j)', <<u, j>> # <<t, n>>
       PROVE  /\ Owned(u, j) /\ IsLock(u, j) /\ program.code[u][j].a \in Locks
              /\ owner[program.code[u][j].a] = PEOf[u]
              /\ u = t /\ IsUnlock(t, n) => KeyAt(t, j) # KeyAt(t, n)
  <2>1. Owned(u, j) /\ (u = t /\ IsUnlock(t, n) => KeyAt(t, j) # KeyAt(t, n))
    <3>1. CASE u # t
      BY <1>5, <1>11, <1>15, <3>1, SamePlaces
    <3>2. CASE u = t
      <4>1. j # n /\ Active(t, j)'
        BY <1>15, <3>2 DEF Owned
      <4>2. Active(t, j)
        BY <1>0, <1>5, <1>13, <4>1, QuietPlaces
      <4>3. ~Cleared(t, KeyAt(t, j))
        BY <1>2 DEF Cleared
      <4>4. Owned(t, j)
        BY <1>3, <4>1, <4>2, <4>3 DEF Owned
      <4>5. ~(Cleared(t, KeyAt(t, j))')
        BY <1>12, <1>15, <3>2, <4>1 DEF Owned
      <4>6. IsUnlock(t, n) /\ KeyAt(t, j) = KeyAt(t, n) => Cleared(t, KeyAt(t, j))'
        BY <1>5, <1>12 DEF Cleared, ClearsAt, KeyAt, IsUnlock
      <4> QED BY <3>2, <4>4, <4>5, <4>6
    <3> QED BY <3>1, <3>2
  <2>2. IsLock(u, j)
    BY <2>1 DEF Owned, Active, Queued
  <2>3. program.code[u][j].a \in Locks
    BY <1>0, <2>2, LockFacts
  <2> QED BY <1>0, <2>1, <2>2, <2>3 DEF OwnerInv
<1>16. OwnerInv'
  <2> SUFFICES ASSUME NEW u \in Tasks, NEW j \in Nat, Owned(u, j)'
               PROVE  owner'[program.code[u][j].a] = PEOf[u]
    BY <1>5 DEF OwnerInv
  <2>1. CASE IsLock(t, n)
    <3>1. CASE <<u, j>> = <<t, n>>
      BY <1>3, <1>4, <1>6, <1>8, <2>1, <3>1
    <3>2. CASE <<u, j>> # <<t, n>>
      <4>1. PEOf[u] # NULL
        BY <1>0, CodeFacts, ShmemAssumption
      <4> QED BY <1>4, <1>6, <1>8, <1>15, <2>1, <3>2, <4>1
    <3> QED BY <3>1, <3>2
  <2>2. CASE IsUnlock(t, n)
    <3>1. PICK i \in Nat : Free(t, i) /\ Owned(t, i) /\ program.code[t][i].a = a /\ KeyAt(t, i) = KeyAt(t, n)
      BY <1>2, <1>3, <2>2, UnlockPlace
    <3>2. owner[a] = p
      BY <1>0, <1>3, <3>1 DEF OwnerInv
    <3>3. <<u, j>> # <<t, n>>
      BY <1>0, <1>5, <2>2, LockFacts, SameCode DEF Owned, Active, Queued
    <3>4. program.code[u][j].a # a
      <4> SUFFICES ASSUME program.code[u][j].a = a PROVE FALSE
        OBVIOUS
      <4>1. PEOf[u] = p /\ KeyAt(u, j) = KeyAt(t, n)
        BY <1>4, <1>15, <3>2, <3>3 DEF KeyAt
      <4>2. Free(u, j)
        BY <1>15, <3>3, OwnedFree
      <4>3. u = t
        BY <1>0, <1>3, <3>1, <4>1, <4>2 DEF OneFree
      <4> QED BY <1>15, <2>2, <3>3, <4>1, <4>3
    <3> QED BY <1>6, <1>8, <1>15, <2>2, <3>3, <3>4
  <2> QED BY <1>4, <2>1, <2>2
<1> QED BY <1>7, <1>9, <1>10, <1>14, <1>16 DEF LockInv, Held

\* When no place changes, the chains stay as they are.
LEMMA KeptChains ==
    ASSUME Types, Chained, program' = program, last' = last, satisfied' = satisfied,
           \A u \in Tasks : pc'[u] >= pc[u] /\ pc'[u] \in Nat,
           \A u \in Tasks : \A j \in Nat :
                /\ Queued(u, j)' <=> Queued(u, j)
                /\ Active(u, j)' <=> Active(u, j)
                /\ Active(u, j) => (Waits(u, j)' <=> Waits(u, j)) /\ (Waits(u, j) => await'[u] = await[u])
    PROVE  Chained'
<1>0. OneFree /\ WaitInv /\ LastInv /\ EndInv /\ SatisfiedInv
  BY DEF Chained
<1>1. \A u \in Tasks : \A j \in Nat : (Free(u, j)' <=> Free(u, j)) /\ KeyAt(u, j)' = KeyAt(u, j)
  BY SameCode DEF Free
<1>2. ASSUME NEW x, NEW p, NEW k, PlaceIn(x, p, k)
      PROVE  PlaceIn(x, p, k)'
  BY <1>1, <1>2 DEF PlaceIn
<1>3. OneFree'
  BY <1>0, <1>1 DEF OneFree
<1>4. LastInv'
  BY <1>0, <1>2 DEF LastInv
<1>5. WaitInv'
  <2> SUFFICES ASSUME NEW t \in Tasks, NEW j \in Nat, Active(t, j)', Waits(t, j)'
               PROVE  /\ PlaceIn(await[t], PEOf[t], KeyAt(t, j))'
                      /\ await'[t] # last'[PEOf[t]][KeyAt(t, j)']
                      /\ \A u \in Tasks : \A i \in Nat :
                           Active(u, i)' /\ Waits(u, i)' /\ await'[u] = await'[t] => u = t
    BY DEF WaitInv
  <2>1. Active(t, j) /\ Waits(t, j) /\ await'[t] = await[t] /\ KeyAt(t, j)' = KeyAt(t, j)
    BY <1>1
  <2>2. PICK x, k : x = await[t] /\ k = KeyAt(t, j)
    OBVIOUS
  <2>3. PlaceIn(x, PEOf[t], k)
    BY <1>0, <2>1, <2>2 DEF WaitInv
  <2>4. PlaceIn(x, PEOf[t], k)'
    BY <1>2, <2>3
  <2>5. PlaceIn(await[t], PEOf[t], KeyAt(t, j))'
    BY <2>1, <2>2, <2>4 DEF PlaceIn
  <2>6. \A u \in Tasks : \A i \in Nat : Active(u, i)' /\ Waits(u, i)' => Active(u, i) /\ Waits(u, i) /\ await'[u] = await[u]
    OBVIOUS
  <2> QED BY <1>0, <2>1, <2>5, <2>6 DEF WaitInv
<1>6. EndInv'
  BY <1>0, <1>1 DEF EndInv
<1>7. SatisfiedInv'
  <2> SUFFICES ASSUME NEW t \in Tasks, NEW j \in Nat, <<t, j>> \in satisfied, IsLock(t, j)'
               PROVE  j < pc'[t]
    BY DEF SatisfiedInv
  <2>1. j < pc[t] /\ pc[t] \in Nat
    BY <1>0, SameCode DEF SatisfiedInv, Types
  <2> QED BY <2>1
<1> QED BY <1>3, <1>4, <1>5, <1>6, <1>7 DEF Chained

\* set_lock_granted: the assertion holds, and the place becomes live.
LEMMA GrantedStep ==
    ASSUME LockInv, NEW t \in Tasks, set_lock_granted(t)
    PROVE  LockInv'
<1>0. /\ Types /\ Control /\ BusyInv /\ ThroughInv /\ Chained /\ OneFree
      /\ LiveInv /\ GrantedInv /\ PutInv /\ OwnerInv
  BY DEF LockInv, Chained, Held
<1>1. PICK p, k, n : p = PEOf[t] /\ k = KeyAt(t, pc[t]) /\ n = pc[t]
  OBVIOUS
<1>2. stage[t] = "done" /\ ~Ended(t) /\ Now(t).via = "lock"
  BY DEF set_lock_granted, In
<1>3. /\ IsLock(t, n) /\ ~IsUnlock(t, n) /\ k = Key(Now(t).a) /\ n \in Nat /\ k \in Keys /\ p \in PEs
  BY <1>0, <1>1, <1>2, NowFacts, LockFacts, CodeFacts
<1>4. Active(t, n) /\ Free(t, n) /\ Owned(t, n)
  <2>1. Queued(t, n) /\ n + 1 .. pc[t] - 1 = {}
    BY <1>1, <1>2, <1>3 DEF Queued
  <2>2. Active(t, n)
    BY <2>1 DEF Active
  <2>3. ~Waits(t, n)
    BY <1>0, <1>1, <1>2, <1>3 DEF ThroughInv
  <2> QED BY <1>1, <1>2, <2>2, <2>3 DEF Free, Owned
\* Any other place of the chain that was granted would be free as well.
<1>5. ASSUME NEW u \in Tasks, NEW j \in Nat, Active(u, j), j < pc[u], PEOf[u] = p, KeyAt(u, j) = k
      PROVE  FALSE
  <2>1. pc[u] \in Nat
    BY <1>0 DEF Types
  <2>2. Free(u, j)
    BY <1>5, <2>1 DEF Free, Waits
  <2>3. <<u, j>> = <<t, n>>
    BY <1>0, <1>1, <1>3, <1>4, <1>5, <2>2 DEF OneFree
  <2> QED BY <1>1, <1>5, <2>1, <2>3
<1>6. live[p][k] = NULL
  BY <1>0, <1>3, <1>5 DEF LiveInv
<1>7. /\ live' = [live EXCEPT ![p][k] = <<t, n>>] /\ Returns(t)
      /\ UNCHANGED <<library, last, await, toPut, satisfied, aborted>>
  BY <1>1, <1>3, <1>6 DEF set_lock_granted, Mine
<1>8. /\ stage' = [stage EXCEPT ![t] = "run"] /\ pc' = [pc EXCEPT ![t] = @ + 1]
      /\ turn' = [turn EXCEPT ![t] = {}] /\ UNCHANGED <<program, conds, busy, flight, owner>>
  BY <1>7 DEF Returns, library
<1>9. \A u \in Tasks : u # t => stage'[u] = stage[u] /\ pc'[u] = pc[u]
  BY <1>0, <1>8 DEF Types
<1>10. stage'[t] = "run" /\ pc'[t] = n + 1
  BY <1>0, <1>1, <1>8 DEF Types
<1>11. /\ live'[p][k] = <<t, n>>
       /\ \A q \in PEs, l \in Keys : <<q, l>> # <<p, k>> => live'[q][l] = live[q][l]
       /\ DOMAIN live' = PEs /\ \A q \in PEs : DOMAIN live'[q] = Keys
  <2>1. DOMAIN live = PEs /\ \A q \in PEs : DOMAIN live[q] = Keys
    BY <1>0 DEF Types
  <2> QED BY <1>3, <1>7, <2>1
<1>12. Types'
  BY <1>0, <1>7, <1>8, <1>11 DEF Types, Stages
<1>13. Control'
  BY <1>0, <1>2, <1>8, NowFacts, ReturnsControl
<1>14. BusyInv'
  BY <1>0, <1>2, <1>7, <1>8, <1>9, OtherBusy
<1>15. ASSUME NEW u \in Tasks, NEW j \in Nat, NEW l
       PROVE  /\ Queued(u, j)' <=> Queued(u, j)
              /\ Active(u, j)' <=> Active(u, j)
              /\ Owned(u, j)' <=> Owned(u, j)
              /\ Leaving(u, l)' <=> Leaving(u, l)
              /\ Active(u, j) => (Waits(u, j)' <=> Waits(u, j))
              /\ KeyAt(u, j)' = KeyAt(u, j)
  <2>0. KeyAt(u, j)' = KeyAt(u, j)
    BY <1>8, SameCode
  <2>1. CASE u # t
    <3>1. Waits(u, j)' <=> Waits(u, j)
      BY <1>7, <1>9, <2>1 DEF Waits
    <3> QED BY <1>8, <1>9, <2>0, <2>1, <3>1, SamePlaces
  <2>2. CASE u = t
    <3>1. Queued(t, j)' <=> Queued(t, j)
      BY <1>1, <1>2, <1>3, <1>8, <1>10, SameCode DEF Queued
    <3>2. Queued(t, j) => j <= n
      BY <1>1, <1>3 DEF Queued
    <3>3. j < n => j + 1 .. pc'[t] - 1 = (j + 1 .. pc[t] - 1) \cup {n}
      BY <1>1, <1>3, <1>10
    <3>4. \A m : ~ClearsAt(t, n, m)
      BY <1>3 DEF ClearsAt
    <3>5. j # n => (Active(t, j)' <=> Active(t, j))
      <4>1. CASE ~Queued(t, j)
        BY <3>1, <4>1 DEF Active
      <4>2. CASE Queued(t, j) /\ j # n
        <5>1. j + 1 .. pc'[t] - 1 = (j + 1 .. pc[t] - 1) \cup {n}
          BY <1>3, <3>2, <3>3, <4>2
        <5>2. PICK l0 : l0 = KeyAt(t, j) /\ l0 = KeyAt(t, j)'
          BY <2>0, <2>2
        <5>3. Active(t, j)' <=> \A i \in j + 1 .. pc'[t] - 1 : ~ClearsAt(t, i, l0)'
          BY <3>1, <4>2, <5>2 DEF Active, ClearsAt
        <5>4. Active(t, j) <=> \A i \in j + 1 .. pc[t] - 1 : ~ClearsAt(t, i, l0)
          BY <4>2, <5>2 DEF Active
        <5>5. \A i : ClearsAt(t, i, l0)' <=> ClearsAt(t, i, l0)
          BY <1>8, SameCode
        <5> QED BY <3>4, <5>1, <5>3, <5>4, <5>5
      <4> QED BY <4>1, <4>2
    <3>6. Active(t, n)'
      <4>1. Queued(t, n)'
        BY <1>1, <1>3, <1>8, <1>10, SameCode DEF Queued
      <4>2. n + 1 .. pc'[t] - 1 = {}
        BY <1>3, <1>10
      <4> QED BY <4>1, <4>2 DEF Active
    <3>7. Active(t, j)' <=> Active(t, j)
      BY <1>4, <3>5, <3>6
    <3>8. Active(t, j) => j <= n /\ ~Waits(t, j)' /\ ~Waits(t, j)
      <4>1. Active(t, j) => j <= n
        BY <3>2 DEF Active
      <4>2. j <= n => ~Waits(t, j)'
        BY <1>3, <1>10 DEF Waits
      <4>3. ~Waits(t, j)
        BY <1>1, <1>4 DEF Waits, Free
      <4> QED BY <4>1, <4>2, <4>3
    <3>9. \A m : ~Cleared(t, m)' /\ ~Cleared(t, m)
      BY <1>1, <1>10, <3>4 DEF Cleared
    <3>10. Owned(t, j)' <=> Owned(t, j)
      <4>1. Active(t, j) => j # pc'[t]
        BY <1>3, <1>10, <3>8
      <4> QED BY <1>1, <1>2, <3>7, <3>9, <4>1 DEF Owned
    <3>11. ~Leaving(t, l)' /\ ~Leaving(t, l)
      BY <1>2, <1>10 DEF Leaving
    <3> QED BY <2>0, <2>2, <3>1, <3>7, <3>8, <3>10, <3>11
  <2> QED BY <2>1, <2>2
<1>16. Chained'
  <2>1. \A u \in Tasks : pc'[u] >= pc[u] /\ pc'[u] \in Nat
    BY <1>0, <1>8 DEF Types
  <2> QED BY <1>0, <1>7, <1>8, <1>15, <2>1, KeptChains
<1>17. ThroughInv'
  <2> SUFFICES ASSUME NEW u \in Tasks, stage'[u] = "done", IsLock(u, pc[u])', Waits(u, pc[u])'
               PROVE  FALSE
    BY DEF ThroughInv
  <2>1. u # t
    BY <1>10
  <2>2. stage[u] = "done" /\ IsLock(u, pc[u]) /\ Waits(u, pc[u])
    BY <1>7, <1>8, <1>9, <2>1 DEF Waits, IsLock
  <2> QED BY <1>0, <2>2 DEF ThroughInv
<1>18. LiveInv'
  <2> SUFFICES ASSUME NEW q \in PEs, NEW l \in Keys, live'[q][l] # NULL
               PROVE  \E u \in Tasks, j \in Nat :
                        /\ live'[q][l] = <<u, j>> /\ PEOf[u] = q /\ KeyAt(u, j)' = l
                        /\ Active(u, j)' /\ j < pc'[u] /\ ~Leaving(u, l)'
    BY DEF LiveInv
  <2>1. CASE <<q, l>> = <<p, k>>
    <3>1. Active(t, n)' /\ KeyAt(t, n)' = k
      BY <1>1, <1>3, <1>4, <1>15
    <3>2. n < pc'[t]
      BY <1>3, <1>10
    <3>3. ~Leaving(t, k)'
      BY <1>10 DEF Leaving
    <3> QED BY <1>1, <1>3, <1>11, <2>1, <3>1, <3>2, <3>3
  <2>2. CASE <<q, l>> # <<p, k>>
    <3>1. PICK u \in Tasks, j \in Nat :
                        /\ live[q][l] = <<u, j>> /\ PEOf[u] = q /\ KeyAt(u, j) = l
                        /\ Active(u, j) /\ j < pc[u] /\ ~Leaving(u, l)
      BY <1>0, <1>11, <2>2 DEF LiveInv
    <3>2. j < pc'[u]
      <4>1. CASE u = t
        BY <1>1, <1>3, <1>10, <3>1, <4>1
      <4>2. CASE u # t
        BY <1>9, <3>1, <4>2
      <4> QED BY <4>1, <4>2
    <3> QED BY <1>11, <1>15, <2>2, <3>1, <3>2
  <2> QED BY <2>1, <2>2
<1>19. GrantedInv'
  <2> SUFFICES ASSUME NEW u \in Tasks, NEW j \in Nat, Active(u, j)', j < pc'[u], ~Leaving(u, KeyAt(u, j))'
               PROVE  live'[PEOf[u]][KeyAt(u, j)'] = <<u, j>>
    BY DEF GrantedInv
  <2>1. CASE <<u, j>> = <<t, n>>
    BY <1>1, <1>11, <1>15, <2>1
  <2>2. CASE <<u, j>> # <<t, n>>
    <3>1. PICK q, l : q = PEOf[u] /\ l = KeyAt(u, j) /\ l = KeyAt(u, j)'
      BY <1>15
    <3>2. ~Leaving(u, l)'
      BY <3>1 DEF Leaving, ClearsAt
    <3>3. ~Leaving(u, l) /\ Active(u, j) /\ j < pc[u]
      <4>1. j < pc[u]
        BY <1>1, <1>3, <1>9, <1>10, <2>2
      <4> QED BY <1>15, <3>2, <4>1
    <3>4. <<q, l>> # <<p, k>>
      BY <1>5, <3>1, <3>3
    <3>5. q \in PEs /\ l \in Keys
      BY <1>0, <3>1, <3>3, CodeFacts, LockFacts DEF Active, Queued
    <3>6. live[q][l] = <<u, j>>
      BY <1>0, <3>1, <3>3 DEF GrantedInv
    <3> QED BY <1>11, <3>1, <3>4, <3>5, <3>6
  <2> QED BY <2>1, <2>2
<1>20. PutInv'
  <2> SUFFICES ASSUME NEW u \in Tasks, stage'[u] = "put"
               PROVE  \E j \in Nat : toPut'[u] = <<u, j>> /\ Active(u, j)' /\ j < pc'[u] /\ KeyAt(u, j)' = KeyAt(u, pc[u])'
    BY DEF PutInv
  <2>1. u # t
    BY <1>10
  <2>2. stage[u] = "put" /\ pc'[u] = pc[u] /\ KeyAt(u, pc[u])' = KeyAt(u, pc[u])
    BY <1>8, <1>9, <2>1 DEF KeyAt
  <2> QED BY <1>0, <1>7, <1>15, <2>2 DEF PutInv
<1>21. OwnerInv'
  BY <1>0, <1>8, <1>15 DEF OwnerInv
<1> QED BY <1>12, <1>13, <1>14, <1>16, <1>17, <1>18, <1>19, <1>20, <1>21 DEF LockInv, Held

\* clear_lock_done: the assertion holds, and the task takes its own promise.
LEMMA DoneStep ==
    ASSUME LockInv, NEW t \in Tasks, clear_lock_done(t)
    PROVE  LockInv'
<1>0. /\ Types /\ Control /\ BusyInv /\ ThroughInv /\ Chained /\ OneFree
      /\ LiveInv /\ GrantedInv /\ PutInv /\ OwnerInv
  BY DEF LockInv, Chained, Held
<1>1. PICK p, k, n : p = PEOf[t] /\ k = KeyAt(t, pc[t]) /\ n = pc[t]
  OBVIOUS
<1>2. stage[t] = "done" /\ ~Ended(t) /\ Now(t).via = "unlock"
  BY DEF clear_lock_done, In
<1>3. /\ IsUnlock(t, n) /\ ~IsLock(t, n) /\ k = Key(Now(t).a) /\ n \in Nat /\ k \in Keys /\ p \in PEs
      /\ n \in DOMAIN program.code[t]
  BY <1>0, <1>1, <1>2, NowFacts, LockFacts, CodeFacts
<1>4. PICK h \in Nat : h < n /\ Free(t, h) /\ KeyAt(t, h) = k /\ live[p][k] = <<t, h>>
  BY <1>1, <1>2, <1>3, UnlockPlace
<1>5. /\ toPut' = [toPut EXCEPT ![t] = <<t, h>>] /\ live' = [live EXCEPT ![p][k] = NULL] /\ Goes(t, "put")
      /\ UNCHANGED <<library, last, await, satisfied, aborted>>
  BY <1>1, <1>3, <1>4, PlaceNotNull DEF clear_lock_done
<1>6. /\ stage' = [stage EXCEPT ![t] = "put"]
      /\ UNCHANGED <<program, pc, conds, turn, busy, flight, owner>>
  BY <1>5 DEF Goes, library
<1>7. \A u \in Tasks : u # t => stage'[u] = stage[u] /\ pc'[u] = pc[u] /\ toPut'[u] = toPut[u]
  BY <1>0, <1>5, <1>6 DEF Types
<1>8. stage'[t] = "put" /\ pc'[t] = n /\ toPut'[t] = <<t, h>>
  BY <1>0, <1>1, <1>5, <1>6 DEF Types
<1>9. /\ live'[p][k] = NULL
      /\ \A q \in PEs, l \in Keys : <<q, l>> # <<p, k>> => live'[q][l] = live[q][l]
      /\ DOMAIN live' = PEs /\ \A q \in PEs : DOMAIN live'[q] = Keys
  <2>1. DOMAIN live = PEs /\ \A q \in PEs : DOMAIN live[q] = Keys
    BY <1>0 DEF Types
  <2> QED BY <1>3, <1>5, <2>1
<1>10. Types'
  BY <1>0, <1>5, <1>6, <1>9 DEF Types, Stages
<1>11. Control'
  <2>1. "put" \in Stages \ {"idle"}
    BY DEF Stages
  <2> QED BY <1>0, <1>1, <1>2, <1>3, <1>6, <2>1, GoesControl
<1>12. BusyInv'
  BY <1>0, <1>2, <1>5, <1>6, <1>7, OtherBusy
<1>13. ASSUME NEW u \in Tasks, NEW j \in Nat, NEW l
       PROVE  /\ Queued(u, j)' <=> Queued(u, j)
              /\ Active(u, j)' <=> Active(u, j)
              /\ Owned(u, j)' <=> Owned(u, j)
              /\ Leaving(u, l)' <=> (Leaving(u, l) \/ (u = t /\ l = k))
              /\ Waits(u, j)' <=> Waits(u, j)
              /\ KeyAt(u, j)' = KeyAt(u, j)
  <2>0. KeyAt(u, j)' = KeyAt(u, j) /\ (Waits(u, j)' <=> Waits(u, j))
    BY <1>5, <1>6, SameCode DEF Waits
  <2>1. CASE u # t
    BY <1>6, <1>7, <2>0, <2>1, SamePlaces
  <2>2. CASE u = t
    <3>1. Queued(t, j)' <=> Queued(t, j)
      BY <1>1, <1>3, <1>6, SameCode DEF Queued
    <3>2. Active(t, j)' <=> Active(t, j)
      BY <1>6, <3>1, SameCode DEF Active
    <3>3. Active(t, j) => j # n
      BY <1>3 DEF Active, Queued
    <3>4. \A m : Cleared(t, m)' <=> Cleared(t, m)
      BY <1>2, <1>6, <1>8, SameCode DEF Cleared, ClearsAt, IsUnlock, KeyAt
    <3>5. Owned(t, j)' <=> Owned(t, j)
      BY <1>1, <1>6, <2>0, <2>2, <3>2, <3>3, <3>4 DEF Owned
    <3>6. ~Leaving(t, l) /\ (Leaving(t, l)' <=> l = k)
      BY <1>1, <1>2, <1>3, <1>6, <1>8 DEF Leaving, ClearsAt, IsUnlock, KeyAt
    <3> QED BY <2>0, <2>2, <3>1, <3>2, <3>5, <3>6
  <2> QED BY <2>1, <2>2
<1>14. Chained'
  <2>1. \A u \in Tasks : pc'[u] >= pc[u] /\ pc'[u] \in Nat
    BY <1>0, <1>6 DEF Types
  <2>2. await' = await
    BY <1>5
  <2> QED BY <1>0, <1>5, <1>6, <1>13, <2>1, <2>2, KeptChains
<1>15. ThroughInv'
  <2> SUFFICES ASSUME NEW u \in Tasks, stage'[u] = "done", IsLock(u, pc[u])', Waits(u, pc[u])'
               PROVE  FALSE
    BY DEF ThroughInv
  <2>1. u # t
    BY <1>8
  <2>2. stage[u] = "done" /\ IsLock(u, pc[u]) /\ Waits(u, pc[u])
    BY <1>5, <1>6, <1>7, <2>1 DEF Waits, IsLock
  <2> QED BY <1>0, <2>2 DEF ThroughInv
<1>16. LiveInv'
  <2> SUFFICES ASSUME NEW q \in PEs, NEW l \in Keys, live'[q][l] # NULL
               PROVE  \E u \in Tasks, j \in Nat :
                        /\ live'[q][l] = <<u, j>> /\ PEOf[u] = q /\ KeyAt(u, j)' = l
                        /\ Active(u, j)' /\ j < pc'[u] /\ ~Leaving(u, l)'
    BY DEF LiveInv
  <2>1. <<q, l>> # <<p, k>>
    BY <1>9
  <2>2. PICK u \in Tasks, j \in Nat :
                        /\ live[q][l] = <<u, j>> /\ PEOf[u] = q /\ KeyAt(u, j) = l
                        /\ Active(u, j) /\ j < pc[u] /\ ~Leaving(u, l)
    BY <1>0, <1>9, <2>1 DEF LiveInv
  <2>3. ~Leaving(u, l)'
    BY <1>1, <1>13, <2>1, <2>2
  <2> QED BY <1>6, <1>9, <1>13, <2>1, <2>2, <2>3
<1>17. GrantedInv'
  <2> SUFFICES ASSUME NEW u \in Tasks, NEW j \in Nat, Active(u, j)', j < pc'[u], ~Leaving(u, KeyAt(u, j))'
               PROVE  live'[PEOf[u]][KeyAt(u, j)'] = <<u, j>>
    BY DEF GrantedInv
  <2>1. PICK q, l : q = PEOf[u] /\ l = KeyAt(u, j) /\ l = KeyAt(u, j)'
    BY <1>13
  <2>2. ~Leaving(u, l)'
    BY <2>1 DEF Leaving, ClearsAt
  <2>3. ~Leaving(u, l) /\ Active(u, j) /\ j < pc[u] /\ ~(u = t /\ l = k)
    BY <1>6, <1>13, <2>2
  <2>4. <<q, l>> # <<p, k>>
    <3> SUFFICES ASSUME <<q, l>> = <<p, k>> PROVE FALSE
      OBVIOUS
    <3>1. pc[u] \in Nat
      BY <1>0 DEF Types
    <3>2. Free(u, j)
      BY <2>3, <3>1 DEF Free, Waits
    <3>3. u = t
      BY <1>0, <1>1, <1>4, <2>1, <3>2 DEF OneFree
    <3> QED BY <2>3, <3>3
  <2>5. q \in PEs /\ l \in Keys
    BY <1>0, <2>1, <2>3, CodeFacts, LockFacts DEF Active, Queued
  <2>6. live[q][l] = <<u, j>>
    BY <1>0, <2>1, <2>3 DEF GrantedInv
  <2> QED BY <1>9, <2>1, <2>4, <2>5, <2>6
<1>18. PutInv'
  <2> SUFFICES ASSUME NEW u \in Tasks, stage'[u] = "put"
               PROVE  \E j \in Nat : toPut'[u] = <<u, j>> /\ Active(u, j)' /\ j < pc'[u] /\ KeyAt(u, j)' = KeyAt(u, pc[u])'
    BY DEF PutInv
  <2>0. KeyAt(u, pc[u])' = KeyAt(u, pc[u])
    BY <1>6 DEF KeyAt
  <2>1. CASE u = t
    <3>1. Active(t, h)' /\ KeyAt(t, h)' = k
      BY <1>4, <1>13 DEF Free
    <3> QED BY <1>1, <1>4, <1>8, <2>0, <2>1, <3>1
  <2>2. CASE u # t
    BY <1>0, <1>6, <1>7, <1>13, <2>0, <2>2 DEF PutInv
  <2> QED BY <2>1, <2>2
<1>19. OwnerInv'
  BY <1>0, <1>6, <1>13 DEF OwnerInv
<1> QED BY <1>10, <1>11, <1>12, <1>14, <1>15, <1>16, <1>17, <1>18, <1>19 DEF LockInv, Held

\* clear_lock_put: the place leaves the chain, and the one that waits for it,
\* if there is one, is the free place.
LEMMA PutStep ==
    ASSUME LockInv, NEW t \in Tasks, clear_lock_put(t)
    PROVE  LockInv'
<1>0. /\ Types /\ Control /\ BusyInv /\ ThroughInv /\ OneFree /\ WaitInv /\ LastInv /\ EndInv /\ SatisfiedInv
      /\ LiveInv /\ GrantedInv /\ PutInv /\ OwnerInv
  BY DEF LockInv, Chained, Held
<1>1. PICK p, k, n : p = PEOf[t] /\ k = KeyAt(t, pc[t]) /\ n = pc[t]
  OBVIOUS
<1>2. stage[t] = "put" /\ ~Ended(t) /\ Now(t).via = "unlock"
  BY DEF clear_lock_put, In
<1>3. /\ IsUnlock(t, n) /\ ~IsLock(t, n) /\ n \in Nat /\ k \in Keys /\ p \in PEs /\ ClearsAt(t, n, k)
      /\ \A l : ClearsAt(t, n, l) => l = k
  BY <1>0, <1>1, <1>2, NowFacts, LockFacts, CodeFacts DEF ClearsAt
<1>4. PICK h \in Nat : toPut[t] = <<t, h>> /\ Active(t, h) /\ h < n /\ KeyAt(t, h) = k
  BY <1>0, <1>1, <1>2 DEF PutInv
<1>5. Free(t, h) /\ IsLock(t, h)
  BY <1>1, <1>3, <1>4 DEF Free, Waits, Active, Queued
<1>6. /\ satisfied' = satisfied \cup {<<t, h>>} /\ Returns(t)
      /\ UNCHANGED <<library, last, live, await, toPut, aborted>>
  BY <1>4 DEF clear_lock_put
<1>7. /\ stage' = [stage EXCEPT ![t] = "run"] /\ pc' = [pc EXCEPT ![t] = @ + 1]
      /\ turn' = [turn EXCEPT ![t] = {}] /\ UNCHANGED <<program, conds, busy, flight, owner>>
  BY <1>6 DEF Returns, library
<1>8. \A u \in Tasks : u # t => stage'[u] = stage[u] /\ pc'[u] = pc[u]
  BY <1>0, <1>7 DEF Types
<1>9. stage'[t] = "run" /\ pc'[t] = n + 1
  BY <1>0, <1>1, <1>7 DEF Types
<1>10. Types'
  BY <1>0, <1>6, <1>7 DEF Types, Stages
<1>11. Control'
  BY <1>0, <1>2, <1>7, NowFacts, ReturnsControl
<1>12. BusyInv'
  BY <1>0, <1>2, <1>6, <1>7, <1>8, OtherBusy
\* The places: those of t in the chain are over.
<1>13. ASSUME NEW u \in Tasks, NEW j \in Nat, NEW l
       PROVE  /\ Queued(u, j)' <=> Queued(u, j)
              /\ KeyAt(u, j)' = KeyAt(u, j)
              /\ IsLock(u, j)' <=> IsLock(u, j)
              /\ u # t => /\ Active(u, j)' <=> Active(u, j)
                          /\ Owned(u, j)' <=> Owned(u, j)
                          /\ Leaving(u, l)' <=> Leaving(u, l)
                          /\ Waits(u, j)' <=> Waits(u, j) /\ await[u] # <<t, h>>
              /\ Active(t, j)' => Active(t, j) /\ KeyAt(t, j) # k
              /\ Active(t, j) /\ KeyAt(t, j) # k => Active(t, j)'
              /\ Active(t, j) => j < n /\ ~Waits(t, j) /\ ~Waits(t, j)'
              /\ Owned(t, j)' => Owned(t, j)
              /\ ~Leaving(t, l)' /\ (l # k => ~Leaving(t, l))
  <2>0. KeyAt(u, j)' = KeyAt(u, j) /\ (IsLock(u, j)' <=> IsLock(u, j)) /\ KeyAt(t, j)' = KeyAt(t, j)
    BY <1>7, SameCode
  <2>1. Queued(t, j)' <=> Queued(t, j)
    BY <1>1, <1>3, <1>7, <1>9, SameCode DEF Queued
  <2>2. Queued(t, j) => j < n
    BY <1>1, <1>3 DEF Queued
  <2>3. j < n => j + 1 .. pc'[t] - 1 = (j + 1 .. pc[t] - 1) \cup {n}
    BY <1>1, <1>3, <1>9
  <2>4. \A i, m : ClearsAt(t, i, m)' <=> ClearsAt(t, i, m)
    BY <1>7, SameCode
  <2>5. Active(t, j)' <=> (Active(t, j) /\ KeyAt(t, j) # k)
    <3>1. CASE ~Queued(t, j)
      BY <2>1, <3>1 DEF Active
    <3>2. CASE Queued(t, j)
      <4>1. PICK l0 : l0 = KeyAt(t, j) /\ l0 = KeyAt(t, j)'
        BY <2>0
      <4>2. Active(t, j)' <=> \A i \in j + 1 .. pc'[t] - 1 : ~ClearsAt(t, i, l0)'
        BY <2>1, <3>2, <4>1 DEF Active, ClearsAt
      <4>3. Active(t, j) <=> \A i \in j + 1 .. pc[t] - 1 : ~ClearsAt(t, i, l0)
        BY <3>2, <4>1 DEF Active
      <4>4. ClearsAt(t, n, l0) <=> l0 = k
        BY <1>3
      <4> QED BY <2>2, <2>3, <2>4, <3>2, <4>1, <4>2, <4>3, <4>4
    <3> QED BY <3>1, <3>2
  <2>6. Active(t, j) => j < n /\ ~Waits(t, j) /\ ~Waits(t, j)'
    <3>1. Active(t, j) => j < n
      BY <2>2 DEF Active
    <3>2. j < n => ~Waits(t, j)
      BY <1>1, <1>3 DEF Waits
    <3>3. j < n => ~Waits(t, j)'
      BY <1>3, <1>9 DEF Waits
    <3> QED BY <3>1, <3>2, <3>3
  <2>7. Owned(t, j)' => Owned(t, j)
    <3> SUFFICES ASSUME Owned(t, j)' PROVE Owned(t, j)
      OBVIOUS
    <3>1. Active(t, j) /\ KeyAt(t, j) # k
      BY <2>5 DEF Owned
    <3>2. j # pc[t]
      BY <1>1, <1>3, <2>6, <3>1
    <3>3. ~Cleared(t, KeyAt(t, j))
      BY <1>1, <1>3, <3>1 DEF Cleared
    <3> QED BY <3>1, <3>2, <3>3 DEF Owned
  <2>8. ~Leaving(t, l)' /\ (l # k => ~Leaving(t, l))
    BY <1>1, <1>3, <1>9 DEF Leaving
  <2>9. u # t => /\ Queued(u, j)' <=> Queued(u, j)
                 /\ Active(u, j)' <=> Active(u, j)
                 /\ Owned(u, j)' <=> Owned(u, j)
                 /\ Leaving(u, l)' <=> Leaving(u, l)
    BY <1>7, <1>8, SamePlaces
  <2>10. u # t => (Waits(u, j)' <=> Waits(u, j) /\ await[u] # <<t, h>>)
    BY <1>6, <1>8 DEF Waits
  <2> QED BY <2>0, <2>1, <2>5, <2>6, <2>7, <2>8, <2>9, <2>10
<1>14. \A u \in Tasks : \A j \in Nat : Active(u, j)' => Active(u, j)
  BY <1>13
<1>15. ASSUME NEW x, NEW q, NEW l, PlaceIn(x, q, l)
       PROVE  PlaceIn(x, q, l)' /\ (x = <<t, h>> => q = p /\ l = k)
  <2>1. PICK u \in Tasks, j \in Nat : x = <<u, j>> /\ PEOf[u] = q /\ Queued(u, j) /\ KeyAt(u, j) = l
    BY <1>15 DEF PlaceIn
  <2>2. Queued(u, j)' /\ KeyAt(u, j)' = l
    BY <1>13, <2>1
  <2>3. PlaceIn(x, q, l)'
    BY <2>1, <2>2 DEF PlaceIn
  <2> QED BY <1>1, <1>4, <2>1, <2>3
\* Outside the chain a free place was free; in it, it waited for t.
<1>16. ASSUME NEW u \in Tasks, NEW j \in Nat, Free(u, j)'
       PROVE  /\ Active(u, j) /\ KeyAt(u, j)' = KeyAt(u, j)
              /\ <<PEOf[u], KeyAt(u, j)>> # <<p, k>> => Free(u, j)
              /\ <<PEOf[u], KeyAt(u, j)>> = <<p, k>> => Waits(u, j) /\ await[u] = <<t, h>>
  <2>1. Active(u, j) /\ KeyAt(u, j)' = KeyAt(u, j)
    BY <1>13, <1>14, <1>16 DEF Free
  <2>2. CASE u = t
    <3>1. KeyAt(t, j) # k /\ ~Waits(t, j)
      BY <1>13, <1>16, <2>1, <2>2 DEF Free
    <3> QED BY <2>1, <2>2, <3>1 DEF Free
  <2>3. CASE u # t
    <3>1. Waits(u, j) => await[u] = <<t, h>>
      BY <1>13, <1>16, <2>3 DEF Free
    <3>2. Waits(u, j) => PlaceIn(<<t, h>>, PEOf[u], KeyAt(u, j))
      BY <1>0, <2>1, <3>1 DEF WaitInv
    <3>3. Waits(u, j) => PEOf[u] = p /\ KeyAt(u, j) = k
      BY <1>15, <3>2
    <3>4. <<PEOf[u], KeyAt(u, j)>> = <<p, k>> => ~Free(u, j)
      BY <1>0, <1>1, <1>4, <1>5, <2>3 DEF OneFree
    <3> QED BY <2>1, <3>1, <3>3, <3>4 DEF Free
  <2> QED BY <2>2, <2>3
<1>17. OneFree'
  <2> SUFFICES ASSUME NEW u \in Tasks, NEW v \in Tasks, NEW i \in Nat, NEW j \in Nat,
                      Free(u, i)', Free(v, j)', PEOf[u] = PEOf[v], KeyAt(u, i)' = KeyAt(v, j)'
               PROVE  <<u, i>> = <<v, j>>
    BY DEF OneFree
  <2>1. KeyAt(u, i) = KeyAt(v, j)
    BY <1>16
  <2>2. CASE <<PEOf[u], KeyAt(u, i)>> = <<p, k>>
    <3>1. /\ Active(u, i) /\ Waits(u, i) /\ await[u] = <<t, h>>
          /\ Active(v, j) /\ Waits(v, j) /\ await[v] = <<t, h>>
      BY <1>16, <2>1, <2>2
    <3>2. u = v
      BY <1>0, <3>1 DEF WaitInv
    <3> QED BY <3>1, <3>2 DEF Waits
  <2>3. CASE <<PEOf[u], KeyAt(u, i)>> # <<p, k>>
    <3>1. Free(u, i) /\ Free(v, j)
      BY <1>16, <2>1, <2>3
    <3> QED BY <1>0, <2>1, <3>1 DEF OneFree
  <2> QED BY <2>2, <2>3
<1>18. LastInv'
  BY <1>0, <1>6, <1>15 DEF LastInv
<1>19. WaitInv'
  <2> SUFFICES ASSUME NEW u \in Tasks, NEW j \in Nat, Active(u, j)', Waits(u, j)'
               PROVE  /\ PlaceIn(await[u], PEOf[u], KeyAt(u, j))'
                      /\ await'[u] # last'[PEOf[u]][KeyAt(u, j)']
                      /\ \A v \in Tasks : \A i \in Nat :
                           Active(v, i)' /\ Waits(v, i)' /\ await'[v] = await'[u] => v = u
    BY DEF WaitInv
  <2>1. \A v \in Tasks : \A i \in Nat : Active(v, i)' /\ Waits(v, i)' => Active(v, i) /\ Waits(v, i)
    <3> SUFFICES ASSUME NEW v \in Tasks, NEW i \in Nat, Active(v, i)', Waits(v, i)'
                 PROVE  Active(v, i) /\ Waits(v, i)
      OBVIOUS
    <3>1. CASE v = t
      BY <1>13, <3>1
    <3>2. CASE v # t
      BY <1>13, <3>2
    <3> QED BY <3>1, <3>2
  <2>2. Active(u, j) /\ Waits(u, j) /\ KeyAt(u, j)' = KeyAt(u, j)
    BY <1>13, <2>1
  <2>3. PICK x, q, l : x = await[u] /\ q = PEOf[u] /\ l = KeyAt(u, j)
    OBVIOUS
  <2>4. PlaceIn(x, q, l) /\ x # last[q][l]
    BY <1>0, <2>2, <2>3 DEF WaitInv
  <2>5. PlaceIn(x, q, l)'
    BY <1>15, <2>4
  <2>6. PlaceIn(await[u], PEOf[u], KeyAt(u, j))'
    BY <1>6, <2>2, <2>3, <2>5 DEF PlaceIn
  <2> QED BY <1>0, <1>6, <2>1, <2>2, <2>3, <2>4, <2>6 DEF WaitInv
<1>20. EndInv'
  <2> SUFFICES ASSUME NEW u \in Tasks, NEW j \in Nat, Free(u, j)'
               PROVE  LET x == last'[PEOf[u]][KeyAt(u, j)'] IN x # NULL /\ x \notin satisfied'
    BY DEF EndInv
  <2>1. PICK q, l : q = PEOf[u] /\ l = KeyAt(u, j)
    OBVIOUS
  <2>2. Active(u, j) /\ KeyAt(u, j)' = l
    BY <1>16, <2>1
  <2>3. q \in PEs /\ l \in Keys
    BY <1>0, <2>1, <2>2, CodeFacts, LockFacts DEF Active, Queued
  <2>4. last[q][l] # NULL /\ last[q][l] \notin satisfied /\ last[q][l] # <<t, h>>
    <3>1. CASE <<q, l>> = <<p, k>>
      <4>1. last[p][k] # NULL /\ last[p][k] \notin satisfied
        BY <1>0, <1>1, <1>4, <1>5 DEF EndInv
      <4>2. Waits(u, j) /\ await[u] = <<t, h>>
        BY <1>16, <2>1, <3>1
      <4>3. <<t, h>> # last[q][l]
        BY <1>0, <2>1, <2>2, <4>2 DEF WaitInv
      <4> QED BY <3>1, <4>1, <4>3
    <3>2. CASE <<q, l>> # <<p, k>>
      <4>1. Free(u, j)
        BY <1>16, <2>1, <3>2
      <4>2. last[q][l] # NULL /\ last[q][l] \notin satisfied
        BY <1>0, <2>1, <4>1 DEF EndInv
      <4>3. PlaceIn(last[q][l], q, l)
        BY <1>0, <2>3, <4>2 DEF LastInv
      <4> QED BY <1>15, <3>2, <4>2, <4>3
    <3> QED BY <3>1, <3>2
  <2> QED BY <1>6, <2>1, <2>2, <2>4
<1>21. SatisfiedInv'
  <2> SUFFICES ASSUME NEW u \in Tasks, NEW j \in Nat, <<u, j>> \in satisfied', IsLock(u, j)'
               PROVE  j < pc'[u]
    BY DEF SatisfiedInv
  <2>1. CASE <<u, j>> = <<t, h>>
    BY <1>3, <1>4, <1>9, <2>1
  <2>2. CASE <<u, j>> \in satisfied
    <3>1. j < pc[u] /\ pc[u] \in Nat
      BY <1>0, <1>13, <2>2 DEF SatisfiedInv, Types
    <3>2. pc'[u] = pc[u] \/ pc'[u] = pc[u] + 1
      BY <1>1, <1>8, <1>9
    <3> QED BY <3>1, <3>2
  <2> QED BY <1>6, <2>1, <2>2
<1>22. ThroughInv'
  <2> SUFFICES ASSUME NEW u \in Tasks, stage'[u] = "done", IsLock(u, pc[u])', Waits(u, pc[u])'
               PROVE  FALSE
    BY DEF ThroughInv
  <2>1. u # t
    BY <1>9
  <2>2. stage[u] = "done" /\ IsLock(u, pc[u]) /\ Waits(u, pc[u])
    BY <1>6, <1>7, <1>8, <2>1 DEF Waits, IsLock
  <2> QED BY <1>0, <2>2 DEF ThroughInv
<1>23. LiveInv'
  <2> SUFFICES ASSUME NEW q \in PEs, NEW l \in Keys, live'[q][l] # NULL
               PROVE  \E u \in Tasks, j \in Nat :
                        /\ live'[q][l] = <<u, j>> /\ PEOf[u] = q /\ KeyAt(u, j)' = l
                        /\ Active(u, j)' /\ j < pc'[u] /\ ~Leaving(u, l)'
    BY DEF LiveInv
  <2>1. PICK u \in Tasks, j \in Nat :
                        /\ live[q][l] = <<u, j>> /\ PEOf[u] = q /\ KeyAt(u, j) = l
                        /\ Active(u, j) /\ j < pc[u] /\ ~Leaving(u, l)
    BY <1>0, <1>6 DEF LiveInv
  <2>2. <<q, l>> # <<p, k>>
    <3> SUFFICES ASSUME <<q, l>> = <<p, k>> PROVE FALSE
      OBVIOUS
    <3>1. pc[u] \in Nat
      BY <1>0 DEF Types
    <3>2. Free(u, j)
      BY <2>1, <3>1 DEF Free, Waits
    <3>3. u = t
      BY <1>0, <1>1, <1>4, <1>5, <2>1, <3>2 DEF OneFree
    <3> QED BY <1>1, <1>2, <1>3, <2>1, <3>3 DEF Leaving
  <2>3. Active(u, j)' /\ KeyAt(u, j)' = l /\ ~Leaving(u, l)'
    <3>1. CASE u = t
      BY <1>1, <1>13, <2>1, <2>2, <3>1
    <3>2. CASE u # t
      BY <1>13, <2>1, <3>2
    <3> QED BY <3>1, <3>2
  <2>4. j < pc'[u]
    <3>1. CASE u = t
      BY <1>1, <1>3, <1>9, <2>1, <3>1
    <3>2. CASE u # t
      BY <1>8, <2>1, <3>2
    <3> QED BY <3>1, <3>2
  <2> QED BY <1>6, <2>1, <2>3, <2>4
<1>24. GrantedInv'
  <2> SUFFICES ASSUME NEW u \in Tasks, NEW j \in Nat, Active(u, j)', j < pc'[u], ~Leaving(u, KeyAt(u, j))'
               PROVE  live'[PEOf[u]][KeyAt(u, j)'] = <<u, j>>
    BY DEF GrantedInv
  <2>1. PICK q, l : q = PEOf[u] /\ l = KeyAt(u, j) /\ l = KeyAt(u, j)'
    BY <1>13
  <2>2. ~Leaving(u, l)'
    BY <2>1 DEF Leaving, ClearsAt
  <2>3. Active(u, j) /\ j < pc[u] /\ ~Leaving(u, l)
    <3>1. CASE u = t
      BY <1>1, <1>13, <2>1, <3>1
    <3>2. CASE u # t
      BY <1>8, <1>13, <2>2, <3>2
    <3> QED BY <3>1, <3>2
  <2> QED BY <1>0, <1>6, <2>1, <2>3 DEF GrantedInv
<1>25. PutInv'
  <2> SUFFICES ASSUME NEW u \in Tasks, stage'[u] = "put"
               PROVE  \E j \in Nat : toPut'[u] = <<u, j>> /\ Active(u, j)' /\ j < pc'[u] /\ KeyAt(u, j)' = KeyAt(u, pc[u])'
    BY DEF PutInv
  <2>1. u # t
    BY <1>9
  <2>2. stage[u] = "put" /\ pc'[u] = pc[u] /\ KeyAt(u, pc[u])' = KeyAt(u, pc[u])
    BY <1>7, <1>8, <2>1 DEF KeyAt
  <2> QED BY <1>0, <1>6, <1>13, <2>1, <2>2 DEF PutInv
<1>26. OwnerInv'
  <2>1. \A u \in Tasks : \A j \in Nat : Owned(u, j)' => Owned(u, j)
    BY <1>13
  <2> QED BY <1>0, <1>7, <2>1 DEF OwnerInv
<1> QED
  BY <1>10, <1>11, <1>12, <1>17, <1>18, <1>19, <1>20, <1>21, <1>22, <1>23, <1>24, <1>25, <1>26
  DEF LockInv, Chained, Held

-----------------------------------------------------------------------------
(* The invariant holds, and implies LockExclusion *)

\* Initially no place is taken.
LEMMA LockInit ==
    ASSUME MpiInit
    PROVE  LockInv
<1>1. Init
  BY DEF MpiInit
<1>2. /\ program \in Programs
      /\ pc = [t \in Tasks |-> 1]
      /\ stage = [t \in Tasks |-> IF t \in program.start THEN "run" ELSE "idle"]
      /\ conds = [t \in Tasks |-> {}] /\ turn = [t \in Tasks |-> {}]
      /\ busy = [p \in PEs |-> NULL] /\ owner = [l \in Locks |-> NULL]
      /\ last = [p \in PEs |-> [l \in Keys |-> NULL]]
      /\ live = [p \in PEs |-> [l \in Keys |-> NULL]]
      /\ await = [t \in Tasks |-> NULL] /\ toPut = [t \in Tasks |-> NULL]
      /\ satisfied = {} /\ flight = {} /\ aborted = FALSE
  BY <1>1 DEF Init, Keys
<1>3. Types
  BY <1>2 DEF Types, Stages
<1>4. \A t \in Tasks : pc[t] = 1 /\ stage[t] \in {"run", "idle"}
  BY <1>2
<1>5. \A t \in Tasks : \A j \in Nat : ~Queued(t, j) /\ ~Active(t, j) /\ ~Free(t, j) /\ ~Owned(t, j)
  <2> SUFFICES ASSUME NEW t \in Tasks, NEW j \in Nat PROVE ~Queued(t, j)
    BY DEF Active, Free, Owned
  <2>1. IsLock(t, j) => j >= 1
    BY <1>3, LockFacts
  <2> QED BY <1>4, <2>1 DEF Queued
<1>6. Control
  <2> SUFFICES ASSUME NEW t \in Tasks
               PROVE  /\ pc[t] >= 1 /\ pc[t] <= Len(program.code[t]) + 1
                      /\ \A i \in DOMAIN program.code[t] :
                           i >= pc[t] /\ Starts(program.code[t][i]) => stage[program.code[t][i].a] = "idle"
    BY <1>4 DEF Control
  <2>1. pc[t] >= 1 /\ pc[t] <= Len(program.code[t]) + 1
    BY <1>3, <1>4, CodeFacts
  <2>2. \A i \in DOMAIN program.code[t] : Starts(program.code[t][i]) => stage[program.code[t][i].a] = "idle"
    BY <1>2, <1>3, StartFacts
  <2> QED BY <2>1, <2>2
<1>7. BusyInv
  BY <1>2 DEF BusyInv
<1>8. ThroughInv
  BY <1>4 DEF ThroughInv
<1>9. Chained
  <2>1. OneFree /\ WaitInv /\ EndInv
    BY <1>5 DEF OneFree, WaitInv, EndInv
  <2>2. LastInv /\ SatisfiedInv
    BY <1>2 DEF LastInv, SatisfiedInv
  <2> QED BY <2>1, <2>2 DEF Chained
<1>10. Held
  <2>1. LiveInv
    BY <1>2 DEF LiveInv
  <2>2. GrantedInv /\ PutInv /\ OwnerInv
    BY <1>4, <1>5 DEF GrantedInv, PutInv, OwnerInv
  <2> QED BY <2>1, <2>2 DEF Held
<1> QED BY <1>3, <1>6, <1>7, <1>8, <1>9, <1>10 DEF LockInv

\* Every step preserves the invariant.
LEMMA LockNext ==
    ASSUME LockInv, [MpiNext]_mpiVars
    PROVE  LockInv'
<1>0. Types /\ Control
  BY DEF LockInv
<1>1. ASSUME NEW t \in Tasks, NicStep(t)
      PROVE  LockInv'
  <2>1. CASE NicRun(t)
    BY <2>1, NicRunStep
  <2>2. CASE NicEnter(t)
    BY <2>2, NicEnterStep
  <2>3. CASE NicReturn(t)
    BY <2>3, NicReturnStep, NicLockStep
  <2>4. CASE poll_on_waits(t)
    BY <2>4, PollStep
  <2> QED BY <1>1, <2>1, <2>2, <2>3, <2>4 DEF NicStep
<1>2. ASSUME NEW t \in Tasks, TaskStep(t)
      PROVE  LockInv'
  <2>1. CASE Post(t)
    <3>1. /\ stage[t] = "run" /\ ~Ended(t) /\ Now(t).via \in {"nic", "request"} /\ Goes(t, "posted")
          /\ UNCHANGED <<library, locking, aborted>>
      BY <2>1 DEF Post, In
    <3>2. Off(t)
      BY <1>0, <3>1, NowFacts
    <3> QED BY <3>1, <3>2, OutsideStep
  <2>2. CASE Resume(t)
    BY <2>2, ResumeStep
  <2>3. CASE OnContext(t)
    BY <2>3, OnContextStep
  <2>4. CASE QuietAll(t)
    BY <2>4, QuietAllStep
  <2>5. CASE set_lock(t)
    BY <2>5, SetStep
  <2>6. CASE sos_set_lock_wait(t)
    <3>1. /\ stage[t] = "await" /\ ~Ended(t) /\ Now(t).via = "lock" /\ Goes(t, "posted")
          /\ UNCHANGED <<library, locking, aborted>>
      BY <2>6 DEF sos_set_lock_wait, In
    <3>2. IsLock(t, pc[t])
      BY <1>0, <3>1, NowFacts
    <3> QED BY <3>1, <3>2, OutsideStep
  <2>7. CASE set_lock_granted(t)
    BY <2>7, GrantedStep
  <2>8. CASE clear_lock(t)
    BY <2>8, ClearStep
  <2>9. CASE clear_lock_done(t)
    BY <2>9, DoneStep
  <2>10. CASE clear_lock_put(t)
    BY <2>10, PutStep
  <2>11. CASE enqueue_wait_set(t)
    BY <2>11, EnqueueStep
  <2> QED BY <1>2, <2>1, <2>2, <2>3, <2>4, <2>5, <2>6, <2>7, <2>8, <2>9, <2>10, <2>11 DEF TaskStep
<1>3. ASSUME NEW t \in Tasks, MpiStep(t)
      PROVE  LockInv'
  <2>1. CASE MakeRequest(t)
    BY <2>1, MakeRequestStep
  <2>2. CASE RequestReturn(t)
    BY <2>2, RequestReturnStep
  <2>3. CASE poll_on_pending(t)
    <3>1. stage[t] = "pending" /\ Goes(t, "done") /\ UNCHANGED <<library, locking, aborted>>
      BY <2>3 DEF poll_on_pending
    <3>2. Off(t) /\ ~Ended(t)
      BY <1>0, <3>1, NowFacts DEF Control, Off
    <3> QED BY <3>1, <3>2, OutsideStep
  <2>4. CASE async_nb_await_at(t)
    BY <2>4, AsyncStep
  <2>5. CASE Waitall(t)
    BY <2>5, WaitallStep
  <2> QED BY <1>3, <2>1, <2>2, <2>3, <2>4, <2>5 DEF MpiStep
<1>4. ASSUME UNCHANGED vars
      PROVE  LockInv'
  <2>1. UNCHANGED <<tasks, busy, flight, owner, locking, aborted>>
    BY <1>4 DEF vars, library
  <2> QED BY <2>1, IdleStep
<1>5. CASE Next
  <2>1. CASE \E m \in flight : Deliver(m)
    BY <2>1, DeliverStep
  <2> QED BY <1>1, <1>2, <1>4, <1>5, <2>1 DEF Next
<1>6. ASSUME NEW i, NEW j, Buffer(i) \/ Match(i, j)
      PROVE  LockInv'
  <2>1. CASE Buffer(i)
    BY <1>4, <2>1 DEF Buffer
  <2>2. CASE Match(i, j)
    <3>1. UNCHANGED <<tasks, busy, flight, owner, locking, aborted>>
      BY <2>2 DEF Match
    <3> QED BY <3>1, IdleStep
  <2> QED BY <1>6, <2>1, <2>2
<1>7. CASE UNCHANGED mpiVars
  BY <1>4, <1>7 DEF mpiVars
<1> QED BY <1>3, <1>5, <1>6, <1>7 DEF MpiNext

\* A task that holds a lock has a place whose lock the library has granted:
\* more calls have set the lock than have cleared it, so that one of them has
\* not been followed by a call that clears it.
LEMMA HoldsOwned ==
    ASSUME LockInv, NEW t \in Tasks, NEW l \in Locks, Holds(t, l)
    PROVE  \E j \in Nat : Owned(t, j) /\ program.code[t][j].a = l
<1>0. Types /\ Control
  BY DEF LockInv
<1>1. PICK n, code : n = pc[t] /\ code = program.code[t]
  OBVIOUS
<1>2. n \in Nat /\ n >= 1 /\ n <= Len(code) + 1 /\ Len(code) \in Nat /\ DOMAIN code = 1 .. Len(code)
  BY <1>0, <1>1, CodeFacts DEF Types, Control
<1> DEFINE Sets == {i \in 1 .. n - 1 : code[i] = shmem_set_lock(l)}
           Clears == {i \in 1 .. n - 1 : code[i] = shmem_clear_lock(l)}
<1>3. /\ Cardinality(Sets) > Cardinality(Clears)
      /\ ~(~Ended(t) /\ code[n] = shmem_clear_lock(l) /\ stage[t] # "run")
  BY <1>1 DEF Holds
<1>4. IsFiniteSet(Sets) /\ IsFiniteSet(Clears)
  <2>1. IsFiniteSet(1 .. n - 1)
    BY <1>2, FS_Interval
  <2> QED BY <2>1, FS_Subset
<1>5. /\ Cardinality(Sets) \in Nat /\ Cardinality(Clears) \in Nat /\ Cardinality(Clears) < Cardinality(Sets)
  <2>1. Cardinality(Sets) \in Nat /\ Cardinality(Clears) \in Nat
    BY <1>4, FS_CardinalityType
  <2> QED BY <1>3, <2>1
<1>6. \A i \in Sets : i \in Nat /\ i < n /\ IsLock(t, i) /\ program.code[t][i].a = l
  <2> SUFFICES ASSUME NEW i \in Sets
               PROVE  i \in Nat /\ i < n /\ IsLock(t, i) /\ program.code[t][i].a = l
    OBVIOUS
  <2>1. i \in Nat /\ i < n /\ i \in DOMAIN code
    BY <1>2
  <2> QED BY <1>1, <2>1 DEF IsLock, shmem_set_lock, Instr
<1>7. Clears \subseteq Nat /\ \A i \in Clears : i < n
  BY <1>2
\* Between two calls that set l there is one that clears it.
<1>8. \A i, j \in Sets : i < j => \E m \in Clears : i < m /\ m < j
  <2> SUFFICES ASSUME NEW i \in Sets, NEW j \in Sets, i < j
               PROVE  \E m \in Clears : i < m /\ m < j
    OBVIOUS
  <2>1. KeyAt(t, i) = KeyAt(t, j)
    BY <1>6 DEF KeyAt
  <2>2. PICK m \in i + 1 .. j - 1 : program.code[t][m] = shmem_clear_lock(program.code[t][i].a)
    BY <1>0, <1>6, <2>1, BetweenLocks
  <2>3. m \in 1 .. n - 1 /\ i < m /\ m < j
    BY <1>2, <1>6, <2>2
  <2> QED BY <1>1, <1>6, <2>2, <2>3
<1>9. PICK j \in Sets : \A m \in Clears : ~(j < m)
  <2> SUFFICES ASSUME \A j \in Sets : \E m \in Clears : j < m PROVE FALSE
    OBVIOUS
  <2> DEFINE First(i, m) == i < m /\ \A h \in Clears : i < h => m <= h
  <2>1. \A i \in Sets : \E m \in Clears : First(i, m)
    <3> SUFFICES ASSUME NEW i \in Sets PROVE \E m \in Clears : First(i, m)
      OBVIOUS
    <3>1. {h \in Clears : i < h} # {} /\ {h \in Clears : i < h} \in SUBSET Nat
      BY <1>7
    <3>2. PICK m \in {h \in Clears : i < h} : \A y \in {h \in Clears : i < h} : m <= y
      BY <3>1, LeastExists
    <3> QED BY <3>2
  <2> DEFINE f == [i \in Sets |-> CHOOSE m \in Clears : First(i, m)]
  <2>2. f \in [Sets -> Clears] /\ \A i \in Sets : First(i, f[i])
    BY <2>1
  <2> HIDE DEF f, Sets, Clears
  <2>3. PICK x, y \in Sets : x # y /\ f[x] = f[y]
    BY <1>4, <1>5, <2>2, FS_PigeonHole
  <2>4. x \in Nat /\ y \in Nat /\ f[x] \in Nat /\ f[y] \in Nat
    BY <1>6, <1>7, <2>2
  <2>5. \A i, j \in Sets : i < j => f[i] < j /\ j < f[j]
    <3> SUFFICES ASSUME NEW i \in Sets, NEW j \in Sets, i < j PROVE f[i] < j /\ j < f[j]
      OBVIOUS
    <3>1. PICK m \in Clears : i < m /\ m < j
      BY <1>8
    <3>2. f[i] <= m /\ j < f[j]
      BY <2>2, <3>1
    <3>3. f[i] \in Nat /\ m \in Nat /\ j \in Nat
      BY <1>6, <1>7, <2>2
    <3> QED BY <3>1, <3>2, <3>3
  <2> QED BY <2>3, <2>4, <2>5
<1>10. j \in Nat /\ j < n /\ IsLock(t, j) /\ program.code[t][j].a = l
  BY <1>6
\* No call of the same chain is cleared after j.
<1>11. ASSUME NEW i, IsUnlock(t, i), KeyAt(t, i) = KeyAt(t, j), j < i, i <= n
       PROVE  code[i] = shmem_clear_lock(l) /\ i = n
  <2>1. i \in Nat /\ i \in DOMAIN code
    BY <1>0, <1>1, <1>11, CodeFacts DEF IsUnlock
  <2>2. PICK h \in Nat :
             /\ h < i /\ IsLock(t, h) /\ program.code[t][h].a = program.code[t][i].a
             /\ KeyAt(t, h) = KeyAt(t, i)
             /\ \A m \in h + 1 .. i - 1 : ~(IsLock(t, m) /\ KeyAt(t, m) = KeyAt(t, i))
    BY <1>0, <1>11, AtUnlock
  <2>3. ~(h < j)
    BY <1>10, <1>11, <2>1, <2>2
  <2>4. ~(j < h)
    <3> SUFFICES ASSUME j < h PROVE FALSE
      OBVIOUS
    <3>1. PICK m \in j + 1 .. h - 1 : program.code[t][m] = shmem_clear_lock(l)
      <4>1. KeyAt(t, j) = KeyAt(t, h)
        BY ONLY <1>11, <2>2, Zenon
      <4> HIDE DEF Sets, Clears
      <4> QED BY <1>0, <1>10, <2>2, <4>1, BetweenLocks, Zenon
    <3>2. m \in 1 .. n - 1 /\ j < m
      BY <1>2, <1>10, <1>11, <2>1, <2>2, <3>1
    <3> QED BY <1>1, <1>9, <3>1, <3>2
  <2>5. h = j
    BY <1>10, <2>2, <2>3, <2>4
  <2>6. WellFormed(program.code[t][i])
    BY <1>0, <1>1, <2>1, CodeFacts
  <2>7. code[i] = shmem_clear_lock(l)
    BY <1>1, <1>10, <1>11, <2>2, <2>5, <2>6 DEF WellFormed, IsUnlock
  <2>8. i >= n
    <3> SUFFICES ASSUME i < n PROVE FALSE
      BY <1>2, <2>1
    <3>1. i \in 1 .. n - 1
      BY <1>2, <1>10, <1>11, <2>1
    <3> QED BY <1>9, <1>11, <2>7, <3>1
  <2> QED BY <1>2, <1>11, <2>1, <2>7, <2>8
<1>12. Active(t, j)
  <2>1. \A i \in j + 1 .. pc[t] - 1 : ~ClearsAt(t, i, KeyAt(t, j))
    <3> SUFFICES ASSUME NEW i \in j + 1 .. n - 1, ClearsAt(t, i, KeyAt(t, j)) PROVE FALSE
      BY <1>1
    <3>1. i \in Int /\ j < i /\ i < n
      BY <1>2, <1>10
    <3> QED BY <1>2, <1>11, <3>1 DEF ClearsAt
  <2> QED BY <1>1, <1>10, <2>1 DEF Active, Queued
<1>13. ~Cleared(t, KeyAt(t, j))
  <2> SUFFICES ASSUME stage[t] \in {"done", "put"}, ClearsAt(t, n, KeyAt(t, j)) PROVE FALSE
    BY <1>1 DEF Cleared
  <2>1. code[n] = shmem_clear_lock(l)
    BY <1>2, <1>10, <1>11 DEF ClearsAt
  <2>2. ~Ended(t)
    BY <1>0, NowFacts
  <2> QED BY <1>3, <2>1, <2>2
<1>14. Owned(t, j)
  BY <1>1, <1>2, <1>10, <1>12, <1>13 DEF Owned
<1> QED BY <1>10, <1>14

\* The invariant implies the property.
LEMMA LockImplies ==
    ASSUME LockInv
    PROVE  LockExclusion
<1>0. Types /\ Control /\ BusyInv /\ PutInv /\ OneFree /\ OwnerInv
  BY DEF LockInv, Chained, Held
<1>1. TypeOK
  <2>1. \A t \in Tasks : stage[t] = "put" => toPut[t] # NULL
    BY <1>0, PlaceNotNull DEF PutInv
  <2> QED BY <1>0, <2>1 DEF TypeOK, Types, Stages, BusyInv
<1>2. ~aborted
  BY <1>0 DEF Types
<1>3. ASSUME NEW l \in Locks, NEW t \in Tasks, NEW u \in Tasks, Holds(t, l), Holds(u, l)
      PROVE  t = u
  <2>1. PICK i \in Nat : Owned(t, i) /\ program.code[t][i].a = l
    BY <1>3, HoldsOwned
  <2>2. PICK j \in Nat : Owned(u, j) /\ program.code[u][j].a = l
    BY <1>3, HoldsOwned
  <2>3. PEOf[t] = PEOf[u]
    BY <1>0, <2>1, <2>2 DEF OwnerInv
  <2>4. Free(t, i) /\ Free(u, j)
    BY <2>1, <2>2, OwnedFree
  <2>5. KeyAt(t, i) = KeyAt(u, j)
    BY <2>1, <2>2 DEF KeyAt
  <2> QED BY <1>0, <2>3, <2>4, <2>5 DEF OneFree
<1> QED BY <1>1, <1>2, <1>3 DEF LockExclusion

\* A lock is held by one task at a time over all PEs and tasks, and none of
\* the assertions of shmem_set_lock and shmem_clear_lock fails, for any number
\* of PEs, tasks and locks and any programs that clear what they set.
THEOREM LockExclusionHolds == MpiSpec => []LockExclusion
<1>1. MpiInit => LockInv
  BY LockInit
<1>2. LockInv /\ [MpiNext]_mpiVars => LockInv'
  BY LockNext
<1>3. LockInv => LockExclusion
  BY LockImplies
<1> QED BY <1>1, <1>2, <1>3, PTL DEF MpiSpec

-----------------------------------------------------------------------------
(* Tickets *)

\* The program has a fetching add on address a of a PE.
IsCounter(pe, a) ==
    \E t \in Tasks : \E i \in DOMAIN program.code[t] :
        program.code[t][i].lib = "fadd" /\ program.code[t][i].pe = pe /\ program.code[t][i].a = a

\* Result i of task t is one of a fetching add, returned to it or about to be.
TicketOf(t, i) == IF i \in DOMAIN fetched[t] THEN fetched[t][i].of ELSE Now(t)
TicketValue(t, i) == IF i \in DOMAIN fetched[t] THEN fetched[t][i].value ELSE cell[t]
Ticket(t, i) ==
    /\ i \in DOMAIN fetched[t] \/ (i = Len(fetched[t]) + 1 /\ stage[t] = "done")
    /\ TicketOf(t, i).lib = "fadd"

Elements(s) == {s[i] : i \in DOMAIN s}

\* Results are sequences; only a request is pending.
ResultTypes ==
    /\ DOMAIN cell = Tasks /\ DOMAIN fetched = Tasks
    /\ \A t \in Tasks : fetched[t] \in Seq(Elements(fetched[t]))
    /\ \A t \in Tasks : stage[t] = "pending" => Now(t).via = "request"

\* Nothing is written to a counter but sums.
CounterInv ==
    /\ DOMAIN mem = PEs /\ (\A p \in PEs : DOMAIN mem[p] = Addrs)
    /\ \A pe, a : IsCounter(pe, a) => mem[pe][a] \in Nat
    /\ \A m \in flight : IsCounter(m.to, m.a) => m.kind = "add" /\ m.v \in Nat

IsRequest(r) ==
    r = [id |-> r.id, kind |-> r.kind, at |-> r.at, peer |-> r.peer, tag |-> r.tag, buf |-> r.buf,
         value |-> r.value, matched |-> r.matched]

RequestInv ==
    /\ reqs \in Seq(Elements(reqs))
    /\ \A r \in Elements(reqs) :
        IsRequest(r) /\ (r.kind = "recv" => ~IsCounter(r.at, r.buf))

\* A ticket is less than its counter, and no other one is the same.
DistinctInv ==
    \A t \in Tasks : \A i \in Nat : Ticket(t, i) =>
        LET ins == TicketOf(t, i) IN
        /\ IsCounter(ins.pe, ins.a)
        /\ TicketValue(t, i) \in Nat /\ TicketValue(t, i) < mem[ins.pe][ins.a]
        /\ \A u \in Tasks : \A j \in Nat :
            /\ Ticket(u, j) /\ TicketOf(u, j).pe = ins.pe /\ TicketOf(u, j).a = ins.a
            /\ TicketValue(u, j) = TicketValue(t, i)
            => t = u /\ i = j

CountedInv == ResultTypes /\ CounterInv /\ RequestInv /\ DistinctInv
TicketInv == Counted(program) => CountedInv

\* An element is appended to a sequence.
LEMMA AppendFacts ==
    ASSUME NEW s, NEW e, s \in Seq(Elements(s))
    PROVE  /\ Len(s) \in Nat /\ DOMAIN s = 1 .. Len(s)
           /\ Append(s, e) \in Seq(Elements(Append(s, e)))
           /\ DOMAIN Append(s, e) = 1 .. Len(s) + 1 /\ Len(Append(s, e)) = Len(s) + 1
           /\ \A i \in 1 .. Len(s) : Append(s, e)[i] = s[i]
           /\ Append(s, e)[Len(s) + 1] = e
           /\ Elements(Append(s, e)) = Elements(s) \cup {e}
<1> DEFINE S == Elements(s) \cup {e}
           z == Append(s, e)
<1>1. Len(s) \in Nat /\ DOMAIN s = 1 .. Len(s) /\ s \in [1 .. Len(s) -> Elements(s)]
  BY LenProperties
<1>2. s \in [1 .. Len(s) -> S]
  BY <1>1
<1>3. s \in Seq(S)
  BY <1>1, <1>2, SeqDef
<1> HIDE DEF S
<1>4. e \in S
  BY DEF S
<1>5. /\ z \in Seq(S) /\ Len(z) = Len(s) + 1
      /\ \A i \in 1 .. Len(s) : z[i] = s[i]
      /\ z[Len(s) + 1] = e
  BY <1>3, <1>4, AppendProperties
<1>6. DOMAIN z = 1 .. Len(s) + 1 /\ z \in [1 .. Len(s) + 1 -> S]
  BY <1>1, <1>5, LenProperties
<1> HIDE DEF z
<1>7. Elements(z) = Elements(s) \cup {e}
  <2>1. \A i \in DOMAIN z : z[i] \in Elements(s) \cup {e}
    <3> SUFFICES ASSUME NEW i \in DOMAIN z PROVE z[i] \in Elements(s) \cup {e}
      OBVIOUS
    <3>1. CASE i \in 1 .. Len(s)
      BY <1>1, <1>5, <3>1 DEF Elements
    <3>2. CASE i = Len(s) + 1
      BY <1>5, <3>2
    <3> QED BY <1>1, <1>6, <3>1, <3>2
  <2>2. \A i \in DOMAIN s : i \in DOMAIN z /\ z[i] = s[i]
    BY <1>1, <1>5, <1>6
  <2>3. Len(s) + 1 \in DOMAIN z
    BY <1>1, <1>6
  <2> QED BY <1>5, <2>1, <2>2, <2>3 DEF Elements
<1>8. z \in [1 .. Len(s) + 1 -> Elements(z)]
  BY <1>6 DEF Elements
<1>9. z \in Seq(Elements(z))
  BY <1>1, <1>8, SeqDef
<1> QED BY <1>1, <1>5, <1>6, <1>7, <1>9 DEF z

\* A fetching add of a counted program is on a counter.
LEMMA CountedFacts ==
    ASSUME Counted(program), NEW pe, NEW a, IsCounter(pe, a)
    PROVE  Counter(program, pe, a) /\ pe \in PEs /\ a \in Addrs
BY DEF Counted, IsCounter, Counter

\* No ticket is drawn, and counters do not go down.
LEMMA KeptTickets ==
    ASSUME DistinctInv, program' = program,
           \A pe, a : IsCounter(pe, a) => mem[pe][a] \in Nat /\ mem'[pe][a] \in Nat /\ mem'[pe][a] >= mem[pe][a],
           \A t \in Tasks : \A i \in Nat :
                Ticket(t, i)' => Ticket(t, i) /\ TicketOf(t, i)' = TicketOf(t, i) /\ TicketValue(t, i)' = TicketValue(t, i)
    PROVE  DistinctInv'
<1>1. \A pe, a : IsCounter(pe, a)' <=> IsCounter(pe, a)
  BY DEF IsCounter
<1> SUFFICES ASSUME NEW t \in Tasks, NEW i \in Nat, Ticket(t, i)'
             PROVE  /\ IsCounter(TicketOf(t, i)'.pe, TicketOf(t, i)'.a)
                    /\ TicketValue(t, i)' \in Nat /\ TicketValue(t, i)' < mem'[TicketOf(t, i)'.pe][TicketOf(t, i)'.a]
                    /\ \A u \in Tasks : \A j \in Nat :
                        /\ Ticket(u, j)' /\ TicketOf(u, j)'.pe = TicketOf(t, i)'.pe /\ TicketOf(u, j)'.a = TicketOf(t, i)'.a
                        /\ TicketValue(u, j)' = TicketValue(t, i)'
                        => t = u /\ i = j
  BY <1>1 DEF DistinctInv
<1> DEFINE ins == TicketOf(t, i)
<1>2. Ticket(t, i) /\ TicketOf(t, i)' = ins /\ TicketValue(t, i)' = TicketValue(t, i)
  OBVIOUS
<1>3. /\ IsCounter(ins.pe, ins.a)
      /\ TicketValue(t, i) \in Nat /\ TicketValue(t, i) < mem[ins.pe][ins.a]
      /\ \A u \in Tasks : \A j \in Nat :
            /\ Ticket(u, j) /\ TicketOf(u, j).pe = ins.pe /\ TicketOf(u, j).a = ins.a
            /\ TicketValue(u, j) = TicketValue(t, i)
            => t = u /\ i = j
  BY <1>2 DEF DistinctInv
<1> HIDE DEF ins
<1>4. TicketValue(t, i) < mem'[ins.pe][ins.a]
  BY <1>3
<1> QED BY <1>2, <1>3, <1>4

\* Task t draws a ticket from a counter.
LEMMA DrawnTicket ==
    ASSUME DistinctInv, program' = program, NEW t \in Tasks, NEW n \in Nat, NEW pe, NEW a, IsCounter(pe, a),
           TicketOf(t, n)'.pe = pe, TicketOf(t, n)'.a = a, TicketValue(t, n)' = mem[pe][a], mem'[pe][a] > mem[pe][a],
           \A p, b : IsCounter(p, b) => mem[p][b] \in Nat /\ mem'[p][b] \in Nat /\ mem'[p][b] >= mem[p][b],
           \A u \in Tasks : \A i \in Nat : Ticket(u, i)' =>
                \/ u = t /\ i = n
                \/ Ticket(u, i) /\ TicketOf(u, i)' = TicketOf(u, i) /\ TicketValue(u, i)' = TicketValue(u, i)
    PROVE  DistinctInv'
<1>1. \A p, b : IsCounter(p, b)' <=> IsCounter(p, b)
  BY DEF IsCounter
<1> DEFINE New(u, i) == u = t /\ i = n
           Old(u, i) == /\ Ticket(u, i) /\ TicketOf(u, i)' = TicketOf(u, i) /\ TicketValue(u, i)' = TicketValue(u, i)
                        /\ IsCounter(TicketOf(u, i).pe, TicketOf(u, i).a)
                        /\ TicketValue(u, i) \in Nat /\ TicketValue(u, i) < mem[TicketOf(u, i).pe][TicketOf(u, i).a]
           Same(u, i, w, j) == /\ TicketOf(u, i)'.pe = TicketOf(w, j)'.pe /\ TicketOf(u, i)'.a = TicketOf(w, j)'.a
                               /\ TicketValue(u, i)' = TicketValue(w, j)'
<1>2. \A u \in Tasks : \A i \in Nat : Ticket(u, i)' => New(u, i) \/ Old(u, i)
  BY DEF DistinctInv
<1>3. ASSUME NEW u \in Tasks, NEW w \in Tasks, NEW i \in Nat, NEW j \in Nat, Old(u, i), Old(w, j), Same(u, i, w, j)
      PROVE  u = w /\ i = j
  <2>1. TicketOf(u, i).pe = TicketOf(w, j).pe /\ TicketOf(u, i).a = TicketOf(w, j).a /\ TicketValue(u, i) = TicketValue(w, j)
    BY <1>3
  <2> QED BY <1>3, <2>1 DEF DistinctInv
<1>4. \A u, w \in Tasks : \A i, j \in Nat : ~(New(u, i) /\ Old(w, j) /\ Same(u, i, w, j))
  OBVIOUS
<1>5. mem[pe][a] \in Nat /\ mem'[pe][a] \in Nat
  OBVIOUS
<1>6. \A u \in Tasks : \A i \in Nat : Old(u, i) =>
        TicketValue(u, i) < mem'[TicketOf(u, i).pe][TicketOf(u, i).a]
  OBVIOUS
<1> SUFFICES ASSUME NEW u \in Tasks, NEW i \in Nat, Ticket(u, i)'
             PROVE  /\ IsCounter(TicketOf(u, i)'.pe, TicketOf(u, i)'.a)
                    /\ TicketValue(u, i)' \in Nat /\ TicketValue(u, i)' < mem'[TicketOf(u, i)'.pe][TicketOf(u, i)'.a]
                    /\ \A w \in Tasks : \A j \in Nat : Ticket(w, j)' /\ Same(w, j, u, i) => u = w /\ i = j
  BY <1>1 DEF DistinctInv
<1>7. CASE New(u, i)
  BY <1>2, <1>4, <1>5, <1>7
<1>8. CASE Old(u, i)
  <2>1. \A w \in Tasks : \A j \in Nat : Ticket(w, j)' /\ Same(w, j, u, i) => u = w /\ i = j
    BY <1>2, <1>3, <1>4, <1>8
  <2> QED BY <1>6, <1>8, <2>1
<1> QED BY <1>2, <1>7, <1>8

\* The library, the results and the requests are left alone, and no call of a
\* fetching add ends.
LEMMA QuietTickets ==
    ASSUME Counted(program), CountedInv, Types', Control', RequestInv',
           UNCHANGED <<program, mem, cell, fetched>>, flight' \subseteq flight,
           \A u \in Tasks : stage'[u] \in {"done", "pending"} =>
                \/ stage'[u] = stage[u] /\ pc'[u] = pc[u]
                \/ program.code[u][pc'[u]].via = "request"
    PROVE  CountedInv'
<1>0. ResultTypes /\ CounterInv /\ DistinctInv
  BY DEF CountedInv
<1>1. \A u \in Tasks : Now(u)' = program.code[u][pc'[u]] /\ Now(u) = program.code[u][pc[u]]
  BY DEF Now
<1>2. ResultTypes'
  <2>1. \A u \in Tasks : stage'[u] = "pending" => Now(u)'.via = "request"
    BY <1>0, <1>1 DEF ResultTypes
  <2> QED BY <1>0, <2>1 DEF ResultTypes, Elements
<1>3. \A pe, a : IsCounter(pe, a)' <=> IsCounter(pe, a)
  BY DEF IsCounter
<1>4. CounterInv'
  BY <1>0, <1>3 DEF CounterInv, Elements
<1>5. \A u \in Tasks : \A i \in Nat :
        Ticket(u, i)' => Ticket(u, i) /\ TicketOf(u, i)' = TicketOf(u, i) /\ TicketValue(u, i)' = TicketValue(u, i)
  <2> SUFFICES ASSUME NEW u \in Tasks, NEW i \in Nat, Ticket(u, i)'
               PROVE  Ticket(u, i) /\ TicketOf(u, i)' = TicketOf(u, i) /\ TicketValue(u, i)' = TicketValue(u, i)
    OBVIOUS
  <2>1. CASE i \in DOMAIN fetched[u]
    BY <2>1 DEF Ticket, TicketOf, TicketValue
  <2>2. CASE i \notin DOMAIN fetched[u]
    <3>1. i = Len(fetched[u]) + 1 /\ stage'[u] = "done" /\ Now(u)'.lib = "fadd"
      BY <2>2 DEF Ticket, TicketOf
    <3>2. ASSUME program.code[u][pc'[u]].via = "request" PROVE stage'[u] = stage[u] /\ pc'[u] = pc[u]
      <4>1. pc'[u] \in DOMAIN program.code[u]
        BY <3>1 DEF Control
      <4> QED BY <1>1, <3>1, <3>2, <4>1 DEF Counted
    <3>3. stage[u] = "done" /\ pc'[u] = pc[u]
      BY <3>1, <3>2
    <3> QED BY <1>1, <2>2, <3>1, <3>3 DEF Ticket, TicketOf, TicketValue
  <2> QED BY <2>1, <2>2
<1>6. DistinctInv'
  <2>1. \A pe, a : IsCounter(pe, a) => mem[pe][a] \in Nat /\ mem'[pe][a] \in Nat /\ mem'[pe][a] >= mem[pe][a]
    BY <1>0 DEF CounterInv
  <2> QED BY <1>0, <1>5, <2>1, KeptTickets
<1> QED BY <1>2, <1>4, <1>6 DEF CountedInv

\* What a call does to counters, messages and results.
LEMMA EffectTickets ==
    ASSUME Counted(program), CountedInv, Types, program' = program, NEW t \in Tasks, NEW k \in DOMAIN program.code[t],
           NEW c, NEW ins, ins = program.code[t][k], Effect(t, c, ins)
    PROVE  /\ CounterInv'
           /\ \A pe, a : IsCounter(pe, a) => mem[pe][a] \in Nat /\ mem'[pe][a] \in Nat /\ mem'[pe][a] >= mem[pe][a]
           /\ DOMAIN cell' = Tasks /\ \A u \in Tasks \ {t} : cell'[u] = cell[u]
           /\ ins.lib = "fadd" =>
                /\ IsCounter(ins.pe, ins.a)
                /\ cell'[t] = mem[ins.pe][ins.a] /\ mem'[ins.pe][ins.a] > mem[ins.pe][ins.a]
<1>0. /\ DOMAIN mem = PEs /\ (\A p \in PEs : DOMAIN mem[p] = Addrs)
      /\ \A pe, a : IsCounter(pe, a) => mem[pe][a] \in Nat
      /\ \A m \in flight : IsCounter(m.to, m.a) => m.kind = "add" /\ m.v \in Nat
      /\ DOMAIN cell = Tasks /\ PEOf[t] \in PEs
  BY CodeFacts DEF CountedInv, CounterInv, ResultTypes
<1>1. \A pe, a : IsCounter(pe, a)' <=> IsCounter(pe, a)
  BY DEF IsCounter
<1>2. \A pe, a : IsCounter(pe, a) =>
        /\ pe \in PEs /\ a \in Addrs /\ ~Overwrites(t, ins, pe, a)
        /\ ins.lib \in {"fadd", "add"} /\ ins.pe = pe /\ ins.a = a => ins.v \in Nat \ {0}
  BY CountedFacts DEF Counter
<1>3. \A p, a, v, pe, b : LET new == [mem EXCEPT ![p][a] = v] IN
        /\ DOMAIN new = PEs /\ (\A q \in PEs : DOMAIN new[q] = Addrs)
        /\ pe \in PEs /\ b \in Addrs => new[pe][b] = IF p = pe /\ a = b THEN v ELSE mem[pe][b]
  BY <1>0
\* It is enough to look at memory and messages.
<1> DEFINE Grows == \A pe, a : IsCounter(pe, a) => mem'[pe][a] \in Nat /\ mem'[pe][a] >= mem[pe][a]
           Shaped == DOMAIN mem' = PEs /\ (\A p \in PEs : DOMAIN mem'[p] = Addrs)
           Added == \A m \in flight' : IsCounter(m.to, m.a) => m.kind = "add" /\ m.v \in Nat
           Cells == DOMAIN cell' = Tasks /\ \A u \in Tasks \ {t} : cell'[u] = cell[u]
           Draws == ins.lib = "fadd" =>
                        /\ IsCounter(ins.pe, ins.a)
                        /\ cell'[t] = mem[ins.pe][ins.a] /\ mem'[ins.pe][ins.a] > mem[ins.pe][ins.a]
<1>4. ASSUME Grows, Shaped, Added, Cells, Draws
      PROVE  /\ CounterInv' /\ Cells /\ Draws
             /\ \A pe, a : IsCounter(pe, a) => mem[pe][a] \in Nat /\ mem'[pe][a] \in Nat /\ mem'[pe][a] >= mem[pe][a]
  BY <1>0, <1>1, <1>4 DEF CounterInv
<1>5. ASSUME mem' = mem PROVE Grows /\ Shaped
  BY <1>0, <1>5
<1>6. ASSUME flight' = flight PROVE Added
  BY <1>0, <1>6
<1>7. ASSUME cell' = cell PROVE Cells
  BY <1>0, <1>7
<1>16. ASSUME NEW p, NEW b, NEW v, mem' = [mem EXCEPT ![p][b] = v],
              \A pe, a : IsCounter(pe, a) => ~(p = pe /\ b = a)
       PROVE  Grows /\ Shaped
  <2>1. Shaped
    BY ONLY <1>3, <1>16, Zenon
  <2>2. ASSUME NEW pe, NEW a, IsCounter(pe, a)
        PROVE  mem'[pe][a] \in Nat /\ mem'[pe][a] >= mem[pe][a]
    <3>1. pe \in PEs /\ a \in Addrs /\ ~(p = pe /\ b = a) /\ mem[pe][a] \in Nat
      BY ONLY <1>0, <1>2, <1>16, <2>2, Zenon
    <3>2. mem'[pe][a] = mem[pe][a]
      BY ONLY <1>3, <1>16, <3>1, Zenon
    <3> QED BY ONLY <3>1, <3>2
  <2> QED BY <2>1, <2>2
<1> HIDE DEF Cells
<1>8. CASE ins.lib \in {"put", "p", "add"}
  <2>1. /\ mem' = mem /\ cell' = cell
        /\ flight' = flight \cup {Message(t, c, IF ins.lib = "add" THEN "add" ELSE "put", ins.a,
                                        IF ins.lib = "put" THEN mem[PEOf[t]][ins.b] ELSE ins.v, ins.pe, epoch[PEOf[t]])}
    BY <1>8 DEF Effect, Fetching, Collective
  <2>2. Added
    <3> SUFFICES ASSUME NEW m \in flight', IsCounter(m.to, m.a) PROVE m.kind = "add" /\ m.v \in Nat
      OBVIOUS
    <3>1. CASE m \in flight
      BY ONLY <1>0, <3>1, IsCounter(m.to, m.a), Zenon
    <3>2. CASE m \notin flight
      <4>1. /\ m.to = ins.pe /\ m.a = ins.a
            /\ m.kind = (IF ins.lib = "add" THEN "add" ELSE "put")
            /\ m.v = IF ins.lib = "put" THEN mem[PEOf[t]][ins.b] ELSE ins.v
        <5> USE ONLY <2>1, <3>2, m \in flight'
        <5> QED BY DEF Message
      <4>2. ~Overwrites(t, ins, ins.pe, ins.a) /\ (ins.lib \in {"fadd", "add"} => ins.v \in Nat \ {0})
        BY ONLY <1>2, <4>1, IsCounter(m.to, m.a), Zenon
      <4>3. ins.lib = "add"
        BY ONLY <1>8, <4>2 DEF Overwrites
      <4> QED BY ONLY <4>1, <4>2, <4>3
    <3> QED BY ONLY <3>1, <3>2
  <2> QED BY <1>4, <1>5, <1>7, <1>8, <2>1, <2>2 DEF Cells
<1>9. CASE ins.lib = "put_signal"
  <2>1. mem' = mem /\ cell' = cell /\ PutSignal(t, c, ins)
    BY <1>9 DEF Effect, Fetching, Collective
  <2>2. Added
    <3> SUFFICES ASSUME NEW m \in flight', IsCounter(m.to, m.a) PROVE m.kind = "add" /\ m.v \in Nat
      OBVIOUS
    <3>1. CASE m \in flight
      BY ONLY <1>0, <3>1, IsCounter(m.to, m.a), Zenon
    <3>2. CASE m \notin flight
      <4>1. m.to = ins.pe /\ (m.a = ins.a \/ m.a = ins.v[1])
        <5> USE ONLY <2>1, <3>2, m \in flight'
        <5> QED BY DEF Message, PutSignal
      <4>2. ~Overwrites(t, ins, m.to, m.a)
        BY ONLY <1>2, IsCounter(m.to, m.a), Zenon
      <4> QED BY ONLY <1>9, <4>1, <4>2 DEF Overwrites
    <3> QED BY ONLY <3>1, <3>2
  <2> QED BY <1>4, <1>5, <1>7, <1>9, <2>1, <2>2 DEF Cells
<1>10. CASE ins.lib = "get"
  <2>1. mem' = [mem EXCEPT ![PEOf[t]][ins.a] = mem[ins.pe][ins.b]] /\ flight' = flight /\ cell' = cell
    BY <1>10 DEF Effect, Fetching, Collective
  <2>2. Grows /\ Shaped
    <3>1. \A pe, a : IsCounter(pe, a) => ~(PEOf[t] = pe /\ ins.a = a)
      BY ONLY <1>2, <1>10, Zenon DEF Overwrites
    <3> QED BY ONLY <1>16, <2>1, <3>1, Zenon
  <2> QED BY <1>4, <1>6, <1>7, <1>10, <2>1, <2>2 DEF Cells
<1>11. CASE ins.lib \in {"swap", "cswap"}
  <2>1. PICK v : mem' = [mem EXCEPT ![ins.pe][ins.a] = v]
    BY <1>11 DEF Effect, Fetching, Collective
  <2>2. flight' = flight /\ cell' = [cell EXCEPT ![t] = mem[ins.pe][ins.a]]
    BY <1>11 DEF Effect, Fetching, Collective, ResultOf
  <2>3. Grows /\ Shaped
    <3>0. ins.lib \in {"put", "p", "put_signal", "swap", "cswap"}
      BY ONLY <1>11
    <3>1. \A pe, a : IsCounter(pe, a) => ~(ins.pe = pe /\ ins.a = a)
      BY ONLY <1>2, <3>0, Zenon DEF Overwrites
    <3> QED BY ONLY <1>16, <2>1, <3>1, Zenon
  <2>4. Cells
    BY <1>0, <2>2 DEF Cells
  <2> QED BY <1>4, <1>6, <1>11, <2>2, <2>3, <2>4 DEF Cells
<1>12. CASE ins.lib = "fadd"
  <2>1. /\ mem' = [mem EXCEPT ![ins.pe][ins.a] = mem[ins.pe][ins.a] + ins.v]
        /\ flight' = flight /\ cell' = [cell EXCEPT ![t] = mem[ins.pe][ins.a]]
    BY <1>12 DEF Effect, Fetching, Collective, ResultOf
  <2>2. IsCounter(ins.pe, ins.a)
    BY <1>12 DEF IsCounter
  <2>3. ins.v \in Nat \ {0} /\ ins.pe \in PEs /\ ins.a \in Addrs /\ mem[ins.pe][ins.a] \in Nat
    BY <1>0, <1>2, <1>12, <2>2
  <2>4. mem'[ins.pe][ins.a] = mem[ins.pe][ins.a] + ins.v
    BY ONLY <1>3, <2>1, <2>3, Zenon
  <2>5. Grows /\ Shaped
    <3>1. Shaped
      BY <1>3, <2>1
    <3>2. ASSUME NEW pe, NEW a, IsCounter(pe, a)
          PROVE  mem'[pe][a] \in Nat /\ mem'[pe][a] >= mem[pe][a]
      <4>1. pe \in PEs /\ a \in Addrs /\ mem[pe][a] \in Nat
        BY <1>0, <1>2, <3>2
      <4>2. CASE pe = ins.pe /\ a = ins.a
        <5>1. PICK o, d : o = mem[pe][a] /\ d = ins.v
          OBVIOUS
        <5>2. o \in Nat /\ d \in Nat /\ mem'[pe][a] = o + d
          BY ONLY <2>3, <2>4, <4>1, <4>2, <5>1
        <5> QED BY ONLY <5>1, <5>2
      <4>3. CASE ~(pe = ins.pe /\ a = ins.a)
        <5>1. mem'[pe][a] = mem[pe][a]
          BY ONLY <1>3, <2>1, <4>1, <4>3, Zenon
        <5> QED BY <4>1, <5>1
      <4> QED BY <4>2, <4>3
    <3> QED BY <3>1, <3>2
  <2>6. Cells /\ cell'[t] = mem[ins.pe][ins.a]
    BY <1>0, <2>1 DEF Cells
  <2>7. Draws
    <3>1. PICK o, d : o = mem[ins.pe][ins.a] /\ d = ins.v
      OBVIOUS
    <3>2. o \in Nat /\ d \in Nat \ {0} /\ mem'[ins.pe][ins.a] = o + d
      BY ONLY <2>3, <2>4, <3>1
    <3>3. mem'[ins.pe][ins.a] > mem[ins.pe][ins.a]
      BY ONLY <3>1, <3>2
    <3> QED BY ONLY <2>2, <2>6, <3>3, Zenon
  <2> QED BY <1>4, <1>6, <2>1, <2>5, <2>6, <2>7 DEF Cells
<1>13. CASE ins.lib \in Collective
  <2>1. flight' = flight /\ cell' = cell
    BY <1>13 DEF Effect, Fetching, Collective
  <2>2. mem' = mem \/ \E v : mem' = [mem EXCEPT ![PEOf[t]][ins.a] = v]
    BY <1>13 DEF Effect, Fetching, Collective
  <2>3. Grows /\ Shaped
    <3>1. CASE mem' = mem
      BY <1>5, <3>1
    <3>2. ASSUME NEW v, mem' = [mem EXCEPT ![PEOf[t]][ins.a] = v] PROVE Grows /\ Shaped
      <4>1. \A pe, a : IsCounter(pe, a) => ~(PEOf[t] = pe /\ ins.a = a)
        BY ONLY <1>2, <1>13, Zenon DEF Overwrites
      <4> QED BY ONLY <1>16, <3>2, <4>1, Zenon
    <3> QED BY <2>2, <3>1, <3>2
  <2> QED BY <1>4, <1>6, <1>7, <1>13, <2>1, <2>3 DEF Collective, Cells
<1>14. CASE ins.lib \in {"fence", "quiet", "set_lock", "clear_lock"}
  <2>1. flight' = flight /\ cell' = cell /\ mem' = mem
    BY <1>14 DEF Effect, Fetching, Collective
  <2> QED BY <1>4, <1>5, <1>6, <1>7, <1>14, <2>1 DEF Cells
<1>15. ins.lib \in {"put", "p", "add", "put_signal", "get", "swap", "cswap", "fadd", "fence", "quiet", "set_lock", "clear_lock"}
        \/ ins.lib \in Collective
  BY DEF Effect, Fetching
<1> QED BY <1>8, <1>9, <1>10, <1>11, <1>12, <1>13, <1>14, <1>15 DEF Cells

\* NicReturn
LEMMA NicReturnTickets ==
    ASSUME Counted(program), CountedInv, Types, Control, NEW t \in Tasks, NicReturn(t), reqs' = reqs
    PROVE  CountedInv'
<1>0. ResultTypes /\ RequestInv /\ DistinctInv
  BY DEF CountedInv
<1> DEFINE ins == Now(t)
<1>1. /\ stage[t] \in {"posted", "entered"} /\ Effect(t, Default, ins)
      /\ stage' = [stage EXCEPT ![t] = "done"] /\ UNCHANGED <<program, pc, fetched>>
  BY DEF NicReturn, Inside, Goes
<1>2. pc[t] \in DOMAIN program.code[t] /\ ins = program.code[t][pc[t]]
  BY <1>1, NowFacts DEF Now
<1> HIDE DEF ins
<1>3. /\ CounterInv'
      /\ \A pe, a : IsCounter(pe, a) => mem[pe][a] \in Nat /\ mem'[pe][a] \in Nat /\ mem'[pe][a] >= mem[pe][a]
      /\ DOMAIN cell' = Tasks /\ \A u \in Tasks \ {t} : cell'[u] = cell[u]
      /\ ins.lib = "fadd" =>
            /\ IsCounter(ins.pe, ins.a)
            /\ cell'[t] = mem[ins.pe][ins.a] /\ mem'[ins.pe][ins.a] > mem[ins.pe][ins.a]
  BY <1>1, <1>2, EffectTickets
<1>4. \A u \in Tasks : Now(u)' = Now(u) /\ (u # t => stage'[u] = stage[u])
  BY <1>1 DEF Now, Types
<1>5. stage'[t] = "done"
  BY <1>1 DEF Types
<1>6. ResultTypes'
  <2>1. \A u \in Tasks : stage'[u] = "pending" => Now(u)'.via = "request"
    BY <1>0, <1>4, <1>5 DEF ResultTypes
  <2> QED BY <1>0, <1>1, <1>3, <2>1 DEF ResultTypes, Elements
<1>7. RequestInv'
  BY <1>0, <1>1 DEF RequestInv, IsCounter, Elements
<1>8. PICK n \in Nat : n = Len(fetched[t]) + 1 /\ n \notin DOMAIN fetched[t]
  BY <1>0, LenProperties DEF ResultTypes
<1>9. \A u \in Tasks : \A i \in Nat : Ticket(u, i)' =>
        \/ u = t /\ i = n /\ ins.lib = "fadd"
        \/ Ticket(u, i) /\ TicketOf(u, i)' = TicketOf(u, i) /\ TicketValue(u, i)' = TicketValue(u, i)
  <2> SUFFICES ASSUME NEW u \in Tasks, NEW i \in Nat, Ticket(u, i)', ~(u = t /\ i = n /\ ins.lib = "fadd")
               PROVE  Ticket(u, i) /\ TicketOf(u, i)' = TicketOf(u, i) /\ TicketValue(u, i)' = TicketValue(u, i)
    OBVIOUS
  <2>1. CASE i \in DOMAIN fetched[u]
    BY <1>1, <2>1 DEF Ticket, TicketOf, TicketValue
  <2>2. CASE i \notin DOMAIN fetched[u]
    <3>1. i = Len(fetched[u]) + 1 /\ Now(u)'.lib = "fadd" /\ stage'[u] = "done"
      BY <1>1, <2>2 DEF Ticket, TicketOf
    <3>2. u # t
      BY <1>4, <1>8, <3>1 DEF ins
    <3> QED BY <1>1, <1>3, <1>4, <2>2, <3>1, <3>2 DEF Ticket, TicketOf, TicketValue
  <2> QED BY <2>1, <2>2
<1>10. DistinctInv'
  <2>1. CASE ins.lib # "fadd"
    BY <1>0, <1>1, <1>3, <1>9, <2>1, KeptTickets
  <2>2. CASE ins.lib = "fadd"
    <3>1. TicketOf(t, n)' = ins /\ TicketValue(t, n)' = cell'[t]
      BY <1>1, <1>4, <1>8 DEF TicketOf, TicketValue, ins
    <3>2. IsCounter(ins.pe, ins.a) /\ cell'[t] = mem[ins.pe][ins.a] /\ mem'[ins.pe][ins.a] > mem[ins.pe][ins.a]
      BY <1>3, <2>2
    <3> QED BY <1>0, <1>1, <1>3, <1>9, <3>1, <3>2, DrawnTicket
  <2> QED BY <2>1, <2>2
<1> QED BY <1>3, <1>6, <1>7, <1>10 DEF CountedInv

\* OnContext
LEMMA OnContextTickets ==
    ASSUME Counted(program), CountedInv, Types, Control, NEW t \in Tasks, OnContext(t), reqs' = reqs
    PROVE  CountedInv'
<1>0. ResultTypes /\ RequestInv /\ DistinctInv
  BY DEF CountedInv
<1> DEFINE ins == Now(t)
           result == [of |-> ins, value |-> cell'[t]]
<1>1. PICK c : Effect(t, c, ins)
  BY DEF OnContext
<1>2. /\ stage[t] = "run" /\ ~Ended(t)
      /\ fetched' = IF ins.lib \in Fetching THEN [fetched EXCEPT ![t] = Append(@, result)] ELSE fetched
      /\ stage' = [stage EXCEPT ![t] = "run"] /\ pc' = [pc EXCEPT ![t] = @ + 1] /\ program' = program
  BY DEF OnContext, In, Result, Returns, ResultOf
<1>3. pc[t] \in DOMAIN program.code[t] /\ ins = program.code[t][pc[t]]
  BY <1>2, NowFacts DEF Now
<1> HIDE DEF ins
<1>4. /\ CounterInv'
      /\ \A pe, a : IsCounter(pe, a) => mem[pe][a] \in Nat /\ mem'[pe][a] \in Nat /\ mem'[pe][a] >= mem[pe][a]
      /\ DOMAIN cell' = Tasks /\ \A u \in Tasks \ {t} : cell'[u] = cell[u]
      /\ ins.lib = "fadd" =>
            /\ IsCounter(ins.pe, ins.a)
            /\ cell'[t] = mem[ins.pe][ins.a] /\ mem'[ins.pe][ins.a] > mem[ins.pe][ins.a]
  BY <1>1, <1>2, <1>3, EffectTickets
<1>5. \A u \in Tasks \ {t} : Now(u)' = Now(u) /\ stage'[u] = stage[u] /\ fetched'[u] = fetched[u]
  BY <1>0, <1>2 DEF Now, Types, ResultTypes
<1>6. stage'[t] = "run"
  BY <1>2 DEF Types
<1> DEFINE old == fetched[t]
           new == fetched'[t]
<1>7. DOMAIN fetched' = Tasks /\ new = IF ins.lib \in Fetching THEN Append(old, result) ELSE old
  BY <1>0, <1>2 DEF ResultTypes
<1>8. old \in Seq(Elements(old))
  BY <1>0 DEF ResultTypes
<1> HIDE DEF result
<1>9. PICK n \in Nat : n = Len(old) + 1
  BY <1>8, LenProperties
<1>10. /\ Len(old) \in Nat /\ DOMAIN old = 1 .. Len(old) /\ new \in Seq(Elements(new))
       /\ \A i \in DOMAIN old : i \in DOMAIN new /\ new[i] = old[i]
       /\ \A i \in DOMAIN new : i \in DOMAIN old \/ (i = n /\ ins.lib \in Fetching)
       /\ ins.lib \in Fetching => n \in DOMAIN new /\ new[n] = result
  <2> HIDE DEF old, new
  <2>1. CASE ins.lib \in Fetching
    <3>1. /\ Len(old) \in Nat /\ DOMAIN old = 1 .. Len(old)
          /\ new \in Seq(Elements(new)) /\ DOMAIN new = 1 .. Len(old) + 1
          /\ \A i \in 1 .. Len(old) : new[i] = old[i]
          /\ new[Len(old) + 1] = result
      BY <1>7, <1>8, <2>1, AppendFacts
    <3> QED BY <1>9, <2>1, <3>1
  <2>2. CASE ins.lib \notin Fetching
    BY <1>7, <1>8, <2>2, LenProperties
  <2> QED BY <2>1, <2>2
<1>11. ResultTypes'
  <2>1. \A u \in Tasks : stage'[u] = "pending" => Now(u)'.via = "request"
    BY <1>0, <1>5, <1>6 DEF ResultTypes
  <2>2. \A u \in Tasks : fetched'[u] \in Seq(Elements(fetched'[u]))
    BY <1>0, <1>5, <1>10 DEF ResultTypes
  <2> QED BY <1>4, <1>7, <2>1, <2>2 DEF ResultTypes, Elements
<1>12. RequestInv'
  BY <1>0, <1>2 DEF RequestInv, IsCounter, Elements
<1>13. \A u \in Tasks : \A i \in Nat : Ticket(u, i)' =>
        \/ u = t /\ i = n /\ ins.lib = "fadd"
        \/ Ticket(u, i) /\ TicketOf(u, i)' = TicketOf(u, i) /\ TicketValue(u, i)' = TicketValue(u, i)
  <2> SUFFICES ASSUME NEW u \in Tasks, NEW i \in Nat, Ticket(u, i)', ~(u = t /\ i = n /\ ins.lib = "fadd")
               PROVE  Ticket(u, i) /\ TicketOf(u, i)' = TicketOf(u, i) /\ TicketValue(u, i)' = TicketValue(u, i)
    OBVIOUS
  <2>1. CASE u # t
    BY <1>4, <1>5, <2>1 DEF Ticket, TicketOf, TicketValue
  <2>2. CASE u = t
    <3>1. i \in DOMAIN new /\ new[i].of.lib = "fadd"
      BY <1>6, <2>2 DEF Ticket, TicketOf
    <3>2. i \in DOMAIN old
      BY <1>10, <2>2, <3>1 DEF result
    <3> QED BY <1>10, <2>2, <3>1, <3>2 DEF Ticket, TicketOf, TicketValue
  <2> QED BY <2>1, <2>2
<1>14. DistinctInv'
  <2>1. CASE ins.lib # "fadd"
    BY <1>0, <1>2, <1>4, <1>13, <2>1, KeptTickets
  <2>2. CASE ins.lib = "fadd"
    <3>1. TicketOf(t, n)' = ins /\ TicketValue(t, n)' = cell'[t]
      BY <1>10, <2>2 DEF TicketOf, TicketValue, result, Fetching
    <3>2. IsCounter(ins.pe, ins.a) /\ cell'[t] = mem[ins.pe][ins.a] /\ mem'[ins.pe][ins.a] > mem[ins.pe][ins.a]
      BY <1>4, <2>2
    <3> QED BY <1>0, <1>2, <1>4, <1>13, <3>1, <3>2, DrawnTicket
  <2> QED BY <2>1, <2>2
<1> QED BY <1>4, <1>11, <1>12, <1>14 DEF CountedInv

\* Resume: what was about to be returned is returned.
LEMMA ResumeTickets ==
    ASSUME Counted(program), CountedInv, Types, Control, NEW t \in Tasks, Resume(t), reqs' = reqs
    PROVE  CountedInv'
<1>0. ResultTypes /\ CounterInv /\ RequestInv /\ DistinctInv
  BY DEF CountedInv
<1> DEFINE ins == Now(t)
           result == [of |-> ins, value |-> cell[t]]
           old == fetched[t]
           new == fetched'[t]
           n == Len(old) + 1
<1>1. /\ stage[t] = "done" /\ UNCHANGED <<mem, cell, flight>>
      /\ fetched' = IF ins.lib \in Fetching THEN [fetched EXCEPT ![t] = Append(@, result)] ELSE fetched
      /\ stage' = [stage EXCEPT ![t] = "run"] /\ pc' = [pc EXCEPT ![t] = @ + 1] /\ program' = program
  BY DEF Resume, In, Result, Returns, ResultOf
<1>2. \A u \in Tasks \ {t} : Now(u)' = Now(u) /\ stage'[u] = stage[u] /\ fetched'[u] = fetched[u]
  BY <1>0, <1>1 DEF Now, Types, ResultTypes
<1>3. stage'[t] = "run"
  BY <1>1 DEF Types
<1>4. DOMAIN fetched' = Tasks /\ new = IF ins.lib \in Fetching THEN Append(old, result) ELSE old
  BY <1>0, <1>1 DEF ResultTypes
<1>5. old \in Seq(Elements(old))
  BY <1>0 DEF ResultTypes
<1> HIDE DEF result, ins
<1>6. /\ Len(old) \in Nat /\ DOMAIN old = 1 .. Len(old) /\ new \in Seq(Elements(new))
      /\ \A i \in DOMAIN old : i \in DOMAIN new /\ new[i] = old[i]
      /\ \A i \in DOMAIN new : i \in DOMAIN old \/ (i = n /\ new[n] = result)
  <2> HIDE DEF old, new
  <2>1. CASE ins.lib \in Fetching
    <3>1. /\ Len(old) \in Nat /\ DOMAIN old = 1 .. Len(old)
          /\ new \in Seq(Elements(new)) /\ DOMAIN new = 1 .. Len(old) + 1
          /\ \A i \in 1 .. Len(old) : new[i] = old[i]
          /\ new[Len(old) + 1] = result
      BY <1>4, <1>5, <2>1, AppendFacts
    <3> QED BY <2>1, <3>1
  <2>2. CASE ins.lib \notin Fetching
    BY <1>4, <1>5, <2>2, LenProperties
  <2> QED BY <2>1, <2>2
<1>7. ResultTypes'
  <2>1. \A u \in Tasks : stage'[u] = "pending" => Now(u)'.via = "request"
    BY <1>0, <1>2, <1>3 DEF ResultTypes
  <2>2. \A u \in Tasks : fetched'[u] \in Seq(Elements(fetched'[u]))
    BY <1>0, <1>2, <1>6 DEF ResultTypes
  <2> QED BY <1>0, <1>1, <1>4, <2>1, <2>2 DEF ResultTypes, Elements
<1>8. \A pe, a : IsCounter(pe, a)' <=> IsCounter(pe, a)
  BY <1>1 DEF IsCounter
<1>9. RequestInv' /\ CounterInv'
  BY <1>0, <1>1, <1>8 DEF RequestInv, CounterInv, Elements
<1>10. \A u \in Tasks : \A i \in Nat : Ticket(u, i)' =>
         Ticket(u, i) /\ TicketOf(u, i)' = TicketOf(u, i) /\ TicketValue(u, i)' = TicketValue(u, i)
  <2> SUFFICES ASSUME NEW u \in Tasks, NEW i \in Nat, Ticket(u, i)'
               PROVE  Ticket(u, i) /\ TicketOf(u, i)' = TicketOf(u, i) /\ TicketValue(u, i)' = TicketValue(u, i)
    OBVIOUS
  <2>1. CASE u # t
    BY <1>1, <1>2, <2>1 DEF Ticket, TicketOf, TicketValue
  <2>2. CASE u = t
    <3>1. i \in DOMAIN new /\ new[i].of.lib = "fadd"
      BY <1>3, <2>2 DEF Ticket, TicketOf
    <3>2. CASE i \in DOMAIN old
      BY <1>6, <2>2, <3>1, <3>2 DEF Ticket, TicketOf, TicketValue
    <3>3. CASE i \notin DOMAIN old
      <4>1. i = n /\ new[i] = result
        BY <1>6, <3>1, <3>3
      <4> QED BY <1>1, <2>2, <3>1, <3>3, <4>1 DEF Ticket, TicketOf, TicketValue, result, ins
    <3> QED BY <3>2, <3>3
  <2> QED BY <2>1, <2>2
<1>11. DistinctInv'
  <2>1. \A pe, a : IsCounter(pe, a) => mem[pe][a] \in Nat /\ mem'[pe][a] \in Nat /\ mem'[pe][a] >= mem[pe][a]
    BY <1>0, <1>1 DEF CounterInv
  <2> QED BY <1>0, <1>1, <1>10, <2>1, KeptTickets
<1> QED BY <1>7, <1>9, <1>11 DEF CountedInv

\* A cell of memory that is no counter is written, or one grows.
LEMMA WrittenTickets ==
    ASSUME Counted(program), CountedInv, RequestInv', NEW p, NEW a, NEW v, mem' = [mem EXCEPT ![p][a] = v],
           IsCounter(p, a) => v \in Nat /\ v >= mem[p][a],
           UNCHANGED <<program, pc, stage, cell, fetched>>, flight' \subseteq flight
    PROVE  CountedInv'
<1>0. ResultTypes /\ CounterInv /\ DistinctInv
  BY DEF CountedInv
<1>1. \A pe, b : IsCounter(pe, b)' <=> IsCounter(pe, b)
  BY DEF IsCounter
<1>2. DOMAIN mem' = PEs /\ (\A q \in PEs : DOMAIN mem'[q] = Addrs)
  BY <1>0 DEF CounterInv
<1>3. ASSUME NEW pe, NEW b, IsCounter(pe, b)
      PROVE  mem[pe][b] \in Nat /\ mem'[pe][b] \in Nat /\ mem'[pe][b] >= mem[pe][b]
  <2>1. pe \in PEs /\ b \in Addrs /\ mem[pe][b] \in Nat
    BY <1>0, <1>3, CountedFacts DEF CounterInv
  <2>2. mem'[pe][b] = IF p = pe /\ a = b THEN v ELSE mem[pe][b]
    BY <1>0, <2>1 DEF CounterInv
  <2>3. CASE p = pe /\ a = b
    BY <1>3, <2>1, <2>2, <2>3
  <2>4. CASE ~(p = pe /\ a = b)
    BY <2>1, <2>2, <2>4
  <2> QED BY <2>3, <2>4
<1>4. CounterInv'
  BY <1>0, <1>1, <1>2, <1>3 DEF CounterInv
<1>5. ResultTypes'
  BY <1>0 DEF ResultTypes, Elements, Now
<1>6. DistinctInv'
  <2>1. \A t \in Tasks : \A i \in Nat :
          Ticket(t, i)' => Ticket(t, i) /\ TicketOf(t, i)' = TicketOf(t, i) /\ TicketValue(t, i)' = TicketValue(t, i)
    BY DEF Ticket, TicketOf, TicketValue, Now
  <2> QED BY <1>0, <1>3, <2>1, KeptTickets
<1> QED BY <1>4, <1>5, <1>6 DEF CountedInv

\* Deliver
LEMMA DeliverTickets ==
    ASSUME Counted(program), CountedInv, NEW m \in flight, Deliver(m), reqs' = reqs
    PROVE  CountedInv'
<1>0. CounterInv /\ RequestInv
  BY DEF CountedInv
<1> DEFINE v == IF m.kind = "add" THEN mem[m.to][m.a] + m.v ELSE m.v
<1>1. /\ mem' = [mem EXCEPT ![m.to][m.a] = v] /\ flight' \subseteq flight
      /\ UNCHANGED <<program, pc, stage, cell, fetched>>
  BY DEF Deliver, tasks
<1>2. RequestInv'
  BY <1>0, <1>1 DEF RequestInv, IsCounter, Elements
<1>3. IsCounter(m.to, m.a) => v \in Nat /\ v >= mem[m.to][m.a]
  <2> SUFFICES ASSUME IsCounter(m.to, m.a) PROVE v \in Nat /\ v >= mem[m.to][m.a]
    OBVIOUS
  <2>1. m.kind = "add" /\ m.v \in Nat /\ mem[m.to][m.a] \in Nat
    BY <1>0 DEF CounterInv
  <2> QED BY <2>1
<1> HIDE DEF v
<1> QED BY <1>1, <1>2, <1>3, WrittenTickets

\* What MPI does not change of a request when it takes or matches a message.
Alike(r, q) == IsRequest(r) /\ r.kind = q.kind /\ r.at = q.at /\ r.buf = q.buf

\* A request whose value or match is set is alike.
LEMMA RequestFields ==
    ASSUME NEW q, IsRequest(q), NEW v, NEW b, NEW r,
           \/ r = q \/ r = [q EXCEPT !.value = v] \/ r = [q EXCEPT !.matched = b]
           \/ r = [q EXCEPT !.matched = b, !.value = v]
    PROVE  Alike(r, q)
<1>1. PICK x, y :
        r = [id |-> q.id, kind |-> q.kind, at |-> q.at, peer |-> q.peer, tag |-> q.tag, buf |-> q.buf,
             value |-> x, matched |-> y]
  <2> DEFINE Of(x, y) == [id |-> q.id, kind |-> q.kind, at |-> q.at, peer |-> q.peer, tag |-> q.tag, buf |-> q.buf,
                          value |-> x, matched |-> y]
  <2>1. CASE r = q
    BY <2>1 DEF IsRequest
  <2>2. CASE r = [q EXCEPT !.value = v]
    <3>1. r = Of(v, q.matched)
      BY <2>2 DEF IsRequest
    <3> QED BY <3>1
  <2>3. CASE r = [q EXCEPT !.matched = b]
    <3>1. r = Of(q.value, b)
      BY <2>3 DEF IsRequest
    <3> QED BY <3>1
  <2>4. CASE r = [q EXCEPT !.matched = b, !.value = v]
    <3>1. r = Of(v, b)
      BY <2>4 DEF IsRequest
    <3> QED BY <3>1
  <2> QED BY <2>1, <2>2, <2>3, <2>4
<1>2. /\ r.id = q.id /\ r.kind = q.kind /\ r.at = q.at /\ r.peer = q.peer /\ r.tag = q.tag /\ r.buf = q.buf
      /\ r.value = x /\ r.matched = y
  BY <1>1, Zenon
<1>3. IsRequest(r)
  BY <1>1, <1>2, Zenon DEF IsRequest
<1> QED BY <1>2, <1>3 DEF Alike

\* The requests are alike: none receives into a counter.
LEMMA RequestsKept ==
    ASSUME RequestInv, program' = program, DOMAIN reqs' = DOMAIN reqs, reqs' = [i \in DOMAIN reqs |-> reqs'[i]],
           \A i \in DOMAIN reqs : Alike(reqs'[i], reqs[i])
    PROVE  RequestInv'
<1>1. \A pe, a : IsCounter(pe, a)' <=> IsCounter(pe, a)
  BY DEF IsCounter
<1>2. reqs' \in Seq(Elements(reqs'))
  <2>1. PICK n \in Nat : DOMAIN reqs = 1 .. n
    BY LenProperties DEF RequestInv
  <2>2. reqs' \in [1 .. n -> Elements(reqs')]
    BY <2>1 DEF Elements
  <2> QED BY <2>2, SeqDef
<1>3. \A i \in DOMAIN reqs : IsRequest(reqs'[i]) /\ (reqs'[i].kind = "recv" => ~IsCounter(reqs'[i].at, reqs'[i].buf))
  BY DEF RequestInv, Elements, Alike
<1> QED BY <1>1, <1>2, <1>3 DEF RequestInv, Elements

\* A message that is buffered leaves the requests alike.
LEMMA BufferAlike ==
    ASSUME \A k \in DOMAIN reqs : IsRequest(reqs[k]), NEW i \in DOMAIN reqs, Buffer(i)
    PROVE  /\ DOMAIN reqs' = DOMAIN reqs /\ reqs' = [k \in DOMAIN reqs |-> reqs'[k]]
           /\ \A k \in DOMAIN reqs : Alike(reqs'[k], reqs[k])
<1>1. DOMAIN reqs' = DOMAIN reqs /\ reqs' = [k \in DOMAIN reqs |-> reqs'[k]]
  BY DEF Buffer
<1>2. PICK x : \A k \in DOMAIN reqs : reqs'[k] = [reqs[k] EXCEPT !.value = x] \/ reqs'[k] = reqs[k]
  BY DEF Buffer
<1>3. \A k \in DOMAIN reqs : Alike(reqs'[k], reqs[k])
  BY <1>2, RequestFields
<1> QED BY <1>1, <1>3

\* The same of a send that meets a receive.
LEMMA MatchAlike ==
    ASSUME \A k \in DOMAIN reqs : IsRequest(reqs[k]), NEW i \in DOMAIN reqs, NEW j \in DOMAIN reqs, Match(i, j)
    PROVE  /\ DOMAIN reqs' = DOMAIN reqs /\ reqs' = [k \in DOMAIN reqs |-> reqs'[k]]
           /\ \A k \in DOMAIN reqs : Alike(reqs'[k], reqs[k])
<1>1. PICK x : reqs' = [reqs EXCEPT ![i].matched = TRUE, ![i].value = x, ![j].matched = TRUE]
  BY DEF Match
<1>2. DOMAIN reqs' = DOMAIN reqs /\ reqs' = [k \in DOMAIN reqs |-> reqs'[k]]
  BY <1>1
<1>3. i # j
  BY DEF Match
<1>4. \A k \in DOMAIN reqs :
          \/ reqs'[k] = reqs[k] \/ reqs'[k] = [reqs[k] EXCEPT !.matched = TRUE]
          \/ reqs'[k] = [reqs[k] EXCEPT !.matched = TRUE, !.value = x]
  BY <1>1, <1>3
<1>5. \A k \in DOMAIN reqs : Alike(reqs'[k], reqs[k])
  BY <1>4, RequestFields
<1> QED BY <1>2, <1>5

\* Buffer
LEMMA BufferTickets ==
    ASSUME Counted(program), CountedInv, Types', Control', NEW i \in DOMAIN reqs, Buffer(i)
    PROVE  CountedInv'
<1>0. RequestInv /\ \A k \in DOMAIN reqs : IsRequest(reqs[k])
  BY DEF CountedInv, RequestInv, Elements
<1>1. UNCHANGED <<program, pc, stage, flight, mem, cell, fetched>>
  BY DEF Buffer, vars, tasks, library
<1>2. RequestInv'
  BY <1>0, <1>1, BufferAlike, RequestsKept
<1> QED BY <1>1, <1>2, QuietTickets

\* Match
LEMMA MatchTickets ==
    ASSUME Counted(program), CountedInv, NEW i \in DOMAIN reqs, NEW j \in DOMAIN reqs, Match(i, j)
    PROVE  CountedInv'
<1>0. RequestInv /\ \A k \in DOMAIN reqs : IsRequest(reqs[k])
  BY DEF CountedInv, RequestInv, Elements
<1>1. PICK v : mem' = [mem EXCEPT ![reqs[j].at][reqs[j].buf] = v]
  BY DEF Match
<1>2. UNCHANGED <<program, pc, stage, flight, cell, fetched>> /\ reqs[j].kind = "recv" /\ reqs[i].kind = "send"
  BY DEF Match, tasks
<1>3. ~IsCounter(reqs[j].at, reqs[j].buf)
  BY <1>0, <1>2 DEF RequestInv, Elements
<1>4. RequestInv'
  BY <1>0, <1>2, MatchAlike, RequestsKept
<1> QED BY <1>1, <1>2, <1>3, <1>4, WrittenTickets

\* MakeRequest
LEMMA MakeRequestTickets ==
    ASSUME Counted(program), CountedInv, Types, Control, Types', Control', NEW t \in Tasks, MakeRequest(t)
    PROVE  CountedInv'
<1>0. RequestInv
  BY DEF CountedInv
<1> DEFINE r == Request(t)
<1>1. /\ stage[t] = "posted" /\ Now(t).via = "request" /\ reqs' = Append(reqs, r)
      /\ stage' = [stage EXCEPT ![t] = "entered"] \/ stage' = [stage EXCEPT ![t] = "pending"]
      /\ UNCHANGED <<program, pc, flight, mem, cell, fetched>>
  BY DEF MakeRequest, Goes
<1>2. pc[t] \in DOMAIN program.code[t] /\ Now(t) = program.code[t][pc[t]]
  BY <1>1, NowFacts DEF Now
<1>3. r.kind = "recv" => ~IsCounter(r.at, r.buf)
  <2> SUFFICES ASSUME r.kind = "recv", IsCounter(r.at, r.buf) PROVE FALSE
    OBVIOUS
  <2>1. r.at = PEOf[t] /\ r.buf = Now(t).a
    BY DEF Request
  <2>2. ~Overwrites(t, Now(t), r.at, r.buf)
    BY <1>2, CountedFacts DEF Counter
  <2> QED BY <1>1, <2>1, <2>2 DEF Overwrites
<1>4. IsRequest(r)
  BY DEF Request, IsRequest
<1> HIDE DEF r
<1>5. RequestInv'
  <2>1. reqs' \in Seq(Elements(reqs')) /\ Elements(reqs') = Elements(reqs) \cup {r}
    BY <1>0, <1>1, AppendFacts DEF RequestInv
  <2>2. \A pe, a : IsCounter(pe, a)' <=> IsCounter(pe, a)
    BY <1>1 DEF IsCounter
  <2>3. (Elements(reqs))' = Elements(reqs')
    BY DEF Elements
  <2> QED BY <1>0, <1>3, <1>4, <2>1, <2>2, <2>3 DEF RequestInv
<1>6. \A u \in Tasks : stage'[u] \in {"done", "pending"} =>
        \/ stage'[u] = stage[u] /\ pc'[u] = pc[u]
        \/ program.code[u][pc'[u]].via = "request"
  BY <1>1, <1>2 DEF Types
<1> QED BY <1>1, <1>5, <1>6, QuietTickets

\* Initially no task has a ticket.
LEMMA TicketInit ==
    ASSUME MpiInit
    PROVE  TicketInv
<1> SUFFICES ASSUME Counted(program) PROVE CountedInv
  BY DEF TicketInv
<1>1. Types
  BY LockInit DEF LockInv
<1>2. /\ stage = [t \in Tasks |-> IF t \in program.start THEN "run" ELSE "idle"]
      /\ flight = {} /\ mem = [p \in PEs |-> [a \in Addrs |-> IF <<p, a>> \in program.ones THEN 1 ELSE 0]]
      /\ cell = [t \in Tasks |-> 0] /\ fetched = [t \in Tasks |-> << >>] /\ reqs = << >>
  BY DEF MpiInit, Init
<1>3. DOMAIN << >> = {} /\ << >> \in Seq(Elements(<< >>)) /\ Elements(<< >>) = {}
  BY DEF Elements
<1>4. ResultTypes
  BY <1>2, <1>3 DEF ResultTypes
<1>5. CounterInv
  <2>1. \A pe, a : IsCounter(pe, a) => mem[pe][a] \in Nat
    BY <1>2, CountedFacts
  <2> QED BY <1>2, <2>1 DEF CounterInv
<1>6. RequestInv
  BY <1>2, <1>3 DEF RequestInv
<1>7. DistinctInv
  <2>1. \A t \in Tasks : \A i \in Nat : ~Ticket(t, i)
    BY <1>2, <1>3 DEF Ticket
  <2> QED BY <2>1 DEF DistinctInv
<1> QED BY <1>4, <1>5, <1>6, <1>7 DEF CountedInv

\* The program of a behaviour stays.
LEMMA ProgramStays ==
    ASSUME [MpiNext]_mpiVars
    PROVE  program' = program
<1>1. ASSUME NEW t \in Tasks, NicStep(t) PROVE program' = program
  BY <1>1 DEF NicStep, NicRun, NicEnter, NicReturn, poll_on_waits, Goes, tasks
<1>2. ASSUME NEW t \in Tasks, TaskStep(t) PROVE program' = program
  <2>1. CASE Post(t) \/ Resume(t) \/ OnContext(t) \/ QuietAll(t)
    BY <2>1 DEF Post, Resume, OnContext, QuietAll, Goes, Returns, tasks
  <2>2. CASE set_lock(t) \/ sos_set_lock_wait(t) \/ set_lock_granted(t)
    BY <2>2 DEF set_lock, sos_set_lock_wait, set_lock_granted, Goes, Returns, Abort, tasks
  <2>3. CASE clear_lock(t) \/ clear_lock_done(t) \/ clear_lock_put(t) \/ enqueue_wait_set(t)
    BY <2>3 DEF clear_lock, clear_lock_done, clear_lock_put, enqueue_wait_set, Goes, Returns, Abort, tasks
  <2> QED BY <1>2, <2>1, <2>2, <2>3 DEF TaskStep
<1>3. ASSUME NEW t \in Tasks, MpiStep(t) PROVE program' = program
  <2>1. CASE MakeRequest(t) \/ RequestReturn(t)
    BY <2>1 DEF MakeRequest, RequestReturn, Goes, Returns, tasks
  <2>2. CASE poll_on_pending(t) \/ async_nb_await_at(t) \/ Waitall(t)
    BY <2>2 DEF poll_on_pending, async_nb_await_at, Waitall, Goes, Returns, tasks
  <2> QED BY <1>3, <2>1, <2>2 DEF MpiStep
<1>4. ASSUME NEW i \in DOMAIN reqs, Buffer(i) \/ \E j \in DOMAIN reqs : Match(i, j) PROVE program' = program
  <2>1. CASE Buffer(i)
    BY <2>1 DEF Buffer, vars, tasks
  <2>2. ASSUME NEW j \in DOMAIN reqs, Match(i, j) PROVE program' = program
    BY <2>2 DEF Match, tasks
  <2> QED BY <1>4, <2>1, <2>2
<1>5. ASSUME NEW m \in flight, Deliver(m) PROVE program' = program
  BY <1>5 DEF Deliver, tasks
<1>6. ASSUME Next PROVE program' = program
  <2>1. CASE UNCHANGED vars
    BY <2>1 DEF vars, tasks
  <2> QED BY <1>1, <1>2, <1>5, <1>6, <2>1 DEF Next
<1>7. CASE UNCHANGED mpiVars
  BY <1>7 DEF mpiVars, vars, tasks
<1> QED BY <1>3, <1>4, <1>6, <1>7 DEF MpiNext

\* Every step preserves the invariant.
LEMMA TicketNext ==
    ASSUME LockInv, LockInv', TicketInv, [MpiNext]_mpiVars
    PROVE  TicketInv'
<1>0. Types /\ Control /\ Types' /\ Control'
  BY DEF LockInv
<1>1. program' = program
  BY ProgramStays
<1> SUFFICES ASSUME Counted(program) PROVE CountedInv'
  BY <1>1 DEF TicketInv
<1>2. CountedInv /\ RequestInv
  BY DEF TicketInv, CountedInv
\* The steps that end no call of a fetching add.
<1> DEFINE Still == UNCHANGED <<program, mem, cell, fetched>> /\ flight' \subseteq flight /\ reqs' = reqs
           Moved == \A u \in Tasks : stage'[u] \in {"done", "pending"} =>
                        \/ stage'[u] = stage[u] /\ pc'[u] = pc[u]
                        \/ program.code[u][pc'[u]].via = "request"
<1>3. ASSUME Still, Moved PROVE CountedInv'
  <2>1. RequestInv'
    BY <1>2, <1>3 DEF RequestInv, IsCounter, Elements
  <2> QED BY <1>0, <1>2, <1>3, <2>1, QuietTickets
<1>4. ASSUME UNCHANGED vars, reqs' = reqs PROVE CountedInv'
  BY <1>3, <1>4 DEF vars, tasks, library
\* A task goes to a stage, or returns.
<1>5. ASSUME NEW t \in Tasks, NEW s, s \notin {"done", "pending"} \/ Now(t).via = "request", Goes(t, s) PROVE Moved
  BY <1>0, <1>5 DEF Goes, Types, Now
<1>6. ASSUME NEW t \in Tasks, Returns(t) PROVE Moved
  BY <1>0, <1>6 DEF Returns, Types
<1>7. ASSUME UNCHANGED library, reqs' = reqs PROVE Still
  BY <1>1, <1>7 DEF library
<1> HIDE DEF Still, Moved
<1>8. ASSUME NEW t \in Tasks, NicStep(t), reqs' = reqs PROVE CountedInv'
  <2>1. CASE NicRun(t)
    BY <1>3, <1>8, <2>1 DEF NicRun, tasks, Still, Moved
  <2>2. CASE NicEnter(t)
    <3>1. Still
      BY <1>1, <1>8, <2>2 DEF NicEnter, Still
    <3> QED BY <1>3, <1>5, <2>2, <3>1 DEF NicEnter
  <2>3. CASE NicReturn(t)
    BY <1>0, <1>2, <1>8, <2>3, NicReturnTickets
  <2>4. CASE poll_on_waits(t)
    <3>1. Still
      BY <1>7, <1>8, <2>4 DEF poll_on_waits
    <3>2. Moved
      BY <1>0, <2>4 DEF poll_on_waits, tasks, Types, Moved
    <3> QED BY <1>3, <3>1, <3>2
  <2> QED BY <1>8, <2>1, <2>2, <2>3, <2>4 DEF NicStep
<1>9. ASSUME NEW t \in Tasks, TaskStep(t), reqs' = reqs PROVE CountedInv'
  <2>1. CASE Post(t)
    BY <1>3, <1>5, <1>7, <1>9, <2>1 DEF Post
  <2>2. CASE Resume(t)
    BY <1>0, <1>2, <1>9, <2>2, ResumeTickets
  <2>3. CASE OnContext(t)
    BY <1>0, <1>2, <1>9, <2>3, OnContextTickets
  <2>4. CASE QuietAll(t)
    <3>1. Still
      BY <1>7, <1>9, <2>4 DEF QuietAll
    <3>2. CASE Goes(t, "posted")
      BY <1>3, <1>5, <3>1, <3>2
    <3>3. CASE UNCHANGED <<pc, stage>>
      BY <1>3, <3>1, <3>3 DEF Moved
    <3> QED BY <2>4, <3>2, <3>3 DEF QuietAll
  <2>5. CASE set_lock(t)
    BY <1>3, <1>5, <1>7, <1>9, <2>5 DEF set_lock
  <2>6. CASE sos_set_lock_wait(t)
    BY <1>3, <1>5, <1>7, <1>9, <2>6 DEF sos_set_lock_wait
  <2>7. CASE set_lock_granted(t)
    <3>1. CASE Abort
      BY <1>3, <1>7, <1>9, <3>1 DEF Abort, tasks, Moved
    <3>2. CASE Returns(t) /\ UNCHANGED library
      BY <1>3, <1>6, <1>7, <1>9, <3>2
    <3> QED BY <2>7, <3>1, <3>2 DEF set_lock_granted
  <2>8. CASE clear_lock(t)
    <3>1. CASE Abort
      BY <1>3, <1>7, <1>9, <3>1 DEF Abort, tasks, Moved
    <3>2. CASE Goes(t, "posted") /\ UNCHANGED library
      BY <1>3, <1>5, <1>7, <1>9, <3>2
    <3> QED BY <2>8, <3>1, <3>2 DEF clear_lock
  <2>9. CASE clear_lock_done(t)
    <3>1. CASE Abort
      BY <1>3, <1>7, <1>9, <3>1 DEF Abort, tasks, Moved
    <3>2. CASE Goes(t, "put") /\ UNCHANGED library
      BY <1>3, <1>5, <1>7, <1>9, <3>2
    <3> QED BY <2>9, <3>1, <3>2 DEF clear_lock_done
  <2>10. CASE clear_lock_put(t)
    BY <1>3, <1>6, <1>7, <1>9, <2>10 DEF clear_lock_put
  <2>11. CASE enqueue_wait_set(t)
    <3>1. Still
      BY <1>7, <1>9, <2>11 DEF enqueue_wait_set
    <3>2. Moved
      BY <1>0, <2>11 DEF enqueue_wait_set, In, Types, Moved
    <3> QED BY <1>3, <3>1, <3>2
  <2> QED BY <1>9, <2>1, <2>2, <2>3, <2>4, <2>5, <2>6, <2>7, <2>8, <2>9, <2>10, <2>11 DEF TaskStep
<1>10. ASSUME NEW t \in Tasks, MpiStep(t) PROVE CountedInv'
  <2>1. CASE MakeRequest(t)
    BY <1>0, <1>2, <2>1, MakeRequestTickets
  <2>2. CASE RequestReturn(t)
    <3>1. Still
      BY <1>1, <2>2 DEF RequestReturn, Still
    <3> QED BY <1>3, <1>5, <2>2, <3>1 DEF RequestReturn
  <2>3. CASE poll_on_pending(t)
    <3>1. Now(t).via = "request"
      BY <1>2, <2>3 DEF poll_on_pending, CountedInv, ResultTypes
    <3> QED BY <1>3, <1>5, <1>7, <2>3, <3>1 DEF poll_on_pending
  <2>4. CASE async_nb_await_at(t)
    <3>1. Still
      BY <1>7, <2>4 DEF async_nb_await_at
    <3>2. Moved
      BY <1>0, <2>4 DEF async_nb_await_at, In, Types, Moved
    <3> QED BY <1>3, <3>1, <3>2
  <2>5. CASE Waitall(t)
    BY <1>3, <1>6, <1>7, <2>5 DEF Waitall
  <2> QED BY <1>10, <2>1, <2>2, <2>3, <2>4, <2>5 DEF MpiStep
<1>11. CASE Next /\ reqs' = reqs
  <2>1. CASE \E m \in flight : Deliver(m)
    BY <1>2, <1>11, <2>1, DeliverTickets
  <2> QED BY <1>4, <1>8, <1>9, <1>11, <2>1 DEF Next
<1>12. CASE \E i \in DOMAIN reqs : Buffer(i) \/ \E j \in DOMAIN reqs : Match(i, j)
  BY <1>0, <1>2, <1>12, BufferTickets, MatchTickets
<1>13. CASE UNCHANGED mpiVars
  BY <1>4, <1>13 DEF mpiVars
<1> QED BY <1>10, <1>11, <1>12, <1>13 DEF MpiNext

\* Two fetching adds on one counter never return the same value to anyone, on
\* whatever PEs, contexts and workers they are made, as long as the program
\* only adds to the counter.
THEOREM TicketsDistinctHold == MpiSpec => [](Counted(program) => TicketsDistinct)
<1>1. MpiInit => LockInv /\ TicketInv
  BY LockInit, TicketInit
<1>2. LockInv /\ TicketInv /\ [MpiNext]_mpiVars => (LockInv /\ TicketInv)'
  BY LockNext, TicketNext
<1>3. TicketInv => (Counted(program) => TicketsDistinct)
  <2> SUFFICES ASSUME CountedInv PROVE TicketsDistinct
    BY DEF TicketInv
  <2> SUFFICES ASSUME NEW t \in Tasks, NEW u \in Tasks, NEW i \in DOMAIN fetched[t], NEW j \in DOMAIN fetched[u],
                      fetched[t][i].of.lib = "fadd", fetched[u][j].of.lib = "fadd",
                      fetched[t][i].of.a = fetched[u][j].of.a, fetched[t][i].of.pe = fetched[u][j].of.pe,
                      fetched[t][i].value = fetched[u][j].value
               PROVE  t = u /\ i = j
    BY DEF TicketsDistinct
  <2>1. i \in Nat /\ j \in Nat
    BY LenProperties DEF CountedInv, ResultTypes
  <2>2. /\ Ticket(t, i) /\ TicketOf(t, i) = fetched[t][i].of /\ TicketValue(t, i) = fetched[t][i].value
        /\ Ticket(u, j) /\ TicketOf(u, j) = fetched[u][j].of /\ TicketValue(u, j) = fetched[u][j].value
    BY DEF Ticket, TicketOf, TicketValue
  <2> QED BY <2>1, <2>2 DEF CountedInv, DistinctInv
<1> QED BY <1>1, <1>2, <1>3, PTL DEF MpiSpec

-----------------------------------------------------------------------------
(* Barriers *)

\* Task t is in a collective call that it has entered, or that has returned.
InCall(t, stages) == stage[t] \in stages /\ Now(t).lib \in Collective

\* The first call of task t that it has not entered, and the first that has not
\* returned from the library.
EnteredTo(t) == IF InCall(t, {"entered", "done"}) THEN pc[t] + 1 ELSE pc[t]
ReturnedTo(t) == IF InCall(t, {"done"}) THEN pc[t] + 1 ELSE pc[t]

\* A PE has entered the collective calls of its task, and when a task has
\* returned from one every PE has entered as many.
RoundInv ==
    /\ DOMAIN entered = PEs /\ (\A p \in PEs : entered[p] \in Seq(Elements(entered[p])))
    /\ \A t \in Tasks : Collects(program, t) =>
            Len(entered[PEOf[t]]) = CallsBefore(program, t, EnteredTo(t), Collective)
    /\ \A t \in Tasks, q \in PEs :
            CallsBefore(program, t, ReturnedTo(t), Collective) <= Len(entered[q])

\* The contexts that a barrier has quieted so far; only a request is pending.
TurnInv ==
    \A t \in Tasks :
        /\ turn[t] # {} => ~Ended(t) /\ Now(t).via = "quiet"
        /\ stage[t] = "posted" /\ Now(t).via = "quiet" => turn[t] = Contexts
        /\ stage[t] = "pending" => Now(t).via = "request"

\* What a message on its way says of the task that sent it, whose quieted
\* contexts and barriers it was not overtaken by.
MessageInv ==
    \A m \in flight :
        /\ m.task \in Tasks /\ m.at \in DOMAIN program.code[m.task] /\ m.from = PEOf[m.task]
        /\ program.code[m.task][m.at].lib \notin Collective
        /\ m.ctx = Default \/ (m.ctx \in Contexts /\ program.code[m.task][m.at].via = "ctx")
        /\ m.ctx \notin turn[m.task]
        /\ \A k \in DOMAIN program.code[m.task] :
                m.at < k /\ program.code[m.task][k].lib = "barrier" => EnteredTo(m.task) <= k

PassedInv == RoundInv /\ TurnInv /\ MessageInv
BarrierInv == InStep(program) => PassedInv

\* One call more.
LEMMA CountFacts ==
    ASSUME NEW t, NEW n \in Nat, NEW kinds
    PROVE  /\ CallsBefore(program, t, n, kinds) \in Nat
           /\ n >= 1 => CallsBefore(program, t, n + 1, kinds) =
                CallsBefore(program, t, n, kinds) + (IF program.code[t][n].lib \in kinds THEN 1 ELSE 0)
<1> DEFINE S(i) == {k \in 1 .. i - 1 : program.code[t][k].lib \in kinds}
<1>1. \A i \in Nat : IsFiniteSet(S(i)) /\ Cardinality(S(i)) \in Nat
  <2> SUFFICES ASSUME NEW i \in Nat PROVE IsFiniteSet(S(i)) /\ Cardinality(S(i)) \in Nat
    OBVIOUS
  <2>1. IsFiniteSet(1 .. i - 1)
    BY FS_Interval
  <2>2. IsFiniteSet(S(i))
    BY <2>1, FS_Subset
  <2> QED BY <2>2, FS_CardinalityType
<1>2. \A i : CallsBefore(program, t, i, kinds) = Cardinality(S(i))
  BY DEF CallsBefore
<1>3. ASSUME n >= 1
      PROVE  S(n + 1) = IF program.code[t][n].lib \in kinds THEN S(n) \cup {n} ELSE S(n)
  <2>1. 1 .. n + 1 - 1 = (1 .. n - 1) \cup {n}
    BY <1>3
  <2> QED BY <2>1
<1>4. n \notin S(n)
  OBVIOUS
<1> HIDE DEF S
<1>5. Cardinality(S(n) \cup {n}) = Cardinality(S(n)) + 1
  BY <1>1, <1>4, FS_AddElement
<1> QED BY <1>1, <1>2, <1>3, <1>5

\* A task that makes more calls of some kinds up to m than up to n makes one in
\* between.
LEMMA CallBetween ==
    ASSUME NEW t, NEW n \in Nat, NEW m \in Nat, NEW kinds,
           CallsBefore(program, t, n, kinds) < CallsBefore(program, t, m, kinds)
    PROVE  \E k \in 1 .. m - 1 : n <= k /\ program.code[t][k].lib \in kinds
<1> SUFFICES ASSUME \A k \in 1 .. m - 1 : program.code[t][k].lib \in kinds => ~(n <= k) PROVE FALSE
  OBVIOUS
<1> DEFINE S(i) == {k \in 1 .. i - 1 : program.code[t][k].lib \in kinds}
<1>1. S(m) \subseteq S(n)
  <2> SUFFICES ASSUME NEW k \in S(m) PROVE k \in S(n)
    OBVIOUS
  <2>1. k \in Int /\ 1 <= k /\ ~(n <= k) /\ program.code[t][k].lib \in kinds
    OBVIOUS
  <2> QED BY <2>1
<1>2. IsFiniteSet(S(n))
  <2>1. IsFiniteSet(1 .. n - 1)
    BY FS_Interval
  <2> QED BY <2>1, FS_Subset
<1>3. CallsBefore(program, t, n, kinds) = Cardinality(S(n)) /\ CallsBefore(program, t, m, kinds) = Cardinality(S(m))
  BY DEF CallsBefore
<1> HIDE DEF S
<1>4. Cardinality(S(m)) <= Cardinality(S(n))
  BY <1>1, <1>2, FS_Subset
<1>5. CallsBefore(program, t, n, kinds) \in Nat /\ CallsBefore(program, t, m, kinds) \in Nat
  BY CountFacts
<1> QED BY <1>3, <1>4, <1>5

\* The positions are positions of the code.
LEMMA PositionFacts ==
    ASSUME Types, Control, NEW t \in Tasks
    PROVE  /\ pc[t] \in 1 .. Len(program.code[t]) + 1 /\ pc[t] \in Nat
           /\ EnteredTo(t) \in 1 .. Len(program.code[t]) + 1 /\ ReturnedTo(t) \in 1 .. Len(program.code[t]) + 1
           /\ EnteredTo(t) \in {pc[t], pc[t] + 1} /\ ReturnedTo(t) \in {pc[t], pc[t] + 1}
           /\ Now(t) = program.code[t][pc[t]]
<1>1. pc[t] \in Nat /\ pc[t] >= 1 /\ pc[t] <= Len(program.code[t]) + 1
  BY DEF Types, Control
<1>2. Len(program.code[t]) \in Nat /\ DOMAIN program.code[t] = 1 .. Len(program.code[t])
  BY CodeFacts
<1>3. stage[t] \in {"entered", "done"} => pc[t] \in DOMAIN program.code[t]
  BY DEF Control
<1> QED BY <1>1, <1>2, <1>3 DEF EnteredTo, ReturnedTo, InCall, Now

\* Puts before a barrier have arrived when it is passed: the task that sent a
\* message has entered as many barriers as any task has returned from.
LEMMA BarrierImplies ==
    ASSUME Types, Control, InStep(program), PassedInv
    PROVE  BarrierCompletes
<1> SUFFICES ASSUME NEW t \in Tasks, NEW m \in flight,
                    NEW b \in DOMAIN program.code[m.task], program.code[m.task][b].lib = "barrier"
             PROVE  Passed(t, pc[t]) <= Passed(m.task, m.at)
  BY DEF BarrierCompletes
<1>1. PICK u : u = m.task
  OBVIOUS
<1>2. /\ u \in Tasks /\ m.at \in DOMAIN program.code[u] /\ program.code[u][m.at].lib \notin Collective
      /\ \A k \in DOMAIN program.code[u] : m.at < k /\ program.code[u][k].lib = "barrier" => EnteredTo(u) <= k
  BY ONLY <1>1, PassedInv, m \in flight DEF PassedInv, MessageInv
<1>3. Collects(program, u)
  BY <1>1 DEF Collects, Collective
<1>4. PICK i, j : i = pc[t] /\ j = EnteredTo(u)
  OBVIOUS
<1>5. /\ i \in 1 .. Len(program.code[t]) + 1 /\ j \in 1 .. Len(program.code[u]) + 1 /\ i \in Nat /\ j \in Nat
      /\ ReturnedTo(t) \in {i, i + 1} /\ m.at \in Nat /\ DOMAIN program.code[u] = 1 .. Len(program.code[u])
      /\ Len(program.code[u]) \in Nat /\ i >= 1
  BY <1>2, <1>4, PositionFacts, CodeFacts
<1>6. CallsBefore(program, t, i, Collective) <= CallsBefore(program, t, ReturnedTo(t), Collective)
  <2>1. PICK r, kinds : r = ReturnedTo(t) /\ kinds = Collective
    OBVIOUS
  <2>2. /\ CallsBefore(program, t, i, kinds) \in Nat
        /\ CallsBefore(program, t, i + 1, kinds) =
             CallsBefore(program, t, i, kinds) + (IF program.code[t][i].lib \in kinds THEN 1 ELSE 0)
    BY <1>5, CountFacts
  <2>3. CASE r = i
    BY ONLY <2>1, <2>2, <2>3
  <2>4. CASE r = i + 1
    BY ONLY <2>1, <2>2, <2>4
  <2> QED BY <1>5, <2>1, <2>3, <2>4
<1>7. /\ PEOf[u] \in PEs
      /\ CallsBefore(program, t, ReturnedTo(t), Collective) <= Len(entered[PEOf[u]])
      /\ Len(entered[PEOf[u]]) = CallsBefore(program, u, j, Collective)
  <2>1. PEOf[u] \in PEs
    BY <1>2, ShmemAssumption
  <2>2. RoundInv
    BY DEF PassedInv
  <2>3. CallsBefore(program, t, ReturnedTo(t), Collective) <= Len(entered[PEOf[u]])
    BY ONLY <2>1, <2>2, t \in Tasks DEF RoundInv
  <2>4. Len(entered[PEOf[u]]) = CallsBefore(program, u, EnteredTo(u), Collective)
    BY ONLY <1>2, <1>3, <2>2 DEF RoundInv
  <2> QED BY ONLY <1>4, <2>1, <2>3, <2>4
<1>8. /\ CallsBefore(program, t, i, Collective) \in Nat /\ CallsBefore(program, u, j, Collective) \in Nat
      /\ CallsBefore(program, t, ReturnedTo(t), Collective) \in Nat
  <2>1. ReturnedTo(t) \in Nat
    BY ONLY <1>5
  <2>2. \A w, kinds : \A n \in Nat : CallsBefore(program, w, n, kinds) \in Nat
    BY CountFacts
  <2> QED BY ONLY <1>5, <2>1, <2>2
<1>9. CallsBefore(program, t, i, Collective) <= CallsBefore(program, u, j, Collective)
  BY ONLY <1>6, <1>7, <1>8
<1>10. Passed(t, i) <= Passed(u, j)
  BY <1>2, <1>5, <1>9 DEF InStep, Passed
<1>11. Passed(t, i) \in Nat /\ Passed(u, j) \in Nat /\ Passed(u, m.at) \in Nat
  BY <1>5, CountFacts DEF Passed
<1>12. ASSUME Passed(u, m.at) < Passed(u, j) PROVE FALSE
  <2>1. PICK k \in 1 .. j - 1 : m.at <= k /\ program.code[u][k].lib \in {"barrier"}
    BY <1>5, <1>12, CallBetween DEF Passed
  <2>2. k \in DOMAIN program.code[u] /\ k < j
    BY <1>5
  <2>3. k # m.at
    BY <1>2, <2>1 DEF Collective
  <2>4. m.at < k
    BY <1>5, <2>1, <2>3
  <2> QED BY <1>2, <1>4, <1>5, <2>1, <2>2, <2>4
<1> QED BY <1>1, <1>4, <1>10, <1>11, <1>12

\* What a step does to a task: nothing, a move within its call, or the end of
\* its call.
Stays(u) == pc'[u] = pc[u] /\ stage'[u] = stage[u] /\ turn'[u] = turn[u]
Moves(u) ==
    /\ pc'[u] = pc[u] /\ turn'[u] = turn[u]
    /\ stage'[u] = "posted" => Now(u).via # "quiet" \/ turn[u] = Contexts
    /\ stage'[u] = "pending" => Now(u).via = "request"
    /\ Now(u).lib \in Collective => stage[u] \notin {"entered", "done"} /\ stage'[u] \notin {"entered", "done"}
Passes(u) ==
    /\ pc'[u] = pc[u] + 1 /\ pc[u] \in DOMAIN program.code[u]
    /\ turn'[u] = {} \/ (turn'[u] = turn[u] /\ Now(u).via # "quiet")
    /\ stage'[u] \in {"run", "waiting"}
    /\ Now(u).lib \in Collective => stage[u] = "done"

\* A message that the task which sent it puts on its way.
Issued(m) ==
    LET t == m.task IN
    /\ t \in Tasks /\ m.at = pc[t] /\ pc[t] \in DOMAIN program.code[t] /\ m.from = PEOf[t]
    /\ Now(t).lib \notin Collective /\ Now(t).via # "quiet"
    /\ m.ctx = Default \/ (m.ctx \in Contexts /\ Now(t).via = "ctx")

\* The steps but for those of the collective calls.
Ordinary ==
    /\ entered' = entered
    /\ \A u \in Tasks : Stays(u) \/ Moves(u) \/ Passes(u)
    /\ \A m \in flight' : m \in flight \/ Issued(m)

\* An ordinary step enters no collective call, and returns from none.
LEMMA OrdinaryPositions ==
    ASSUME Types, Control, NEW u \in Tasks, program' = program, Stays(u) \/ Moves(u) \/ Passes(u)
    PROVE  \/ EnteredTo(u)' = EnteredTo(u) /\ ReturnedTo(u)' = ReturnedTo(u)
           \/ /\ EnteredTo(u) = pc[u] /\ ReturnedTo(u) = pc[u] /\ pc[u] \in DOMAIN program.code[u]
              /\ EnteredTo(u)' = pc[u] + 1 /\ ReturnedTo(u)' = pc[u] + 1 /\ Now(u).lib \notin Collective
<1>1. Now(u)' = program.code[u][pc'[u]] /\ Now(u) = program.code[u][pc[u]]
  BY DEF Now
<1>2. CASE Stays(u)
  BY <1>1, <1>2 DEF Stays, EnteredTo, ReturnedTo, InCall
<1>3. CASE Moves(u)
  <2>1. Now(u)' = Now(u)
    BY <1>1, <1>3 DEF Moves
  <2>2. ~InCall(u, {"entered", "done"}) /\ ~InCall(u, {"done"})
    BY <1>3 DEF Moves, InCall
  <2>3. ~InCall(u, {"entered", "done"})' /\ ~InCall(u, {"done"})'
    BY <1>3, <2>1 DEF Moves, InCall
  <2> QED BY <1>3, <2>2, <2>3 DEF Moves, EnteredTo, ReturnedTo
<1>4. CASE Passes(u)
  <2>1. ~InCall(u, {"entered", "done"})' /\ ~InCall(u, {"done"})'
    BY <1>4 DEF Passes, InCall
  <2>2. EnteredTo(u)' = pc[u] + 1 /\ ReturnedTo(u)' = pc[u] + 1
    BY <1>4, <2>1 DEF Passes, EnteredTo, ReturnedTo
  <2>3. CASE Now(u).lib \in Collective
    BY <1>4, <2>2, <2>3 DEF Passes, EnteredTo, ReturnedTo, InCall
  <2>4. CASE Now(u).lib \notin Collective
    BY <1>4, <2>2, <2>4 DEF Passes, EnteredTo, ReturnedTo, InCall
  <2> QED BY <2>3, <2>4
<1> QED BY <1>2, <1>3, <1>4

\* The rounds of an ordinary step.
LEMMA OrdinaryRounds ==
    ASSUME Types, Control, RoundInv, program' = program, Ordinary
    PROVE  RoundInv'
<1>1. ASSUME NEW u \in Tasks
      PROVE  /\ CallsBefore(program, u, EnteredTo(u), Collective)' = CallsBefore(program, u, EnteredTo(u), Collective)
             /\ CallsBefore(program, u, ReturnedTo(u), Collective)' = CallsBefore(program, u, ReturnedTo(u), Collective)
  <2>1. PICK e, r, x, y : e = EnteredTo(u) /\ r = ReturnedTo(u) /\ x = EnteredTo(u)' /\ y = ReturnedTo(u)'
    OBVIOUS
  <2>2. /\ CallsBefore(program, u, EnteredTo(u), Collective)' = CallsBefore(program, u, x, Collective)
        /\ CallsBefore(program, u, ReturnedTo(u), Collective)' = CallsBefore(program, u, y, Collective)
    BY ONLY <2>1, program' = program DEF CallsBefore
  <2>3. CASE x = e /\ y = r
    BY ONLY <2>1, <2>2, <2>3
  <2>4. CASE /\ e = pc[u] /\ r = pc[u] /\ pc[u] \in DOMAIN program.code[u]
             /\ x = pc[u] + 1 /\ y = pc[u] + 1 /\ Now(u).lib \notin Collective
    <3>1. pc[u] \in Nat /\ pc[u] >= 1 /\ Now(u) = program.code[u][pc[u]]
      BY PositionFacts
    <3>2. CallsBefore(program, u, pc[u], Collective) \in Nat
      BY <3>1, CountFacts
    <3>3. CallsBefore(program, u, pc[u] + 1, Collective) = CallsBefore(program, u, pc[u], Collective) + 0
      BY <2>4, <3>1, CountFacts
    <3> QED BY ONLY <2>1, <2>2, <2>4, <3>2, <3>3
  <2> QED BY <2>1, <2>3, <2>4, OrdinaryPositions DEF Ordinary
<1>2. \A u : Collects(program, u)' <=> Collects(program, u)
  BY DEF Collects
<1>3. entered' = entered
  BY DEF Ordinary
<1>4. DOMAIN entered' = PEs /\ (\A p \in PEs : entered'[p] \in Seq(Elements(entered'[p])))
  BY ONLY <1>3, RoundInv DEF RoundInv
<1>5. \A p \in PEs : Elements(entered[p])' = Elements(entered'[p])
  BY ONLY DEF Elements
<1> QED BY ONLY <1>1, <1>2, <1>3, <1>4, <1>5, RoundInv DEF RoundInv

\* The contexts of an ordinary step.
LEMMA OrdinaryTurns ==
    ASSUME Types, Control, Types', Control', TurnInv, program' = program, Ordinary
    PROVE  TurnInv'
<1> SUFFICES ASSUME NEW t \in Tasks
             PROVE  /\ turn'[t] # {} => ~Ended(t)' /\ Now(t)'.via = "quiet"
                    /\ stage'[t] = "posted" /\ Now(t)'.via = "quiet" => turn'[t] = Contexts
                    /\ stage'[t] = "pending" => Now(t)'.via = "request"
  BY DEF TurnInv
<1>1. Now(t)' = program.code[t][pc'[t]] /\ Now(t) = program.code[t][pc[t]]
  BY DEF Now
<1>2. /\ turn[t] # {} => ~Ended(t) /\ Now(t).via = "quiet"
      /\ stage[t] = "posted" /\ Now(t).via = "quiet" => turn[t] = Contexts
      /\ stage[t] = "pending" => Now(t).via = "request"
  BY DEF TurnInv
<1>3. CASE pc'[t] = pc[t]
  <2>1. Now(t)' = Now(t) /\ (Ended(t)' <=> Ended(t))
    BY <1>1, <1>3 DEF Ended
  <2>2. CASE Stays(t)
    BY <1>2, <2>1, <2>2 DEF Stays
  <2>3. CASE Moves(t)
    BY <1>2, <2>1, <2>3 DEF Moves
  <2>4. pc[t] # pc[t] + 1
    BY PositionFacts
  <2> QED BY <1>3, <2>2, <2>3, <2>4 DEF Ordinary, Passes
<1>4. CASE Passes(t)
  BY <1>2, <1>4 DEF Passes
<1> QED BY <1>3, <1>4 DEF Ordinary, Stays, Moves

\* The messages of an ordinary step.
LEMMA OrdinaryMessages ==
    ASSUME Types, Control, TurnInv, MessageInv, program' = program, Ordinary
    PROVE  MessageInv'
<1> SUFFICES ASSUME NEW m \in flight'
             PROVE  /\ m.task \in Tasks /\ m.at \in DOMAIN program.code[m.task] /\ m.from = PEOf[m.task]
                    /\ program.code[m.task][m.at].lib \notin Collective
                    /\ m.ctx = Default \/ (m.ctx \in Contexts /\ program.code[m.task][m.at].via = "ctx")
                    /\ m.ctx \notin turn'[m.task]
                    /\ \A k \in DOMAIN program.code[m.task] :
                         m.at < k /\ program.code[m.task][k].lib = "barrier" => EnteredTo(m.task)' <= k
  BY DEF MessageInv
<1>1. PICK t : t = m.task
  OBVIOUS
<1>2. CASE m \in flight
  <2>1. /\ t \in Tasks /\ m.at \in DOMAIN program.code[t] /\ m.from = PEOf[t]
        /\ program.code[t][m.at].lib \notin Collective
        /\ m.ctx = Default \/ (m.ctx \in Contexts /\ program.code[t][m.at].via = "ctx")
        /\ m.ctx \notin turn[t]
        /\ \A k \in DOMAIN program.code[t] : m.at < k /\ program.code[t][k].lib = "barrier" => EnteredTo(t) <= k
    BY <1>1, <1>2 DEF MessageInv
  <2>2. turn'[t] \in {turn[t], {}}
    BY <2>1 DEF Ordinary, Stays, Moves, Passes
  <2>3. ASSUME NEW k \in DOMAIN program.code[t], m.at < k, program.code[t][k].lib = "barrier"
        PROVE  EnteredTo(t)' <= k
    <3>1. PICK e, x : e = EnteredTo(t) /\ x = EnteredTo(t)'
      OBVIOUS
    <3>2. e <= k
      BY ONLY <2>1, <2>3, <3>1
    <3>3. CASE x = e
      BY ONLY <3>1, <3>2, <3>3
    <3>4. CASE e = pc[t] /\ x = pc[t] + 1 /\ Now(t).lib \notin Collective
      <4>1. k # pc[t]
        BY <2>3, <3>4 DEF Now, Collective
      <4>2. k \in Nat /\ pc[t] \in Nat
        BY <2>1, <2>3, CodeFacts, PositionFacts
      <4> QED BY ONLY <3>1, <3>2, <3>4, <4>1, <4>2
    <3> QED BY <2>1, <3>1, <3>3, <3>4, OrdinaryPositions DEF Ordinary
  <2> QED BY ONLY <1>1, <2>1, <2>2, <2>3
<1>3. CASE Issued(m)
  <2>1. /\ t \in Tasks /\ m.at = pc[t] /\ pc[t] \in DOMAIN program.code[t] /\ m.from = PEOf[t]
        /\ Now(t).lib \notin Collective /\ Now(t).via # "quiet" /\ Now(t) = program.code[t][pc[t]]
        /\ m.ctx = Default \/ (m.ctx \in Contexts /\ Now(t).via = "ctx")
    BY <1>1, <1>3 DEF Issued, Now
  <2>2. turn[t] = {}
    BY <2>1 DEF TurnInv
  <2>3. turn'[t] = {}
    BY <2>1, <2>2 DEF Ordinary, Stays, Moves, Passes
  <2>4. EnteredTo(t) = pc[t]
    BY <2>1 DEF EnteredTo, InCall
  <2>5. EnteredTo(t)' \in {pc[t], pc[t] + 1}
    BY <2>1, <2>4, OrdinaryPositions DEF Ordinary
  <2>6. pc[t] \in Nat /\ \A k \in DOMAIN program.code[t] : k \in Nat
    BY <2>1, CodeFacts, PositionFacts
  <2>7. \A k \in DOMAIN program.code[t] : m.at < k => EnteredTo(t)' <= k
    BY ONLY <2>1, <2>5, <2>6
  <2> QED BY ONLY <1>1, <2>1, <2>3, <2>7
<1> QED BY <1>2, <1>3 DEF Ordinary

\* QuietAll, on one context
LEMMA QuietContext ==
    ASSUME Types, Control, PassedInv, NEW t \in Tasks, NEW c \in Contexts,
           stage[t] = "run", ~Ended(t), Now(t).via = "quiet", Travelling(PEOf[t], c) = {},
           turn' = [turn EXCEPT ![t] = @ \cup {c}], UNCHANGED <<program, pc, stage, entered, flight>>
    PROVE  PassedInv'
<1>0. RoundInv /\ TurnInv /\ MessageInv
  BY DEF PassedInv
<1>1. \A u \in Tasks : Now(u)' = Now(u) /\ (Ended(u)' <=> Ended(u)) /\ EnteredTo(u)' = EnteredTo(u) /\ ReturnedTo(u)' = ReturnedTo(u)
  BY DEF Now, Ended, EnteredTo, ReturnedTo, InCall
<1>2. RoundInv'
  <2>1. \A u, n, kinds : CallsBefore(program, u, n, kinds)' = CallsBefore(program, u, n, kinds)
    BY DEF CallsBefore
  <2>2. \A u \in Tasks : CallsBefore(program, u, EnteredTo(u), Collective)' = CallsBefore(program, u, EnteredTo(u), Collective)
    BY <1>1 DEF CallsBefore
  <2>3. \A u \in Tasks : CallsBefore(program, u, ReturnedTo(u), Collective)' = CallsBefore(program, u, ReturnedTo(u), Collective)
    BY <1>1 DEF CallsBefore
  <2>4. \A u : Collects(program, u)' <=> Collects(program, u)
    BY DEF Collects
  <2>5. \A p \in PEs : Elements(entered[p])' = Elements(entered[p])
    BY DEF Elements
  <2> QED BY ONLY <1>0, <2>2, <2>3, <2>4, <2>5, entered' = entered DEF RoundInv
<1>3. \A u \in Tasks : turn'[u] = IF u = t THEN turn[t] \cup {c} ELSE turn[u]
  BY DEF Types
<1>4. TurnInv'
  <2> SUFFICES ASSUME NEW u \in Tasks
               PROVE  /\ turn'[u] # {} => ~Ended(u) /\ Now(u).via = "quiet"
                      /\ stage[u] = "posted" /\ Now(u).via = "quiet" => turn'[u] = Contexts
                      /\ stage[u] = "pending" => Now(u).via = "request"
    BY <1>1 DEF TurnInv
  <2>1. CASE u = t
    BY <2>1
  <2>2. CASE u # t
    BY <1>0, <1>3, <2>2 DEF TurnInv
  <2> QED BY <2>1, <2>2
<1>5. MessageInv'
  <2> SUFFICES ASSUME NEW m \in flight PROVE m.ctx \notin turn'[m.task]
    BY <1>0, <1>1 DEF MessageInv
  <2>1. m.task \in Tasks /\ m.from = PEOf[m.task] /\ m.ctx \notin turn[m.task]
    BY <1>0 DEF MessageInv
  <2>2. m.task = t => m.ctx # c
    BY <2>1 DEF Travelling
  <2> QED BY <1>3, <2>1, <2>2
<1> QED BY <1>2, <1>4, <1>5 DEF PassedInv

\* NicEnter
LEMMA NicEnterRounds ==
    ASSUME InStep(program), Types, Control, PassedInv, NEW t \in Tasks, NicEnter(t)
    PROVE  PassedInv'
<1>0. RoundInv /\ TurnInv /\ MessageInv
  BY DEF PassedInv
<1>1. /\ stage[t] = "posted" /\ Now(t).lib \in Collective
      /\ Now(t).lib = "barrier" => Travelling(PEOf[t], Default) = {}
      /\ stage' = [stage EXCEPT ![t] = "entered"] /\ UNCHANGED <<program, pc, turn, flight>>
  BY DEF NicEnter, Inside, Goes
<1>2. PICK x : entered' = [entered EXCEPT ![PEOf[t]] = Append(entered[PEOf[t]], x)]
  BY DEF NicEnter
<1>3. /\ PEOf[t] \in PEs /\ pc[t] \in DOMAIN program.code[t] /\ Now(t) = program.code[t][pc[t]]
      /\ pc[t] \in Nat /\ pc[t] >= 1 /\ Collects(program, t)
  BY <1>1, NowFacts, PositionFacts, ShmemAssumption DEF Collects
<1>4. \A u \in Tasks : stage'[u] = (IF u = t THEN "entered" ELSE stage[u]) /\ Now(u)' = Now(u)
                       /\ (Ended(u)' <=> Ended(u))
  BY <1>1 DEF Types, Now, Ended
<1>5. /\ EnteredTo(t) = pc[t] /\ EnteredTo(t)' = pc[t] + 1
      /\ \A u \in Tasks : ReturnedTo(u)' = ReturnedTo(u) /\ (u # t => EnteredTo(u)' = EnteredTo(u))
  BY <1>1, <1>4 DEF EnteredTo, ReturnedTo, InCall
<1>6. \A u, n, kinds : CallsBefore(program, u, n, kinds)' = CallsBefore(program, u, n, kinds)
  BY <1>1 DEF CallsBefore
<1>7. RoundInv'
  <2>1. PICK p, s : p = PEOf[t] /\ s = entered[PEOf[t]]
    OBVIOUS
  <2>2. s \in Seq(Elements(s)) /\ p \in PEs /\ DOMAIN entered = PEs
    BY <1>0, <1>3, <2>1 DEF RoundInv
  <2>3. Len(s) \in Nat /\ Append(s, x) \in Seq(Elements(Append(s, x))) /\ Len(Append(s, x)) = Len(s) + 1
    BY <2>2, AppendFacts
  <2>4. entered'[p] = Append(s, x) /\ DOMAIN entered' = PEs /\ \A q \in PEs \ {p} : entered'[q] = entered[q]
    BY ONLY <1>2, <2>1, <2>2
  <2>5. \A q \in PEs : entered[q] \in Seq(Elements(entered[q]))
    BY ONLY <1>0 DEF RoundInv
  <2>6. \A q \in PEs : entered'[q] \in Seq(Elements(entered'[q]))
    BY ONLY <2>2, <2>3, <2>4, <2>5
  <2>7. \A q \in PEs : Len(entered[q]) \in Nat
    BY <2>5, LenProperties
  <2>8. \A q \in PEs : Len(entered'[q]) \in Nat /\ Len(entered'[q]) >= Len(entered[q])
    BY ONLY <2>1, <2>3, <2>4, <2>7
  <2>9. ASSUME NEW u \in Tasks, Collects(program, u)
        PROVE  Len(entered'[PEOf[u]]) = CallsBefore(program, u, EnteredTo(u)', Collective)
    <3>1. CASE u = t
      <4>1. Len(s) = CallsBefore(program, t, pc[t], Collective)
        BY ONLY <1>0, <1>3, <1>5, <2>1, t \in Tasks DEF RoundInv
      <4>2. CallsBefore(program, t, pc[t] + 1, Collective) = CallsBefore(program, t, pc[t], Collective) + 1
        BY <1>1, <1>3, CountFacts
      <4> QED BY ONLY <1>5, <2>1, <2>3, <2>4, <3>1, <4>1, <4>2
    <3>2. CASE u # t
      <4>1. PEOf[u] # p /\ PEOf[u] \in PEs
        BY <1>3, <2>1, <2>9, <3>2, ShmemAssumption DEF InStep
      <4> QED BY ONLY <1>0, <1>5, <2>4, <2>9, <3>2, <4>1, u \in Tasks DEF RoundInv
    <3> QED BY <3>1, <3>2
  <2>10. ASSUME NEW u \in Tasks, NEW q \in PEs
         PROVE  CallsBefore(program, u, ReturnedTo(u)', Collective) <= Len(entered'[q])
    <3>1. CallsBefore(program, u, ReturnedTo(u), Collective) <= Len(entered[q])
      BY ONLY <1>0, u \in Tasks, q \in PEs DEF RoundInv
    <3>2. ReturnedTo(u) \in Nat
      BY PositionFacts
    <3>3. CallsBefore(program, u, ReturnedTo(u), Collective) \in Nat
      BY <3>2, CountFacts
    <3> QED BY ONLY <1>5, <2>7, <2>8, <3>1, <3>3, u \in Tasks, q \in PEs
  <2>11. \A u : Collects(program, u)' <=> Collects(program, u)
    BY <1>1 DEF Collects
  <2>12. \A u \in Tasks : /\ CallsBefore(program, u, EnteredTo(u), Collective)' = CallsBefore(program, u, EnteredTo(u)', Collective)
                          /\ CallsBefore(program, u, ReturnedTo(u), Collective)' = CallsBefore(program, u, ReturnedTo(u)', Collective)
    BY <1>1 DEF CallsBefore
  <2>13. \A q : Elements(entered[q])' = Elements(entered'[q])
    BY DEF Elements
  <2> QED BY ONLY <2>4, <2>6, <2>9, <2>10, <2>11, <2>12, <2>13 DEF RoundInv
<1>8. TurnInv'
  BY <1>0, <1>1, <1>4 DEF TurnInv
<1>9. MessageInv'
  <2> SUFFICES ASSUME NEW m \in flight, NEW k \in DOMAIN program.code[m.task],
                      m.at < k, program.code[m.task][k].lib = "barrier"
               PROVE  EnteredTo(m.task)' <= k
    BY <1>0, <1>1 DEF MessageInv
  <2>1. PICK u : u = m.task
    OBVIOUS
  <2>2. /\ u \in Tasks /\ m.at \in DOMAIN program.code[u] /\ m.from = PEOf[u]
        /\ m.ctx = Default \/ (m.ctx \in Contexts /\ program.code[u][m.at].via = "ctx")
        /\ m.ctx \notin turn[u] /\ EnteredTo(u) <= k
    BY <1>0, <2>1 DEF MessageInv
  <2>3. CASE u # t
    BY ONLY <1>5, <2>1, <2>2, <2>3
  <2>4. CASE u = t
    <3>2. k # pc[t]
      <4> SUFFICES ASSUME k = pc[t] PROVE FALSE
        OBVIOUS
      <4>0. Now(t).lib = "barrier"
        BY <1>3, <2>1, <2>4
      <4>1. m.ctx # Default
        BY <1>1, <2>2, <2>4, <4>0 DEF Travelling
      <4>2. Now(t).via = "quiet"
        BY <1>3, <2>1, <2>2, <2>4, <4>1 DEF InStep
      <4>3. turn[t] = Contexts
        BY <1>0, <1>1, <4>2 DEF TurnInv
      <4> QED BY <2>2, <2>4, <4>1, <4>3
    <3>3. k \in Nat
      BY <2>1, <2>2, CodeFacts
    <3> QED BY ONLY <1>3, <1>5, <2>1, <2>2, <2>4, <3>2, <3>3
  <2> QED BY <2>3, <2>4
<1> QED BY <1>7, <1>8, <1>9 DEF PassedInv

\* NicReturn, from a collective call
LEMMA NicReturnRounds ==
    ASSUME Types, Control, PassedInv, NEW t \in Tasks, NicReturn(t), Now(t).lib \in Collective
    PROVE  PassedInv'
<1>0. RoundInv /\ TurnInv /\ MessageInv
  BY DEF PassedInv
<1>1. /\ stage[t] = "entered" /\ stage' = [stage EXCEPT ![t] = "done"]
      /\ UNCHANGED <<program, pc, turn, entered>>
  BY DEF NicReturn, Goes
<1>2. /\ flight' = flight
      /\ \A q \in PEs : Len(entered[q]) >= Len(entered[PEOf[t]])
  <2>1. Effect(t, Default, Now(t))
    BY DEF NicReturn
  <2> QED BY <2>1 DEF Effect, Collective, Fetching
<1>3. PEOf[t] \in PEs /\ pc[t] \in DOMAIN program.code[t] /\ Now(t) = program.code[t][pc[t]] /\ Collects(program, t)
  BY <1>1, NowFacts, PositionFacts, ShmemAssumption DEF Collects
<1>4. \A u \in Tasks : stage'[u] = (IF u = t THEN "done" ELSE stage[u]) /\ Now(u)' = Now(u)
                       /\ (Ended(u)' <=> Ended(u))
  BY <1>1 DEF Types, Now, Ended
<1>5. /\ EnteredTo(t) = pc[t] + 1 /\ ReturnedTo(t)' = pc[t] + 1
      /\ \A u \in Tasks : EnteredTo(u)' = EnteredTo(u) /\ (u # t => ReturnedTo(u)' = ReturnedTo(u))
  BY <1>1, <1>4 DEF EnteredTo, ReturnedTo, InCall
<1>6. RoundInv'
  <2>1. ASSUME NEW u \in Tasks, NEW q \in PEs
        PROVE  CallsBefore(program, u, ReturnedTo(u)', Collective) <= Len(entered[q])
    <3>1. CASE u = t
      <4>1. Len(entered[PEOf[t]]) = CallsBefore(program, t, pc[t] + 1, Collective)
        BY ONLY <1>0, <1>3, <1>5, t \in Tasks DEF RoundInv
      <4>2. Len(entered[PEOf[t]]) \in Nat /\ Len(entered[q]) \in Nat
        BY <1>0, <1>3, LenProperties DEF RoundInv
      <4> QED BY ONLY <1>2, <1>5, <3>1, <4>1, <4>2, q \in PEs
    <3>2. CASE u # t
      BY ONLY <1>0, <1>5, <3>2, u \in Tasks, q \in PEs DEF RoundInv
    <3> QED BY <3>1, <3>2
  <2>2. \A u : Collects(program, u)' <=> Collects(program, u)
    BY <1>1 DEF Collects
  <2>3. \A u \in Tasks : /\ CallsBefore(program, u, EnteredTo(u), Collective)' = CallsBefore(program, u, EnteredTo(u), Collective)
                         /\ CallsBefore(program, u, ReturnedTo(u), Collective)' = CallsBefore(program, u, ReturnedTo(u)', Collective)
    BY <1>1, <1>5 DEF CallsBefore
  <2>4. \A q : Elements(entered[q])' = Elements(entered[q]) /\ entered' = entered
    BY <1>1 DEF Elements
  <2> QED BY ONLY <1>0, <2>1, <2>2, <2>3, <2>4 DEF RoundInv
<1>7. TurnInv'
  BY <1>0, <1>1, <1>4 DEF TurnInv
<1>8. MessageInv'
  BY <1>0, <1>1, <1>2, <1>5 DEF MessageInv
<1> QED BY <1>6, <1>7, <1>8 DEF PassedInv

\* A call on a context puts its messages on their way, in the name of its task.
LEMMA EffectIssues ==
    ASSUME NEW t \in Tasks, NEW c, Effect(t, c, Now(t)), pc[t] \in DOMAIN program.code[t],
           Now(t).lib \notin Collective, Now(t).via # "quiet",
           c = Default \/ (c \in Contexts /\ Now(t).via = "ctx")
    PROVE  \A m \in flight' : m \in flight \/ Issued(m)
<1>1. ASSUME NEW kind, NEW a, NEW v, NEW pe, NEW e PROVE Issued(Message(t, c, kind, a, v, pe, e))
  <2>1. PICK m : m = Message(t, c, kind, a, v, pe, e)
    OBVIOUS
  <2>2. m.task = t /\ m.at = pc[t] /\ m.from = PEOf[t] /\ m.ctx = c
    BY <2>1 DEF Message
  <2> QED BY <2>1, <2>2 DEF Issued
<1> DEFINE ins == Now(t)
<1>2. CASE ins.lib \in {"put", "p", "add"}
  <2>1. PICK k, v, e : flight' = flight \cup {Message(t, c, k, ins.a, v, ins.pe, e)}
    BY <1>2 DEF Effect, Fetching, Collective
  <2> QED BY <1>1, <2>1
<1>3. CASE ins.lib = "put_signal"
  <2>1. PutSignal(t, c, ins)
    BY <1>3 DEF Effect, Fetching, Collective
  <2>2. PICK v, e, w, f : flight' = flight \cup {Message(t, c, "put", ins.a, v, ins.pe, e),
                                                 Message(t, c, "put", ins.v[1], w, ins.pe, f)}
    BY <2>1 DEF PutSignal
  <2> QED BY <1>1, <2>2
<1>4. CASE ins.lib \notin {"put", "p", "add", "put_signal"}
  <2>1. flight' = flight
    BY <1>4 DEF Effect
  <2> QED BY <2>1
<1> QED BY <1>2, <1>3, <1>4

\* Every step preserves the invariant.
LEMMA BarrierNext ==
    ASSUME LockInv, LockInv', BarrierInv, [MpiNext]_mpiVars
    PROVE  BarrierInv'
<1>0. Types /\ Control /\ Types' /\ Control'
  BY DEF LockInv
<1>1. program' = program
  BY ProgramStays
<1> SUFFICES ASSUME InStep(program) PROVE PassedInv'
  BY <1>1 DEF BarrierInv
<1>2. PassedInv /\ TurnInv
  BY DEF BarrierInv, PassedInv
<1>3. ASSUME Ordinary PROVE PassedInv'
  BY <1>0, <1>1, <1>2, <1>3, OrdinaryRounds, OrdinaryTurns, OrdinaryMessages DEF PassedInv
\* The tasks of an ordinary step, and what is on its way.
<1> DEFINE Moved == \A u \in Tasks : Stays(u) \/ Moves(u) \/ Passes(u)
           Flying == entered' = entered /\ flight' \subseteq flight
<1>4. ASSUME Moved, Flying PROVE PassedInv'
  BY <1>3, <1>4 DEF Ordinary
<1>5. ASSUME UNCHANGED library PROVE Flying
  BY <1>5 DEF library
<1>6. ASSUME UNCHANGED tasks PROVE Moved
  BY <1>6 DEF tasks, Stays
\* The kinds of calls.
<1>7. ASSUME NEW t \in Tasks, stage[t] \notin {"idle", "run", "waiting"} \/ ~Ended(t)
      PROVE  /\ pc[t] \in DOMAIN program.code[t]
             /\ Now(t).via \notin {"nic", "quiet"} => Now(t).lib \notin Collective
             /\ Now(t).lib \notin Collective => Now(t).via # "quiet"
  <2>1. pc[t] \in DOMAIN program.code[t] /\ Now(t) = program.code[t][pc[t]]
    BY <1>0, <1>7, NowFacts DEF Now
  <2> QED BY <2>1 DEF InStep, Collective
\* A task goes to a stage, or returns.
<1>8. ASSUME NEW t \in Tasks, NEW s, Goes(t, s),
             s = "posted" => Now(t).via # "quiet" \/ turn[t] = Contexts,
             s = "pending" => Now(t).via = "request",
             Now(t).lib \notin Collective \/ (stage[t] \notin {"entered", "done"} /\ s \notin {"entered", "done"})
      PROVE  Moved
  <2>1. pc' = pc /\ turn' = turn /\ \A u \in Tasks : stage'[u] = IF u = t THEN s ELSE stage[u]
    BY <1>0, <1>8 DEF Goes, Types
  <2>2. Moves(t)
    BY <1>8, <2>1 DEF Moves
  <2>3. \A u \in Tasks : u # t => Stays(u)
    BY <2>1 DEF Stays
  <2> QED BY <2>2, <2>3
<1>9. ASSUME NEW t \in Tasks, Returns(t), pc[t] \in DOMAIN program.code[t], Now(t).lib \in Collective => stage[t] = "done"
      PROVE  Moved
  <2>1. \A u \in Tasks : /\ stage'[u] = IF u = t THEN "run" ELSE stage[u]
                         /\ pc'[u] = IF u = t THEN pc[u] + 1 ELSE pc[u]
                         /\ turn'[u] = IF u = t THEN {} ELSE turn[u]
    BY <1>0, <1>9 DEF Returns, Types
  <2>2. Passes(t)
    BY <1>9, <2>1 DEF Passes
  <2>3. \A u \in Tasks : u # t => Stays(u)
    BY <2>1 DEF Stays
  <2> QED BY <2>2, <2>3
\* A task goes on to its next call, and another may be started.
<1>10. ASSUME NEW t \in Tasks, ~Ended(t), stage[t] = "run", Now(t).via \in {"wait", "async"},
              NEW u \in Tasks, NEW s \in {"waiting", "posted"}, stage' = [stage EXCEPT ![u] = s],
              u = t => s = "waiting",
              u # t => stage[u] = "idle" /\ (s = "posted" => Now(u).via # "quiet"),
              pc' = [pc EXCEPT ![t] = @ + 1], turn' = turn
       PROVE  Moved
  <2>1. \A w \in Tasks : /\ stage'[w] = IF w = u THEN s ELSE stage[w]
                         /\ pc'[w] = IF w = t THEN pc[w] + 1 ELSE pc[w]
                         /\ turn'[w] = turn[w]
    BY <1>0, <1>10 DEF Types
  <2>2. Passes(t)
    <3>1. pc[t] \in DOMAIN program.code[t] /\ Now(t).lib \notin Collective
      BY <1>7, <1>10
    <3> QED BY <1>10, <2>1, <3>1 DEF Passes
  <2>3. u # t => Moves(u)
    BY <1>10, <2>1 DEF Moves
  <2>4. \A w \in Tasks : w # t /\ w # u => Stays(w)
    BY <2>1 DEF Stays
  <2> QED BY <2>2, <2>3, <2>4
<1> HIDE DEF Moved, Flying
<1>11. ASSUME NEW t \in Tasks, NicStep(t) PROVE PassedInv'
  <2>1. CASE NicRun(t)
    <3>1. Flying
      BY <2>1 DEF NicRun, Flying
    <3> QED BY <1>4, <1>6, <2>1, <3>1 DEF NicRun
  <2>2. CASE NicEnter(t)
    BY <1>0, <1>2, <2>2, NicEnterRounds
  <2>3. CASE NicReturn(t)
    <3>1. CASE Now(t).lib \in Collective
      BY <1>0, <1>2, <2>3, <3>1, NicReturnRounds
    <3>2. CASE Now(t).lib \notin Collective
      <4>1. /\ stage[t] \in {"posted", "entered"} /\ Effect(t, Default, Now(t)) /\ Goes(t, "done") /\ entered' = entered
        BY <2>3 DEF NicReturn, Inside
      <4>2. Moved
        BY <1>8, <3>2, <4>1
      <4>3. pc[t] \in DOMAIN program.code[t] /\ Now(t).via # "quiet"
        BY <1>7, <3>2, <4>1
      <4>4. \A m \in flight' : m \in flight \/ Issued(m)
        BY <3>2, <4>1, <4>3, EffectIssues
      <4> QED BY <1>3, <4>1, <4>2, <4>4 DEF Ordinary, Moved
    <3> QED BY <3>1, <3>2
  <2>4. CASE poll_on_waits(t)
    <3>1. Flying
      BY <1>5, <2>4 DEF poll_on_waits
    <3>2. CASE UNCHANGED tasks
      BY <1>4, <1>6, <3>1, <3>2
    <3>3. CASE stage' = [stage EXCEPT ![t] = "run"] /\ UNCHANGED <<program, pc, turn>>
      <4>1. stage[t] = "waiting" /\ \A u \in Tasks : stage'[u] = IF u = t THEN "run" ELSE stage[u]
        BY <1>0, <2>4, <3>3 DEF poll_on_waits, Types
      <4>2. \A u \in Tasks : Stays(u) \/ Moves(u)
        BY <3>3, <4>1 DEF Stays, Moves
      <4> QED BY <1>4, <3>1, <4>2 DEF Moved
    <3> QED BY <2>4, <3>2, <3>3 DEF poll_on_waits
  <2> QED BY <1>11, <2>1, <2>2, <2>3, <2>4 DEF NicStep
<1>12. ASSUME NEW t \in Tasks, TaskStep(t) PROVE PassedInv'
  <2>0. CASE Abort
    BY <1>4, <1>5, <1>6, <2>0 DEF Abort
  <2>1. CASE Post(t)
    <3>1. stage[t] = "run" /\ Now(t).via \in {"nic", "request"} /\ Goes(t, "posted") /\ UNCHANGED library
      BY <2>1 DEF Post, In
    <3> QED BY <1>4, <1>5, <1>8, <3>1
  <2>2. CASE Resume(t)
    <3>1. stage[t] = "done" /\ ~Ended(t) /\ Returns(t) /\ flight' = flight /\ entered' = entered
      BY <2>2 DEF Resume, In
    <3>2. Moved
      BY <1>7, <1>9, <3>1
    <3> QED BY <1>4, <3>1, <3>2 DEF Flying
  <2>3. CASE OnContext(t)
    <3>1. /\ stage[t] = "run" /\ ~Ended(t) /\ Now(t).via = "ctx" /\ Returns(t) /\ entered' = entered
      BY <2>3 DEF OnContext, In
    <3>2. PICK c \in Contexts : Effect(t, c, Now(t))
      BY <2>3 DEF OnContext
    <3>3. pc[t] \in DOMAIN program.code[t] /\ Now(t).lib \notin Collective
      BY <1>7, <3>1
    <3>4. Moved
      BY <1>9, <3>1, <3>3
    <3>5. \A m \in flight' : m \in flight \/ Issued(m)
      BY <3>1, <3>2, <3>3, EffectIssues
    <3> QED BY <1>3, <3>1, <3>4, <3>5 DEF Ordinary, Moved
  <2>4. CASE QuietAll(t)
    <3>1. stage[t] = "run" /\ ~Ended(t) /\ Now(t).via = "quiet" /\ UNCHANGED library /\ entered' = entered /\ flight' = flight
      BY <2>4 DEF QuietAll, In, library
    <3>2. CASE turn[t] = Contexts
      <4>1. Goes(t, "posted")
        BY <2>4, <3>2 DEF QuietAll
      <4> QED BY <1>4, <1>5, <1>8, <3>1, <3>2, <4>1
    <3>3. CASE turn[t] # Contexts
      <4>1. PICK c \in Contexts : Travelling(PEOf[t], c) = {} /\ turn' = [turn EXCEPT ![t] = @ \cup {c}]
        BY <2>4, <3>3 DEF QuietAll
      <4>2. UNCHANGED <<program, pc, stage>>
        BY <2>4, <3>3 DEF QuietAll
      <4> QED BY <1>0, <1>2, <3>1, <4>1, <4>2, QuietContext
    <3> QED BY <3>2, <3>3
  <2>5. CASE set_lock(t)
    <3>1. PICK s \in {"await", "posted"} : Goes(t, s)
      BY <2>5 DEF set_lock
    <3>2. stage[t] = "run" /\ Now(t).via = "lock" /\ UNCHANGED library
      BY <2>5 DEF set_lock, In
    <3> QED BY <1>4, <1>5, <1>8, <3>1, <3>2
  <2>6. CASE sos_set_lock_wait(t)
    <3>1. stage[t] = "await" /\ Now(t).via = "lock" /\ Goes(t, "posted") /\ UNCHANGED library
      BY <2>6 DEF sos_set_lock_wait, In
    <3> QED BY <1>4, <1>5, <1>8, <3>1
  <2>7. CASE set_lock_granted(t)
    <3>1. CASE Returns(t) /\ UNCHANGED library
      <4>1. stage[t] = "done" /\ ~Ended(t)
        BY <2>7 DEF set_lock_granted, In
      <4> QED BY <1>4, <1>5, <1>7, <1>9, <3>1, <4>1
    <3> QED BY <2>0, <2>7, <3>1 DEF set_lock_granted
  <2>8. CASE clear_lock(t)
    <3>1. CASE Goes(t, "posted") /\ UNCHANGED library
      <4>1. stage[t] = "run" /\ Now(t).via = "unlock"
        BY <2>8 DEF clear_lock, In
      <4> QED BY <1>4, <1>5, <1>8, <3>1, <4>1
    <3> QED BY <2>0, <2>8, <3>1 DEF clear_lock
  <2>9. CASE clear_lock_done(t)
    <3>1. CASE Goes(t, "put") /\ UNCHANGED library
      <4>1. ~Ended(t) /\ Now(t).via = "unlock"
        BY <2>9 DEF clear_lock_done, In
      <4>2. Now(t).lib \notin Collective
        BY <1>7, <4>1
      <4> QED BY <1>4, <1>5, <1>8, <3>1, <4>2
    <3> QED BY <2>0, <2>9, <3>1 DEF clear_lock_done
  <2>10. CASE clear_lock_put(t)
    <3>1. ~Ended(t) /\ Now(t).via = "unlock" /\ Returns(t) /\ UNCHANGED library
      BY <2>10 DEF clear_lock_put, In
    <3>2. pc[t] \in DOMAIN program.code[t] /\ Now(t).lib \notin Collective
      BY <1>7, <3>1
    <3> QED BY <1>4, <1>5, <1>9, <3>1, <3>2
  <2>11. CASE enqueue_wait_set(t)
    <3> DEFINE u == IF Now(t).lib = "wait" THEN t ELSE Now(t).a
    <3>1. /\ stage[t] = "run" /\ ~Ended(t) /\ Now(t).via = "wait" /\ stage' = [stage EXCEPT ![u] = "waiting"]
          /\ pc' = [pc EXCEPT ![t] = @ + 1] /\ turn' = turn /\ UNCHANGED library
      BY <2>11 DEF enqueue_wait_set, In
    <3>2. u \in Tasks /\ (u # t => stage[u] = "idle")
      <4>1. CASE Now(t).lib = "wait"
        BY <4>1
      <4>2. CASE Now(t).lib # "wait"
        <5>1. pc[t] \in DOMAIN program.code[t] /\ Now(t) = program.code[t][pc[t]] /\ Starts(Now(t)) /\ pc[t] \in Nat
          BY <1>0, <1>7, <3>1, <4>2 DEF Now, Starts, Types
        <5>2. Now(t).a \in Tasks
          BY <1>0, <5>1, StartFacts
        <5>3. stage[Now(t).a] = "idle"
          BY <1>0, <5>1 DEF Control
        <5> QED BY <4>2, <5>2, <5>3
      <4> QED BY <4>1, <4>2
    <3> HIDE DEF u
    <3>3. Moved
      BY <1>10, <3>1, <3>2
    <3> QED BY <1>4, <1>5, <3>1, <3>3
  <2> QED BY <1>12, <2>1, <2>2, <2>3, <2>4, <2>5, <2>6, <2>7, <2>8, <2>9, <2>10, <2>11 DEF TaskStep
<1>13. ASSUME NEW t \in Tasks, MpiStep(t) PROVE PassedInv'
  <2>1. CASE MakeRequest(t)
    <3>1. stage[t] = "posted" /\ Now(t).via = "request" /\ entered' = entered /\ flight' = flight
      BY <2>1 DEF MakeRequest
    <3>2. PICK s \in {"entered", "pending"} : Goes(t, s)
      BY <2>1 DEF MakeRequest
    <3>3. Now(t).lib \notin Collective
      BY <1>7, <3>1
    <3> QED BY <1>4, <1>8, <3>1, <3>2, <3>3 DEF Flying
  <2>2. CASE RequestReturn(t)
    <3>1. stage[t] = "entered" /\ Now(t).via = "request" /\ Goes(t, "done") /\ entered' = entered /\ flight' = flight
      BY <2>2 DEF RequestReturn
    <3>2. Now(t).lib \notin Collective
      BY <1>7, <3>1
    <3> QED BY <1>4, <1>8, <3>1, <3>2 DEF Flying
  <2>3. CASE poll_on_pending(t)
    <3>1. stage[t] = "pending" /\ Goes(t, "done") /\ UNCHANGED library
      BY <2>3 DEF poll_on_pending
    <3>2. Now(t).via = "request"
      BY <1>2, <3>1 DEF TurnInv
    <3>3. Now(t).lib \notin Collective
      BY <1>7, <3>1, <3>2
    <3> QED BY <1>4, <1>5, <1>8, <3>1, <3>3
  <2>4. CASE async_nb_await_at(t)
    <3> DEFINE u == Now(t).a
    <3>1. /\ stage[t] = "run" /\ ~Ended(t) /\ Now(t).via = "async" /\ stage' = [stage EXCEPT ![u] = "posted"]
          /\ pc' = [pc EXCEPT ![t] = @ + 1] /\ turn' = turn /\ UNCHANGED library
      BY <2>4 DEF async_nb_await_at, In
    <3>2. pc[t] \in DOMAIN program.code[t] /\ Now(t) = program.code[t][pc[t]] /\ Starts(Now(t)) /\ pc[t] \in Nat
      BY <1>0, <1>7, <3>1 DEF Now, Starts, Types
    <3>3. u \in Tasks /\ program.code[u][1].via \in {"nic", "request"}
      BY <1>0, <3>1, <3>2, StartFacts
    <3>4. stage[u] = "idle" /\ u # t
      BY <1>0, <3>1, <3>2 DEF Control
    <3>5. Now(u).via # "quiet"
      BY <1>0, <3>3, <3>4 DEF Control, Now
    <3> HIDE DEF u
    <3>6. Moved
      BY <1>10, <3>1, <3>3, <3>4, <3>5
    <3> QED BY <1>4, <1>5, <3>1, <3>6
  <2>5. CASE Waitall(t)
    <3>1. ~Ended(t) /\ Now(t).via = "waitall" /\ Returns(t) /\ UNCHANGED library
      BY <2>5 DEF Waitall, In
    <3>2. pc[t] \in DOMAIN program.code[t] /\ Now(t).lib \notin Collective
      BY <1>7, <3>1
    <3> QED BY <1>4, <1>5, <1>9, <3>1, <3>2
  <2> QED BY <1>13, <2>1, <2>2, <2>3, <2>4, <2>5 DEF MpiStep
<1>14. ASSUME UNCHANGED vars PROVE PassedInv'
  BY <1>4, <1>5, <1>6, <1>14 DEF vars
<1>15. CASE Next
  <2>1. ASSUME NEW m \in flight, Deliver(m) PROVE PassedInv'
    <3>1. Flying
      BY <2>1 DEF Deliver, Flying
    <3> QED BY <1>4, <1>6, <2>1, <3>1 DEF Deliver
  <2> QED BY <1>11, <1>12, <1>14, <1>15, <2>1 DEF Next
<1>16. ASSUME NEW i, NEW j, Buffer(i) \/ Match(i, j) PROVE PassedInv'
  <2>1. CASE Buffer(i)
    BY <1>14, <2>1 DEF Buffer
  <2>2. CASE Match(i, j)
    <3>1. Flying
      BY <2>2 DEF Match, Flying
    <3> QED BY <1>4, <1>6, <2>2, <3>1 DEF Match
  <2> QED BY <1>16, <2>1, <2>2
<1>17. CASE UNCHANGED mpiVars
  BY <1>14, <1>17 DEF mpiVars
<1> QED BY <1>13, <1>15, <1>16, <1>17 DEF MpiNext

\* Initially nothing is on its way and no call was made.
LEMMA BarrierInit ==
    ASSUME MpiInit
    PROVE  BarrierInv
<1> SUFFICES PassedInv
  BY DEF BarrierInv
<1>0. Types /\ Control
  BY LockInit DEF LockInv
<1>1. /\ pc = [t \in Tasks |-> 1]
      /\ stage = [t \in Tasks |-> IF t \in program.start THEN "run" ELSE "idle"]
      /\ turn = [t \in Tasks |-> {}] /\ entered = [p \in PEs |-> << >>] /\ flight = {}
  BY DEF MpiInit, Init
<1>2. \A t \in Tasks : pc[t] = 1 /\ stage[t] \in {"run", "idle"} /\ turn[t] = {}
  BY <1>1
<1>3. \A t \in Tasks : EnteredTo(t) = 1 /\ ReturnedTo(t) = 1
  BY <1>2 DEF EnteredTo, ReturnedTo, InCall
<1>4. \A t : CallsBefore(program, t, 1, Collective) = 0
  <2> SUFFICES ASSUME NEW t PROVE CallsBefore(program, t, 1, Collective) = 0
    OBVIOUS
  <2>1. {k \in 1 .. 1 - 1 : program.code[t][k].lib \in Collective} = {}
    OBVIOUS
  <2> QED BY <2>1, FS_EmptySet DEF CallsBefore
<1>5. DOMAIN << >> = {} /\ << >> \in Seq(Elements(<< >>)) /\ Len(<< >>) = 0
  BY DEF Elements
<1>6. DOMAIN entered = PEs /\ \A p \in PEs : entered[p] = << >>
  BY <1>1
<1>7. RoundInv
  <2>1. \A t \in Tasks : PEOf[t] \in PEs
    BY ShmemAssumption
  <2>2. \A t \in Tasks : Collects(program, t)
            => Len(entered[PEOf[t]]) = CallsBefore(program, t, EnteredTo(t), Collective)
    <3> SUFFICES ASSUME NEW t \in Tasks
                 PROVE  Len(entered[PEOf[t]]) = CallsBefore(program, t, EnteredTo(t), Collective)
      OBVIOUS
    <3>1. EnteredTo(t) = 1 /\ CallsBefore(program, t, 1, Collective) = 0
      BY <1>3, <1>4
    <3>2. Len(entered[PEOf[t]]) = 0
      BY <1>5, <1>6, <2>1
    <3> QED BY <3>1, <3>2
  <2>3. \A t \in Tasks, q \in PEs :
            CallsBefore(program, t, ReturnedTo(t), Collective) =< Len(entered[q])
    <3> SUFFICES ASSUME NEW t \in Tasks, NEW q \in PEs
                 PROVE  CallsBefore(program, t, ReturnedTo(t), Collective) =< Len(entered[q])
      OBVIOUS
    <3>1. ReturnedTo(t) = 1 /\ CallsBefore(program, t, 1, Collective) = 0
      BY <1>3, <1>4
    <3>2. Len(entered[q]) = 0
      BY <1>5, <1>6
    <3> QED BY <3>1, <3>2
  <2>4. \A p \in PEs : entered[p] \in Seq(Elements(entered[p]))
    BY <1>5, <1>6
  <2> QED BY <1>6, <2>2, <2>3, <2>4 DEF RoundInv
<1>8. TurnInv
  BY <1>2 DEF TurnInv
<1>9. MessageInv
  BY <1>1 DEF MessageInv
<1> QED BY <1>7, <1>8, <1>9 DEF PassedInv

\* shmem_barrier_all of OpenSHMEM and of SOS: when a task has passed a barrier,
\* the puts that any task with barriers issued before it have arrived, on
\* whatever contexts they were issued, for every program whose collective calls
\* are in step.
THEOREM BarrierCompletesHolds == MpiSpec => [](InStep(program) => BarrierCompletes)
<1>1. MpiInit => LockInv /\ BarrierInv
  BY LockInit, BarrierInit
<1>2. LockInv /\ BarrierInv /\ [MpiNext]_mpiVars => (LockInv /\ BarrierInv)'
  BY LockNext, BarrierNext
<1>3. LockInv /\ BarrierInv => (InStep(program) => BarrierCompletes)
  BY BarrierImplies DEF LockInv, BarrierInv
<1> QED BY <1>1, <1>2, <1>3, PTL DEF MpiSpec

-----------------------------------------------------------------------------
(* Signals *)

\* Call k of task u puts a signal, to address a of a PE.
IsSignal(u, k) == u \in Tasks /\ k \in DOMAIN program.code[u] /\ program.code[u][k].lib = "put_signal"
SignalTo(u, k, pe, a) == IsSignal(u, k) /\ program.code[u][k].pe = pe /\ program.code[u][k].v[1] = a

\* The library has returned from call k of task u.
Executed(u, k) == k < pc[u] \/ (k = pc[u] /\ stage[u] \in {"done", "put"})

\* A message carries what call k of task u puts, or its signal.
From(m, u, k) == m.task = u /\ m.at = k /\ m.from = PEOf[u] /\ m.ctx = Default
Carries(m, u, k) == m.task = u /\ m.at = k /\ m.a = program.code[u][k].a

MemTypes ==
    /\ DOMAIN mem = PEs /\ (\A p \in PEs : DOMAIN mem[p] = Addrs)
    /\ epoch \in [PEs -> Nat]

SentInv ==
    /\ MemTypes
    /\ \A m \in flight : m.task \in Tasks /\ m.at \in Nat /\ Executed(m.task, m.at)

\* The signal is there when its call was executed and the data has arrived.
ThereInv ==
    \A u, k : IsSignal(u, k) /\ mem[program.code[u][k].pe][program.code[u][k].v[1]] = program.code[u][k].v[2]
        => Executed(u, k) /\ \A n \in flight : ~Carries(n, u, k)

\* Only the signal is on its way to its place, and the data is before it.
BehindInv ==
    \A u, k : \A m \in flight : SignalTo(u, k, m.to, m.a) =>
        /\ From(m, u, k)
        /\ \A n \in flight : Carries(n, u, k) => From(n, u, k) /\ n.to = m.to /\ ~(n.epoch >= m.epoch)

\* No message of MPI is received where a signal is put.
ReceiveInv ==
    /\ reqs \in Seq(Elements(reqs))
    /\ \A r \in Elements(reqs) : IsRequest(r) /\ (r.kind = "recv" => ~\E u, k : SignalTo(u, k, r.at, r.buf))

SignaledInv == SentInv /\ ThereInv /\ BehindInv /\ ReceiveInv
SignalInv == OwnSignals(program) => SignaledInv

\* What OwnSignals says of a signal and of another call.
LEMMA SignalFacts ==
    ASSUME OwnSignals(program), Types, NEW u, NEW k, IsSignal(u, k)
    PROVE  /\ program.code[u][k].via = "nic" /\ program.code[u][k].v[1] # program.code[u][k].a
           /\ program.code[u][k].pe \in PEs /\ program.code[u][k].a \in Addrs /\ program.code[u][k].v[1] \in Addrs
           /\ program.code[u][k].v[2] #
                IF <<program.code[u][k].pe, program.code[u][k].v[1]>> \in program.ones THEN 1 ELSE 0
<1>1. u \in Tasks /\ k \in DOMAIN program.code[u] /\ program.code[u][k].lib = "put_signal"
  BY DEF IsSignal
<1>2. WellFormed(program.code[u][k])
  BY <1>1, CodeFacts
<1>3. program.code[u][k].pe \in PEs /\ program.code[u][k].a \in Addrs /\ program.code[u][k].v[1] \in Addrs
  BY <1>1, <1>2 DEF WellFormed
<1>4. /\ program.code[u][k].via = "nic" /\ program.code[u][k].v[1] # program.code[u][k].a
      /\ program.code[u][k].v[2] #
            IF <<program.code[u][k].pe, program.code[u][k].v[1]>> \in program.ones THEN 1 ELSE 0
  BY <1>1 DEF OwnSignals
<1> QED BY <1>3, <1>4

\* No other call writes to the place of a signal.
LEMMA OtherCalls ==
    ASSUME OwnSignals(program), NEW u, NEW k, IsSignal(u, k), NEW t \in Tasks, NEW i \in DOMAIN program.code[t],
           <<t, i>> # <<u, k>>, NEW sig, sig = program.code[u][k], NEW ins, ins = program.code[t][i]
    PROVE  /\ ~Overwrites(t, ins, sig.pe, sig.v[1])
           /\ ~(ins.lib \in {"fadd", "add"} /\ ins.pe = sig.pe /\ ins.a = sig.v[1])
<1>1. u \in Tasks /\ k \in DOMAIN program.code[u] /\ program.code[u][k].lib = "put_signal"
  BY DEF IsSignal
<1>2. ASSUME NEW x \in Tasks, NEW q \in DOMAIN program.code[x], program.code[x][q].lib = "put_signal",
             NEW y \in Tasks, NEW j \in DOMAIN program.code[y], <<y, j>> # <<x, q>>
      PROVE  /\ ~Overwrites(y, program.code[y][j], program.code[x][q].pe, program.code[x][q].v[1])
             /\ ~(/\ program.code[y][j].lib \in {"fadd", "add"} /\ program.code[y][j].pe = program.code[x][q].pe
                  /\ program.code[y][j].a = program.code[x][q].v[1])
  BY <1>2 DEF OwnSignals
<1> QED BY <1>1, <1>2

\* Tasks go on, and the memory that signals are put to stays.
Onward(u) ==
    \/ pc'[u] = pc[u] /\ (stage[u] \in {"done", "put"} => stage'[u] \in {"done", "put"})
    \/ pc'[u] = pc[u] + 1
SignalsStay == \A u, k : IsSignal(u, k) =>
    mem'[program.code[u][k].pe][program.code[u][k].v[1]] = mem[program.code[u][k].pe][program.code[u][k].v[1]]

\* What was executed stays executed.
LEMMA StillExecuted ==
    ASSUME Types, NEW u \in Tasks, NEW k, Onward(u), Executed(u, k), k \in Nat
    PROVE  Executed(u, k)'
<1>1. pc[u] \in Nat
  BY DEF Types
<1>2. CASE pc'[u] = pc[u] /\ (stage[u] \in {"done", "put"} => stage'[u] \in {"done", "put"})
  BY <1>2 DEF Executed
<1>3. CASE pc'[u] = pc[u] + 1
  BY <1>1, <1>3 DEF Executed
<1> QED BY <1>2, <1>3 DEF Onward

\* A message that call i of task t has put on its way.
SentBy(m, t, i) ==
    /\ m.task = t /\ m.at = i /\ t \in Tasks /\ i \in Nat /\ ~Executed(t, i) /\ Executed(t, i)'
    /\ \A u, k : SignalTo(u, k, m.to, m.a) => u = t /\ k = i
    /\ IsSignal(t, i) => From(m, t, i) /\ m.to = program.code[t][i].pe

\* A call puts messages on their way, or none, and no signal arrives.
LEMMA SignalStep ==
    ASSUME OwnSignals(program), Types, SentInv, ThereInv, BehindInv, program' = program, \A u \in Tasks : Onward(u),
           SignalsStay, MemTypes', NEW t, NEW i, \A m \in flight' : m \in flight \/ SentBy(m, t, i),
           \A m, n \in flight' : m \notin flight /\ n \notin flight /\ SignalTo(t, i, m.to, m.a) /\ Carries(n, t, i)
                => ~(n.epoch >= m.epoch)
    PROVE  SentInv' /\ ThereInv' /\ BehindInv'
<1>1. /\ \A u, k : IsSignal(u, k)' <=> IsSignal(u, k)
      /\ \A u, k, pe, a : SignalTo(u, k, pe, a)' <=> SignalTo(u, k, pe, a)
      /\ \A m, u, k : From(m, u, k)' <=> From(m, u, k)
      /\ \A m, u, k : Carries(m, u, k)' <=> Carries(m, u, k)
  BY DEF IsSignal, SignalTo, From, Carries
<1>2. \A u, k : IsSignal(u, k) => u \in Tasks /\ k \in Nat
  BY CodeFacts DEF IsSignal
<1>3. \A m \in flight : m.task \in Tasks /\ m.at \in Nat /\ Executed(m.task, m.at)
  BY DEF SentInv
<1>4. SentInv'
  <2> SUFFICES ASSUME NEW m \in flight' PROVE m.task \in Tasks /\ m.at \in Nat /\ Executed(m.task, m.at)'
    BY DEF SentInv
  <2>1. CASE m \in flight
    BY <1>3, <2>1, StillExecuted
  <2>2. CASE SentBy(m, t, i)
    <3>1. m.task = t /\ m.at = i /\ t \in Tasks /\ i \in Nat /\ Executed(t, i)'
      BY <2>2 DEF SentBy
    <3> QED BY <3>1 DEF Executed
  <2> QED BY <2>1, <2>2
<1>5. \A m \in flight' : m \notin flight => SentBy(m, t, i)
  OBVIOUS
<1>6. ASSUME NEW n \in flight', n \notin flight, NEW u, NEW k, Carries(n, u, k)
      PROVE  u = t /\ k = i /\ ~Executed(u, k) /\ \A m \in flight : ~(m.task = u /\ m.at = k)
  <2>1. u = t /\ k = i /\ ~Executed(t, i)
    BY <1>5, <1>6 DEF SentBy, Carries
  <2> QED BY <1>3, <2>1
<1>7. ThereInv'
  <2> SUFFICES ASSUME NEW u, NEW k, IsSignal(u, k),
                      mem'[program.code[u][k].pe][program.code[u][k].v[1]] = program.code[u][k].v[2]
               PROVE  Executed(u, k)' /\ \A n \in flight' : ~Carries(n, u, k)
    BY <1>1 DEF ThereInv
  <2>1. mem[program.code[u][k].pe][program.code[u][k].v[1]] = program.code[u][k].v[2]
    BY DEF SignalsStay
  <2>2. Executed(u, k) /\ \A n \in flight : ~Carries(n, u, k)
    BY <2>1 DEF ThereInv
  <2>3. Executed(u, k)'
    BY <1>2, <2>2, StillExecuted
  <2> QED BY <1>6, <2>2, <2>3
<1>8. BehindInv'
  <2> SUFFICES ASSUME NEW u, NEW k, NEW m \in flight', SignalTo(u, k, m.to, m.a)
               PROVE  /\ From(m, u, k)
                      /\ \A n \in flight' : Carries(n, u, k) => From(n, u, k) /\ n.to = m.to /\ ~(n.epoch >= m.epoch)
    BY <1>1 DEF BehindInv
  <2>1. CASE m \in flight
    <3>1. /\ From(m, u, k)
          /\ \A n \in flight : Carries(n, u, k) => From(n, u, k) /\ n.to = m.to /\ ~(n.epoch >= m.epoch)
      BY <2>1 DEF BehindInv
    <3>2. m.task = u /\ m.at = k
      BY <3>1 DEF From
    <3> QED BY <1>6, <2>1, <3>1, <3>2
  <2>2. CASE m \notin flight
    <3>1. u = t /\ k = i /\ IsSignal(t, i) /\ SentBy(m, t, i) /\ SignalTo(t, i, m.to, m.a)
      BY <1>5, <2>2 DEF SentBy, SignalTo
    <3>2. From(m, t, i) /\ m.to = program.code[t][i].pe /\ ~Executed(t, i)
      BY <3>1 DEF SentBy
    <3>3. ASSUME NEW n \in flight', Carries(n, t, i)
          PROVE  From(n, t, i) /\ n.to = m.to /\ ~(n.epoch >= m.epoch)
      <4>1. n \notin flight
        BY <1>3, <3>2, <3>3 DEF Carries
      <4>2. SentBy(n, t, i)
        BY <1>5, <4>1
      <4>3. From(n, t, i) /\ n.to = m.to
        BY <3>1, <3>2, <4>2 DEF SentBy
      <4> QED BY <2>2, <3>1, <3>3, <4>1, <4>3
    <3> QED BY <3>1, <3>2, <3>3
  <2> QED BY <2>1, <2>2
<1> QED BY <1>4, <1>7, <1>8

\* Nothing is put on its way.
LEMMA QuietSignals ==
    ASSUME OwnSignals(program), Types, SentInv, ThereInv, BehindInv, program' = program, \A u \in Tasks : Onward(u),
           SignalsStay, MemTypes', flight' \subseteq flight
    PROVE  SentInv' /\ ThereInv' /\ BehindInv'
<1>1. \A m \in flight' : m \in flight
  OBVIOUS
<1>2. PICK t : t = NULL
  OBVIOUS
<1>3. PICK i : i = 0
  OBVIOUS
<1>4. \A m \in flight' : m \in flight \/ SentBy(m, t, i)
  BY <1>1
<1>5. \A m, n \in flight' : m \notin flight /\ n \notin flight /\ SignalTo(t, i, m.to, m.a) /\ Carries(n, t, i)
                => ~(n.epoch >= m.epoch)
  BY <1>1
<1> QED BY <1>4, <1>5, SignalStep

\* A place of memory that no signal is put to is written.
LEMMA WrittenSignals ==
    ASSUME OwnSignals(program), Types, MemTypes, NEW p, NEW a, NEW v, mem' = [mem EXCEPT ![p][a] = v],
           ~\E u, k : SignalTo(u, k, p, a), epoch' = epoch
    PROVE  SignalsStay /\ MemTypes'
<1>1. MemTypes'
  BY DEF MemTypes
<1>2. ASSUME NEW u, NEW k, IsSignal(u, k)
      PROVE  mem'[program.code[u][k].pe][program.code[u][k].v[1]] = mem[program.code[u][k].pe][program.code[u][k].v[1]]
  <2>1. PICK q, b : q = program.code[u][k].pe /\ b = program.code[u][k].v[1]
    OBVIOUS
  <2>2. q \in PEs /\ b \in Addrs
    BY <1>2, <2>1, SignalFacts
  <2>3. ~(p = q /\ a = b)
    BY <1>2, <2>1 DEF SignalTo
  <2>4. mem'[q][b] = IF p = q /\ a = b THEN v ELSE mem[q][b]
    BY <2>2 DEF MemTypes
  <2>5. mem'[q][b] = mem[q][b]
    BY <2>3, <2>4
  <2> QED BY ONLY <2>1, <2>5
<1> QED BY <1>1, <1>2, Zenon DEF SignalsStay

\* Deliver: a signal arrives behind its data.
LEMMA DeliverSignals ==
    ASSUME OwnSignals(program), Types, SentInv, ThereInv, BehindInv, NEW m \in flight, Deliver(m)
    PROVE  SentInv' /\ ThereInv' /\ BehindInv'
<1>1. PICK v : mem' = [mem EXCEPT ![m.to][m.a] = v]
  BY DEF Deliver
<1>2. program' = program /\ pc' = pc /\ stage' = stage /\ flight' \subseteq flight /\ epoch' = epoch
  BY DEF Deliver, tasks
<1>3. \A u \in Tasks : Onward(u)
  BY <1>2 DEF Onward
<1>4. CASE ~\E u, k : SignalTo(u, k, m.to, m.a)
  <2>1. MemTypes
    BY DEF SentInv
  <2>2. SignalsStay /\ MemTypes'
    BY <1>1, <1>2, <1>4, <2>1, WrittenSignals
  <2> QED BY <1>2, <1>3, <2>2, QuietSignals
<1>5. ASSUME NEW u, NEW k, SignalTo(u, k, m.to, m.a) PROVE SentInv' /\ ThereInv' /\ BehindInv'
  <2>1. /\ \A w, j : IsSignal(w, j)' <=> IsSignal(w, j)
        /\ \A w, j, pe, a : SignalTo(w, j, pe, a)' <=> SignalTo(w, j, pe, a)
        /\ \A n, w, j : From(n, w, j)' <=> From(n, w, j)
        /\ \A n, w, j : Carries(n, w, j)' <=> Carries(n, w, j)
        /\ \A w, j : Executed(w, j)' <=> Executed(w, j)
    BY <1>2 DEF IsSignal, SignalTo, From, Carries, Executed
  <2>2. MemTypes /\ MemTypes'
    BY <1>1, <1>2 DEF SentInv, MemTypes
  <2>3. SentInv'
    BY <1>2, <2>1, <2>2 DEF SentInv
  <2>4. BehindInv'
    BY <1>2, <2>1 DEF BehindInv
  <2>5. ThereInv'
    <3> SUFFICES ASSUME NEW w, NEW j, IsSignal(w, j),
                        mem'[program.code[w][j].pe][program.code[w][j].v[1]] = program.code[w][j].v[2]
                 PROVE  Executed(w, j) /\ \A n \in flight' : ~Carries(n, w, j)
      BY <1>2, <2>1 DEF ThereInv
    <3>0. PICK q, b : q = program.code[w][j].pe /\ b = program.code[w][j].v[1] /\ mem'[q][b] = program.code[w][j].v[2]
      OBVIOUS
    <3>1. CASE q = m.to /\ b = m.a
      <4>1. SignalTo(w, j, m.to, m.a)
        BY <3>0, <3>1 DEF SignalTo
      <4>2. /\ From(m, w, j)
            /\ \A n \in flight : Carries(n, w, j) => From(n, w, j) /\ n.to = m.to /\ ~(n.epoch >= m.epoch)
        BY <4>1 DEF BehindInv
      <4>3. m.task = w /\ m.at = j /\ m.from = PEOf[w] /\ m.ctx = Default
        BY <4>2 DEF From
      <4>4. \A n \in flight : n.from = m.from /\ n.ctx = Default /\ n.to = m.to => n.epoch >= m.epoch
        BY <4>3 DEF Deliver, Travelling
      <4>5. ASSUME NEW n \in flight, Carries(n, w, j) PROVE FALSE
        <5>1. From(n, w, j) /\ n.to = m.to /\ ~(n.epoch >= m.epoch)
          BY <4>2, <4>5
        <5> QED BY <4>3, <4>4, <5>1 DEF From
      <4>6. Executed(w, j)
        BY <4>3 DEF SentInv
      <4> QED BY <1>2, <4>5, <4>6
    <3>2. CASE ~(q = m.to /\ b = m.a)
      <4>1. q \in PEs /\ b \in Addrs
        BY <3>0, SignalFacts
      <4>2. mem'[q][b] = mem[q][b]
        BY <1>1, <2>2, <3>2, <4>1 DEF MemTypes
      <4> QED BY <1>2, <3>0, <4>2 DEF ThereInv
    <3> QED BY <3>1, <3>2
  <2> QED BY <2>3, <2>4, <2>5
<1> QED BY <1>4, <1>5

\* What a call does to the memory and to messages: only the call that puts a
\* signal sends to its place, and it sends the data before.
LEMMA EffectSignals ==
    ASSUME OwnSignals(program), Types, MemTypes, NEW t \in Tasks, NEW i \in DOMAIN program.code[t], i = pc[t],
           NEW c, NEW ins, ins = program.code[t][i], Effect(t, c, ins), ins.via = "nic" => c = Default,
           ~Executed(t, i), Executed(t, i)'
    PROVE  /\ SignalsStay /\ MemTypes'
           /\ \A m \in flight' : m \in flight \/ SentBy(m, t, i)
           /\ \A m, n \in flight' : m \notin flight /\ n \notin flight /\ SignalTo(t, i, m.to, m.a) /\ Carries(n, t, i)
                => ~(n.epoch >= m.epoch)
<1>0. i \in Nat /\ PEOf[t] \in PEs
  BY CodeFacts
<1>1. ASSUME mem' = mem PROVE SignalsStay
  BY <1>1 DEF SignalsStay
<1>2. ASSUME mem' = mem, epoch' = epoch PROVE MemTypes'
  BY <1>2 DEF MemTypes
<1>3. ASSUME flight' = flight
      PROVE  /\ \A m \in flight' : m \in flight \/ SentBy(m, t, i)
             /\ \A m, n \in flight' : m \notin flight /\ n \notin flight /\ SignalTo(t, i, m.to, m.a) /\ Carries(n, t, i)
                    => ~(n.epoch >= m.epoch)
  BY <1>3
<1>4. \A u, k : IsSignal(u, k) /\ (u # t \/ k # i) =>
        /\ ~Overwrites(t, ins, program.code[u][k].pe, program.code[u][k].v[1])
        /\ ~(ins.lib \in {"fadd", "add"} /\ ins.pe = program.code[u][k].pe /\ ins.a = program.code[u][k].v[1])
  BY OtherCalls
<1>5. CASE ins.lib = "put_signal"
  <2>1. PutSignal(t, c, ins) /\ mem' = mem
    BY <1>5 DEF Effect, Fetching, Collective
  <2>2. PICK e, v : /\ e = epoch[PEOf[t]]
                    /\ flight' = flight \cup {Message(t, c, "put", ins.a, v, ins.pe, e),
                                              Message(t, c, "put", ins.v[1], ins.v[2], ins.pe, e + 1)}
    BY <2>1 DEF PutSignal
  <2>3. e \in Nat
    BY <1>0, <2>2 DEF MemTypes
  <2>4. MemTypes'
    <3>1. epoch' = [epoch EXCEPT ![PEOf[t]] = @ + 1]
      BY <2>1 DEF PutSignal
    <3>2. epoch' \in [PEs -> Nat]
      <4>1. epoch \in [PEs -> Nat]
        BY DEF MemTypes
      <4>2. epoch[PEOf[t]] + 1 \in Nat
        BY <1>0, <4>1
      <4> QED BY <3>1, <4>1, <4>2
    <3> QED BY <2>1, <3>2 DEF MemTypes
  <2>5. IsSignal(t, i) /\ ins.via = "nic" /\ ins.v[1] # ins.a
    <3>1. IsSignal(t, i)
      BY <1>5 DEF IsSignal
    <3> QED BY <3>1, SignalFacts
  <2>6. ASSUME NEW m, NEW a, NEW w, NEW f, m = Message(t, c, "put", a, w, ins.pe, f), a \in {ins.a, ins.v[1]}
        PROVE  m.a = a /\ m.epoch = f /\ SentBy(m, t, i)
    <3>1. /\ m.task = t /\ m.at = i /\ m.from = PEOf[t] /\ m.ctx = Default /\ m.to = ins.pe /\ m.a = a /\ m.epoch = f
      BY <2>5, <2>6 DEF Message
    <3>2. ASSUME NEW u, NEW k, SignalTo(u, k, m.to, m.a), u # t \/ k # i PROVE FALSE
      <4>1. IsSignal(u, k) /\ program.code[u][k].pe = ins.pe /\ program.code[u][k].v[1] = a
        BY <3>1, <3>2 DEF SignalTo
      <4>2. ~Overwrites(t, ins, ins.pe, a)
        BY <1>4, <3>2, <4>1
      <4> QED BY <1>5, <2>6, <4>2 DEF Overwrites
    <3>3. From(m, t, i)
      BY <3>1 DEF From
    <3> QED BY <1>0, <3>1, <3>2, <3>3 DEF SentBy
  <2>7. PICK d, g : /\ flight' = flight \cup {d, g} /\ d.a = ins.a /\ d.epoch = e /\ SentBy(d, t, i)
                    /\ g.a = ins.v[1] /\ g.epoch = e + 1 /\ SentBy(g, t, i)
    <3>1. PICK d, g : /\ d = Message(t, c, "put", ins.a, v, ins.pe, e)
                      /\ g = Message(t, c, "put", ins.v[1], ins.v[2], ins.pe, e + 1)
      OBVIOUS
    <3>2. flight' = flight \cup {d, g}
      BY <2>2, <3>1
    <3>3. d.a = ins.a /\ d.epoch = e /\ SentBy(d, t, i)
      BY ONLY <2>6, <3>1
    <3>4. g.a = ins.v[1] /\ g.epoch = e + 1 /\ SentBy(g, t, i)
      BY ONLY <2>6, <3>1
    <3> QED BY <3>2, <3>3, <3>4
  <2>8. ASSUME NEW m \in flight', NEW n \in flight', m \notin flight, n \notin flight,
               SignalTo(t, i, m.to, m.a), Carries(n, t, i)
        PROVE  ~(n.epoch >= m.epoch)
    <3>1. m.a = ins.v[1] /\ n.a = ins.a
      BY <2>8 DEF SignalTo, Carries
    <3>2. m = g /\ n = d
      BY <2>5, <2>7, <2>8, <3>1
    <3> QED BY <2>3, <2>7, <3>2
  <2> QED BY <1>1, <2>1, <2>4, <2>7, <2>8
<1>6. CASE ins.lib # "put_signal"
  <2>1. ~IsSignal(t, i)
    BY <1>6 DEF IsSignal
  <2>2. \A pe, a : Overwrites(t, ins, pe, a) => ~\E u, k : SignalTo(u, k, pe, a)
    <3> SUFFICES ASSUME NEW pe, NEW a, Overwrites(t, ins, pe, a), NEW u, NEW k, SignalTo(u, k, pe, a) PROVE FALSE
      OBVIOUS
    <3>1. IsSignal(u, k) /\ program.code[u][k].pe = pe /\ program.code[u][k].v[1] = a /\ (u # t \/ k # i)
      BY <2>1 DEF SignalTo
    <3> QED BY <1>4, <3>1
  <2>3. ins.lib \in {"fadd", "add"} => ~\E u, k : SignalTo(u, k, ins.pe, ins.a)
    <3> SUFFICES ASSUME ins.lib \in {"fadd", "add"}, NEW u, NEW k, SignalTo(u, k, ins.pe, ins.a) PROVE FALSE
      OBVIOUS
    <3>1. /\ IsSignal(u, k) /\ program.code[u][k].pe = ins.pe /\ program.code[u][k].v[1] = ins.a
          /\ (u # t \/ k # i)
      BY <2>1 DEF SignalTo
    <3> QED BY <1>4, <3>1
  <2>4. CASE ins.lib \in {"put", "p", "add"}
    <3>0. /\ \E w, v, e : flight' = flight \cup {Message(t, c, w, ins.a, v, ins.pe, e)}
          /\ mem' = mem /\ epoch' = epoch
      BY ONLY <2>4, Effect(t, c, ins) DEF Effect, Fetching, Collective
    <3>1. PICK w, v, e : flight' = flight \cup {Message(t, c, w, ins.a, v, ins.pe, e)}
      BY <3>0
    <3>2. mem' = mem /\ epoch' = epoch
      BY <3>0
    <3>3. ~\E u, k : SignalTo(u, k, ins.pe, ins.a)
      <4>1. CASE ins.lib = "add"
        BY <2>3, <4>1
      <4>2. CASE ins.lib # "add"
        <5>1. Overwrites(t, ins, ins.pe, ins.a)
          BY <2>4, <4>2 DEF Overwrites
        <5> QED BY <2>2, <5>1
      <4> QED BY <4>1, <4>2
    <3>4. PICK m : m = Message(t, c, w, ins.a, v, ins.pe, e)
      OBVIOUS
    <3>5. m.task = t /\ m.at = i /\ m.to = ins.pe /\ m.a = ins.a
      BY <3>4 DEF Message
    <3>6. SentBy(m, t, i)
      BY <1>0, <2>1, <3>3, <3>5 DEF SentBy
    <3>7. \A x, y, pe, a : ~(SignalTo(t, i, pe, a) /\ Carries(y, t, i))
      BY <2>1 DEF SignalTo
    <3> QED BY <1>1, <1>2, <3>1, <3>2, <3>4, <3>6, <3>7
  <2>5. CASE ins.lib = "get"
    <3>1. flight' = flight /\ epoch' = epoch
      BY <2>5 DEF Effect, Fetching, Collective
    <3>2. PICK v : mem' = [mem EXCEPT ![PEOf[t]][ins.a] = v]
      BY <2>5 DEF Effect, Fetching, Collective
    <3>3. ~\E u, k : SignalTo(u, k, PEOf[t], ins.a)
      BY <2>2, <2>5 DEF Overwrites
    <3> QED BY <1>3, <3>1, <3>2, <3>3, WrittenSignals
  <2>6. CASE ins.lib \in Fetching
    <3>1. flight' = flight /\ epoch' = epoch
      BY <2>6 DEF Effect, Fetching, Collective
    <3>2. PICK v : mem' = [mem EXCEPT ![ins.pe][ins.a] = v]
      BY <2>6 DEF Effect, Fetching, Collective
    <3>3. ~\E u, k : SignalTo(u, k, ins.pe, ins.a)
      <4>1. CASE ins.lib = "fadd"
        BY <2>3, <4>1
      <4>2. CASE ins.lib # "fadd"
        <5>1. Overwrites(t, ins, ins.pe, ins.a)
          BY <2>6, <4>2 DEF Overwrites, Fetching
        <5> QED BY <2>2, <5>1
      <4> QED BY <4>1, <4>2
    <3> QED BY <1>3, <3>1, <3>2, <3>3, WrittenSignals
  <2>7. CASE ins.lib \in Collective
    <3>1. flight' = flight /\ epoch' = epoch
      BY <2>7 DEF Effect, Fetching, Collective
    <3>2. mem' = mem \/ \E v : mem' = [mem EXCEPT ![PEOf[t]][ins.a] = v]
      BY <2>7 DEF Effect, Fetching, Collective
    <3>3. ~\E u, k : SignalTo(u, k, PEOf[t], ins.a)
      BY <2>2, <2>7 DEF Overwrites
    <3>4. CASE mem' = mem
      BY <1>1, <1>2, <1>3, <3>1, <3>4
    <3>5. ASSUME NEW v, mem' = [mem EXCEPT ![PEOf[t]][ins.a] = v] PROVE SignalsStay /\ MemTypes'
      BY <3>1, <3>3, <3>5, WrittenSignals
    <3> QED BY <1>3, <3>1, <3>2, <3>4, <3>5
  <2>8. CASE ins.lib = "fence"
    <3>1. flight' = flight /\ mem' = mem /\ epoch' = [epoch EXCEPT ![PEOf[t]] = @ + 1]
      BY <2>8 DEF Effect, Fetching, Collective
    <3>2. epoch' \in [PEs -> Nat]
      <4>1. epoch \in [PEs -> Nat]
        BY DEF MemTypes
      <4>2. epoch[PEOf[t]] + 1 \in Nat
        BY <1>0, <4>1
      <4> QED BY <3>1, <4>1, <4>2
    <3>3. MemTypes'
      BY <3>1, <3>2 DEF MemTypes
    <3> QED BY <1>1, <1>3, <3>1, <3>3
  <2>9. CASE ins.lib \in {"quiet", "set_lock", "clear_lock"}
    <3>1. flight' = flight /\ mem' = mem /\ epoch' = epoch
      BY <2>9 DEF Effect, Fetching, Collective
    <3> QED BY <1>1, <1>2, <1>3, <3>1
  <2>10. \/ ins.lib \in {"put", "p", "add"} \/ ins.lib = "get" \/ ins.lib \in Fetching \/ ins.lib \in Collective
         \/ ins.lib = "fence" \/ ins.lib \in {"quiet", "set_lock", "clear_lock"}
    BY <1>6 DEF Effect
  <2> QED BY <2>4, <2>5, <2>6, <2>7, <2>8, <2>9, <2>10
<1> QED BY <1>5, <1>6

\* The requests are alike.
LEMMA ReceivesKept ==
    ASSUME ReceiveInv, program' = program, DOMAIN reqs' = DOMAIN reqs, reqs' = [i \in DOMAIN reqs |-> reqs'[i]],
           \A i \in DOMAIN reqs : Alike(reqs'[i], reqs[i])
    PROVE  ReceiveInv'
<1>1. \A u, k, pe, a : SignalTo(u, k, pe, a)' <=> SignalTo(u, k, pe, a)
  BY DEF SignalTo, IsSignal
<1>2. reqs' \in Seq(Elements(reqs'))
  <2>1. PICK n \in Nat : DOMAIN reqs = 1 .. n
    BY LenProperties DEF ReceiveInv
  <2>2. reqs' \in [1 .. n -> Elements(reqs')]
    BY <2>1 DEF Elements
  <2> QED BY <2>2, SeqDef
<1>3. ASSUME NEW i \in DOMAIN reqs
      PROVE  IsRequest(reqs'[i]) /\ (reqs'[i].kind = "recv" => ~\E u, k : SignalTo(u, k, reqs'[i].at, reqs'[i].buf))
  <2>1. /\ IsRequest(reqs'[i]) /\ reqs'[i].kind = reqs[i].kind /\ reqs'[i].at = reqs[i].at
        /\ reqs'[i].buf = reqs[i].buf
    BY <1>3 DEF Alike
  <2>2. reqs[i].kind = "recv" => ~\E u, k : SignalTo(u, k, reqs[i].at, reqs[i].buf)
    BY <1>3 DEF ReceiveInv, Elements
  <2> QED BY <2>1, <2>2
<1> QED BY <1>1, <1>2, <1>3 DEF ReceiveInv, Elements

\* Match
LEMMA MatchSignals ==
    ASSUME OwnSignals(program), Types, SignaledInv, NEW i \in DOMAIN reqs, NEW j \in DOMAIN reqs, Match(i, j)
    PROVE  SignaledInv'
<1>0. ReceiveInv /\ SentInv /\ ThereInv /\ BehindInv /\ MemTypes /\ \A k \in DOMAIN reqs : IsRequest(reqs[k])
  BY DEF SignaledInv, ReceiveInv, SentInv, Elements
<1>1. PICK v : mem' = [mem EXCEPT ![reqs[j].at][reqs[j].buf] = v]
  BY DEF Match
<1>2. UNCHANGED <<program, pc, stage, flight, epoch>> /\ reqs[j].kind = "recv"
  BY DEF Match, tasks
<1>3. ~\E u, k : SignalTo(u, k, reqs[j].at, reqs[j].buf)
  BY <1>0, <1>2 DEF ReceiveInv, Elements
<1>4. ReceiveInv'
  BY <1>0, <1>2, MatchAlike, ReceivesKept
<1>5. SignalsStay /\ MemTypes'
  BY <1>0, <1>1, <1>2, <1>3, WrittenSignals
<1>6. \A u \in Tasks : Onward(u)
  BY <1>2 DEF Onward
<1> QED BY <1>0, <1>2, <1>4, <1>5, <1>6, QuietSignals DEF SignaledInv

\* MakeRequest
LEMMA MakeRequestReceives ==
    ASSUME OwnSignals(program), Types, Control, ReceiveInv, NEW t \in Tasks, MakeRequest(t)
    PROVE  ReceiveInv'
<1>1. PICK r : r = Request(t)
  OBVIOUS
<1>2. stage[t] = "posted" /\ Now(t).via = "request" /\ reqs' = Append(reqs, r) /\ program' = program
  BY <1>1 DEF MakeRequest, Goes
<1>3. pc[t] \in DOMAIN program.code[t] /\ Now(t) = program.code[t][pc[t]]
  BY <1>2, NowFacts DEF Now
<1>4. IsRequest(r)
  BY <1>1 DEF Request, IsRequest
<1>5. ASSUME r.kind = "recv", NEW u, NEW k, SignalTo(u, k, r.at, r.buf) PROVE FALSE
  <2>1. r.at = PEOf[t] /\ r.buf = Now(t).a
    BY <1>1, <1>5 DEF Request
  <2>2. IsSignal(u, k) /\ program.code[u][k].pe = r.at /\ program.code[u][k].v[1] = r.buf
    BY <1>5 DEF SignalTo
  <2>3. program.code[u][k].via = "nic"
    BY <2>2, SignalFacts
  <2>4. <<t, pc[t]>> # <<u, k>>
    BY <1>2, <1>3, <2>3
  <2>5. ~Overwrites(t, Now(t), r.at, r.buf)
    BY <1>3, <2>2, <2>4, OtherCalls
  <2> QED BY <1>2, <2>1, <2>5 DEF Overwrites
<1>6. reqs' \in Seq(Elements(reqs')) /\ Elements(reqs') = Elements(reqs) \cup {r}
  BY <1>2, AppendFacts DEF ReceiveInv
<1>7. \A u, k, pe, a : SignalTo(u, k, pe, a)' <=> SignalTo(u, k, pe, a)
  BY <1>2 DEF SignalTo, IsSignal
<1>8. (Elements(reqs))' = Elements(reqs')
  BY DEF Elements
<1> QED BY <1>4, <1>5, <1>6, <1>7, <1>8 DEF ReceiveInv

\* Initially no signal is there.
LEMMA SignalInit ==
    ASSUME MpiInit
    PROVE  SignalInv
<1> SUFFICES ASSUME OwnSignals(program) PROVE SignaledInv
  BY DEF SignalInv
<1>1. Types
  BY LockInit DEF LockInv
<1>2. /\ flight = {} /\ mem = [p \in PEs |-> [a \in Addrs |-> IF <<p, a>> \in program.ones THEN 1 ELSE 0]]
      /\ epoch = [p \in PEs |-> 0] /\ reqs = << >>
  BY DEF MpiInit, Init
<1>3. DOMAIN << >> = {} /\ << >> \in Seq(Elements(<< >>)) /\ Elements(<< >>) = {}
  BY DEF Elements
<1>4. SentInv
  BY <1>2 DEF SentInv, MemTypes
<1>5. ThereInv
  <2> SUFFICES ASSUME NEW u, NEW k, IsSignal(u, k)
               PROVE  mem[program.code[u][k].pe][program.code[u][k].v[1]] # program.code[u][k].v[2]
    BY DEF ThereInv
  <2>1. PICK p, a : p = program.code[u][k].pe /\ a = program.code[u][k].v[1]
    OBVIOUS
  <2>2. p \in PEs /\ a \in Addrs /\ program.code[u][k].v[2] # IF <<p, a>> \in program.ones THEN 1 ELSE 0
    BY <1>1, <2>1, SignalFacts
  <2>3. mem[p][a] = IF <<p, a>> \in program.ones THEN 1 ELSE 0
    BY <1>2, <2>2
  <2> QED BY <2>1, <2>2, <2>3
<1>6. BehindInv
  BY <1>2 DEF BehindInv
<1>7. ReceiveInv
  BY <1>2, <1>3 DEF ReceiveInv
<1> QED BY <1>4, <1>5, <1>6, <1>7 DEF SignaledInv

\* Every step preserves the invariant.
LEMMA SignalNext ==
    ASSUME LockInv, SignalInv, [MpiNext]_mpiVars
    PROVE  SignalInv'
<1>0. Types /\ Control
  BY DEF LockInv
<1>1. program' = program
  BY ProgramStays
<1> SUFFICES ASSUME OwnSignals(program) PROVE SignaledInv'
  BY <1>1 DEF SignalInv
<1>2. SignaledInv /\ SentInv /\ ThereInv /\ BehindInv /\ ReceiveInv /\ MemTypes
  BY DEF SignalInv, SignaledInv, SentInv
\* The tasks go on, and nothing is written or sent.
<1> DEFINE Moved == \A u \in Tasks : Onward(u)
           Still == UNCHANGED <<mem, epoch>> /\ flight' \subseteq flight
<1>3. ASSUME Still, Moved PROVE SentInv' /\ ThereInv' /\ BehindInv'
  <2>1. SignalsStay /\ MemTypes'
    BY <1>2, <1>3 DEF SignalsStay, MemTypes
  <2> QED BY <1>0, <1>1, <1>2, <1>3, <2>1, QuietSignals
<1>4. ASSUME reqs' = reqs PROVE ReceiveInv'
  BY <1>1, <1>2, <1>4 DEF ReceiveInv, SignalTo, IsSignal, Elements
<1>5. ASSUME Still, Moved, reqs' = reqs PROVE SignaledInv'
  BY <1>3, <1>4, <1>5 DEF SignaledInv
<1>6. ASSUME UNCHANGED library PROVE Still
  BY <1>6 DEF library
<1>7. ASSUME UNCHANGED tasks PROVE Moved
  BY <1>7 DEF tasks, Onward
\* A task goes to a stage, or returns.
<1>8. ASSUME NEW t \in Tasks, NEW s, Goes(t, s), stage[t] \in {"done", "put"} => s \in {"done", "put"} PROVE Moved
  <2>1. pc' = pc /\ \A u \in Tasks : stage'[u] = IF u = t THEN s ELSE stage[u]
    BY <1>0, <1>8 DEF Goes, Types
  <2> QED BY <1>8, <2>1 DEF Onward
<1>9. ASSUME NEW t \in Tasks, Returns(t) PROVE Moved
  <2>1. /\ \A u \in Tasks : stage'[u] = IF u = t THEN "run" ELSE stage[u]
        /\ \A u \in Tasks : pc'[u] = IF u = t THEN pc[u] + 1 ELSE pc[u]
    BY <1>0, <1>9 DEF Returns, Types
  <2> QED BY <2>1 DEF Onward
\* A task goes on to its next call, and may start another one.
<1>10. ASSUME NEW t \in Tasks, NEW u, NEW s, stage' = [stage EXCEPT ![u] = s], pc' = [pc EXCEPT ![t] = @ + 1],
              u = t \/ (u \in Tasks /\ stage[u] = "idle")
       PROVE  Moved
  <2>1. /\ \A w \in Tasks : stage'[w] = IF w = u THEN s ELSE stage[w]
        /\ \A w \in Tasks : pc'[w] = IF w = t THEN pc[w] + 1 ELSE pc[w]
    BY <1>0, <1>10 DEF Types
  <2> QED BY <1>10, <2>1 DEF Onward
<1>11. ASSUME NEW t \in Tasks, ~Ended(t), stage[t] = "run", Starts(Now(t))
       PROVE  Now(t).a \in Tasks /\ stage[Now(t).a] = "idle"
  <2>1. pc[t] \in DOMAIN program.code[t] /\ Now(t) = program.code[t][pc[t]] /\ pc[t] \in Nat
    BY <1>0, <1>11, NowFacts DEF Now, Types
  <2>2. Now(t).a \in Tasks
    BY <1>0, <1>11, <2>1, StartFacts
  <2> QED BY <1>0, <1>11, <2>1, <2>2 DEF Control
\* A call takes effect.
<1>12. ASSUME NEW t \in Tasks, NEW c, Effect(t, c, Now(t)), ~Ended(t) \/ stage[t] \notin {"idle", "run", "waiting"},
              stage[t] \notin {"done", "put"}, pc'[t] = pc[t] + 1 \/ (pc' = pc /\ stage'[t] = "done"), Moved,
              Now(t).via = "nic" => c = Default, reqs' = reqs
       PROVE  SignaledInv'
  <2>1. pc[t] \in DOMAIN program.code[t] /\ Now(t) = program.code[t][pc[t]] /\ pc[t] \in Nat
    BY <1>0, <1>12, NowFacts DEF Now, Types
  <2>2. PICK i, ins : i = pc[t] /\ ins = Now(t)
    OBVIOUS
  <2>3. ~Executed(t, i) /\ Executed(t, i)'
    <3>1. ~Executed(t, i)
      BY <1>12, <2>1, <2>2 DEF Executed
    <3>2. Executed(t, i)'
      <4>1. CASE pc'[t] = pc[t] + 1
        <5>1. i < pc'[t]
          BY <2>1, <2>2, <4>1
        <5> QED BY <5>1 DEF Executed
      <4>2. CASE pc' = pc /\ stage'[t] = "done"
        BY <2>2, <4>2 DEF Executed
      <4> QED BY <1>12, <4>1, <4>2
    <3> QED BY <3>1, <3>2
  <2>4. i \in DOMAIN program.code[t] /\ ins = program.code[t][i] /\ Effect(t, c, ins) /\ (ins.via = "nic" => c = Default)
    BY <1>12, <2>1, <2>2
  <2>5. /\ SignalsStay /\ MemTypes'
        /\ \A m \in flight' : m \in flight \/ SentBy(m, t, i)
        /\ \A m, n \in flight' : m \notin flight /\ n \notin flight /\ SignalTo(t, i, m.to, m.a) /\ Carries(n, t, i)
                => ~(n.epoch >= m.epoch)
    BY <1>0, <1>2, <2>2, <2>3, <2>4, EffectSignals
  <2>6. SentInv' /\ ThereInv' /\ BehindInv'
    BY <1>0, <1>1, <1>2, <1>12, <2>5, SignalStep
  <2> QED BY <1>4, <1>12, <2>6 DEF SignaledInv
<1> HIDE DEF Moved, Still
<1>13. ASSUME NEW t \in Tasks, NicStep(t), reqs' = reqs PROVE SignaledInv'
  <2>1. CASE NicRun(t)
    <3>1. Still /\ UNCHANGED tasks
      BY <2>1 DEF NicRun, Still
    <3> QED BY <1>5, <1>7, <1>13, <3>1
  <2>2. CASE NicEnter(t)
    <3>1. Still /\ Goes(t, "entered") /\ stage[t] = "posted"
      BY <2>2 DEF NicEnter, Still
    <3> QED BY <1>5, <1>8, <1>13, <3>1
  <2>3. CASE NicReturn(t)
    <3>1. stage[t] \in {"posted", "entered"} /\ Effect(t, Default, Now(t)) /\ Goes(t, "done")
      BY <2>3 DEF NicReturn, Inside
    <3>2. Moved
      BY <1>8, <3>1
    <3>3. pc' = pc /\ stage'[t] = "done"
      BY <1>0, <3>1 DEF Goes, Types
    <3> QED BY <1>12, <1>13, <3>1, <3>2, <3>3
  <2>4. CASE poll_on_waits(t)
    <3>1. Still
      BY <1>6, <2>4 DEF poll_on_waits
    <3>2. CASE UNCHANGED tasks
      BY <1>5, <1>7, <1>13, <3>1, <3>2
    <3>3. CASE stage' = [stage EXCEPT ![t] = "run"] /\ UNCHANGED <<program, pc, turn>>
      <4>1. stage[t] = "waiting" /\ \A u \in Tasks : stage'[u] = IF u = t THEN "run" ELSE stage[u]
        BY <1>0, <2>4, <3>3 DEF poll_on_waits, Types
      <4>2. Moved
        BY <3>3, <4>1 DEF Moved, Onward
      <4> QED BY <1>5, <1>13, <3>1, <4>2
    <3> QED BY <2>4, <3>2, <3>3 DEF poll_on_waits
  <2> QED BY <1>13, <2>1, <2>2, <2>3, <2>4 DEF NicStep
<1>14. ASSUME NEW t \in Tasks, TaskStep(t), reqs' = reqs PROVE SignaledInv'
  <2>0. CASE Abort
    BY <1>5, <1>6, <1>7, <1>14, <2>0 DEF Abort
  <2>1. CASE Post(t)
    <3>1. stage[t] = "run" /\ Goes(t, "posted") /\ UNCHANGED library
      BY <2>1 DEF Post, In
    <3> QED BY <1>5, <1>6, <1>8, <1>14, <3>1
  <2>2. CASE Resume(t)
    <3>1. Still /\ Returns(t)
      BY <2>2 DEF Resume, Still
    <3> QED BY <1>5, <1>9, <1>14, <3>1
  <2>3. CASE OnContext(t)
    <3>1. stage[t] = "run" /\ ~Ended(t) /\ Now(t).via = "ctx" /\ Returns(t)
      BY <2>3 DEF OnContext, In
    <3>2. PICK c \in Contexts : Effect(t, c, Now(t))
      BY <2>3 DEF OnContext
    <3>3. Moved
      BY <1>9, <3>1
    <3>4. pc'[t] = pc[t] + 1
      BY <1>0, <3>1 DEF Returns, Types
    <3> QED BY <1>12, <1>14, <3>1, <3>2, <3>3, <3>4
  <2>4. CASE QuietAll(t)
    <3>1. stage[t] = "run" /\ UNCHANGED library
      BY <2>4 DEF QuietAll, In
    <3>2. CASE Goes(t, "posted")
      BY <1>5, <1>6, <1>8, <1>14, <3>1, <3>2
    <3>3. CASE UNCHANGED <<pc, stage>>
      <4>1. Moved
        BY <3>3 DEF Moved, Onward
      <4> QED BY <1>5, <1>6, <1>14, <3>1, <4>1
    <3> QED BY <2>4, <3>2, <3>3 DEF QuietAll
  <2>5. CASE set_lock(t)
    <3>1. PICK s : Goes(t, s)
      BY <2>5 DEF set_lock
    <3>2. stage[t] = "run" /\ UNCHANGED library
      BY <2>5 DEF set_lock, In
    <3> QED BY <1>5, <1>6, <1>8, <1>14, <3>1, <3>2
  <2>6. CASE sos_set_lock_wait(t)
    <3>1. stage[t] = "await" /\ Goes(t, "posted") /\ UNCHANGED library
      BY <2>6 DEF sos_set_lock_wait, In
    <3> QED BY <1>5, <1>6, <1>8, <1>14, <3>1
  <2>7. CASE set_lock_granted(t)
    <3>1. CASE Returns(t) /\ UNCHANGED library
      BY <1>5, <1>6, <1>9, <1>14, <3>1
    <3> QED BY <2>0, <2>7, <3>1 DEF set_lock_granted
  <2>8. CASE clear_lock(t)
    <3>1. CASE Goes(t, "posted") /\ UNCHANGED library
      <4>1. stage[t] = "run"
        BY <2>8 DEF clear_lock, In
      <4> QED BY <1>5, <1>6, <1>8, <1>14, <3>1, <4>1
    <3> QED BY <2>0, <2>8, <3>1 DEF clear_lock
  <2>9. CASE clear_lock_done(t)
    <3>1. CASE Goes(t, "put") /\ UNCHANGED library
      BY <1>5, <1>6, <1>8, <1>14, <3>1
    <3> QED BY <2>0, <2>9, <3>1 DEF clear_lock_done
  <2>10. CASE clear_lock_put(t)
    <3>1. Returns(t) /\ UNCHANGED library
      BY <2>10 DEF clear_lock_put
    <3> QED BY <1>5, <1>6, <1>9, <1>14, <3>1
  <2>11. CASE enqueue_wait_set(t)
    <3>1. PICK u : /\ u = IF Now(t).lib = "wait" THEN t ELSE Now(t).a
                   /\ stage' = [stage EXCEPT ![u] = "waiting"] /\ pc' = [pc EXCEPT ![t] = @ + 1]
      BY <2>11 DEF enqueue_wait_set
    <3>2. stage[t] = "run" /\ ~Ended(t) /\ Now(t).via = "wait" /\ UNCHANGED library
      BY <2>11 DEF enqueue_wait_set, In
    <3>3. u = t \/ (u \in Tasks /\ stage[u] = "idle")
      <4>1. CASE Now(t).lib = "wait"
        BY <3>1, <4>1
      <4>2. CASE Now(t).lib # "wait"
        <5>1. Starts(Now(t))
          BY <3>2, <4>2 DEF Starts
        <5> QED BY <1>11, <3>1, <3>2, <4>2, <5>1
      <4> QED BY <4>1, <4>2
    <3>4. Moved
      BY <1>10, <3>1, <3>3
    <3> QED BY <1>5, <1>6, <1>14, <3>2, <3>4
  <2> QED BY <1>14, <2>1, <2>2, <2>3, <2>4, <2>5, <2>6, <2>7, <2>8, <2>9, <2>10, <2>11 DEF TaskStep
<1>15. ASSUME NEW t \in Tasks, MpiStep(t) PROVE SignaledInv'
  <2>1. CASE MakeRequest(t)
    <3>1. Still /\ stage[t] = "posted"
      BY <2>1 DEF MakeRequest, Still
    <3>2. PICK s : Goes(t, s)
      BY <2>1 DEF MakeRequest
    <3>3. SentInv' /\ ThereInv' /\ BehindInv'
      BY <1>3, <1>8, <3>1, <3>2
    <3>4. ReceiveInv'
      BY <1>0, <1>2, <2>1, MakeRequestReceives
    <3> QED BY <3>3, <3>4 DEF SignaledInv
  <2>2. CASE RequestReturn(t)
    <3>1. Still /\ stage[t] = "entered" /\ Goes(t, "done") /\ reqs' = reqs
      BY <2>2 DEF RequestReturn, Still
    <3> QED BY <1>5, <1>8, <3>1
  <2>3. CASE poll_on_pending(t)
    <3>1. stage[t] = "pending" /\ Goes(t, "done") /\ UNCHANGED library /\ reqs' = reqs
      BY <2>3 DEF poll_on_pending
    <3> QED BY <1>5, <1>6, <1>8, <3>1
  <2>4. CASE async_nb_await_at(t)
    <3>1. PICK u : u = Now(t).a /\ stage' = [stage EXCEPT ![u] = "posted"] /\ pc' = [pc EXCEPT ![t] = @ + 1]
      BY <2>4 DEF async_nb_await_at
    <3>2. stage[t] = "run" /\ ~Ended(t) /\ Now(t).via = "async" /\ UNCHANGED library /\ reqs' = reqs
      BY <2>4 DEF async_nb_await_at, In
    <3>3. Starts(Now(t))
      BY <3>2 DEF Starts
    <3>4. u \in Tasks /\ stage[u] = "idle"
      BY <1>11, <3>1, <3>2, <3>3
    <3>5. Moved
      BY <1>10, <3>1, <3>4
    <3> QED BY <1>5, <1>6, <3>2, <3>5
  <2>5. CASE Waitall(t)
    <3>1. Returns(t) /\ UNCHANGED library /\ reqs' = reqs
      BY <2>5 DEF Waitall
    <3> QED BY <1>5, <1>6, <1>9, <3>1
  <2> QED BY <1>15, <2>1, <2>2, <2>3, <2>4, <2>5 DEF MpiStep
<1>16. ASSUME UNCHANGED vars PROVE Still /\ Moved
  BY <1>6, <1>7, <1>16 DEF vars
<1>17. CASE Next /\ reqs' = reqs
  <2>1. ASSUME NEW m \in flight, Deliver(m) PROVE SignaledInv'
    <3>1. SentInv' /\ ThereInv' /\ BehindInv'
      BY <1>0, <1>2, <2>1, DeliverSignals
    <3> QED BY <1>4, <1>17, <3>1 DEF SignaledInv
  <2>2. CASE UNCHANGED vars
    BY <1>5, <1>16, <1>17, <2>2
  <2> QED BY <1>13, <1>14, <1>17, <2>1, <2>2 DEF Next
<1>18. ASSUME NEW i \in DOMAIN reqs, Buffer(i) PROVE SignaledInv'
  <2>1. Still /\ Moved
    BY <1>16, <1>18 DEF Buffer
  <2>2. \A k \in DOMAIN reqs : IsRequest(reqs[k])
    BY <1>2 DEF ReceiveInv, Elements
  <2>3. ReceiveInv'
    BY <1>1, <1>2, <1>18, <2>2, BufferAlike, ReceivesKept
  <2> QED BY <1>3, <2>1, <2>3 DEF SignaledInv
<1>19. ASSUME NEW i \in DOMAIN reqs, NEW j \in DOMAIN reqs, Match(i, j) PROVE SignaledInv'
  BY <1>0, <1>2, <1>19, MatchSignals
<1>20. CASE UNCHANGED mpiVars
  BY <1>5, <1>16, <1>20 DEF mpiVars
<1> QED BY <1>15, <1>17, <1>18, <1>19, <1>20 DEF MpiNext

\* shmem_char_put_signal_nbi: when the signal is in the memory of the PE that
\* waits for it, the data that was put before it has arrived, whatever other
\* tasks put, fetch, receive and combine meanwhile, as long as they do not
\* write to the place of the signal.
THEOREM SignalAfterDataHolds == MpiSpec => [](OwnSignals(program) => SignalAfterData)
<1>1. MpiInit => LockInv /\ SignalInv
  BY LockInit, SignalInit
<1>2. LockInv /\ SignalInv /\ [MpiNext]_mpiVars => (LockInv /\ SignalInv)'
  BY LockNext, SignalNext
<1>3. SignalInv => (OwnSignals(program) => SignalAfterData)
  <2> SUFFICES ASSUME ThereInv PROVE SignalAfterData
    BY DEF SignalInv, SignaledInv
  <2>1. ASSUME NEW u \in Tasks, NEW k \in DOMAIN program.code[u], program.code[u][k].lib = "put_signal",
               mem[program.code[u][k].pe][program.code[u][k].v[1]] = program.code[u][k].v[2]
        PROVE  ~\E m \in flight : m.task = u /\ m.at = k /\ m.a = program.code[u][k].a
    <3>1. IsSignal(u, k)
      BY <2>1 DEF IsSignal
    <3>2. \A n \in flight : ~Carries(n, u, k)
      BY <2>1, <3>1 DEF ThereInv
    <3> QED BY <3>2 DEF Carries
  <2> QED BY ONLY <2>1 DEF SignalAfterData
<1> QED BY <1>1, <1>2, <1>3, PTL DEF MpiSpec
=============================================================================
