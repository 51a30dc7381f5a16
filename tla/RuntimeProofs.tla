--------------------------- MODULE RuntimeProofs ---------------------------
(***************************************************************************)
(* Proofs about Runtime: what finish scopes promise to programs that       *)
(* spawn, put and join (SpawnJoin), for every number of workers, every     *)
(* interleaving of them and every set of tasks and promises.  In these     *)
(* programs no task waits for a future or yields, so every worker stays on *)
(* its first context.                                                      *)
(***************************************************************************)
EXTENDS Runtime, Chains, FiniteSetTheorems, SequenceTheorems

-----------------------------------------------------------------------------
(* Sequences of distinct elements *)

Elements(s) == {s[i] : i \in DOMAIN s}
Distinct(s) == \A i, j \in DOMAIN s : s[i] = s[j] => i = j

-----------------------------------------------------------------------------
(* The inductive invariant *)

\* s is the start whose scope is the innermost of those in open.
IsLast(s, open) == s \in open /\ \A u \in open : u <= s

FrameType ==
    [kind : {"loop", "task", "help"}, task : Tasks \cup {Main, NULL}, at : Nat,
     on : Finishes \cup {NULL}, ws : Ctxs \cup {NULL}, fin : {NULL}]

Types ==
    /\ program \in Programs
    /\ stack \in [Ctxs -> Seq(FrameType)]
    /\ prev = [c \in Ctxs |-> NULL]
    /\ current = [w \in Workers |-> w]
    /\ wsFinish \in [Workers -> Finishes \cup {NULL}]
    /\ deque \in [Workers -> Seq(Tasks)]
    /\ finish \in [Tasks -> Finishes \cup {NULL}]
    /\ counter \in [Finishes -> Nat]
    /\ parent \in [Finishes -> Finishes \cup {NULL}]
    /\ finishDep = [f \in Finishes |-> NULL]
    /\ satisfied \in [Promises -> BOOLEAN]
    /\ waiting \in [Promises -> Seq(Tasks)]
    /\ runs \in [Tasks -> {0, 1}]
    /\ ended \subseteq Finishes
    /\ done \in BOOLEAN
    /\ exited \subseteq Workers

\* help is the frame of help_finish in the end_finish just before the
\* instruction of frame body.
HelpsWith(code, help, body) ==
    IF body.task = Main THEN body.at = 2 /\ help.on = Root
    ELSE /\ body.at > 1 /\ code[body.task][body.at - 1].op = "end"
         /\ \E s \in OpenStarts(code[body.task])[body.at - 1] :
                /\ \A u \in OpenStarts(code[body.task])[body.at - 1] : u <= s
                /\ help.on = <<body.task, s>>

\* The frames of a worker: its loop or _hclib_finalize_ctx, and then in turns
\* the body of a task and the help_finish loop of an end it has reached.
FrameOK(code, w, s, j) ==
    /\ s[j].kind = "loop" => j = 1
    /\ s[j].kind # "task" => s[j].task = NULL
    /\ s[j].kind = "task" => s[j].task # NULL
    /\ s[j].task = Main <=> j = 1 /\ w = 0
    /\ s[j].task = Main => s[j].at \in {1, 2}
    /\ s[j].task \in Tasks => s[j].at \in 1 .. Len(code[s[j].task]) + 1
    /\ s[j].kind = "task" /\ j > 1 => s[j - 1].kind # "task"
    /\ s[j].kind = "help" =>
        j > 1 /\ s[j].ws = w /\ s[j - 1].kind = "task" /\ HelpsWith(code, s[j], s[j - 1])

FramesOK(code, w, s) ==
    /\ Len(s) > 0
    /\ s[1].kind = (IF w = 0 THEN "task" ELSE "loop")
    /\ \A j \in DOMAIN s : FrameOK(code, w, s, j)

StackInv ==
    /\ \A c \in Ctxs \ Workers : stack[c] = << >>
    /\ \A w \in Workers : FramesOK(program.code, w, stack[w])

OnStack(t) == \E w \in Workers : \E j \in DOMAIN stack[w] : stack[w][j].task = t
Queued(t) == (\E w \in Workers : t \in Elements(deque[w])) \/ (\E p \in Promises : t \in Elements(waiting[p]))

\* A task is in one place at a time and is started once.
QueueInv ==
    /\ \A w \in Workers : Distinct(deque[w])
    /\ \A p \in Promises : Distinct(waiting[p])
    /\ \A v, w \in Workers : v # w => Elements(deque[v]) \cap Elements(deque[w]) = {}
    /\ \A p, q \in Promises : p # q => Elements(waiting[p]) \cap Elements(waiting[q]) = {}
    /\ \A w \in Workers, p \in Promises : Elements(deque[w]) \cap Elements(waiting[p]) = {}

OneFrame(t) ==
    \A v, w \in Workers : \A i \in DOMAIN stack[v], j \in DOMAIN stack[w] :
        stack[v][i].task = t /\ stack[w][j].task = t => v = w /\ i = j

TaskInv ==
    \A t \in Tasks :
        /\ OneFrame(t)
        /\ Queued(t) <=> finish[t] # NULL /\ runs[t] = 0
        /\ OnStack(t) => runs[t] = 1
        /\ runs[t] = 1 => finish[t] # NULL

\* Task t has executed its instruction i.
Passed(t, i) ==
    runs[t] = 1 /\ \A w \in Workers : \A j \in DOMAIN stack[w] : stack[w][j].task = t => stack[w][j].at > i

Started(f) == f = Root \/ parent[f] # NULL

\* What has been spawned and started the tasks have passed; a scope's parent
\* is the one the text says.
TextInv ==
    /\ \A t \in Tasks : \A i \in DOMAIN program.code[t] :
        /\ program.code[t][i].op = "async" /\ finish[program.code[t][i].arg] # NULL => Passed(t, i)
        /\ program.code[t][i].op = "start" /\ parent[<<t, i>>] # NULL =>
            Passed(t, i) /\ parent[<<t, i>>] = Scope(t, i)
    /\ \A t \in Tasks : finish[t] # NULL => Started(finish[t])

\* Every scope is inside the root: to leave a scope for its parent again and
\* again ends there.
ParentInv ==
    /\ parent[Root] = NULL
    /\ \A f \in Finishes : parent[f] # NULL => Started(parent[f])
    /\ \A S \in SUBSET {f \in Finishes : Started(f)} :
        S # {} /\ (\A f \in S : parent[f] # NULL => parent[f] \in S) => Root \in S

\* The instruction frame j of s is at, or the end it is still helping with.
HeldAt(s, j) == IF j < Len(s) THEN s[j].at - 1 ELSE s[j].at

\* Task t is running and has its scope s open.
HasOpen(t, s) ==
    \E w \in Workers : \E j \in DOMAIN stack[w] :
        stack[w][j].task = t /\ s \in OpenStarts(program.code[t])[HeldAt(stack[w], j)]

\* The scopes a task has open in its text are open; the worker's current
\* finish is the innermost of them.
ScopeInv ==
    /\ \A f \in ended : Started(f)
    /\ \A t \in Tasks : \A s \in DOMAIN program.code[t] : HasOpen(t, s) => Open(<<t, s>>)
    /\ \A w \in Workers : Top(w).task \in Tasks => wsFinish[w] = Scope(Top(w).task, Top(w).at)

\* The root scope is ended by _hclib_finalize_ctx.
RootInv ==
    /\ Top(0).task = Main /\ Top(0).at = 1 => wsFinish[0] = Root
    /\ Top(0).task = Main /\ Top(0).at = 2 => Root \in ended
    /\ done => Root \in ended

Unfinished(t) == Queued(t) \/ OnStack(t)
TasksOf(f) == {t \in Tasks : finish[t] = f /\ Unfinished(t)}
ScopesOf(f) == {g \in Finishes : parent[g] = f /\ Open(g)}

\* The counters are exact, and a scope that has ended is empty.
CountInv ==
    /\ \A f \in Finishes \ ended : Started(f) =>
        counter[f] = 1 + Cardinality(TasksOf(f)) + Cardinality(ScopesOf(f))
    /\ \A f \in ended : TasksOf(f) = {} /\ ScopesOf(f) = {}

IInv ==
    /\ SpawnJoin(program)
    /\ Types /\ StackInv /\ QueueInv /\ TaskInv /\ TextInv /\ ParentInv /\ ScopeInv /\ RootInv /\ CountInv

-----------------------------------------------------------------------------
(* Sequences of distinct elements *)

\* A task appended to a deque.
LEMMA ElementsAppend ==
    ASSUME NEW S, NEW s \in Seq(S), NEW x \in S
    PROVE  /\ Append(s, x) \in Seq(S)
           /\ Elements(Append(s, x)) = Elements(s) \cup {x}
           /\ Distinct(s) /\ x \notin Elements(s) => Distinct(Append(s, x))
<1>1. /\ Append(s, x) \in Seq(S)
      /\ DOMAIN Append(s, x) = 1 .. Len(s) + 1 /\ DOMAIN s = 1 .. Len(s) /\ Len(s) \in Nat
      /\ \A i \in 1 .. Len(s) : Append(s, x)[i] = s[i]
      /\ Append(s, x)[Len(s) + 1] = x
  OBVIOUS
<1>2. 1 .. Len(s) + 1 = (1 .. Len(s)) \cup {Len(s) + 1}
  BY <1>1
<1> QED BY <1>1, <1>2 DEF Elements, Distinct

\* Two sequences, one after the other.
LEMMA ElementsConcat ==
    ASSUME NEW S, NEW s \in Seq(S), NEW u \in Seq(S)
    PROVE  /\ s \o u \in Seq(S)
           /\ Elements(s \o u) = Elements(s) \cup Elements(u)
           /\ Distinct(s) /\ Distinct(u) /\ Elements(s) \cap Elements(u) = {} => Distinct(s \o u)
<1> DEFINE r == s \o u
<1>1. /\ r \in Seq(S) /\ DOMAIN r = 1 .. Len(s) + Len(u)
      /\ DOMAIN s = 1 .. Len(s) /\ DOMAIN u = 1 .. Len(u) /\ Len(s) \in Nat /\ Len(u) \in Nat
      /\ \A i \in 1 .. Len(s) + Len(u) : r[i] = IF i <= Len(s) THEN s[i] ELSE u[i - Len(s)]
  BY ConcatProperties
<1> HIDE DEF r
<1>2. \A i \in DOMAIN r : \/ i \in DOMAIN s /\ r[i] = s[i]
                          \/ i - Len(s) \in DOMAIN u /\ r[i] = u[i - Len(s)]
  BY <1>1
<1>3. \A i \in DOMAIN s : i \in DOMAIN r /\ r[i] = s[i]
  BY <1>1
<1>4. \A i \in DOMAIN u : i + Len(s) \in DOMAIN r /\ r[i + Len(s)] = u[i]
  BY <1>1
<1>5. Elements(r) = Elements(s) \cup Elements(u)
  BY <1>2, <1>3, <1>4 DEF Elements
<1>6. Distinct(s) /\ Distinct(u) /\ Elements(s) \cap Elements(u) = {} => Distinct(r)
  <2> SUFFICES ASSUME Distinct(s), Distinct(u), Elements(s) \cap Elements(u) = {},
                      NEW i \in DOMAIN r, NEW j \in DOMAIN r, r[i] = r[j]
               PROVE  i = j
    BY DEF Distinct
  <2>1. \A k \in DOMAIN s, l \in DOMAIN u : s[k] # u[l]
    BY DEF Elements
  <2>2. i \in Int /\ j \in Int /\ Len(s) \in Int
    BY <1>1
  <2>3. CASE i \in DOMAIN s /\ r[i] = s[i] /\ j \in DOMAIN s /\ r[j] = s[j]
    BY <2>3 DEF Distinct
  <2>4. CASE i - Len(s) \in DOMAIN u /\ r[i] = u[i - Len(s)] /\ j - Len(s) \in DOMAIN u /\ r[j] = u[j - Len(s)]
    <3>1. i - Len(s) = j - Len(s)
      BY <2>4 DEF Distinct
    <3> QED BY <2>2, <3>1
  <2> QED BY <1>2, <2>1, <2>3, <2>4
<1> QED BY <1>1, <1>5, <1>6 DEF r

\* The last element popped.
LEMMA ElementsPop ==
    ASSUME NEW S, NEW s \in Seq(S), s # << >>
    PROVE  /\ SubSeq(s, 1, Len(s) - 1) \in Seq(S)
           /\ s[Len(s)] \in Elements(s) /\ s[Len(s)] \in S
           /\ Distinct(s) => /\ Elements(SubSeq(s, 1, Len(s) - 1)) = Elements(s) \ {s[Len(s)]}
                             /\ Distinct(SubSeq(s, 1, Len(s) - 1))
<1> DEFINE r == SubSeq(s, 1, Len(s) - 1)
<1>1. /\ DOMAIN s = 1 .. Len(s) /\ Len(s) \in Nat /\ Len(s) > 0
      /\ \A i \in 1 .. Len(s) : s[i] \in S
  BY EmptySeq
<1>2. r \in Seq(S) /\ DOMAIN r = 1 .. Len(s) - 1 /\ \A i \in 1 .. Len(s) - 1 : r[i] = s[i]
  BY <1>1
<1> HIDE DEF r
<1>3. 1 .. Len(s) = (1 .. Len(s) - 1) \cup {Len(s)} /\ Len(s) \notin 1 .. Len(s) - 1
  BY <1>1
<1>4. s[Len(s)] \in Elements(s)
  BY <1>1, <1>3 DEF Elements
<1>5. Distinct(s) => Elements(r) = Elements(s) \ {s[Len(s)]} /\ Distinct(r)
  BY <1>1, <1>2, <1>3 DEF Elements, Distinct
<1> QED BY <1>1, <1>2, <1>4, <1>5 DEF r

\* The first element stolen.
LEMMA ElementsSteal ==
    ASSUME NEW S, NEW s \in Seq(S), s # << >>
    PROVE  /\ Tail(s) \in Seq(S)
           /\ Head(s) \in Elements(s) /\ Head(s) \in S
           /\ Distinct(s) => Elements(Tail(s)) = Elements(s) \ {Head(s)} /\ Distinct(Tail(s))
<1> DEFINE r == Tail(s)
<1>1. /\ DOMAIN s = 1 .. Len(s) /\ Len(s) \in Nat /\ Len(s) > 0 /\ Head(s) = s[1]
      /\ \A i \in 1 .. Len(s) : s[i] \in S
  BY EmptySeq
<1>2. r \in Seq(S) /\ DOMAIN r = 1 .. Len(s) - 1 /\ \A i \in 1 .. Len(s) - 1 : r[i] = s[i + 1]
  BY <1>1
<1> HIDE DEF r
<1>3. \A i \in DOMAIN s : i # 1 => i - 1 \in DOMAIN r /\ r[i - 1] = s[i]
  BY <1>1, <1>2
<1>4. \A i \in DOMAIN r : i + 1 \in DOMAIN s /\ i + 1 # 1 /\ r[i] = s[i + 1]
  BY <1>1, <1>2
<1>5. 1 \in DOMAIN s
  BY <1>1
<1>6. Head(s) \in Elements(s)
  BY <1>1, <1>5 DEF Elements
<1>7. Distinct(s) => Elements(r) = Elements(s) \ {Head(s)}
  BY <1>1, <1>3, <1>4, <1>5 DEF Elements, Distinct
<1>8. Distinct(s) => Distinct(r)
  <2> SUFFICES ASSUME Distinct(s), NEW i \in DOMAIN r, NEW j \in DOMAIN r, r[i] = r[j] PROVE i = j
    BY DEF Distinct
  <2>1. i + 1 = j + 1
    BY <1>4 DEF Distinct
  <2> QED BY <1>2, <2>1
<1> QED BY <1>1, <1>2, <1>6, <1>7, <1>8 DEF r

-----------------------------------------------------------------------------
(* The scopes a text has open *)

\* The recursive definition of OpenStarts has a solution: one for the texts
\* shorter than the first without any could be extended.
LEMMA OpenStartsExists ==
    ASSUME NEW code, Len(code) \in Nat
    PROVE  \E f : f = [i \in 1 .. Len(code) + 1 |-> IF i = 1 THEN {} ELSE OpenedBy(code, i - 1, f[i - 1])]
<1> DEFINE Next0(f, i) == IF i = 1 THEN {} ELSE OpenedBy(code, i - 1, f[i - 1])
           Solves(f, n) == f = [i \in 1 .. n |-> Next0(f, i)]
           Bad == {n \in Nat : ~\E f : Solves(f, n)}
<1>0. \A f, g : \A i \in Nat : f[i - 1] = g[i - 1] => Next0(f, i) = Next0(g, i)
  OBVIOUS
<1> HIDE DEF Next0
<1>1. SUFFICES ASSUME Bad # {} PROVE FALSE
  <2>1. Len(code) + 1 \in Nat
    OBVIOUS
  <2>2. SUFFICES ASSUME Len(code) + 1 \notin Bad PROVE \E f : Solves(f, Len(code) + 1)
    BY DEF Next0
  <2> QED BY <2>1, <2>2
<1>2. PICK n \in Bad : \A m \in Bad : n <= m
  BY <1>1, LeastExists
<1>3. n # 0
  <2>1. Solves([i \in 1 .. 0 |-> {}], 0)
    OBVIOUS
  <2> QED BY <2>1
<1>4. PICK g : Solves(g, n - 1)
  BY <1>2, <1>3
<1> DEFINE h == [i \in 1 .. n |-> Next0(g, i)]
<1>5. \A i \in 1 .. n - 1 : h[i] = g[i]
  <2>1. \A i \in 1 .. n - 1 : g[i] = Next0(g, i)
    BY <1>4
  <2> QED BY <2>1
<1>6. \A i \in 1 .. n : Next0(h, i) = Next0(g, i)
  <2> TAKE i \in 1 .. n
  <2>1. CASE i = 1
    BY <2>1 DEF Next0
  <2>2. CASE i # 1
    <3>1. h[i - 1] = g[i - 1] /\ i \in Nat
      BY <1>5, <2>2
    <3> QED BY ONLY <1>0, <3>1, Zenon
  <2> QED BY <2>1, <2>2
<1>7. Solves(h, n)
  BY <1>6
<1> QED BY <1>2, <1>7

\* What the definition says: nothing is open at first, and each instruction
\* changes what is open.
LEMMA OpenStartsDef ==
    ASSUME NEW code, Len(code) \in Nat
    PROVE  /\ OpenStarts(code)[1] = {}
           /\ \A i \in 1 .. Len(code) : OpenStarts(code)[i + 1] = OpenedBy(code, i, OpenStarts(code)[i])
<1> DEFINE Body0(f) == [i \in 1 .. Len(code) + 1 |-> IF i = 1 THEN {} ELSE OpenedBy(code, i - 1, f[i - 1])]
           O == OpenStarts(code)
<1>1. O = CHOOSE f : f = Body0(f)
  BY DEF OpenStarts
<1>2. \E f : f = Body0(f)
  BY OpenStartsExists
<1>3. O = Body0(O)
  BY <1>1, <1>2
<1> HIDE DEF O
<1>4. O[1] = {}
  BY <1>3
<1>5. \A i \in 1 .. Len(code) : O[i + 1] = OpenedBy(code, i, O[i])
  <2> TAKE i \in 1 .. Len(code)
  <2>1. i + 1 \in 1 .. Len(code) + 1 /\ i + 1 # 1 /\ (i + 1) - 1 = i
    OBVIOUS
  <2>2. Body0(O)[i + 1] = OpenedBy(code, i, O[i])
    BY <2>1
  <2> QED BY <1>3, <2>2
<1> QED BY <1>4, <1>5 DEF O

\* Induction over the instructions of a text.
LEMMA TextInduction ==
    ASSUME NEW N \in Nat, NEW S, 1 \in S, \A k \in 1 .. N : k \in S => k + 1 \in S
    PROVE  \A n \in 1 .. N + 1 : n \in S
<1> DEFINE Bad == {n \in 1 .. N + 1 : n \notin S}
<1>1. SUFFICES ASSUME Bad # {} PROVE FALSE
  OBVIOUS
<1>2. Bad \in SUBSET Nat
  OBVIOUS
<1>3. PICK n \in Bad : \A m \in Bad : n <= m
  BY ONLY <1>1, <1>2, LeastExists
<1>4. n - 1 \in 1 .. N /\ n - 1 \notin Bad
  BY <1>3
<1> QED BY <1>4

\* The scopes open before an instruction were started before it.
LEMMA OpenStartsEarlier ==
    ASSUME NEW code, Len(code) \in Nat, NEW i \in 1 .. Len(code) + 1
    PROVE  \A s \in OpenStarts(code)[i] : s \in 1 .. i - 1 /\ code[s].op = "start"
<1> DEFINE O == OpenStarts(code)
           Good == {n \in Nat : \A s \in O[n] : s \in 1 .. n - 1 /\ code[s].op = "start"}
<1>1. O[1] = {} /\ \A k \in 1 .. Len(code) : O[k + 1] = OpenedBy(code, k, O[k])
  BY OpenStartsDef
<1> HIDE DEF O
<1>2. 1 \in Good
  BY <1>1
<1>3. ASSUME NEW k \in 1 .. Len(code), k \in Good PROVE k + 1 \in Good
  <2>1. \A s \in O[k] : s \in 1 .. k /\ code[s].op = "start"
    BY <1>3
  <2>2. \A s \in OpenedBy(code, k, O[k]) : s \in O[k] \/ (s = k /\ code[k].op = "start")
    BY DEF OpenedBy
  <2>3. \A s \in O[k + 1] : s \in 1 .. k /\ code[s].op = "start"
    BY <1>1, <2>1, <2>2
  <2> QED BY <2>3
<1> HIDE DEF Good
<1>4. i \in Good
  BY <1>2, <1>3, TextInduction
<1> QED BY <1>4 DEF Good, O

\* Scopes nest: what was open when an open scope was started are the open
\* scopes outside it.
LEMMA OpenStartsNest ==
    ASSUME NEW code, Len(code) \in Nat, NEW i \in 1 .. Len(code) + 1
    PROVE  \A s \in OpenStarts(code)[i] : OpenStarts(code)[s] = {u \in OpenStarts(code)[i] : u < s}
<1> DEFINE O == OpenStarts(code)
           Good == {n \in Nat : \A s \in O[n] : O[s] = {u \in O[n] : u < s}}
<1>1. O[1] = {} /\ \A k \in 1 .. Len(code) : O[k + 1] = OpenedBy(code, k, O[k])
  BY OpenStartsDef
<1>2. \A k \in 1 .. Len(code) + 1 : \A s \in O[k] : s \in 1 .. k - 1
  BY OpenStartsEarlier
<1> HIDE DEF O
<1>3. 1 \in Good
  BY <1>1
<1>4. ASSUME NEW k \in 1 .. Len(code), k \in Good, NEW s \in O[k + 1]
      PROVE  O[s] = {u \in O[k + 1] : u < s}
  <2>1. \A u \in O[k] : u \in Nat /\ u < k
    BY <1>2
  <2>2. CASE code[k].op = "start"
    <3>1. O[k + 1] = O[k] \cup {k}
      BY <1>1, <2>2 DEF OpenedBy
    <3>2. CASE s = k
      <4>1. {u \in O[k + 1] : u < k} = O[k]
        BY <2>1, <3>1
      <4> QED BY <3>2, <4>1
    <3>3. CASE s # k
      <4>1. {u \in O[k + 1] : u < s} = {u \in O[k] : u < s}
        BY <2>1, <3>1, <3>3
      <4> QED BY <1>4, <3>1, <3>3, <4>1
    <3> QED BY <3>2, <3>3
  <2>3. CASE code[k].op \in {"end", "endNB"}
    <3>1. O[k + 1] = {x \in O[k] : \E u \in O[k] : x < u}
      BY <1>1, <2>3 DEF OpenedBy
    <3>2. {u \in O[k + 1] : u < s} = {u \in O[k] : u < s}
      BY <3>1
    <3> QED BY <1>4, <3>1, <3>2
  <2>4. CASE code[k].op \notin {"start", "end", "endNB"}
    <3>1. O[k + 1] = O[k]
      BY <1>1, <2>4 DEF OpenedBy
    <3> QED BY <1>4, <3>1
  <2> QED BY <2>2, <2>3, <2>4
<1>5. \A k \in 1 .. Len(code) : k \in Good => k + 1 \in Good
  BY <1>4
<1> HIDE DEF Good
<1>6. i \in Good
  BY <1>3, <1>5, TextInduction
<1> QED BY <1>6 DEF Good, O

\* Of some open scopes one was started last, and it is their Max.
LEMMA LastExists ==
    ASSUME NEW code, Len(code) \in Nat, NEW i \in 1 .. Len(code) + 1, OpenStarts(code)[i] # {}
    PROVE  \E s \in 1 .. i - 1 : IsLast(s, OpenStarts(code)[i]) /\ Max(OpenStarts(code)[i]) = s
<1> DEFINE open == OpenStarts(code)[i]
           Bound == {n \in Nat : \A s \in open : s <= n}
<1>1. \A s \in open : s \in 1 .. i - 1
  BY OpenStartsEarlier
<1> HIDE DEF open
<1>2. i \in Bound
  BY <1>1
<1>3. PICK n \in Bound : \A m \in Bound : n <= m
  BY <1>2, LeastExists
<1>4. n \in open
  <2>1. SUFFICES ASSUME n \notin open PROVE FALSE
    OBVIOUS
  <2>2. n > 0
    BY <1>1, <1>3 DEF open
  <2>3. n - 1 \in Bound
    BY <1>1, <2>1, <2>2
  <2> QED BY <1>3, <2>2, <2>3
<1>5. IsLast(n, open)
  BY <1>4 DEF IsLast
<1>6. \A s \in open : (\A u \in open : s >= u) => s = n
  BY <1>1, <1>4, <1>5 DEF IsLast
<1>7. Max(open) = n
  <2>1. \A u \in open : n >= u
    BY <1>1, <1>5 DEF IsLast
  <2> QED BY <1>4, <1>6, <2>1 DEF Max
<1> QED BY <1>1, <1>4, <1>5, <1>7 DEF open

\* The end_finish that closes scope s leaves what was open when s started.
LEMMA EndRestores ==
    ASSUME NEW code, Len(code) \in Nat, NEW i \in 1 .. Len(code), code[i].op = "end",
           NEW s, IsLast(s, OpenStarts(code)[i])
    PROVE  /\ OpenStarts(code)[i + 1] = OpenStarts(code)[i] \ {s}
           /\ OpenStarts(code)[i + 1] = OpenStarts(code)[s]
<1> DEFINE O == OpenStarts(code)
<1>1. O[i + 1] = {x \in O[i] : \E u \in O[i] : x < u}
  BY OpenStartsDef DEF OpenedBy
<1>2. \A x \in O[i] : x \in Nat
  BY OpenStartsEarlier
<1>3. O[s] = {u \in O[i] : u < s}
  BY OpenStartsNest DEF IsLast
<1> HIDE DEF O
<1>4. s \in O[i] /\ \A u \in O[i] : u <= s
  BY DEF IsLast, O
<1>5. O[i + 1] = O[i] \ {s} /\ O[i + 1] = {u \in O[i] : u < s}
  BY <1>1, <1>2, <1>4
<1> QED BY <1>3, <1>5 DEF O

-----------------------------------------------------------------------------
(* Programs and frames *)

\* The instructions of a spawn-join program.
LEMMA InstructionTypes ==
    ASSUME NEW prog \in Programs, SpawnJoin(prog), NEW t \in Tasks
    PROVE  /\ Len(prog.code[t]) \in Nat /\ DOMAIN prog.code[t] = 1 .. Len(prog.code[t])
           /\ \A i \in 1 .. Len(prog.code[t]) : LET c == prog.code[t][i] IN
                /\ c.op \in {"async", "put", "start", "end"}
                /\ c.op = "async" => c.arg \in Tasks /\ c.on \in Promises \cup {NULL}
                /\ c.op = "put" => c.on \in Promises
                /\ c.op = "start" => <<t, i>> \in Finishes /\ <<t, i>> # Root
                /\ c.op = "end" => OpenStarts(prog.code[t])[i] # {}
<1> DEFINE text == prog.code[t]
<1>1. text \in Seq(SpawnJoinInstructions)
  BY DEF SpawnJoin
<1>2. Len(text) \in Nat /\ DOMAIN text = 1 .. Len(text) /\ \A i \in 1 .. Len(text) : text[i] \in SpawnJoinInstructions
  BY <1>1
<1>3. \A i \in DOMAIN text : text[i].op = "end" => OpenStarts(text)[i] # {}
  BY DEF SpawnJoin
<1>4. \A i \in DOMAIN text : text[i].op = "start" => <<t, i>> \in Finishes
  <2> TAKE i \in DOMAIN text
  <2> HAVE text[i].op = "start"
  <2>1. <<t, i>> \in {t} \X Starts(prog.code[t])
    BY DEF Starts
  <2> DEFINE Sets == {{x} \X Starts(y.code[x]) : x \in Tasks, y \in Programs}
  <2>2. {t} \X Starts(prog.code[t]) \in Sets
    OBVIOUS
  <2>3. Finishes = {Root} \cup UNION Sets
    BY DEF Finishes
  <2> HIDE DEF Sets
  <2> QED BY ONLY <2>1, <2>2, <2>3
<1> HIDE DEF text
<1>5. \A i : <<t, i>> # Root
  BY RuntimeAssumption DEF Root
<1>6. ASSUME NEW c \in SpawnJoinInstructions
      PROVE  /\ c.op \in {"async", "put", "start", "end"}
             /\ c.op = "async" => c.arg \in Tasks /\ c.on \in Promises \cup {NULL}
             /\ c.op = "put" => c.on \in Promises
  BY DEF SpawnJoinInstructions, Async, Await, Put, StartFinish, EndFinish, Spawnable
<1> QED BY <1>2, <1>3, <1>4, <1>5, <1>6 DEF text

Advanced(s) == Append(SubSeq(s, 1, Len(s) - 1), [s[Len(s)] EXCEPT !.at = @ + 1])

\* The innermost frame dropped, or one instruction on.
LEMMA FrameSeqs ==
    ASSUME NEW s \in Seq(FrameType), Len(s) > 0
    PROVE  /\ Len(s) \in Nat /\ DOMAIN s = 1 .. Len(s) /\ \A j \in 1 .. Len(s) : s[j] \in FrameType
           /\ Advanced(s) \in Seq(FrameType) /\ Len(Advanced(s)) = Len(s)
           /\ DOMAIN Advanced(s) = 1 .. Len(s)
           /\ \A j \in 1 .. Len(s) - 1 : Advanced(s)[j] = s[j]
           /\ Advanced(s)[Len(s)] = [s[Len(s)] EXCEPT !.at = @ + 1]
           /\ SubSeq(s, 1, Len(s) - 1) \in Seq(FrameType)
           /\ Len(SubSeq(s, 1, Len(s) - 1)) = Len(s) - 1
           /\ DOMAIN SubSeq(s, 1, Len(s) - 1) = 1 .. Len(s) - 1
           /\ \A j \in 1 .. Len(s) - 1 : SubSeq(s, 1, Len(s) - 1)[j] = s[j]
<1> DEFINE b == SubSeq(s, 1, Len(s) - 1)
           fr == [s[Len(s)] EXCEPT !.at = @ + 1]
<1>1. Len(s) \in Nat /\ DOMAIN s = 1 .. Len(s) /\ \A j \in 1 .. Len(s) : s[j] \in FrameType
  BY LenProperties
<1>2. fr \in FrameType
  <2>1. s[Len(s)] \in FrameType
    BY <1>1
  <2>2. ASSUME NEW g \in FrameType PROVE [g EXCEPT !.at = @ + 1] \in FrameType
    <3>1. g.at + 1 \in Nat
      BY ONLY g \in FrameType DEF FrameType
    <3> QED BY ONLY g \in FrameType, <3>1 DEF FrameType
  <2> QED BY <2>1, <2>2
<1> HIDE DEF FrameType, fr
<1>3. b \in Seq(FrameType) /\ Len(b) = Len(s) - 1 /\ \A j \in 1 .. Len(s) - 1 : b[j] = s[j]
  <2>1. PICK l : l = Len(s) - 1
    OBVIOUS
  <2>2. l \in Int /\ 1 \in Int /\ l >= 0 /\ b = SubSeq(s, 1, l)
    BY <1>1, <2>1
  <2>3. \A j \in 1 .. l : s[j] \in FrameType
    BY <1>1, <2>1
  <2> HIDE DEF b
  <2>4. /\ b \in Seq(FrameType) /\ Len(b) = (IF 1 <= l THEN l - 1 + 1 ELSE 0)
        /\ \A j \in 1 .. l - 1 + 1 : b[j] = s[1 + j - 1]
    BY ONLY <2>2, <2>3, SubSeqProperties
  <2>5. Len(b) = l /\ \A j \in 1 .. l : b[j] = s[j]
    BY ONLY <2>2, <2>4
  <2> QED BY ONLY <2>1, <2>4, <2>5
<1> HIDE DEF b
<1>4. DOMAIN b = 1 .. Len(s) - 1
  BY <1>3, LenProperties
<1> DEFINE a == Append(b, fr)
<1>5. a \in Seq(FrameType) /\ Len(a) = Len(b) + 1
      /\ (\A j \in 1 .. Len(b) : a[j] = b[j]) /\ a[Len(b) + 1] = fr
  BY <1>2, <1>3
<1> HIDE DEF a
<1>6. DOMAIN a = 1 .. Len(s)
  BY <1>1, <1>3, <1>5, LenProperties
<1>7. Advanced(s) = a
  BY DEF Advanced, a, b, fr
<1>8. (\A j \in 1 .. Len(s) - 1 : a[j] = s[j]) /\ a[Len(s)] = fr /\ Len(a) = Len(s)
  BY <1>1, <1>3, <1>5
<1> QED BY <1>1, <1>3, <1>4, <1>5, <1>6, <1>7, <1>8 DEF b, fr

\* A frame pushed.
LEMMA FramePush ==
    ASSUME NEW s \in Seq(FrameType), NEW fr \in FrameType
    PROVE  /\ Len(s) \in Nat /\ DOMAIN s = 1 .. Len(s) /\ Append(s, fr) \in Seq(FrameType)
           /\ Len(Append(s, fr)) = Len(s) + 1 /\ DOMAIN Append(s, fr) = 1 .. Len(s) + 1
           /\ \A j \in 1 .. Len(s) : Append(s, fr)[j] = s[j]
           /\ Append(s, fr)[Len(s) + 1] = fr
OBVIOUS

\* Frames of tasks and of help_finish.
LEMMA FrameTypes ==
    /\ \A t \in Tasks \cup {Main} :
        /\ Body(t) \in FrameType
        /\ Body(t).kind = "task" /\ Body(t).task = t /\ Body(t).at = 1
    /\ \A f \in Finishes, w \in Ctxs : LET h == Frame("help", NULL, f, w, NULL) IN
        h \in FrameType /\ h.kind = "help" /\ h.task = NULL /\ h.on = f /\ h.ws = w
BY DEF Body, Frame, FrameType

\* A frame is in order in another stack in which it is on the same frame.
LEMMA FrameKept ==
    ASSUME NEW code, NEW w, NEW s, NEW r, NEW j, FrameOK(code, w, s, j),
           r[j] = s[j], j > 1 => r[j - 1] = s[j - 1]
    PROVE  FrameOK(code, w, r, j)
BY DEF FrameOK

\* What surrounds the innermost frame stays in order when it is dropped.
LEMMA FramesPop ==
    ASSUME NEW code, NEW w, NEW s \in Seq(FrameType), FramesOK(code, w, s), Len(s) > 1
    PROVE  FramesOK(code, w, SubSeq(s, 1, Len(s) - 1))
<1> DEFINE r == SubSeq(s, 1, Len(s) - 1)
<1>1. /\ Len(s) \in Nat /\ DOMAIN s = 1 .. Len(s) /\ Len(r) = Len(s) - 1
      /\ DOMAIN r = 1 .. Len(s) - 1 /\ \A j \in 1 .. Len(s) - 1 : r[j] = s[j]
  BY FrameSeqs
<1> HIDE DEF r
<1>2. \A j \in DOMAIN r : r[j] = s[j] /\ j \in DOMAIN s /\ (j > 1 => r[j - 1] = s[j - 1])
  BY <1>1
<1>3. r[1] = s[1] /\ Len(r) > 0
  BY <1>1
<1> QED BY <1>2, <1>3, FrameKept DEF FramesOK, r

\* A task is started on top of a loop or a help_finish.
LEMMA FramesStart ==
    ASSUME NEW code, NEW w, NEW s \in Seq(FrameType), FramesOK(code, w, s), s[Len(s)].kind # "task",
           NEW x \in Tasks, Len(code[x]) \in Nat
    PROVE  FramesOK(code, w, Append(s, Body(x)))
<1> DEFINE r == Append(s, Body(x))
           fr == Body(x)
           n == Len(s) + 1
<1>1. fr \in FrameType /\ fr.kind = "task" /\ fr.task = x /\ fr.at = 1
  BY FrameTypes
<1> HIDE DEF fr
<1>2. Len(s) \in Nat /\ Len(s) > 0 /\ DOMAIN s = 1 .. Len(s) /\ Len(r) = Len(s) + 1
      /\ DOMAIN r = 1 .. Len(s) + 1 /\ (\A j \in 1 .. Len(s) : r[j] = s[j]) /\ r[Len(s) + 1] = fr
  BY <1>1, FramePush DEF FramesOK, fr
<1> HIDE DEF r
<1>3. \A j \in DOMAIN r : j \in DOMAIN s \/ j = n
  BY <1>2
<1>4. \A j \in DOMAIN s : r[j] = s[j] /\ (j > 1 => r[j - 1] = s[j - 1])
  BY <1>2
<1>5. x # NULL /\ x # Main
  BY RuntimeAssumption, NullAssumption
<1>6. r[n - 1] = s[Len(s)] /\ n > 1 /\ r[1] = s[1] /\ r[n] = fr
  BY <1>2
<1> HIDE DEF n
<1>7. FrameOK(code, w, r, n)
  BY <1>1, <1>5, <1>6 DEF FrameOK
<1>8. \A j \in DOMAIN r : FrameOK(code, w, r, j)
  BY <1>3, <1>4, <1>7, FrameKept DEF FramesOK
<1> QED BY <1>2, <1>6, <1>8 DEF FramesOK, r

\* A task goes one instruction on.
LEMMA FramesAdvance ==
    ASSUME NEW code, NEW w, NEW s \in Seq(FrameType), FramesOK(code, w, s),
           s[Len(s)].kind = "task",
           s[Len(s)].task = Main => s[Len(s)].at = 1,
           s[Len(s)].task \in Tasks =>
               Len(code[s[Len(s)].task]) \in Nat /\ s[Len(s)].at <= Len(code[s[Len(s)].task])
    PROVE  FramesOK(code, w, Advanced(s))
<1> DEFINE r == Advanced(s)
           n == Len(s)
<1>1. n \in Nat /\ n > 0 /\ DOMAIN s = 1 .. n /\ Len(r) = n /\ DOMAIN r = 1 .. n
      /\ (\A j \in 1 .. n - 1 : r[j] = s[j]) /\ r[n] = [s[n] EXCEPT !.at = @ + 1] /\ s[n] \in FrameType
  BY FrameSeqs DEF FramesOK
<1>2. s[n].kind = "task" /\ (s[n].task = Main => s[n].at = 1)
      /\ (s[n].task \in Tasks => Len(code[s[n].task]) \in Nat /\ s[n].at <= Len(code[s[n].task]))
  OBVIOUS
<1> HIDE DEF r, n
<1>3. r[n].kind = s[n].kind /\ r[n].task = s[n].task /\ r[n].at = s[n].at + 1 /\ s[n].at \in Nat
  BY <1>1 DEF FrameType
<1>4. \A j \in DOMAIN r : (j \in DOMAIN s /\ j # n /\ r[j] = s[j]) \/ j = n
  BY <1>1
<1>5. \A j \in DOMAIN s : j > 1 => r[j - 1] = s[j - 1]
  BY <1>1
<1>6. n \in DOMAIN s /\ FrameOK(code, w, s, n)
  BY <1>1 DEF FramesOK
<1>7. s[n].task \in Tasks => r[n].at \in 1 .. Len(code[s[n].task]) + 1
  BY <1>2, <1>3, <1>6 DEF FrameOK
<1>8. s[n].task = Main => r[n].at = 2
  BY <1>2, <1>3
<1>9. n > 1 => r[n - 1] = s[n - 1]
  BY <1>5, <1>6
<1>10. FrameOK(code, w, r, n)
  BY <1>2, <1>3, <1>6, <1>7, <1>8, <1>9 DEF FrameOK
<1>11. \A j \in DOMAIN r : FrameOK(code, w, r, j)
  BY <1>4, <1>5, <1>10, FrameKept DEF FramesOK
<1>12. r[1].kind = s[1].kind
  <2>1. CASE n = 1
    BY <1>3, <2>1
  <2>2. CASE n # 1
    BY <1>1, <2>2
  <2> QED BY <2>1, <2>2
<1> QED BY <1>1, <1>11, <1>12 DEF FramesOK, r

\* A task that has reached an end_finish helps with it.
LEMMA FramesHelp ==
    ASSUME NEW code, NEW w, NEW s \in Seq(FrameType), FramesOK(code, w, s), s[Len(s)].kind = "task",
           NEW h \in FrameType, h.kind = "help", h.task = NULL, h.ws = w, HelpsWith(code, h, s[Len(s)])
    PROVE  FramesOK(code, w, Append(s, h))
<1> DEFINE r == Append(s, h)
           n == Len(s) + 1
<1>1. Len(s) \in Nat /\ Len(s) > 0 /\ DOMAIN s = 1 .. Len(s) /\ Len(r) = Len(s) + 1
      /\ DOMAIN r = 1 .. Len(s) + 1 /\ (\A j \in 1 .. Len(s) : r[j] = s[j]) /\ r[Len(s) + 1] = h
  BY FramePush DEF FramesOK
<1> HIDE DEF r
<1>2. \A j \in DOMAIN r : j \in DOMAIN s \/ j = n
  BY <1>1
<1>3. \A j \in DOMAIN s : r[j] = s[j] /\ (j > 1 => r[j - 1] = s[j - 1])
  BY <1>1
<1>4. r[n - 1] = s[Len(s)] /\ n > 1 /\ r[1] = s[1] /\ r[n] = h
  BY <1>1
<1>5. NULL # Main /\ NULL \notin Tasks
  BY NullAssumption
<1> HIDE DEF n
<1>6. FrameOK(code, w, r, n)
  BY <1>4, <1>5 DEF FrameOK
<1>7. \A j \in DOMAIN r : FrameOK(code, w, r, j)
  BY <1>2, <1>3, <1>6, FrameKept DEF FramesOK
<1> QED BY <1>1, <1>4, <1>7 DEF FramesOK, r

\* The innermost frame of n is at its own instruction, one below it still at
\* the end_finish before.
LEMMA HeldAtFacts ==
    ASSUME NEW s, NEW n \in Nat, Len(s) = n
    PROVE  /\ HeldAt(s, n) = s[n].at
           /\ \A j \in 1 .. n - 1 : HeldAt(s, j) = s[j].at - 1
BY DEF HeldAt

\* What a task's next instruction changes of the frames.
LEMMA AdvancedFrames ==
    ASSUME NEW s \in Seq(FrameType), NEW n \in Nat, Len(s) = n, n > 0
    PROVE  LET r == Advanced(s) IN
           /\ r \in Seq(FrameType) /\ Len(r) = n /\ DOMAIN r = 1 .. n
           /\ r[n].kind = s[n].kind /\ r[n].task = s[n].task /\ r[n].at = s[n].at + 1
           /\ \A j \in 1 .. n : r[j].task = s[j].task
           /\ \A j \in 1 .. n : j # n => r[j] = s[j] /\ HeldAt(r, j) = HeldAt(s, j)
           /\ HeldAt(r, n) = s[n].at + 1 /\ HeldAt(s, n) = s[n].at
<1> DEFINE r == Advanced(s)
<1>1. r \in Seq(FrameType) /\ Len(r) = n /\ DOMAIN r = 1 .. n
      /\ (\A j \in 1 .. n - 1 : r[j] = s[j]) /\ r[n] = [s[n] EXCEPT !.at = @ + 1]
      /\ \A j \in 1 .. n : s[j] \in FrameType
  BY FrameSeqs
<1> HIDE DEF r
<1>2. s[n] \in FrameType
  BY <1>1
<1>3. r[n].kind = s[n].kind /\ r[n].task = s[n].task /\ r[n].at = s[n].at + 1
  BY <1>1, <1>2 DEF FrameType
<1>4. \A j \in 1 .. n : j # n => j \in 1 .. n - 1
  OBVIOUS
<1>5. HeldAt(r, n) = r[n].at /\ HeldAt(s, n) = s[n].at
      /\ \A j \in 1 .. n - 1 : HeldAt(r, j) = r[j].at - 1 /\ HeldAt(s, j) = s[j].at - 1
  BY <1>1, HeldAtFacts
<1>6. \A j \in 1 .. n : j # n => r[j] = s[j] /\ HeldAt(r, j) = HeldAt(s, j)
  BY <1>1, <1>4, <1>5
<1>7. \A j \in 1 .. n : r[j].task = s[j].task
  BY <1>3, <1>6
<1> QED BY <1>1, <1>3, <1>5, <1>6, <1>7 DEF r

\* What reaching an end_finish changes of the frames.
LEMMA HelpFrames ==
    ASSUME NEW s \in Seq(FrameType), Len(s) > 0, NEW h \in FrameType
    PROVE  /\ Append(Advanced(s), h) \in Seq(FrameType)
           /\ Len(Append(Advanced(s), h)) = Len(s) + 1
           /\ DOMAIN Append(Advanced(s), h) = 1 .. Len(s) + 1
           /\ Append(Advanced(s), h)[Len(s) + 1] = h
           /\ Append(Advanced(s), h)[Len(s)].at = s[Len(s)].at + 1
           /\ \A j \in 1 .. Len(s) : /\ Append(Advanced(s), h)[j].task = s[j].task
                                     /\ HeldAt(Append(Advanced(s), h), j) = HeldAt(s, j)
           /\ \A j \in 1 .. Len(s) : j # Len(s) => Append(Advanced(s), h)[j] = s[j]
<1>0. PICK n \in Nat : n = Len(s)
  OBVIOUS
<1>a. PICK r : r = Append(Advanced(s), h)
  OBVIOUS
<1> DEFINE a == Advanced(s)
<1>1. a \in Seq(FrameType) /\ Len(a) = n /\ a[n].at = s[n].at + 1
      /\ (\A j \in 1 .. n : a[j].task = s[j].task)
      /\ (\A j \in 1 .. n : j # n => a[j] = s[j] /\ HeldAt(a, j) = HeldAt(s, j))
      /\ HeldAt(s, n) = s[n].at
  BY <1>0, AdvancedFrames
<1>2. r \in Seq(FrameType) /\ Len(r) = n + 1 /\ DOMAIN r = 1 .. n + 1
      /\ (\A j \in 1 .. n : r[j] = a[j]) /\ r[n + 1] = h
  BY <1>a, <1>1, FramePush
<1>3. s[n].at \in Nat
  <2>1. s[n] \in FrameType
    BY <1>0, FrameSeqs
  <2> QED BY <2>1 DEF FrameType
<1> HIDE DEF a
<1>4. \A j \in 1 .. n : HeldAt(r, j) = r[j].at - 1
  <2>1. \A j \in 1 .. n : j \in 1 .. (n + 1) - 1
    OBVIOUS
  <2>2. PICK m \in Nat : m = n + 1
    OBVIOUS
  <2>3. \A j \in 1 .. m - 1 : HeldAt(r, j) = r[j].at - 1
    BY <1>2, <2>2, HeldAtFacts
  <2> QED BY <2>1, <2>2, <2>3
<1>5. \A j \in 1 .. n - 1 : HeldAt(s, j) = s[j].at - 1
  BY <1>0, HeldAtFacts
<1>6. \A j \in 1 .. n : HeldAt(r, j) = HeldAt(s, j)
  <2> TAKE j \in 1 .. n
  <2>1. CASE j = n
    BY <1>1, <1>2, <1>3, <1>4, <2>1
  <2>2. CASE j # n
    <3>1. j \in 1 .. n - 1
      BY <2>2
    <3> QED BY <1>1, <1>2, <1>4, <1>5, <2>2, <3>1
  <2> QED BY <2>1, <2>2
<1>7. r[n].at = s[n].at + 1
  <2>1. n \in 1 .. n
    BY <1>0
  <2> QED BY <1>1, <1>2, <2>1
<1>8. /\ r \in Seq(FrameType) /\ Len(r) = n + 1 /\ DOMAIN r = 1 .. n + 1
      /\ r[n + 1] = h /\ r[n].at = s[n].at + 1
      /\ \A j \in 1 .. n : r[j].task = s[j].task /\ HeldAt(r, j) = HeldAt(s, j)
      /\ \A j \in 1 .. n : j # n => r[j] = s[j]
  BY <1>1, <1>2, <1>6, <1>7
<1> QED BY ONLY <1>0, <1>a, <1>8, Zenon

-----------------------------------------------------------------------------
(* The stacks of the workers *)

\* What the invariant says of a worker's stack.
LEMMA StackFacts ==
    ASSUME Types, StackInv, NEW w \in Workers
    PROVE  /\ w \in Ctxs /\ w \in Nat /\ 0 \in Workers /\ Workers \subseteq Ctxs
           /\ current[w] = w /\ Top(w) = stack[w][Len(stack[w])] /\ Below(w) = SubSeq(stack[w], 1, Len(stack[w]) - 1)
           /\ stack[w] \in Seq(FrameType) /\ Len(stack[w]) \in Nat /\ Len(stack[w]) > 0
           /\ DOMAIN stack[w] = 1 .. Len(stack[w])
           /\ \A j \in 1 .. Len(stack[w]) : stack[w][j] \in FrameType /\ FrameOK(program.code, w, stack[w], j)
           /\ FramesOK(program.code, w, stack[w])
           /\ Top(w) \in FrameType /\ FrameOK(program.code, w, stack[w], Len(stack[w]))
<1>1. Workers \subseteq Ctxs /\ 0 \in Workers /\ w \in Ctxs /\ w \in Nat
  BY RuntimeAssumption DEF Types, Workers, Ctxs
<1>2. current[w] = w /\ stack[w] \in Seq(FrameType)
  BY <1>1 DEF Types
<1>3. FramesOK(program.code, w, stack[w])
  BY DEF StackInv
<1>4. Len(stack[w]) \in Nat /\ DOMAIN stack[w] = 1 .. Len(stack[w])
      /\ Len(stack[w]) > 0 /\ Len(stack[w]) \in 1 .. Len(stack[w])
      /\ \A j \in 1 .. Len(stack[w]) : stack[w][j] \in FrameType
  BY <1>2, <1>3, FrameSeqs DEF FramesOK
<1>5. \A j \in 1 .. Len(stack[w]) : FrameOK(program.code, w, stack[w], j)
  BY <1>3, <1>4 DEF FramesOK
<1> QED BY <1>1, <1>2, <1>3, <1>4, <1>5 DEF Top, Below

\* Task x is started on top of worker w's frames.
LEMMA StackStart ==
    ASSUME SpawnJoin(program), Types, StackInv, TaskInv, NEW w \in Workers, NEW x \in Tasks, ~OnStack(x),
           Top(w).kind # "task", UNCHANGED <<program, current>>,
           stack' = [stack EXCEPT ![w] = Append(stack[w], Body(x))]
    PROVE  /\ stack' \in [Ctxs -> Seq(FrameType)] /\ StackInv'
           /\ \A t \in Tasks : OneFrame(t)' /\ (OnStack(t)' <=> OnStack(t) \/ t = x)
           /\ \A t \in Tasks, i \in Nat : runs'[t] = runs[t] /\ Passed(t, i) /\ t # x => Passed(t, i)'
           /\ \A t \in Tasks, s \in Nat : HasOpen(t, s)' => HasOpen(t, s)
           /\ Workers' = Workers /\ \A v \in Workers : v # w => Top(v)' = Top(v)
           /\ Top(w)'.task = x /\ Top(w)'.at = 1
<1> DEFINE r == Append(stack[w], Body(x))
           n == Len(stack[w])
           fr == Body(x)
<1>1. /\ w \in Ctxs /\ Workers \subseteq Ctxs /\ stack[w] \in Seq(FrameType) /\ n \in Nat /\ n > 0
      /\ DOMAIN stack[w] = 1 .. n /\ FramesOK(program.code, w, stack[w])
      /\ stack[w][n].kind # "task" /\ FrameOK(program.code, w, stack[w], n)
  BY StackFacts
<1>2. fr \in FrameType /\ fr.kind = "task" /\ fr.task = x /\ fr.at = 1
  BY FrameTypes
<1>3. r \in Seq(FrameType) /\ Len(r) = n + 1 /\ DOMAIN r = 1 .. n + 1
      /\ (\A j \in 1 .. n : r[j] = stack[w][j]) /\ r[n + 1] = fr
  BY <1>1, <1>2, FramePush
<1>4. FramesOK(program.code, w, r)
  <2>1. Len(program.code[x]) \in Nat
    BY InstructionTypes DEF Types
  <2> QED BY <1>1, <2>1, FramesStart
<1> HIDE DEF r, n, fr
<1>5. Workers' = Workers /\ program' = program /\ current' = current
  BY DEF Workers
<1>6. /\ stack'[w] = r /\ \A c \in Ctxs : c # w => stack'[c] = stack[c]
      /\ \A v \in Workers : v # w => stack'[v] = stack[v]
  BY <1>1 DEF Types, r
<1>7. stack' \in [Ctxs -> Seq(FrameType)]
  BY <1>1, <1>3 DEF Types, r
<1>8. StackInv'
  BY <1>1, <1>4, <1>5, <1>6 DEF StackInv
<1>9. \A v \in Workers : \A j \in DOMAIN stack[v] : j \in DOMAIN stack'[v] /\ stack'[v][j] = stack[v][j]
  BY <1>1, <1>3, <1>6
<1>10. \A v \in Workers : \A j \in DOMAIN stack'[v] :
         \/ j \in DOMAIN stack[v] /\ stack'[v][j] = stack[v][j]
         \/ v = w /\ j = n + 1 /\ stack'[v][j] = fr
  BY <1>1, <1>3, <1>6
<1>11. n + 1 \in DOMAIN stack'[w] /\ stack'[w][n + 1] = fr
  BY <1>1, <1>3, <1>6
<1>12. \A t \in Tasks : OnStack(t)' <=> OnStack(t) \/ t = x
  BY <1>2, <1>5, <1>9, <1>10, <1>11 DEF OnStack
<1>13. \A t \in Tasks : OneFrame(t)'
  <2> TAKE t \in Tasks
  <2>1. OneFrame(t)
    BY DEF TaskInv
  <2>2. \A v \in Workers : \A j \in DOMAIN stack[v] : stack[v][j].task # x
    BY DEF OnStack
  <2> QED BY <1>2, <1>5, <1>10, <2>1, <2>2 DEF OneFrame
<1>14. \A t \in Tasks, i \in Nat : runs'[t] = runs[t] /\ Passed(t, i) /\ t # x => Passed(t, i)'
  BY <1>2, <1>5, <1>10 DEF Passed
<1>15. \A v \in Workers : v # w => Top(v)' = Top(v)
  BY <1>1, <1>5, <1>6, StackFacts DEF Top
<1>16. Top(w)' = fr
  BY <1>1, <1>3, <1>5, <1>6, StackFacts DEF Top
<1>17. ASSUME NEW t \in Tasks, NEW s \in Nat, HasOpen(t, s)' PROVE HasOpen(t, s)
  <2>1. PICK v \in Workers : \E j \in DOMAIN stack'[v] :
          stack'[v][j].task = t /\ s \in OpenStarts(program.code[t])[HeldAt(stack'[v], j)]
    BY <1>5, <1>17 DEF HasOpen
  <2>2. PICK j \in DOMAIN stack'[v] :
          stack'[v][j].task = t /\ s \in OpenStarts(program.code[t])[HeldAt(stack'[v], j)]
    BY <2>1
  <2>3. CASE v = w /\ j = n + 1
    <3>1. HeldAt(stack'[v], j) = 1
      BY <1>1, <1>2, <1>3, <1>6, <2>3 DEF HeldAt
    <3>2. OpenStarts(program.code[t])[1] = {}
      BY OpenStartsDef, InstructionTypes DEF Types
    <3> QED BY <2>2, <3>1, <3>2
  <2>4. CASE ~(v = w /\ j = n + 1)
    <3>1. j \in DOMAIN stack[v] /\ stack'[v][j] = stack[v][j]
      BY <1>10, <2>4
    <3>2. v = w => j # n
      <4> SUFFICES ASSUME v = w, j = n PROVE FALSE
        OBVIOUS
      <4>1. stack[w][n].task = NULL
        BY <1>1 DEF FrameOK
      <4> QED BY <2>2, <3>1, <4>1, NullAssumption
    <3>3. HeldAt(stack'[v], j) = HeldAt(stack[v], j)
      BY <1>1, <1>3, <1>6, <3>1, <3>2 DEF HeldAt, n
    <3> QED BY <2>2, <3>1, <3>3 DEF HasOpen
  <2> QED BY <2>3, <2>4
<1> QED BY <1>2, <1>5, <1>7, <1>8, <1>12, <1>13, <1>14, <1>15, <1>16, <1>17

\* What an instruction other than an end changes of the frames and of what
\* is read from them: task t of worker w passes its instruction k.
Advances(w, t, k) ==
    /\ stack' \in [Ctxs -> Seq(FrameType)] /\ StackInv'
    /\ k \in 1 .. Len(program.code[t])
    /\ \A u \in Tasks : OneFrame(u)' /\ (OnStack(u)' <=> OnStack(u))
    /\ \A u \in Tasks, i \in Nat : Passed(u, i) => Passed(u, i)'
    /\ ~Passed(t, k) /\ Passed(t, k)' /\ OnStack(t)
    /\ \A u \in Tasks, s \in Nat : HasOpen(u, s)' =>
         HasOpen(u, s) \/ (u = t /\ s = k /\ program.code[t][k].op = "start")
    /\ Workers' = Workers /\ \A v \in Workers : v # w => Top(v)' = Top(v)
    /\ Top(w)'.task = t /\ Top(w)'.at = k + 1

\* The task on top of worker w's frames goes one instruction on.
LEMMA StackAdvance ==
    ASSUME SpawnJoin(program), Types, StackInv, TaskInv, NEW w \in Workers, NEW t \in Tasks,
           NEW k \in Nat, Top(w).kind = "task", Top(w).task = t, Top(w).at = k,
           k <= Len(program.code[t]), program.code[t][k].op # "end", UNCHANGED <<program, current, runs>>,
           stack' = [stack EXCEPT ![w] = Advanced(stack[w])]
    PROVE  Advances(w, t, k)
<1> DEFINE r == Advanced(stack[w])
<1>0. PICK n : n = Len(stack[w])
  OBVIOUS
<1>1. /\ w \in Ctxs /\ Workers \subseteq Ctxs /\ stack[w] \in Seq(FrameType) /\ n \in Nat /\ n > 0
      /\ DOMAIN stack[w] = 1 .. n /\ FramesOK(program.code, w, stack[w]) /\ Top(w) = stack[w][n]
      /\ FrameOK(program.code, w, stack[w], n) /\ stack[w][n] \in FrameType
  BY <1>0, StackFacts
<1>2. /\ r \in Seq(FrameType) /\ Len(r) = n /\ DOMAIN r = 1 .. n
      /\ r[n].task = t /\ r[n].at = k + 1
      /\ \A j \in 1 .. n : r[j].task = stack[w][j].task
      /\ \A j \in 1 .. n : j # n => r[j] = stack[w][j] /\ HeldAt(r, j) = HeldAt(stack[w], j)
      /\ HeldAt(r, n) = k + 1 /\ HeldAt(stack[w], n) = k
  BY <1>0, <1>1, AdvancedFrames
<1>3. Len(program.code[t]) \in Nat /\ DOMAIN program.code[t] = 1 .. Len(program.code[t])
      /\ \A i \in 1 .. Len(program.code[t]) : program.code[t][i].op \in {"async", "put", "start", "end"}
  BY InstructionTypes DEF Types
<1>4. FramesOK(program.code, w, r)
  <2>1. t # Main
    BY RuntimeAssumption
  <2> QED BY <1>0, <1>1, <1>3, <2>1, FramesAdvance
<1>5. k \in 1 .. Len(program.code[t]) /\ stack[w][n].at = k /\ stack[w][n].task = t
  BY <1>1, <1>3 DEF FrameOK
<1>6. r[n].task = t /\ r[n].at = k + 1
  BY <1>2
<1> HIDE DEF r
<1>7. Workers' = Workers /\ program' = program /\ current' = current
  BY DEF Workers
<1>8. /\ stack'[w] = r /\ \A c \in Ctxs : c # w => stack'[c] = stack[c]
      /\ \A v \in Workers : v # w => stack'[v] = stack[v]
  BY <1>1 DEF Types, r
<1>9. stack' \in [Ctxs -> Seq(FrameType)]
  BY <1>1, <1>2 DEF Types, r
<1>10. StackInv'
  BY <1>1, <1>4, <1>7, <1>8 DEF StackInv
<1>11. \A v \in Workers :
         /\ DOMAIN stack'[v] = DOMAIN stack[v]
         /\ \A j \in DOMAIN stack[v] :
              /\ stack'[v][j].task = stack[v][j].task
              /\ ~(v = w /\ j = n) =>
                   stack'[v][j] = stack[v][j] /\ HeldAt(stack'[v], j) = HeldAt(stack[v], j)
  <2> TAKE v \in Workers
  <2>1. CASE v = w
    BY <1>1, <1>2, <1>8, <2>1
  <2>2. CASE v # w
    BY <1>8, <2>2
  <2> QED BY <2>1, <2>2
<1>12. n \in DOMAIN stack[w]
  BY <1>1
<1>13. \A u \in Tasks : OneFrame(u)' /\ (OnStack(u)' <=> OnStack(u))
  BY <1>7, <1>11 DEF OneFrame, OnStack, TaskInv
<1>14. \A u \in Tasks, i \in Nat : Passed(u, i) => Passed(u, i)'
  <2> SUFFICES ASSUME NEW u \in Tasks, NEW i \in Nat, Passed(u, i), NEW v \in Workers, NEW j \in DOMAIN stack[v],
                      stack[v][j].task = u
               PROVE  stack'[v][j].at > i
    BY <1>7, <1>11 DEF Passed
  <2>1. stack[v][j].at > i
    BY DEF Passed
  <2>2. CASE v = w /\ j = n
    BY <1>5, <1>6, <1>8, <2>1, <2>2
  <2>3. CASE ~(v = w /\ j = n)
    BY <1>11, <2>1, <2>3
  <2> QED BY <2>2, <2>3
<1>15. OnStack(t) /\ runs[t] = 1
  BY <1>5, <1>12 DEF OnStack, TaskInv
<1>16. ~Passed(t, k)
  BY <1>5, <1>12 DEF Passed
<1>17. Passed(t, k)'
  <2> SUFFICES ASSUME NEW v \in Workers, NEW j \in DOMAIN stack[v], stack[v][j].task = t
               PROVE  stack'[v][j].at > k
    BY <1>7, <1>11, <1>15 DEF Passed
  <2>1. v = w /\ j = n
    BY <1>5, <1>12 DEF TaskInv, OneFrame
  <2> QED BY <1>5, <1>6, <1>8, <2>1
<1>18. \A v \in Workers : v # w => Top(v)' = Top(v)
  BY <1>0, <1>1, <1>7, <1>8, StackFacts DEF Top
<1>19. Top(w)' = r[n]
  BY <1>0, <1>1, <1>2, <1>7, <1>8, StackFacts DEF Top
<1>20. ASSUME NEW u \in Tasks, NEW s \in Nat, HasOpen(u, s)', ~HasOpen(u, s)
       PROVE  u = t /\ s = k /\ program.code[t][s].op = "start"
  <2>1. PICK v \in Workers : \E j \in DOMAIN stack'[v] :
          stack'[v][j].task = u /\ s \in OpenStarts(program.code[u])[HeldAt(stack'[v], j)]
    BY <1>7, <1>20 DEF HasOpen
  <2>2. PICK j \in DOMAIN stack'[v] :
          stack'[v][j].task = u /\ s \in OpenStarts(program.code[u])[HeldAt(stack'[v], j)]
    BY <2>1
  <2>3. j \in DOMAIN stack[v] /\ stack[v][j].task = u
    BY <1>11, <2>2
  <2>4. s \notin OpenStarts(program.code[u])[HeldAt(stack[v], j)]
    BY <1>20, <2>3 DEF HasOpen
  <2>5. v = w /\ j = n
    <3> SUFFICES ASSUME ~(v = w /\ j = n) PROVE FALSE
      OBVIOUS
    <3>2. HeldAt(stack'[v], j) = HeldAt(stack[v], j)
      BY <1>11, <2>3
    <3> QED BY <2>2, <2>4, <3>2
  <2>6. u = t /\ HeldAt(stack'[v], j) = k + 1 /\ HeldAt(stack[v], j) = k
    BY <1>2, <1>5, <1>8, <2>3, <2>5
  <2>7. OpenStarts(program.code[t])[k + 1] = OpenedBy(program.code[t], k, OpenStarts(program.code[t])[k])
    BY <1>3, <1>5, OpenStartsDef
  <2>8. program.code[t][k].op \in {"async", "put", "start"}
    BY <1>3, <1>5
  <2>9. s = k /\ program.code[t][k].op = "start"
    BY <2>2, <2>4, <2>6, <2>7, <2>8 DEF OpenedBy
  <2> QED BY <2>6, <2>9
<1> QED BY <1>5, <1>6, <1>7, <1>9, <1>10, <1>13, <1>14, <1>15, <1>16, <1>17, <1>18, <1>19, <1>20 DEF Advances

\* The indices of a sequence that grows by one.
LEMMA OneMore ==
    ASSUME NEW n \in Nat
    PROVE  /\ \A j \in 1 .. n : j \in 1 .. n + 1
           /\ \A j \in 1 .. n + 1 : j \in 1 .. n \/ j = n + 1
           /\ n > 0 => n \in 1 .. n
OBVIOUS

\* The task on top reaches an end_finish and helps with scope f.
LEMMA StackHelp ==
    ASSUME SpawnJoin(program), Types, StackInv, TaskInv, NEW w \in Workers, NEW f \in Finishes,
           Top(w).kind = "task",
           \/ Top(w).task = Main /\ Top(w).at = 1 /\ f = Root
           \/ /\ Top(w).task \in Tasks /\ Top(w).at <= Len(program.code[Top(w).task])
              /\ program.code[Top(w).task][Top(w).at].op = "end"
              /\ \E s \in Nat : /\ f = <<Top(w).task, s>>
                                /\ IsLast(s, OpenStarts(program.code[Top(w).task])[Top(w).at]),
           UNCHANGED <<program, current, runs>>,
           stack' = [stack EXCEPT ![w] = Append(Advanced(stack[w]), Frame("help", NULL, f, w, NULL))]
    PROVE  /\ stack' \in [Ctxs -> Seq(FrameType)] /\ StackInv'
           /\ \A u \in Tasks : OneFrame(u)' /\ (OnStack(u)' <=> OnStack(u))
           /\ \A u \in Tasks, i \in Nat : Passed(u, i) => Passed(u, i)'
           /\ \A u \in Tasks, s \in Nat : HasOpen(u, s)' => HasOpen(u, s)
           /\ Workers' = Workers /\ \A v \in Workers : v # w => Top(v)' = Top(v)
           /\ Top(w)'.task = NULL
<1> DEFINE a == Advanced(stack[w])
           h == Frame("help", NULL, f, w, NULL)
           r == Append(a, h)
<1>0. PICK n : n = Len(stack[w])
  OBVIOUS
<1>a. PICK t, k : t = stack[w][n].task /\ k = stack[w][n].at
  OBVIOUS
<1>1. /\ w \in Ctxs /\ Workers \subseteq Ctxs /\ stack[w] \in Seq(FrameType) /\ n \in Nat /\ n > 0
      /\ DOMAIN stack[w] = 1 .. n /\ FramesOK(program.code, w, stack[w]) /\ Top(w) = stack[w][n]
      /\ FrameOK(program.code, w, stack[w], n) /\ stack[w][n] \in FrameType
  BY <1>0, StackFacts
<1>b. /\ \A j \in 1 .. n : j \in 1 .. n + 1
      /\ \A j \in 1 .. n + 1 : j \in 1 .. n \/ j = n + 1
      /\ n \in 1 .. n
  BY ONLY <1>1, OneMore
<1>2. a \in Seq(FrameType) /\ Len(a) = n
      /\ (\A j \in 1 .. n - 1 : a[j] = stack[w][j]) /\ a[n] = [stack[w][n] EXCEPT !.at = @ + 1]
  <2>1. stack[w] \in Seq(FrameType) /\ Len(stack[w]) > 0 /\ Len(stack[w]) = n
    BY ONLY <1>0, <1>1
  <2> HIDE DEF a
  <2>2. /\ Advanced(stack[w]) \in Seq(FrameType) /\ Len(Advanced(stack[w])) = Len(stack[w])
        /\ \A j \in 1 .. Len(stack[w]) - 1 : Advanced(stack[w])[j] = stack[w][j]
        /\ Advanced(stack[w])[Len(stack[w])] = [stack[w][Len(stack[w])] EXCEPT !.at = @ + 1]
    BY ONLY <2>1, FrameSeqs, Zenon
  <2>3. a = Advanced(stack[w])
    BY DEF a
  <2> QED BY ONLY <2>1, <2>2, <2>3, Zenon
<1>3. h \in FrameType /\ h.kind = "help" /\ h.task = NULL /\ h.on = f /\ h.ws = w
  <2>1. w \in Ctxs /\ f \in Finishes
    BY <1>1
  <2> QED BY ONLY <2>1, FrameTypes
<1>4. t \in Tasks => Len(program.code[t]) \in Nat
  BY InstructionTypes DEF Types
<1>5. FramesOK(program.code, w, a)
  <2>1. Main \notin Tasks
    BY RuntimeAssumption
  <2> QED BY <1>0, <1>a, <1>1, <1>4, <2>1, FramesAdvance
<1>6. a[n].task = t /\ a[n].at = k + 1 /\ a[n].kind = "task" /\ k \in Nat
  BY <1>a, <1>1, <1>2 DEF FrameType
<1>7. HelpsWith(program.code, h, a[n])
  <2>1. CASE t = Main /\ k = 1 /\ f = Root
    BY <1>3, <1>6, <2>1 DEF HelpsWith
  <2>2. CASE t \in Tasks
    <3>1. t # Main
      BY <2>2, RuntimeAssumption
    <3>2. program.code[t][k].op = "end" /\ \E s \in Nat : f = <<t, s>> /\ IsLast(s, OpenStarts(program.code[t])[k])
      BY <1>a, <1>1, <2>2, <3>1
    <3>3. k > 0
      <4>1. k \in 1 .. Len(program.code[t]) + 1
        BY <1>a, <1>1, <2>2 DEF FrameOK
      <4> QED BY ONLY <1>4, <2>2, <4>1
    <3>4. a[n].at > 1 /\ a[n].at - 1 = k
      BY ONLY <1>6, <3>3
    <3> QED BY <1>3, <1>6, <3>1, <3>2, <3>4 DEF HelpsWith, IsLast
  <2> QED BY <1>a, <1>1, <2>1, <2>2
<1> HIDE DEF a, h
<1>8. FramesOK(program.code, w, r)
  BY <1>0, <1>2, <1>3, <1>5, <1>6, <1>7, FramesHelp
<1>9. /\ r \in Seq(FrameType) /\ Len(r) = n + 1 /\ DOMAIN r = 1 .. n + 1
      /\ r[n + 1] = h /\ r[n].at = k + 1
      /\ \A j \in 1 .. n : r[j].task = stack[w][j].task /\ HeldAt(r, j) = HeldAt(stack[w], j)
      /\ \A j \in 1 .. n : j # n => r[j] = stack[w][j]
  <2>1. h \in FrameType /\ stack[w] \in Seq(FrameType) /\ n \in Nat /\ Len(stack[w]) = n /\ n > 0
    BY <1>0, <1>1, <1>3
  <2>2. r = Append(Advanced(stack[w]), h) /\ k = stack[w][n].at
    BY <1>a DEF a
  <2> HIDE DEF r
  <2> QED BY ONLY <2>1, <2>2, HelpFrames, Zenon
<1>10. stack' = [stack EXCEPT ![w] = r]
  BY DEF a, h
<1> HIDE DEF r
<1>11. Workers' = Workers /\ program' = program /\ current' = current
  BY DEF Workers
<1>12. /\ stack'[w] = r /\ \A c \in Ctxs : c # w => stack'[c] = stack[c]
       /\ \A v \in Workers : v # w => stack'[v] = stack[v]
  BY <1>1, <1>10 DEF Types
<1>13. stack' \in [Ctxs -> Seq(FrameType)]
  BY <1>1, <1>9, <1>10 DEF Types
<1>14. StackInv'
  BY <1>1, <1>8, <1>11, <1>12 DEF StackInv
<1>15. \A v \in Workers : \A j \in DOMAIN stack[v] :
         /\ j \in DOMAIN stack'[v]
         /\ stack'[v][j].task = stack[v][j].task
         /\ HeldAt(stack'[v], j) = HeldAt(stack[v], j)
         /\ ~(v = w /\ j = n) => stack'[v][j] = stack[v][j]
  <2> TAKE v \in Workers
  <2>1. CASE v = w
    <3>1. stack'[v] = r /\ DOMAIN stack[v] = 1 .. n /\ DOMAIN stack'[v] = 1 .. n + 1
      BY ONLY <1>1, <1>9, <1>12, <2>1, Zenon
    <3> QED BY ONLY <1>9, <1>b, <2>1, <3>1, Zenon
  <2>2. CASE v # w
    BY <1>12, <2>2
  <2> QED BY <2>1, <2>2
<1>16. \A v \in Workers : \A j \in DOMAIN stack'[v] :
         j \in DOMAIN stack[v] \/ (v = w /\ j = n + 1 /\ stack'[v][j].task = NULL)
  <2> TAKE v \in Workers
  <2>1. CASE v = w
    <3>1. stack'[v] = r /\ DOMAIN stack[v] = 1 .. n /\ DOMAIN stack'[v] = 1 .. n + 1
      BY ONLY <1>1, <1>9, <1>12, <2>1, Zenon
    <3> QED BY ONLY <1>3, <1>9, <1>b, <2>1, <3>1, Zenon
  <2>2. CASE v # w
    BY <1>12, <2>2
  <2> QED BY <2>1, <2>2
<1>17. NULL \notin Tasks
  BY NullAssumption
<1>18. \A u \in Tasks : \A v \in Workers : \A j \in DOMAIN stack'[v] :
         stack'[v][j].task = u => j \in DOMAIN stack[v] /\ stack[v][j].task = u
  BY <1>15, <1>16, <1>17
<1>19. \A u \in Tasks : OneFrame(u)' /\ (OnStack(u)' <=> OnStack(u))
  <2>1. ASSUME NEW u \in Tasks PROVE OneFrame(u)'
    <3>1. OneFrame(u)
      BY DEF TaskInv
    <3> QED BY ONLY u \in Tasks, <1>11, <1>18, <3>1 DEF OneFrame
  <2>2. ASSUME NEW u \in Tasks PROVE OnStack(u)' <=> OnStack(u)
    BY ONLY u \in Tasks, <1>11, <1>15, <1>18 DEF OnStack
  <2> QED BY <2>1, <2>2
<1>20. stack'[w][n].at = k + 1 /\ n \in DOMAIN stack[w]
  BY ONLY <1>1, <1>9, <1>12, <1>b, Zenon
<1>21. \A u \in Tasks, i \in Nat : Passed(u, i) => Passed(u, i)'
  <2> SUFFICES ASSUME NEW u \in Tasks, NEW i \in Nat, Passed(u, i), NEW v \in Workers, NEW j \in DOMAIN stack'[v],
                      stack'[v][j].task = u
               PROVE  stack'[v][j].at > i
    BY <1>11 DEF Passed
  <2>1. j \in DOMAIN stack[v] /\ stack[v][j].task = u
    BY <1>18
  <2>2. stack[v][j].at > i
    BY <2>1 DEF Passed
  <2>3. CASE v = w /\ j = n
    <3>1. k > i
      BY <1>a, <2>2, <2>3
    <3>2. k + 1 > i
      <4>1. k \in Nat /\ i \in Nat
        BY <1>6
      <4> QED BY ONLY <3>1, <4>1
    <3> QED BY ONLY <1>20, <2>3, <3>2, Zenon
  <2>4. CASE ~(v = w /\ j = n)
    BY <1>15, <2>1, <2>2, <2>4
  <2> QED BY <2>3, <2>4
<1>22. \A v \in Workers : v # w => Top(v)' = Top(v)
  <2> SUFFICES ASSUME NEW v \in Workers, v # w PROVE Top(v)' = Top(v)
    OBVIOUS
  <2>1. current[v] = v /\ current' = current /\ stack'[v] = stack[v]
    BY <1>11, <1>12, StackFacts
  <2> QED BY ONLY <2>1, Zenon DEF Top
<1>23. Top(w)' = h
  <2>1. current'[w] = w
    BY <1>11, StackFacts
  <2> QED BY <1>9, <1>12, <2>1 DEF Top
<1>24. ASSUME NEW u \in Tasks, NEW s \in Nat, HasOpen(u, s)' PROVE HasOpen(u, s)
  <2>1. PICK v \in Workers : \E j \in DOMAIN stack'[v] :
          stack'[v][j].task = u /\ s \in OpenStarts(program.code[u])[HeldAt(stack'[v], j)]
    BY <1>11, <1>24 DEF HasOpen
  <2>2. PICK j \in DOMAIN stack'[v] :
          stack'[v][j].task = u /\ s \in OpenStarts(program.code[u])[HeldAt(stack'[v], j)]
    BY <2>1
  <2>3. j \in DOMAIN stack[v] /\ stack[v][j].task = u
    BY <1>18, <2>2
  <2>4. HeldAt(stack'[v], j) = HeldAt(stack[v], j)
    BY <1>15, <2>3
  <2> QED BY <2>2, <2>3, <2>4 DEF HasOpen
<1> QED BY <1>3, <1>11, <1>13, <1>14, <1>19, <1>21, <1>22, <1>23, <1>24

\* What the return of the innermost frame leaves.
LEMMA PopFrames ==
    ASSUME NEW s \in Seq(FrameType), Len(s) > 1
    PROVE  /\ SubSeq(s, 1, Len(s) - 1) \in Seq(FrameType)
           /\ Len(SubSeq(s, 1, Len(s) - 1)) = Len(s) - 1
           /\ DOMAIN SubSeq(s, 1, Len(s) - 1) = 1 .. Len(s) - 1
           /\ \A j \in 1 .. Len(s) - 1 : SubSeq(s, 1, Len(s) - 1)[j] = s[j]
           /\ \A j \in 1 .. Len(s) - 2 : HeldAt(SubSeq(s, 1, Len(s) - 1), j) = HeldAt(s, j)
           /\ HeldAt(SubSeq(s, 1, Len(s) - 1), Len(s) - 1) = s[Len(s) - 1].at
           /\ HeldAt(s, Len(s) - 1) = s[Len(s) - 1].at - 1
<1>0. PICK n \in Nat : n = Len(s)
  OBVIOUS
<1>a. PICK r : r = SubSeq(s, 1, Len(s) - 1)
  OBVIOUS
<1>1. r \in Seq(FrameType) /\ Len(r) = n - 1 /\ DOMAIN r = 1 .. n - 1 /\ \A j \in 1 .. n - 1 : r[j] = s[j]
  BY <1>0, <1>a, FrameSeqs
<1>2. PICK m \in Nat : m = n - 1
  BY <1>0
<1>3. HeldAt(r, m) = r[m].at /\ (\A j \in 1 .. m - 1 : HeldAt(r, j) = r[j].at - 1)
      /\ \A j \in 1 .. n - 1 : HeldAt(s, j) = s[j].at - 1
  BY <1>0, <1>1, <1>2, HeldAtFacts
<1>4. \A j \in 1 .. n - 2 : HeldAt(r, j) = HeldAt(s, j)
  BY <1>1, <1>2, <1>3
<1>5. r[m] = s[n - 1] /\ n - 1 \in 1 .. n - 1
  BY <1>0, <1>1, <1>2
<1>6. HeldAt(r, n - 1) = s[n - 1].at /\ HeldAt(s, n - 1) = s[n - 1].at - 1
  BY <1>2, <1>3, <1>5
<1> QED BY ONLY <1>0, <1>a, <1>1, <1>4, <1>6, Zenon

\* The innermost frame of worker w returns and leaves b on top.
LEMMA StackPop ==
    ASSUME Types, StackInv, TaskInv, NEW w \in Workers, Len(stack[w]) > 1,
           UNCHANGED <<program, current, runs>>, stack' = [stack EXCEPT ![w] = SubSeq(@, 1, Len(@) - 1)]
    PROVE  /\ stack' \in [Ctxs -> Seq(FrameType)] /\ StackInv'
           /\ \A u \in Tasks : OneFrame(u)' /\ (OnStack(u)' <=> OnStack(u) /\ Top(w).task # u)
           /\ \A u \in Tasks, i \in Nat : Passed(u, i) => Passed(u, i)'
           /\ \A u \in Tasks, s \in Nat : HasOpen(u, s)' /\ stack[w][Len(stack[w]) - 1].task # u => HasOpen(u, s)
           /\ \A u \in Tasks, s \in Nat : HasOpen(u, s)' /\ stack[w][Len(stack[w]) - 1].task = u =>
                s \in OpenStarts(program.code[u])[stack[w][Len(stack[w]) - 1].at]
           /\ Workers' = Workers /\ \A v \in Workers : v # w => Top(v)' = Top(v)
           /\ Top(w)' = stack[w][Len(stack[w]) - 1]
<1>0. PICK n : n = Len(stack[w])
  OBVIOUS
<1>a. PICK b : b = stack[w][n - 1]
  OBVIOUS
<1> DEFINE r == SubSeq(stack[w], 1, n - 1)
<1>1. /\ w \in Ctxs /\ Workers \subseteq Ctxs /\ stack[w] \in Seq(FrameType) /\ n \in Nat /\ n > 1
      /\ DOMAIN stack[w] = 1 .. n /\ FramesOK(program.code, w, stack[w]) /\ Top(w) = stack[w][n] /\ current[w] = w
  BY <1>0, StackFacts
<1>2. FramesOK(program.code, w, r)
  BY <1>0, <1>1, FramesPop
<1>3. stack' = [stack EXCEPT ![w] = r]
  BY <1>0
<1>4. /\ r \in Seq(FrameType) /\ Len(r) = n - 1 /\ DOMAIN r = 1 .. n - 1
      /\ \A j \in 1 .. n - 1 : r[j] = stack[w][j]
      /\ \A j \in 1 .. n - 2 : HeldAt(r, j) = HeldAt(stack[w], j)
      /\ HeldAt(r, n - 1) = b.at
  <2>1. /\ n \in Nat /\ Len(stack[w]) = n /\ n > 1
        /\ stack[w] \in Seq(FrameType) /\ r = SubSeq(stack[w], 1, n - 1) /\ b = stack[w][n - 1]
    BY <1>0, <1>a, <1>1
  <2> HIDE DEF r
  <2> QED BY ONLY <2>1, PopFrames, Zenon
<1> HIDE DEF r
<1>5. Workers' = Workers /\ program' = program /\ current' = current /\ runs' = runs
  BY DEF Workers
<1>6. /\ stack'[w] = r /\ \A c \in Ctxs : c # w => stack'[c] = stack[c]
      /\ \A v \in Workers : v # w => stack'[v] = stack[v]
  BY <1>1, <1>3 DEF Types
<1>7. stack' \in [Ctxs -> Seq(FrameType)]
  BY <1>1, <1>3, <1>4 DEF Types
<1>8. StackInv'
  BY <1>1, <1>2, <1>5, <1>6 DEF StackInv
<1>9. \A v \in Workers : \A j \in DOMAIN stack'[v] :
        /\ j \in DOMAIN stack[v] /\ ~(v = w /\ j = n)
        /\ stack'[v][j] = stack[v][j]
        /\ ~(v = w /\ j = n - 1) => HeldAt(stack'[v], j) = HeldAt(stack[v], j)
  <2> TAKE v \in Workers
  <2>1. CASE v = w
    <3>1. \A j \in 1 .. n - 1 : j \in 1 .. n /\ j # n /\ (j # n - 1 => j \in 1 .. n - 2)
      BY <1>1
    <3> QED BY <1>1, <1>4, <1>6, <2>1, <3>1
  <2>2. CASE v # w
    BY <1>6, <2>2
  <2> QED BY <2>1, <2>2
<1>10. \A v \in Workers : \A j \in DOMAIN stack[v] :
         ~(v = w /\ j = n) => j \in DOMAIN stack'[v] /\ stack'[v][j] = stack[v][j]
  <2> TAKE v \in Workers
  <2>1. CASE v = w
    <3>1. \A j \in 1 .. n : j # n => j \in 1 .. n - 1
      BY <1>1
    <3> QED BY <1>1, <1>4, <1>6, <2>1, <3>1
  <2>2. CASE v # w
    BY <1>6, <2>2
  <2> QED BY <2>1, <2>2
<1>11. \A u \in Tasks : OneFrame(u)'
  BY <1>5, <1>9 DEF OneFrame, TaskInv
<1>12. ASSUME NEW u \in Tasks PROVE OnStack(u)' <=> OnStack(u) /\ Top(w).task # u
  <2>1. OneFrame(u) /\ n \in DOMAIN stack[w]
    BY <1>1 DEF TaskInv
  <2>2. OnStack(u)' => OnStack(u) /\ Top(w).task # u
    BY <1>1, <1>5, <1>9, <2>1 DEF OnStack, OneFrame
  <2>3. OnStack(u) /\ Top(w).task # u => OnStack(u)'
    BY <1>1, <1>5, <1>10 DEF OnStack
  <2> QED BY <2>2, <2>3
<1>13. \A u \in Tasks, i \in Nat : Passed(u, i) => Passed(u, i)'
  BY <1>5, <1>9 DEF Passed
<1>14. \A v \in Workers : v # w => Top(v)' = Top(v)
  BY <1>1, <1>5, <1>6, StackFacts DEF Top
<1>15. Top(w)' = b
  <2>1. n - 1 \in 1 .. n - 1
    BY <1>1
  <2> QED BY <1>a, <1>1, <1>4, <1>5, <1>6, <2>1 DEF Top
<1>16. ASSUME NEW u \in Tasks, NEW s \in Nat, HasOpen(u, s)'
       PROVE  IF b.task = u THEN s \in OpenStarts(program.code[u])[b.at] ELSE HasOpen(u, s)
  <2>1. PICK v \in Workers : \E j \in DOMAIN stack'[v] :
          stack'[v][j].task = u /\ s \in OpenStarts(program.code[u])[HeldAt(stack'[v], j)]
    BY <1>5, <1>16 DEF HasOpen
  <2>2. PICK j \in DOMAIN stack'[v] :
          stack'[v][j].task = u /\ s \in OpenStarts(program.code[u])[HeldAt(stack'[v], j)]
    BY <2>1
  <2>3. j \in DOMAIN stack[v] /\ stack'[v][j] = stack[v][j]
    BY <1>9
  <2>4. CASE b.task = u
    <3>1. n - 1 \in DOMAIN stack[w]
      BY <1>1
    <3>2. v = w /\ j = n - 1
      BY <1>a, <2>2, <2>3, <2>4, <3>1 DEF TaskInv, OneFrame
    <3> QED BY <1>4, <1>6, <2>2, <2>4, <3>2
  <2>5. CASE b.task # u
    <3>1. ~(v = w /\ j = n - 1)
      BY <1>a, <2>2, <2>3, <2>5
    <3>2. HeldAt(stack'[v], j) = HeldAt(stack[v], j)
      BY <1>9, <3>1
    <3> QED BY <2>2, <2>3, <2>5, <3>2 DEF HasOpen
  <2> QED BY <2>4, <2>5
<1> QED BY <1>0, <1>a, <1>5, <1>7, <1>8, <1>11, <1>12, <1>13, <1>14, <1>15, <1>16

-----------------------------------------------------------------------------
(* The deques and the wait lists *)

\* Taking a task removes it from the one deque it is in.
LEMMA QueueTake ==
    ASSUME Types, QueueInv, NEW w \in Workers, NEW x, Take(w, x), UNCHANGED <<program, waiting>>
    PROVE  /\ deque' \in [Workers -> Seq(Tasks)] /\ QueueInv' /\ x \in Tasks /\ Queued(x)
           /\ \A t \in Tasks : Queued(t)' <=> Queued(t) /\ t # x
<1>1. deque \in [Workers -> Seq(Tasks)] /\ Workers' = Workers
  BY DEF Types, Workers
<1>2. PICK v \in Workers : /\ x \in Elements(deque[v]) /\ x \in Tasks
                           /\ deque' = [deque EXCEPT ![v] = deque'[v]] /\ deque'[v] \in Seq(Tasks)
                           /\ Elements(deque'[v]) = Elements(deque[v]) \ {x} /\ Distinct(deque'[v])
  <2>1. CASE /\ deque[w] # << >>
             /\ x = deque[w][Len(deque[w])]
             /\ deque' = [deque EXCEPT ![w] = SubSeq(@, 1, Len(@) - 1)]
    <3>1. deque'[w] = SubSeq(deque[w], 1, Len(deque[w]) - 1)
      BY <1>1, <2>1
    <3>2. deque[w] \in Seq(Tasks) /\ Distinct(deque[w])
      BY <1>1 DEF QueueInv
    <3>3. /\ x \in Elements(deque[w]) /\ x \in Tasks /\ deque'[w] \in Seq(Tasks)
          /\ Elements(deque'[w]) = Elements(deque[w]) \ {x} /\ Distinct(deque'[w])
      BY <2>1, <3>1, <3>2, ElementsPop
    <3> QED BY <2>1, <3>1, <3>3
  <2>2. CASE /\ deque[w] = << >>
             /\ \E v \in Workers : deque[v] # << >> /\ x = Head(deque[v]) /\ deque' = [deque EXCEPT ![v] = Tail(@)]
    <3>0. PICK v \in Workers : deque[v] # << >> /\ x = Head(deque[v]) /\ deque' = [deque EXCEPT ![v] = Tail(@)]
      BY <2>2
    <3>1. deque'[v] = Tail(deque[v])
      BY <1>1, <3>0
    <3>2. deque[v] \in Seq(Tasks) /\ Distinct(deque[v])
      BY <1>1 DEF QueueInv
    <3>3. /\ x \in Elements(deque[v]) /\ x \in Tasks /\ deque'[v] \in Seq(Tasks)
          /\ Elements(deque'[v]) = Elements(deque[v]) \ {x} /\ Distinct(deque'[v])
      BY <3>0, <3>1, <3>2, ElementsSteal
    <3> QED BY <3>0, <3>1, <3>3
  <2> QED BY <2>1, <2>2 DEF Take
<1>3. deque' \in [Workers -> Seq(Tasks)] /\ \A u \in Workers : u # v => deque'[u] = deque[u]
  BY <1>1, <1>2
<1>4. \A u \in Workers : Elements(deque'[u]) = Elements(deque[u]) \ {x} /\ Distinct(deque'[u])
  <2> TAKE u \in Workers
  <2>1. CASE u = v
    BY <1>2, <2>1
  <2>2. CASE u # v
    <3>1. Elements(deque[u]) \cap Elements(deque[v]) = {} /\ Distinct(deque[u])
      BY <2>2 DEF QueueInv
    <3> QED BY <1>2, <1>3, <2>2, <3>1
  <2> QED BY <2>1, <2>2
<1>5. \A p \in Promises : x \notin Elements(waiting[p])
  BY <1>2 DEF QueueInv
<1>6. QueueInv'
  BY <1>1, <1>4 DEF QueueInv
<1>7. \A t \in Tasks : Queued(t)' <=> Queued(t) /\ t # x
  BY <1>1, <1>4, <1>5 DEF Queued
<1> QED BY <1>2, <1>3, <1>6, <1>7 DEF Queued

\* A new task is added to a deque or a wait list.
LEMMA QueueAdd ==
    ASSUME Types, QueueInv, NEW w \in Workers, NEW x \in Tasks, ~Queued(x), NEW p \in Promises \cup {NULL},
           ScheduleOn(w, x, p), UNCHANGED program
    PROVE  /\ deque' \in [Workers -> Seq(Tasks)] /\ waiting' \in [Promises -> Seq(Tasks)] /\ QueueInv'
           /\ \A t \in Tasks : Queued(t)' <=> Queued(t) \/ t = x
<1>1. deque \in [Workers -> Seq(Tasks)] /\ waiting \in [Promises -> Seq(Tasks)] /\ Workers' = Workers
  BY DEF Types, Workers
<1>2. (\A v \in Workers : x \notin Elements(deque[v])) /\ \A q \in Promises : x \notin Elements(waiting[q])
  BY DEF Queued
<1>3. CASE deque' = [deque EXCEPT ![w] = Append(@, x)] /\ UNCHANGED waiting
  <2>1. deque[w] \in Seq(Tasks) /\ Distinct(deque[w])
    BY <1>1 DEF QueueInv
  <2>2. deque'[w] = Append(deque[w], x) /\ \A v \in Workers : v # w => deque'[v] = deque[v]
    BY <1>1, <1>3
  <2>3. deque'[w] \in Seq(Tasks) /\ Elements(deque'[w]) = Elements(deque[w]) \cup {x} /\ Distinct(deque'[w])
    BY <1>2, <2>1, <2>2, ElementsAppend
  <2>4. deque' \in [Workers -> Seq(Tasks)]
    BY <1>1, <1>3, <2>2, <2>3
  <2>5. QueueInv'
    BY <1>1, <1>2, <1>3, <2>2, <2>3 DEF QueueInv
  <2>6. \A t \in Tasks : Queued(t)' <=> Queued(t) \/ t = x
    BY <1>1, <1>3, <2>2, <2>3 DEF Queued
  <2> QED BY <1>1, <1>3, <2>4, <2>5, <2>6
<1>4. CASE p \in Promises /\ waiting' = [waiting EXCEPT ![p] = <<x>> \o @] /\ UNCHANGED deque
  <2>1. waiting[p] \in Seq(Tasks) /\ Distinct(waiting[p])
    BY <1>1, <1>4 DEF QueueInv
  <2>2. waiting'[p] = <<x>> \o waiting[p] /\ \A q \in Promises : q # p => waiting'[q] = waiting[q]
    BY <1>1, <1>4
  <2>3. <<x>> \in Seq(Tasks) /\ Elements(<<x>>) = {x} /\ Distinct(<<x>>)
    BY DEF Elements, Distinct
  <2>4. waiting'[p] \in Seq(Tasks) /\ Elements(waiting'[p]) = Elements(waiting[p]) \cup {x} /\ Distinct(waiting'[p])
    <3>1. PICK one, list : one = <<x>> /\ list = waiting[p]
      OBVIOUS
    <3>2. one \in Seq(Tasks) /\ list \in Seq(Tasks) /\ Distinct(one) /\ Distinct(list)
          /\ Elements(one) = {x} /\ x \notin Elements(list)
      BY <1>2, <1>4, <2>1, <2>3, <3>1
    <3>3. one \o list \in Seq(Tasks) /\ Elements(one \o list) = Elements(list) \cup {x} /\ Distinct(one \o list)
      BY ONLY <3>2, ElementsConcat
    <3> QED BY <2>2, <3>1, <3>3
  <2>5. waiting' \in [Promises -> Seq(Tasks)]
    BY <1>1, <1>4, <2>2, <2>4
  <2>6. QueueInv'
    <3>1. \A q \in Promises : /\ Distinct(waiting'[q])
                              /\ Elements(waiting'[q]) = IF q = p THEN Elements(waiting[q]) \cup {x} ELSE Elements(waiting[q])
      BY <2>2, <2>4 DEF QueueInv
    <3>2. ASSUME NEW q \in Promises, NEW s \in Promises, q # s
          PROVE  Elements(waiting'[q]) \cap Elements(waiting'[s]) = {}
      <4>1. Elements(waiting[q]) \cap Elements(waiting[s]) = {}
        BY <3>2 DEF QueueInv
      <4> QED BY ONLY <1>2, <3>1, <3>2, <4>1
    <3>3. \A v \in Workers, q \in Promises : Elements(deque[v]) \cap Elements(waiting'[q]) = {}
      BY <1>2, <3>1 DEF QueueInv
    <3> QED BY <1>1, <1>4, <3>1, <3>2, <3>3 DEF QueueInv
  <2>7. \A t \in Tasks : Queued(t)' <=> Queued(t) \/ t = x
    BY <1>1, <1>4, <2>2, <2>4 DEF Queued
  <2> QED BY <1>1, <1>4, <2>5, <2>6, <2>7
<1> QED BY <1>3, <1>4 DEF ScheduleOn

\* Putting a promise moves its waiting tasks to a deque.
LEMMA QueuePut ==
    ASSUME Types, QueueInv, NEW w \in Workers, NEW p \in Promises, PutOn(w, p), UNCHANGED program
    PROVE  /\ deque' \in [Workers -> Seq(Tasks)] /\ waiting' \in [Promises -> Seq(Tasks)]
           /\ satisfied' \in [Promises -> BOOLEAN] /\ QueueInv'
           /\ \A t \in Tasks : Queued(t)' <=> Queued(t)
<1>1. deque \in [Workers -> Seq(Tasks)] /\ waiting \in [Promises -> Seq(Tasks)] /\ Workers' = Workers
      /\ satisfied \in [Promises -> BOOLEAN]
  BY DEF Types, Workers
<1>2. /\ deque[w] \in Seq(Tasks) /\ waiting[p] \in Seq(Tasks)
      /\ Distinct(deque[w]) /\ Distinct(waiting[p]) /\ Elements(deque[w]) \cap Elements(waiting[p]) = {}
  BY <1>1 DEF QueueInv
<1>3. deque'[w] = deque[w] \o waiting[p] /\ \A v \in Workers : v # w => deque'[v] = deque[v]
  BY <1>1 DEF PutOn
<1>4. waiting'[p] = << >> /\ \A q \in Promises : q # p => waiting'[q] = waiting[q]
  BY <1>1 DEF PutOn
<1>5. /\ deque'[w] \in Seq(Tasks) /\ Distinct(deque'[w])
      /\ Elements(deque'[w]) = Elements(deque[w]) \cup Elements(waiting[p])
  BY <1>2, <1>3, ElementsConcat
<1>6. waiting'[p] \in Seq(Tasks) /\ Elements(waiting'[p]) = {} /\ Distinct(waiting'[p])
  BY <1>4 DEF Elements, Distinct
<1>7. deque' \in [Workers -> Seq(Tasks)] /\ waiting' \in [Promises -> Seq(Tasks)] /\ satisfied' \in [Promises -> BOOLEAN]
  BY <1>1, <1>3, <1>4, <1>5, <1>6 DEF PutOn
<1>8. QueueInv'
  <2>1. \A q \in Promises : /\ Distinct(waiting'[q])
                            /\ Elements(waiting'[q]) = IF q = p THEN {} ELSE Elements(waiting[q])
    BY <1>4, <1>6 DEF QueueInv
  <2>2. \A v \in Workers :
          /\ Distinct(deque'[v])
          /\ Elements(deque'[v]) = IF v = w THEN Elements(deque[v]) \cup Elements(waiting[p]) ELSE Elements(deque[v])
    BY <1>3, <1>5 DEF QueueInv
  <2>3. \A q, s \in Promises : q # s => Elements(waiting'[q]) \cap Elements(waiting'[s]) = {}
    BY <2>1 DEF QueueInv
  <2>4. \A v, u \in Workers : v # u => Elements(deque'[v]) \cap Elements(deque'[u]) = {}
    BY <2>2 DEF QueueInv
  <2>5. \A v \in Workers, q \in Promises : Elements(deque'[v]) \cap Elements(waiting'[q]) = {}
    BY <2>1, <2>2 DEF QueueInv
  <2> QED BY <1>1, <2>1, <2>2, <2>3, <2>4, <2>5 DEF QueueInv
<1>9. \A t \in Tasks : Queued(t)' <=> Queued(t)
  BY <1>1, <1>3, <1>4, <1>5, <1>6 DEF Queued
<1> QED BY <1>7, <1>8, <1>9

-----------------------------------------------------------------------------
(* Scopes and counters *)

\* The scope the text says: that of the last start, or else the task's own.
LEMMA ScopeValue ==
    ASSUME SpawnJoin(program), Types, NEW t \in Tasks, NEW i \in 1 .. Len(program.code[t]) + 1
    PROVE  /\ OpenStarts(program.code[t])[i] = {} => Scope(t, i) = finish[t]
           /\ \A s : IsLast(s, OpenStarts(program.code[t])[i]) => Scope(t, i) = <<t, s>>
           /\ \A s \in OpenStarts(program.code[t])[i] :
                /\ s \in 1 .. Len(program.code[t]) /\ <<t, s>> \in Finishes
                /\ program.code[t][s].op = "start"
           /\ Scope(t, i) = finish[t] \/ \E s \in OpenStarts(program.code[t])[i] : Scope(t, i) = <<t, s>>
           /\ Scope(t, 1) = finish[t]
<1> DEFINE code == program.code[t]
           open == OpenStarts(code)[i]
<1>1. Len(code) \in Nat /\ \A s \in 1 .. Len(code) : code[s].op = "start" => <<t, s>> \in Finishes
  BY InstructionTypes DEF Types
<1>2. Code(t) = code
  BY RuntimeAssumption DEF Code
<1>3. \A s \in open : s \in 1 .. i - 1 /\ code[s].op = "start"
  BY <1>1, OpenStartsEarlier
<1>4. open # {} => \E s : IsLast(s, open) /\ Max(open) = s
  BY <1>1, LastExists
<1>5. OpenStarts(code)[1] = {}
  BY <1>1, OpenStartsDef
<1> HIDE DEF code
<1>6. Scope(t, i) = IF open = {} THEN finish[t] ELSE <<t, Max(open)>>
  BY <1>2 DEF Scope
<1>7. Scope(t, 1) = finish[t]
  BY <1>2, <1>5 DEF Scope
<1> HIDE DEF open
<1>8. \A s, u : IsLast(s, open) /\ IsLast(u, open) => s = u
  BY <1>3 DEF IsLast
<1>9. \A s \in open : s \in 1 .. Len(code)
  BY <1>1, <1>3 DEF code
<1>10. open # {} => \E s \in open : Scope(t, i) = <<t, s>>
  BY <1>4, <1>6 DEF IsLast
<1>11. \A s : IsLast(s, open) => Scope(t, i) = <<t, s>>
  <2> SUFFICES ASSUME NEW s, IsLast(s, open) PROVE Scope(t, i) = <<t, s>>
    OBVIOUS
  <2>1. open # {}
    BY DEF IsLast
  <2> QED BY <1>4, <1>6, <1>8, <2>1
<1>12. open = {} => Scope(t, i) = finish[t]
  BY <1>6
<1>13. \A s \in open : <<t, s>> \in Finishes
  BY <1>1, <1>3, <1>9
<1> QED BY <1>3, <1>7, <1>9, <1>10, <1>11, <1>12, <1>13 DEF open, code

\* The text's scopes do not move while a task keeps its finish.
LEMMA ScopeKept ==
    ASSUME NEW t, UNCHANGED program, finish'[t] = finish[t]
    PROVE  \A i : Scope(t, i)' = Scope(t, i)
BY DEF Scope, Code

\* The sets that are counted are finite.
LEMMA CountTypes ==
    ASSUME IsFiniteSet(Tasks), IsFiniteSet(Finishes), NEW f
    PROVE  /\ IsFiniteSet(TasksOf(f)) /\ Cardinality(TasksOf(f)) \in Nat
           /\ IsFiniteSet(ScopesOf(f)) /\ Cardinality(ScopesOf(f)) \in Nat
           /\ TasksOf(f) = {} <=> Cardinality(TasksOf(f)) = 0
           /\ ScopesOf(f) = {} <=> Cardinality(ScopesOf(f)) = 0
<1>1. TasksOf(f) \in SUBSET Tasks /\ ScopesOf(f) \in SUBSET Finishes
  BY DEF TasksOf, ScopesOf
<1>2. IsFiniteSet(TasksOf(f)) /\ IsFiniteSet(ScopesOf(f))
  BY <1>1, FS_Subset
<1> QED BY <1>2, FS_EmptySet, FS_CardinalityType

\* A scope with a task or a scope in it has not ended, and counts them.
LEMMA BusyScope ==
    ASSUME IsFiniteSet(Tasks), IsFiniteSet(Finishes), Types, CountInv, NEW f \in Finishes, Started(f),
           TasksOf(f) # {} \/ ScopesOf(f) # {}
    PROVE  f \notin ended /\ counter[f] > 1
<1>1. f \notin ended
  BY DEF CountInv
<1>2. counter[f] = 1 + Cardinality(TasksOf(f)) + Cardinality(ScopesOf(f))
  BY <1>1 DEF CountInv
<1>3. Cardinality(TasksOf(f)) \in Nat /\ Cardinality(ScopesOf(f)) \in Nat
      /\ (Cardinality(TasksOf(f)) # 0 \/ Cardinality(ScopesOf(f)) # 0)
  BY CountTypes
<1> QED BY <1>1, <1>2, <1>3

\* The current finish of a worker in a task is open.
LEMMA CurrentOpen ==
    ASSUME IsFiniteSet(Tasks), IsFiniteSet(Finishes), IInv, NEW w \in Workers, NEW t \in Tasks,
           Top(w).task = t
    PROVE  /\ wsFinish[w] \in Finishes /\ Started(wsFinish[w]) /\ wsFinish[w] \notin ended
           /\ wsFinish[w] = Scope(t, Top(w).at) /\ OnStack(t) /\ finish[t] # NULL
           /\ Top(w).at \in 1 .. Len(program.code[t]) + 1
<1>0. SpawnJoin(program) /\ Types /\ StackInv /\ TaskInv /\ TextInv /\ ScopeInv /\ CountInv
  BY DEF IInv
<1>1. PICK n, i : n = Len(stack[w]) /\ i = Top(w).at
  OBVIOUS
<1>2. /\ n \in DOMAIN stack[w] /\ Top(w) = stack[w][n]
      /\ FrameOK(program.code, w, stack[w], n) /\ DOMAIN stack[w] = 1 .. n /\ n \in Nat
  BY <1>0, <1>1, StackFacts
<1>3. i \in 1 .. Len(program.code[t]) + 1
  BY <1>1, <1>2 DEF FrameOK
<1>4. OnStack(t)
  BY <1>2 DEF OnStack
<1>5. finish[t] # NULL /\ finish[t] \in Finishes /\ Started(finish[t])
  BY <1>0, <1>4 DEF TaskInv, TextInv, Types
<1>6. wsFinish[w] = Scope(t, i)
  BY <1>0, <1>1 DEF ScopeInv
<1>7. CASE Scope(t, i) = finish[t]
  <2>1. t \in TasksOf(finish[t])
    BY <1>4 DEF TasksOf, Unfinished
  <2> QED BY <1>0, <1>1, <1>3, <1>4, <1>5, <1>6, <1>7, <2>1, BusyScope
<1>8. CASE \E s \in OpenStarts(program.code[t])[i] : Scope(t, i) = <<t, s>>
  <2>1. PICK s \in OpenStarts(program.code[t])[i] : Scope(t, i) = <<t, s>>
    BY <1>8
  <2>2. s \in 1 .. Len(program.code[t]) /\ <<t, s>> \in Finishes
    BY <1>0, <1>3, ScopeValue
  <2>3. HeldAt(stack[w], n) = i
    BY <1>1, <1>2, HeldAtFacts
  <2>4. HasOpen(t, s)
    BY <1>2, <2>1, <2>3 DEF HasOpen
  <2>5. s \in DOMAIN program.code[t]
    BY <1>0, <2>2, InstructionTypes DEF Types
  <2>6. Open(<<t, s>>)
    BY <1>0, <2>4, <2>5 DEF ScopeInv
  <2>7. Started(<<t, s>>) /\ <<t, s>> \notin ended
    BY <2>6 DEF Open, Started
  <2> QED BY <1>1, <1>3, <1>4, <1>5, <1>6, <2>1, <2>2, <2>7
<1> QED BY <1>0, <1>3, <1>7, <1>8, ScopeValue

-----------------------------------------------------------------------------
(* The actions *)

\* The tasks and scopes counted by a step that moves none of them.
LEMMA CountKept ==
    ASSUME UNCHANGED <<program, finish, counter, parent, finishDep, ended>>,
           \A t \in Tasks : Unfinished(t)' <=> Unfinished(t), CountInv
    PROVE  CountInv'
<1>1. \A f : TasksOf(f)' = TasksOf(f)
  BY DEF TasksOf
<1>2. \A f : ScopesOf(f)' = ScopesOf(f)
  BY DEF ScopesOf, Open
<1> QED BY <1>1, <1>2 DEF CountInv, Started

\* The parents and what is known of them stay.
LEMMA ParentKept ==
    ASSUME UNCHANGED parent, ParentInv
    PROVE  ParentInv'
BY DEF ParentInv, Started

\* A task taken from a deque is started (core_work_loop and help_finish).
LEMMA RunIInv ==
    ASSUME IsFiniteSet(Tasks), IsFiniteSet(Finishes), IInv, NEW w \in Workers, Top(w).kind # "task",
           NEW x, Take(w, x), Execute(w, x, stack[current[w]]),
           UNCHANGED <<program, finish, counter, parent, finishDep, satisfied, waiting, ended, done, exited>>
    PROVE  IInv'
<1>0. /\ SpawnJoin(program) /\ Types /\ StackInv /\ QueueInv /\ TaskInv /\ TextInv /\ ParentInv /\ ScopeInv
      /\ RootInv /\ CountInv
  BY DEF IInv
<1>1. /\ deque' \in [Workers -> Seq(Tasks)] /\ QueueInv' /\ x \in Tasks /\ Queued(x)
      /\ \A t \in Tasks : Queued(t)' <=> Queued(t) /\ t # x
  BY <1>0, QueueTake
<1>2. finish[x] # NULL /\ runs[x] = 0 /\ ~OnStack(x) /\ finish[x] \in Finishes \cup {NULL}
  BY <1>0, <1>1 DEF TaskInv, Types
<1>3. current[w] = w
  BY <1>0, StackFacts
<1>4. /\ stack' = [stack EXCEPT ![w] = Append(stack[w], Body(x))] /\ UNCHANGED <<prev, current>>
      /\ wsFinish' = [wsFinish EXCEPT ![w] = finish[x]] /\ runs' = [runs EXCEPT ![x] = @ + 1]
  BY <1>1, <1>3 DEF Execute, SetFrames
<1>5. /\ stack' \in [Ctxs -> Seq(FrameType)] /\ StackInv'
      /\ \A t \in Tasks : OneFrame(t)' /\ (OnStack(t)' <=> OnStack(t) \/ t = x)
      /\ \A t \in Tasks, i \in Nat : runs'[t] = runs[t] /\ Passed(t, i) /\ t # x => Passed(t, i)'
      /\ \A t \in Tasks, s \in Nat : HasOpen(t, s)' => HasOpen(t, s)
      /\ Workers' = Workers /\ \A v \in Workers : v # w => Top(v)' = Top(v)
      /\ Top(w)'.task = x /\ Top(w)'.at = 1
  BY <1>0, <1>1, <1>2, <1>4, StackStart
<1>6. runs'[x] = 1 /\ (\A t \in Tasks : t # x => runs'[t] = runs[t]) /\ runs' \in [Tasks -> {0, 1}]
  BY <1>0, <1>1, <1>2, <1>4 DEF Types
<1>7. wsFinish'[w] = finish[x] /\ (\A v \in Workers : v # w => wsFinish'[v] = wsFinish[v])
      /\ wsFinish' \in [Workers -> Finishes \cup {NULL}]
  BY <1>0, <1>2, <1>4 DEF Types
<1>8. Types'
  BY <1>0, <1>1, <1>4, <1>5, <1>6, <1>7 DEF Types
<1>9. TaskInv'
  BY <1>0, <1>1, <1>2, <1>5, <1>6 DEF TaskInv
<1>10. \A t \in Tasks : \A i : Scope(t, i)' = Scope(t, i)
  BY ScopeKept
<1>11. \A t \in Tasks, i \in Nat : Passed(t, i) => Passed(t, i)'
  BY <1>2, <1>5, <1>6 DEF Passed
<1>12. \A t \in Tasks : DOMAIN program.code[t] \subseteq Nat
  BY <1>0, InstructionTypes DEF Types
<1>13. TextInv'
  BY <1>0, <1>10, <1>11, <1>12 DEF TextInv, Started
<1>14. ParentInv'
  BY <1>0, ParentKept
<1>15. Scope(x, 1)' = finish[x]
  <2>1. 1 \in 1 .. Len(program.code[x]) + 1
    BY <1>0, <1>1, InstructionTypes DEF Types
  <2> QED BY <1>0, <1>1, <1>10, <2>1, ScopeValue
<1>16. ScopeInv'
  <2>1. \A t \in Tasks : \A s \in DOMAIN program.code[t] : HasOpen(t, s)' => Open(<<t, s>>)'
    BY <1>0, <1>5, <1>12 DEF ScopeInv, Open
  <2>2. ASSUME NEW v \in Workers, Top(v)'.task \in Tasks PROVE wsFinish'[v] = Scope(Top(v).task, Top(v).at)'
    <3>1. CASE v = w
      BY <1>5, <1>7, <1>15, <3>1
    <3>2. CASE v # w
      <4>1. Top(v)' = Top(v) /\ wsFinish'[v] = wsFinish[v]
        BY <1>5, <1>7, <3>2
      <4>2. wsFinish[v] = Scope(Top(v).task, Top(v).at)
        BY <1>0, <2>2, <4>1 DEF ScopeInv
      <4>3. Scope(Top(v).task, Top(v).at)' = Scope(Top(v).task, Top(v).at)
        BY <2>2, <4>1 DEF Scope, Code
      <4> QED BY <4>1, <4>2, <4>3
    <3> QED BY <3>1, <3>2
  <2> QED BY <1>0, <1>5, <2>1, <2>2 DEF ScopeInv, Started
<1>17. RootInv'
  <2>1. 0 \in Workers /\ x # Main
    BY <1>0, <1>1, StackFacts, RuntimeAssumption
  <2> QED BY <1>0, <1>5, <1>7, <2>1 DEF RootInv
<1>18. CountInv'
  <2>1. \A t \in Tasks : Unfinished(t)' <=> Unfinished(t)
    BY <1>1, <1>5 DEF Unfinished
  <2> QED BY <1>0, <2>1, CountKept
<1> QED BY <1>0, <1>1, <1>5, <1>8, <1>9, <1>13, <1>14, <1>16, <1>17, <1>18 DEF IInv

\* Where a worker is that executes an instruction.
LEMMA InstructionAt ==
    ASSUME IInv, NEW w \in Workers, NEW op, AtInstruction(w, op)
    PROVE  /\ current[w] = w /\ w \notin exited /\ Top(w).kind = "task" /\ Past(w) = Advanced(stack[w])
           /\ \/ /\ Top(w).task = Main /\ Top(w).at = 1 /\ op = "end" /\ w = 0
              \/ /\ Top(w).task \in Tasks /\ Top(w).at \in Nat
                 /\ Top(w).at \in 1 .. Len(program.code[Top(w).task])
                 /\ program.code[Top(w).task][Top(w).at].op = op
                 /\ Operand(w) = program.code[Top(w).task][Top(w).at]
<1>0. SpawnJoin(program) /\ Types /\ StackInv
  BY DEF IInv
<1>1. /\ current[w] = w /\ Top(w) = stack[w][Len(stack[w])] /\ Below(w) = SubSeq(stack[w], 1, Len(stack[w]) - 1)
      /\ Top(w) \in FrameType /\ FrameOK(program.code, w, stack[w], Len(stack[w]))
  BY <1>0, StackFacts
<1>2. Past(w) = Advanced(stack[w])
  BY <1>1 DEF Past, Advanced
<1>3. w \notin exited /\ Top(w).kind = "task" /\ Top(w).at <= Len(Code(Top(w).task))
      /\ Code(Top(w).task)[Top(w).at].op = op
  BY DEF AtInstruction, Running
<1>4. Top(w).task \in Tasks \cup {Main} /\ Top(w).at \in Nat
  BY <1>1, <1>3 DEF FrameType, FrameOK
<1>5. CASE Top(w).task = Main
  <2>1. Code(Main) = <<EndFinish>>
    BY DEF Code
  <2>2. Len(Code(Main)) = 1 /\ Code(Main)[1].op = "end"
    BY <2>1 DEF EndFinish
  <2>3. Top(w).at \in {1, 2} /\ w = 0
    BY <1>1, <1>5 DEF FrameOK
  <2>4. Top(w).at = 1
    BY <1>3, <1>5, <2>2, <2>3
  <2> QED BY <1>1, <1>2, <1>3, <1>5, <2>2, <2>3, <2>4
<1>6. CASE Top(w).task \in Tasks
  <2>1. Code(Top(w).task) = program.code[Top(w).task]
    BY <1>6, RuntimeAssumption DEF Code
  <2>2. Len(program.code[Top(w).task]) \in Nat
    BY <1>0, <1>6, InstructionTypes DEF Types
  <2>3. Top(w).at \in 1 .. Len(program.code[Top(w).task]) + 1
    BY <1>1, <1>6 DEF FrameOK
  <2>4. Top(w).at \in 1 .. Len(program.code[Top(w).task])
    BY <1>3, <2>1, <2>2, <2>3
  <2>5. Operand(w) = program.code[Top(w).task][Top(w).at]
    BY <2>1 DEF Operand
  <2> QED BY <1>1, <1>2, <1>3, <1>4, <1>6, <2>1, <2>4, <2>5
<1> QED BY <1>4, <1>5, <1>6

\* hclib_async.
LEMMA AsyncIInv ==
    ASSUME IsFiniteSet(Tasks), IsFiniteSet(Finishes), IInv, NEW w \in Workers, DoAsync(w)
    PROVE  IInv'
<1>0. /\ SpawnJoin(program) /\ Types /\ StackInv /\ QueueInv /\ TaskInv /\ TextInv /\ ParentInv /\ ScopeInv
      /\ RootInv /\ CountInv
  BY DEF IInv
<1>1. PICK t, k, f : t = Top(w).task /\ k = Top(w).at /\ f = wsFinish[w]
  OBVIOUS
<1>2. /\ current[w] = w /\ Top(w).kind = "task" /\ Past(w) = Advanced(stack[w])
      /\ t \in Tasks /\ k \in Nat /\ k \in 1 .. Len(program.code[t])
      /\ program.code[t][k].op = "async" /\ Operand(w) = program.code[t][k]
  BY <1>1, InstructionAt DEF DoAsync
<1>3. PICK u, p : u = program.code[t][k].arg /\ p = program.code[t][k].on
  OBVIOUS
<1>4. u \in Tasks /\ p \in Promises \cup {NULL} /\ Len(program.code[t]) \in Nat
  BY <1>0, <1>2, <1>3, InstructionTypes DEF Types
<1>5. /\ counter' = [counter EXCEPT ![f] = @ + 1] /\ finish' = [finish EXCEPT ![u] = f] /\ ScheduleOn(w, u, p)
      /\ stack' = [stack EXCEPT ![w] = Advanced(stack[w])]
      /\ UNCHANGED <<program, prev, current, wsFinish, parent, finishDep, satisfied, runs, ended, done, exited>>
  BY <1>1, <1>2, <1>3 DEF DoAsync, SetFrames
<1>6. /\ stack' \in [Ctxs -> Seq(FrameType)] /\ StackInv'
      /\ \A x \in Tasks : OneFrame(x)' /\ (OnStack(x)' <=> OnStack(x))
      /\ \A x \in Tasks, i \in Nat : Passed(x, i) => Passed(x, i)'
      /\ ~Passed(t, k) /\ Passed(t, k)' /\ OnStack(t)
      /\ \A x \in Tasks, s \in Nat : HasOpen(x, s)' => HasOpen(x, s)
      /\ Workers' = Workers /\ (\A v \in Workers : v # w => Top(v)' = Top(v))
      /\ Top(w)'.task = t /\ Top(w)'.at = k + 1
  <2>1. /\ Top(w).task = t /\ Top(w).at = k /\ k <= Len(program.code[t]) /\ program.code[t][k].op # "end"
        /\ program.code[t][k].op # "start" /\ UNCHANGED <<program, current, runs>>
    BY <1>1, <1>2, <1>4, <1>5
  <2>2. Advances(w, t, k)
    BY <1>0, <1>2, <1>5, <2>1, StackAdvance
  <2> QED BY ONLY <2>1, <2>2 DEF Advances
<1>7. f \in Finishes /\ Started(f) /\ f \notin ended /\ f = Scope(t, k) /\ f # NULL /\ f = wsFinish[w]
  BY <1>1, <1>2, CurrentOpen, NullAssumption
<1>8. \A x \in Tasks : DOMAIN program.code[x] = 1 .. Len(program.code[x]) /\ DOMAIN program.code[x] \subseteq Nat
  BY <1>0, InstructionTypes DEF Types
<1>9. finish[u] = NULL /\ runs[u] = 0 /\ ~Queued(u) /\ ~OnStack(u)
  <2>1. finish[u] = NULL
    BY <1>0, <1>2, <1>3, <1>6, <1>8 DEF TextInv
  <2> QED BY <1>0, <1>4, <2>1 DEF TaskInv, Types
<1>10. /\ deque' \in [Workers -> Seq(Tasks)] /\ waiting' \in [Promises -> Seq(Tasks)] /\ QueueInv'
       /\ \A x \in Tasks : Queued(x)' <=> Queued(x) \/ x = u
  BY <1>0, <1>4, <1>5, <1>9, QueueAdd
<1>11. finish'[u] = f /\ (\A x \in Tasks : x # u => finish'[x] = finish[x]) /\ finish' \in [Tasks -> Finishes \cup {NULL}]
  BY <1>0, <1>4, <1>5, <1>7 DEF Types
<1>12. counter'[f] = counter[f] + 1 /\ (\A g \in Finishes : g # f => counter'[g] = counter[g])
       /\ counter' \in [Finishes -> Nat]
  BY <1>0, <1>5, <1>7 DEF Types
<1>13. Types'
  BY <1>0, <1>5, <1>6, <1>10, <1>11, <1>12 DEF Types
<1>14. TaskInv'
  BY <1>0, <1>5, <1>6, <1>7, <1>9, <1>10, <1>11 DEF TaskInv
<1>15. \A x \in Tasks : x # u => \A i : Scope(x, i)' = Scope(x, i)
  BY <1>5, <1>11, ScopeKept
<1>16. TextInv'
  <2>1. ASSUME NEW x \in Tasks, NEW i \in DOMAIN program.code[x], program.code[x][i].op = "async",
               finish'[program.code[x][i].arg] # NULL
        PROVE  Passed(x, i)'
    <3>1. CASE program.code[x][i].arg = u
      <4>1. x = t /\ i = k
        BY <1>0, <1>2, <1>3, <1>8, <2>1, <3>1 DEF SpawnJoin
      <4> QED BY <1>6, <4>1
    <3>2. CASE program.code[x][i].arg # u
      <4>1. program.code[x][i].arg \in Tasks
        BY <1>0, <1>8, <2>1, InstructionTypes DEF Types
      <4>2. finish[program.code[x][i].arg] # NULL
        BY <1>11, <2>1, <3>2, <4>1
      <4>3. Passed(x, i)
        BY <1>0, <2>1, <4>2 DEF TextInv
      <4> QED BY <1>6, <1>8, <4>3
    <3> QED BY <3>1, <3>2
  <2>2. ASSUME NEW x \in Tasks, NEW i \in DOMAIN program.code[x], program.code[x][i].op = "start",
               parent[<<x, i>>] # NULL
        PROVE  Passed(x, i)' /\ parent[<<x, i>>] = Scope(x, i)'
    <3>1. Passed(x, i) /\ parent[<<x, i>>] = Scope(x, i)
      BY <1>0, <2>2 DEF TextInv
    <3>2. x # u
      BY <1>9, <3>1 DEF Passed
    <3> QED BY <1>6, <1>8, <1>15, <3>1, <3>2
  <2>3. (\A x \in Tasks : finish[x] # NULL => Started(finish[x]))'
    BY <1>0, <1>5, <1>7, <1>11 DEF TextInv, Started
  <2> QED BY <1>5, <2>1, <2>2, <2>3 DEF TextInv
<1>17. ParentInv'
  BY <1>0, <1>5, ParentKept
<1>18. ScopeInv'
  <2>1. \A x \in Tasks : \A s \in DOMAIN program.code[x] : HasOpen(x, s)' => Open(<<x, s>>)'
    BY <1>0, <1>5, <1>6, <1>8 DEF ScopeInv, Open
  <2>2. ASSUME NEW v \in Workers, Top(v)'.task \in Tasks PROVE wsFinish'[v] = Scope(Top(v).task, Top(v).at)'
    <3>1. CASE v = w
      <4>1. OpenStarts(program.code[t])[k + 1] = OpenStarts(program.code[t])[k]
        BY <1>2, <1>4, OpenStartsDef DEF OpenedBy
      <4>2. Scope(t, k + 1) = Scope(t, k)
        BY <1>2, <4>1, RuntimeAssumption DEF Scope, Code
      <4>3. t # u
        BY <1>6, <1>9
      <4> QED BY <1>2, <1>5, <1>6, <1>7, <1>15, <3>1, <4>2, <4>3
    <3>2. CASE v # w
      <4>1. Top(v)' = Top(v) /\ wsFinish'[v] = wsFinish[v]
        BY <1>5, <1>6, <3>2
      <4>2. PICK x, i : x \in Tasks /\ x = Top(v).task /\ i = Top(v).at
        BY <2>2, <4>1
      <4>3. OnStack(x) /\ x # u
        BY <1>9, <4>2, CurrentOpen
      <4>4. wsFinish[v] = Scope(x, i)
        BY <1>0, <4>2 DEF ScopeInv
      <4> QED BY <1>15, <4>1, <4>2, <4>3, <4>4
    <3> QED BY <3>1, <3>2
  <2> QED BY <1>0, <1>5, <1>6, <2>1, <2>2 DEF ScopeInv, Started
<1>19. RootInv'
  <2>1. 0 \in Workers /\ t # Main
    BY <1>0, <1>2, StackFacts, RuntimeAssumption
  <2> QED BY <1>0, <1>5, <1>6, <2>1 DEF RootInv
<1>20. CountInv'
  <2>1. TasksOf(f)' = TasksOf(f) \cup {u} /\ u \notin TasksOf(f)
    BY <1>4, <1>6, <1>7, <1>9, <1>10, <1>11 DEF TasksOf, Unfinished
  <2>2. \A g \in Finishes : g # f => TasksOf(g)' = TasksOf(g)
    BY <1>6, <1>9, <1>10, <1>11, NullAssumption DEF TasksOf, Unfinished
  <2>3. \A g : ScopesOf(g)' = ScopesOf(g)
    BY <1>5 DEF ScopesOf, Open
  <2>4. Cardinality(TasksOf(f)') = Cardinality(TasksOf(f)) + 1
    BY <2>1, CountTypes, FS_AddElement
  <2>5. ASSUME NEW g \in Finishes \ ended, Started(g)
        PROVE  counter'[g] = 1 + Cardinality(TasksOf(g)') + Cardinality(ScopesOf(g))
    <3>1. /\ counter[g] = 1 + Cardinality(TasksOf(g)) + Cardinality(ScopesOf(g))
          /\ Cardinality(TasksOf(g)) \in Nat /\ Cardinality(ScopesOf(g)) \in Nat
      BY <1>0, <2>5, CountTypes DEF CountInv
    <3> QED BY <1>12, <2>2, <2>4, <3>1
  <2>6. \A g \in ended : TasksOf(g)' = {} /\ ScopesOf(g) = {}
    BY <1>0, <1>7, <2>2 DEF CountInv, Types
  <2> QED BY <1>5, <2>3, <2>5, <2>6 DEF CountInv, Started
<1> QED BY <1>0, <1>5, <1>6, <1>10, <1>13, <1>14, <1>16, <1>17, <1>18, <1>19, <1>20 DEF IInv

\* hclib_promise_put.
LEMMA PutIInv ==
    ASSUME IsFiniteSet(Tasks), IsFiniteSet(Finishes), IInv, NEW w \in Workers, DoPut(w)
    PROVE  IInv'
<1>0. /\ SpawnJoin(program) /\ Types /\ StackInv /\ QueueInv /\ TaskInv /\ TextInv /\ ParentInv /\ ScopeInv
      /\ RootInv /\ CountInv
  BY DEF IInv
<1>1. PICK t, k : t = Top(w).task /\ k = Top(w).at
  OBVIOUS
<1>2. /\ current[w] = w /\ Top(w).kind = "task" /\ Past(w) = Advanced(stack[w])
      /\ t \in Tasks /\ k \in Nat /\ k \in 1 .. Len(program.code[t])
      /\ program.code[t][k].op = "put" /\ Operand(w) = program.code[t][k]
  BY <1>1, InstructionAt DEF DoPut
<1>3. PICK p : p = program.code[t][k].on
  OBVIOUS
<1>4. p \in Promises /\ Len(program.code[t]) \in Nat
  BY <1>0, <1>2, <1>3, InstructionTypes DEF Types
<1>5. /\ PutOn(w, p) /\ stack' = [stack EXCEPT ![w] = Advanced(stack[w])]
      /\ UNCHANGED <<program, prev, current, wsFinish, finish, counter, parent, finishDep, runs, ended, done, exited>>
  BY <1>1, <1>2, <1>3 DEF DoPut, SetFrames
<1>6. /\ stack' \in [Ctxs -> Seq(FrameType)] /\ StackInv'
      /\ \A x \in Tasks : OneFrame(x)' /\ (OnStack(x)' <=> OnStack(x))
      /\ \A x \in Tasks, i \in Nat : Passed(x, i) => Passed(x, i)'
      /\ \A x \in Tasks, s \in Nat : HasOpen(x, s)' => HasOpen(x, s)
      /\ Workers' = Workers /\ (\A v \in Workers : v # w => Top(v)' = Top(v))
      /\ Top(w)'.task = t /\ Top(w)'.at = k + 1
  <2>1. /\ Top(w).task = t /\ Top(w).at = k /\ k <= Len(program.code[t]) /\ program.code[t][k].op # "end"
        /\ program.code[t][k].op # "start" /\ UNCHANGED <<program, current, runs>>
    BY <1>1, <1>2, <1>4, <1>5
  <2>2. Advances(w, t, k)
    BY <1>0, <1>2, <1>5, <2>1, StackAdvance
  <2> QED BY ONLY <2>1, <2>2 DEF Advances
<1>7. /\ deque' \in [Workers -> Seq(Tasks)] /\ waiting' \in [Promises -> Seq(Tasks)]
      /\ satisfied' \in [Promises -> BOOLEAN] /\ QueueInv'
      /\ \A x \in Tasks : Queued(x)' <=> Queued(x)
  BY <1>0, <1>4, <1>5, QueuePut
<1>8. Types'
  BY <1>0, <1>5, <1>6, <1>7 DEF Types
<1>9. TaskInv'
  BY <1>0, <1>5, <1>6, <1>7 DEF TaskInv
<1>10. \A x \in Tasks : \A i : Scope(x, i)' = Scope(x, i)
  BY <1>5, ScopeKept
<1>11. \A x \in Tasks : DOMAIN program.code[x] \subseteq Nat
  BY <1>0, InstructionTypes DEF Types
<1>12. TextInv'
  BY <1>0, <1>5, <1>6, <1>10, <1>11 DEF TextInv, Started
<1>13. ParentInv'
  BY <1>0, <1>5, ParentKept
<1>14. ScopeInv'
  <2>1. \A x \in Tasks : \A s \in DOMAIN program.code[x] : HasOpen(x, s)' => Open(<<x, s>>)'
    BY <1>0, <1>5, <1>6, <1>11 DEF ScopeInv, Open
  <2>2. ASSUME NEW v \in Workers, Top(v)'.task \in Tasks PROVE wsFinish'[v] = Scope(Top(v).task, Top(v).at)'
    <3>1. CASE v = w
      <4>1. OpenStarts(program.code[t])[k + 1] = OpenStarts(program.code[t])[k]
        BY <1>2, <1>4, OpenStartsDef DEF OpenedBy
      <4>2. Scope(t, k + 1) = Scope(t, k)
        BY <1>2, <4>1, RuntimeAssumption DEF Scope, Code
      <4>3. wsFinish[w] = Scope(t, k)
        BY <1>0, <1>1, <1>2 DEF ScopeInv
      <4> QED BY <1>2, <1>5, <1>6, <1>10, <3>1, <4>2, <4>3
    <3>2. CASE v # w
      <4>1. Top(v)' = Top(v) /\ wsFinish'[v] = wsFinish[v]
        BY <1>5, <1>6, <3>2
      <4>2. PICK x, i : x \in Tasks /\ x = Top(v).task /\ i = Top(v).at
        BY <2>2, <4>1
      <4>3. wsFinish[v] = Scope(x, i)
        BY <1>0, <4>2 DEF ScopeInv
      <4> QED BY <1>10, <4>1, <4>2, <4>3
    <3> QED BY <3>1, <3>2
  <2> QED BY <1>0, <1>5, <1>6, <2>1, <2>2 DEF ScopeInv, Started
<1>15. RootInv'
  <2>1. 0 \in Workers /\ t # Main
    BY <1>0, <1>2, StackFacts, RuntimeAssumption
  <2> QED BY <1>0, <1>5, <1>6, <2>1 DEF RootInv
<1>16. CountInv'
  <2>1. \A x \in Tasks : Unfinished(x)' <=> Unfinished(x)
    BY <1>6, <1>7 DEF Unfinished
  <2> QED BY <1>0, <1>5, <2>1, CountKept
<1> QED BY <1>0, <1>5, <1>6, <1>7, <1>8, <1>9, <1>12, <1>13, <1>14, <1>15, <1>16 DEF IInv

\* hclib_start_finish.
LEMMA StartFinishIInv ==
    ASSUME IsFiniteSet(Tasks), IsFiniteSet(Finishes), IInv, NEW w \in Workers, DoStartFinish(w)
    PROVE  IInv'
<1>0. /\ SpawnJoin(program) /\ Types /\ StackInv /\ QueueInv /\ TaskInv /\ TextInv /\ ParentInv /\ ScopeInv
      /\ RootInv /\ CountInv
  BY DEF IInv
<1>1. PICK t, k, f, g : t = Top(w).task /\ k = Top(w).at /\ f = wsFinish[w] /\ g = <<t, k>>
  OBVIOUS
<1>2. /\ current[w] = w /\ Top(w).kind = "task" /\ Past(w) = Advanced(stack[w])
      /\ t \in Tasks /\ k \in Nat /\ k \in 1 .. Len(program.code[t]) /\ program.code[t][k].op = "start"
  BY <1>1, InstructionAt DEF DoStartFinish
<1>3. g \in Finishes /\ g # Root /\ Len(program.code[t]) \in Nat /\ g # NULL
  BY <1>0, <1>1, <1>2, InstructionTypes, NullAssumption DEF Types
<1>4. /\ counter' = [counter EXCEPT ![g] = 1, ![f] = @ + 1] /\ parent' = [parent EXCEPT ![g] = f]
      /\ wsFinish' = [wsFinish EXCEPT ![w] = g] /\ stack' = [stack EXCEPT ![w] = Advanced(stack[w])]
      /\ UNCHANGED <<program, prev, current, deque, finish, finishDep, satisfied, waiting, runs, ended, done, exited>>
  BY <1>1, <1>2 DEF DoStartFinish, SetFrames
<1>5. /\ stack' \in [Ctxs -> Seq(FrameType)] /\ StackInv'
      /\ \A x \in Tasks : OneFrame(x)' /\ (OnStack(x)' <=> OnStack(x))
      /\ \A x \in Tasks, i \in Nat : Passed(x, i) => Passed(x, i)'
      /\ ~Passed(t, k) /\ Passed(t, k)' /\ OnStack(t)
      /\ \A x \in Tasks, s \in Nat : HasOpen(x, s)' => HasOpen(x, s) \/ (x = t /\ s = k)
      /\ Workers' = Workers /\ (\A v \in Workers : v # w => Top(v)' = Top(v))
      /\ Top(w)'.task = t /\ Top(w)'.at = k + 1
  <2>1. /\ Top(w).task = t /\ Top(w).at = k /\ k <= Len(program.code[t]) /\ program.code[t][k].op # "end"
        /\ UNCHANGED <<program, current, runs>>
    BY <1>1, <1>2, <1>3, <1>4
  <2>2. Advances(w, t, k)
    BY <1>0, <1>2, <1>4, <2>1, StackAdvance
  <2> QED BY ONLY <2>2 DEF Advances
<1>6. f \in Finishes /\ Started(f) /\ f \notin ended /\ f = Scope(t, k) /\ f # NULL
  BY <1>1, <1>2, CurrentOpen, NullAssumption
<1>7. \A x \in Tasks : DOMAIN program.code[x] = 1 .. Len(program.code[x]) /\ DOMAIN program.code[x] \subseteq Nat
  BY <1>0, InstructionTypes DEF Types
<1>8. /\ parent[g] = NULL /\ ~Started(g) /\ g # f /\ g \notin ended
      /\ (\A x \in Tasks : finish[x] # g) /\ \A h \in Finishes : parent[h] # g
  <2>1. parent[g] = NULL
    BY <1>0, <1>1, <1>2, <1>5, <1>7 DEF TextInv
  <2>2. ~Started(g)
    BY <1>3, <2>1 DEF Started
  <2> QED BY <1>0, <1>3, <1>6, <2>1, <2>2 DEF ScopeInv, TextInv, ParentInv
<1>9. /\ counter'[g] = 1 /\ counter'[f] = counter[f] + 1 /\ counter' \in [Finishes -> Nat]
      /\ \A h \in Finishes : h # f /\ h # g => counter'[h] = counter[h]
  <2>1. counter \in [Finishes -> Nat] /\ g \in Finishes /\ f \in Finishes /\ g # f
    BY <1>0, <1>3, <1>6, <1>8 DEF Types
  <2>2. counter' = [counter EXCEPT ![g] = 1, ![f] = @ + 1]
    BY <1>4
  <2>3. counter[f] \in Nat /\ counter[f] + 1 \in Nat
    BY <2>1
  <2>4. counter'[g] = 1 /\ counter'[f] = counter[f] + 1
    BY ONLY <2>1, <2>2
  <2>5. \A h \in Finishes : h # f /\ h # g => counter'[h] = counter[h]
    BY ONLY <2>1, <2>2
  <2>6. counter' \in [Finishes -> Nat]
    BY ONLY <2>1, <2>2, <2>3
  <2> QED BY <2>4, <2>5, <2>6
<1>10. /\ parent'[g] = f /\ parent' \in [Finishes -> Finishes \cup {NULL}]
       /\ \A h \in Finishes : h # g => parent'[h] = parent[h]
  BY <1>0, <1>3, <1>4, <1>6 DEF Types
<1>11. /\ wsFinish'[w] = g /\ wsFinish' \in [Workers -> Finishes \cup {NULL}]
       /\ \A v \in Workers : v # w => wsFinish'[v] = wsFinish[v]
  BY <1>0, <1>3, <1>4 DEF Types
<1>12. \A h \in Finishes : Started(h)' <=> Started(h) \/ h = g
  BY <1>6, <1>10 DEF Started
<1>13. Types'
  BY <1>0, <1>4, <1>5, <1>9, <1>10, <1>11 DEF Types
<1>14. QueueInv' /\ \A x \in Tasks : Queued(x)' <=> Queued(x)
  BY <1>0, <1>4, <1>5 DEF QueueInv, Queued
<1>15. TaskInv'
  BY <1>0, <1>4, <1>5, <1>14 DEF TaskInv
<1>16. \A x \in Tasks : \A i : Scope(x, i)' = Scope(x, i)
  BY <1>4, ScopeKept
<1>17. TextInv'
  <2>1. \A x \in Tasks : \A i \in DOMAIN program.code[x] :
          program.code[x][i].op = "async" /\ finish[program.code[x][i].arg] # NULL => Passed(x, i)'
    BY <1>0, <1>5, <1>7 DEF TextInv
  <2>2. ASSUME NEW x \in Tasks, NEW i \in DOMAIN program.code[x], program.code[x][i].op = "start",
               parent'[<<x, i>>] # NULL
        PROVE  Passed(x, i)' /\ parent'[<<x, i>>] = Scope(x, i)'
    <3>1. CASE <<x, i>> = g
      <4>1. x = t /\ i = k
        BY <1>1, <3>1
      <4> QED BY <1>1, <1>5, <1>6, <1>10, <1>16, <4>1
    <3>2. CASE <<x, i>> # g
      <4>1. <<x, i>> \in Finishes
        BY <1>0, <1>7, <2>2, InstructionTypes DEF Types
      <4>2. parent'[<<x, i>>] = parent[<<x, i>>]
        BY <1>10, <3>2, <4>1
      <4>3. Passed(x, i) /\ parent[<<x, i>>] = Scope(x, i)
        BY <1>0, <2>2, <4>2 DEF TextInv
      <4> QED BY <1>5, <1>7, <1>16, <4>2, <4>3
    <3> QED BY <3>1, <3>2
  <2>3. (\A x \in Tasks : finish[x] # NULL => Started(finish[x]))'
    BY <1>0, <1>4, <1>12 DEF TextInv, Types
  <2> QED BY <1>4, <2>1, <2>2, <2>3 DEF TextInv
<1>18. ParentInv'
  <2>1. parent'[Root] = NULL
    BY <1>0, <1>3, <1>10 DEF ParentInv, Finishes
  <2>2. (\A h \in Finishes : parent[h] # NULL => Started(parent[h]))'
    BY <1>0, <1>6, <1>10, <1>12 DEF ParentInv, Types
  <2>3. ASSUME NEW S \in SUBSET {h \in Finishes : Started(h)'}, S # {},
               \A h \in S : parent'[h] # NULL => parent'[h] \in S
        PROVE  Root \in S
    <3> DEFINE T == S \ {g}
    <3>1. T \in SUBSET {h \in Finishes : Started(h)}
      BY <1>12
    <3>2. T # {}
      BY <1>6, <1>8, <1>10, <2>3
    <3>3. \A h \in T : parent[h] # NULL => parent[h] \in T
      BY <1>8, <1>10, <2>3
    <3> QED BY <1>0, <3>1, <3>2, <3>3 DEF ParentInv
  <2> QED BY <2>1, <2>2, <2>3 DEF ParentInv
<1>19. \A x \in Tasks : \A s \in DOMAIN program.code[x] : Open(<<x, s>>) => Open(<<x, s>>)'
  BY <1>4, <1>6, <1>8, <1>10 DEF Open, Types
<1>20. ScopeInv'
  <2>1. Open(g)'
    BY <1>0, <1>3, <1>4, <1>6, <1>8, <1>10 DEF Open, Types
  <2>2. \A x \in Tasks : \A s \in DOMAIN program.code[x] : HasOpen(x, s)' => Open(<<x, s>>)'
    BY <1>0, <1>1, <1>5, <1>7, <1>19, <2>1 DEF ScopeInv
  <2>3. ASSUME NEW v \in Workers, Top(v)'.task \in Tasks PROVE wsFinish'[v] = Scope(Top(v).task, Top(v).at)'
    <3>1. CASE v = w
      <4>1. OpenStarts(program.code[t])[k + 1] = OpenStarts(program.code[t])[k] \cup {k}
        BY <1>2, <1>3, OpenStartsDef DEF OpenedBy
      <4>2. \A s \in OpenStarts(program.code[t])[k] : s \in 1 .. k - 1
        BY <1>2, <1>3, OpenStartsEarlier
      <4>3. IsLast(k, OpenStarts(program.code[t])[k + 1])
        BY <1>2, <4>1, <4>2 DEF IsLast
      <4>4. k + 1 \in 1 .. Len(program.code[t]) + 1
        BY <1>2, <1>3
      <4>5. Scope(t, k + 1) = <<t, k>>
        BY <1>0, <1>2, <4>3, <4>4, ScopeValue
      <4> QED BY <1>1, <1>2, <1>5, <1>11, <1>16, <3>1, <4>5
    <3>2. CASE v # w
      <4>1. Top(v)' = Top(v) /\ wsFinish'[v] = wsFinish[v]
        BY <1>5, <1>11, <3>2
      <4>2. PICK x, i : x \in Tasks /\ x = Top(v).task /\ i = Top(v).at
        BY <2>3, <4>1
      <4>3. wsFinish[v] = Scope(x, i)
        BY <1>0, <4>2 DEF ScopeInv
      <4> QED BY <1>16, <4>1, <4>2, <4>3
    <3> QED BY <3>1, <3>2
  <2>4. \A h \in ended : Started(h)'
    BY <1>0, <1>12 DEF ScopeInv, Types
  <2> QED BY <1>4, <1>5, <2>2, <2>3, <2>4 DEF ScopeInv
<1>21. RootInv'
  <2>1. 0 \in Workers /\ t # Main
    BY <1>0, <1>2, StackFacts, RuntimeAssumption
  <2> QED BY <1>0, <1>4, <1>5, <1>11, <2>1 DEF RootInv
<1>22. CountInv'
  <2>1. \A h : TasksOf(h)' = TasksOf(h)
    BY <1>4, <1>5, <1>14 DEF TasksOf, Unfinished
  <2>2. \A h \in Finishes : h # g => (Open(h)' <=> Open(h))
    BY <1>4, <1>10 DEF Open
  <2>3. Open(g)' /\ ~Open(g)
    BY <1>0, <1>3, <1>4, <1>6, <1>8, <1>10 DEF Open, Types
  <2>4. ScopesOf(f)' = ScopesOf(f) \cup {g} /\ g \notin ScopesOf(f)
    BY <1>3, <1>10, <2>2, <2>3 DEF ScopesOf
  <2>5. \A h \in Finishes : h # f => ScopesOf(h)' = ScopesOf(h)
    <3> TAKE h \in Finishes
    <3> HAVE h # f
    <3>1. \A x \in Finishes : parent'[x] = h /\ Open(x)' <=> parent[x] = h /\ Open(x)
      BY <1>10, <2>2, <2>3
    <3> QED BY <3>1 DEF ScopesOf
  <2>6. TasksOf(g) = {} /\ ScopesOf(g) = {}
    BY <1>8 DEF TasksOf, ScopesOf
  <2>7. Cardinality(ScopesOf(f)') = Cardinality(ScopesOf(f)) + 1
    BY <2>4, CountTypes, FS_AddElement
  <2>8. ASSUME NEW h \in Finishes \ ended, Started(h)'
        PROVE  counter'[h] = 1 + Cardinality(TasksOf(h)) + Cardinality(ScopesOf(h)')
    <3>1. CASE h = g
      BY <1>8, <1>9, <2>5, <2>6, <3>1, CountTypes
    <3>2. CASE h # g
      <4>1. /\ counter[h] = 1 + Cardinality(TasksOf(h)) + Cardinality(ScopesOf(h))
            /\ Cardinality(TasksOf(h)) \in Nat /\ Cardinality(ScopesOf(h)) \in Nat
        BY <1>0, <1>12, <2>8, <3>2, CountTypes DEF CountInv
      <4> QED BY <1>9, <2>5, <2>7, <3>2, <4>1
    <3> QED BY <3>1, <3>2
  <2>9. \A h \in ended : TasksOf(h) = {} /\ ScopesOf(h)' = {}
    BY <1>0, <1>6, <2>5 DEF CountInv, Types
  <2> QED BY <1>4, <2>1, <2>8, <2>9 DEF CountInv
<1> QED BY <1>0, <1>4, <1>5, <1>13, <1>14, <1>15, <1>17, <1>18, <1>20, <1>21, <1>22 DEF IInv

\* hclib_end_finish up to its help_finish.
LEMMA EndFinishIInv ==
    ASSUME IsFiniteSet(Tasks), IsFiniteSet(Finishes), IInv, NEW w \in Workers, DoEndFinish(w)
    PROVE  IInv'
<1>0. /\ SpawnJoin(program) /\ Types /\ StackInv /\ QueueInv /\ TaskInv /\ TextInv /\ ParentInv /\ ScopeInv
      /\ RootInv /\ CountInv
  BY DEF IInv
<1>1. PICK f : f = wsFinish[w]
  OBVIOUS
<1>2. /\ current[w] = w /\ Top(w).kind = "task" /\ Past(w) = Advanced(stack[w])
      /\ \/ Top(w).task = Main /\ Top(w).at = 1 /\ w = 0
         \/ /\ Top(w).task \in Tasks /\ Top(w).at \in Nat /\ Top(w).at \in 1 .. Len(program.code[Top(w).task])
            /\ program.code[Top(w).task][Top(w).at].op = "end"
  BY InstructionAt DEF DoEndFinish
<1>3. /\ stack' = [stack EXCEPT ![w] = Append(Advanced(stack[w]), Frame("help", NULL, f, w, NULL))]
      /\ UNCHANGED <<program, prev, current, wsFinish, deque, finish, counter, parent, finishDep, satisfied,
                     waiting, runs, ended, done, exited>>
  BY <1>1, <1>2 DEF DoEndFinish, SetFrames
<1>4. /\ f \in Finishes
      /\ \/ Top(w).task = Main /\ Top(w).at = 1 /\ f = Root
         \/ /\ Top(w).task \in Tasks /\ Top(w).at <= Len(program.code[Top(w).task])
            /\ program.code[Top(w).task][Top(w).at].op = "end"
            /\ \E s \in Nat : /\ f = <<Top(w).task, s>>
                              /\ IsLast(s, OpenStarts(program.code[Top(w).task])[Top(w).at])
  <2>1. CASE Top(w).task = Main
    BY <1>0, <1>1, <1>2, <2>1, RuntimeAssumption DEF RootInv, Finishes
  <2>2. CASE Top(w).task \in Tasks
    <3>1. PICK t, k : t = Top(w).task /\ k = Top(w).at
      OBVIOUS
    <3>2. t \in Tasks /\ k \in 1 .. Len(program.code[t]) /\ program.code[t][k].op = "end"
      BY <1>2, <2>2, <3>1, RuntimeAssumption
    <3>3. Len(program.code[t]) \in Nat /\ OpenStarts(program.code[t])[k] # {}
      BY <1>0, <3>2, InstructionTypes DEF Types
    <3>4. k \in 1 .. Len(program.code[t]) + 1
      BY <3>2, <3>3
    <3>5. PICK s \in 1 .. k - 1 : IsLast(s, OpenStarts(program.code[t])[k])
      BY <3>3, <3>4, LastExists
    <3>6. Scope(t, k) = <<t, s>>
      BY <1>0, <3>2, <3>4, <3>5, ScopeValue
    <3>7. f = <<t, s>> /\ f \in Finishes
      BY <1>1, <2>2, <3>1, <3>6, CurrentOpen
    <3>8. s \in Nat /\ k <= Len(program.code[t])
      BY <3>2, <3>3, <3>5
    <3> QED BY <3>1, <3>2, <3>5, <3>7, <3>8
  <2> QED BY <1>2, <2>1, <2>2
<1>5. /\ stack' \in [Ctxs -> Seq(FrameType)] /\ StackInv'
      /\ \A u \in Tasks : OneFrame(u)' /\ (OnStack(u)' <=> OnStack(u))
      /\ \A u \in Tasks, i \in Nat : Passed(u, i) => Passed(u, i)'
      /\ \A u \in Tasks, s \in Nat : HasOpen(u, s)' => HasOpen(u, s)
      /\ Workers' = Workers /\ (\A v \in Workers : v # w => Top(v)' = Top(v))
      /\ Top(w)'.task = NULL
  <2>1. SpawnJoin(program) /\ Types /\ StackInv /\ TaskInv /\ UNCHANGED <<program, current, runs>>
    BY <1>0, <1>3
  <2>2. Top(w).kind = "task" /\ stack' = [stack EXCEPT ![w] = Append(Advanced(stack[w]), Frame("help", NULL, f, w, NULL))]
    BY <1>2, <1>3
  <2> QED BY <1>4, <2>1, <2>2, StackHelp
<1>6. Types'
  BY <1>0, <1>3, <1>5 DEF Types
<1>7. QueueInv' /\ \A x \in Tasks : Queued(x)' <=> Queued(x)
  BY <1>0, <1>3, <1>5 DEF QueueInv, Queued
<1>8. TaskInv'
  BY <1>0, <1>3, <1>5, <1>7 DEF TaskInv
<1>9. \A x \in Tasks : \A i : Scope(x, i)' = Scope(x, i)
  BY <1>3, ScopeKept
<1>10. \A x \in Tasks : DOMAIN program.code[x] \subseteq Nat
  BY <1>0, InstructionTypes DEF Types
<1>11. TextInv'
  BY <1>0, <1>3, <1>5, <1>9, <1>10 DEF TextInv, Started
<1>12. ParentInv'
  BY <1>0, <1>3, ParentKept
<1>13. ScopeInv'
  <2>1. \A x \in Tasks : \A s \in DOMAIN program.code[x] : HasOpen(x, s)' => Open(<<x, s>>)'
    BY <1>0, <1>3, <1>5, <1>10 DEF ScopeInv, Open
  <2>2. ASSUME NEW v \in Workers, Top(v)'.task \in Tasks PROVE wsFinish'[v] = Scope(Top(v).task, Top(v).at)'
    <3>1. v # w
      BY <1>5, <2>2, NullAssumption
    <3>2. Top(v)' = Top(v) /\ wsFinish'[v] = wsFinish[v]
      BY <1>3, <1>5, <3>1
    <3>3. PICK x, i : x \in Tasks /\ x = Top(v).task /\ i = Top(v).at
      BY <2>2, <3>2
    <3>4. wsFinish[v] = Scope(x, i)
      BY <1>0, <3>3 DEF ScopeInv
    <3> QED BY <1>9, <3>2, <3>3, <3>4
  <2> QED BY <1>0, <1>3, <1>5, <2>1, <2>2 DEF ScopeInv, Started
<1>14. RootInv'
  <2>1. 0 \in Workers /\ NULL # Main
    BY <1>0, StackFacts, NullAssumption
  <2> QED BY <1>0, <1>3, <1>5, <2>1 DEF RootInv
<1>15. CountInv'
  <2>1. \A x \in Tasks : Unfinished(x)' <=> Unfinished(x)
    BY <1>5, <1>7 DEF Unfinished
  <2> QED BY <1>0, <1>3, <2>1, CountKept
<1> QED BY <1>0, <1>3, <1>5, <1>6, <1>7, <1>8, <1>11, <1>12, <1>13, <1>14, <1>15 DEF IInv

\* Frame b called help_finish for scope f: in _hclib_finalize_ctx, or at an
\* end_finish of its task.
CallsHelp(b, f) ==
    \/ b.task = Main /\ b.at = 2 /\ f = Root
    \/ \E t \in Tasks, k \in Nat, s \in Nat :
         /\ b.task = t /\ b.at = k + 1 /\ k \in 1 .. Len(program.code[t]) /\ program.code[t][k].op = "end"
         /\ f = <<t, s>> /\ IsLast(s, OpenStarts(program.code[t])[k]) /\ Open(f) /\ s \in DOMAIN program.code[t]
         /\ program.code[t][s].op = "start"
         /\ \A u \in OpenStarts(program.code[t])[k] : HasOpen(t, u)

\* Where a worker is that helps with the tasks of a scope.
LEMMA HelpAt ==
    ASSUME IInv, NEW w \in Workers, Top(w).kind = "help", NEW b, b = stack[w][Len(stack[w]) - 1],
           NEW f, f = Top(w).on
    PROVE  /\ Len(stack[w]) > 1 /\ Top(w).task = NULL /\ Top(w).ws = w /\ f \in Finishes /\ Started(f)
           /\ CallsHelp(b, f)
<1>0. SpawnJoin(program) /\ Types /\ StackInv /\ TextInv /\ ScopeInv
  BY DEF IInv
<1>1. PICK n : n = Len(stack[w])
  OBVIOUS
<1>2. /\ Top(w) = stack[w][n] /\ n \in Nat /\ n > 0 /\ DOMAIN stack[w] = 1 .. n /\ stack[w] \in Seq(FrameType)
      /\ \A j \in 1 .. n : stack[w][j] \in FrameType /\ FrameOK(program.code, w, stack[w], j)
  BY <1>0, <1>1, StackFacts
<1>3. /\ n > 1 /\ Top(w).ws = w /\ Top(w).task = NULL /\ b.kind = "task" /\ b = stack[w][n - 1]
      /\ HelpsWith(program.code, Top(w), b)
  <2>1. FrameOK(program.code, w, stack[w], n)
    BY <1>2
  <2> QED BY <1>1, <1>2, <2>1 DEF FrameOK
<1>4. n - 1 \in 1 .. n /\ n - 1 \in DOMAIN stack[w] /\ b \in FrameType
  BY <1>2, <1>3
<1>5. FrameOK(program.code, w, stack[w], n - 1)
  BY <1>2, <1>4
<1>6. b.task \in Tasks \cup {Main}
  BY <1>3, <1>4, <1>5 DEF FrameOK, FrameType
<1>7. CASE b.task = Main
  <2>1. b.at = 2 /\ f = Root
    BY <1>3, <1>7 DEF HelpsWith
  <2>2. f \in Finishes /\ Started(f)
    BY <2>1 DEF Finishes, Started
  <2> QED BY <1>1, <1>3, <1>7, <2>1, <2>2 DEF CallsHelp
<1>8. CASE b.task \in Tasks
  <2>1. PICK t \in Tasks, k \in {b.at - 1} : t = b.task /\ k = b.at - 1
    BY <1>8
  <2>2. b.at \in 1 .. Len(program.code[t]) + 1 /\ Len(program.code[t]) \in Nat
        /\ DOMAIN program.code[t] = 1 .. Len(program.code[t])
    BY <1>0, <1>3, <1>5, <2>1, InstructionTypes DEF FrameOK, Types
  <2>3. t # Main
    BY RuntimeAssumption
  <2>4. b.at > 1 /\ program.code[t][k].op = "end"
        /\ \E s \in OpenStarts(program.code[t])[k] :
             (\A u \in OpenStarts(program.code[t])[k] : u <= s) /\ f = <<t, s>>
    BY <1>3, <2>1, <2>3 DEF HelpsWith
  <2>5. PICK s \in OpenStarts(program.code[t])[k] : IsLast(s, OpenStarts(program.code[t])[k]) /\ f = <<t, s>>
    BY <2>4 DEF IsLast
  <2>6. k \in Nat /\ k \in 1 .. Len(program.code[t]) /\ k \in 1 .. Len(program.code[t]) + 1 /\ b.at = k + 1
    <3>1. PICK m, l : m = b.at /\ l = Len(program.code[t])
      OBVIOUS
    <3>2. m \in 1 .. l + 1 /\ l \in Nat /\ m > 1 /\ k = m - 1
      BY <2>1, <2>2, <2>4, <3>1
    <3>3. k \in Nat /\ k \in 1 .. l /\ k \in 1 .. l + 1 /\ m = k + 1
      BY ONLY <3>2
    <3> QED BY <3>1, <3>3
  <2>7. s \in 1 .. Len(program.code[t]) /\ f \in Finishes /\ program.code[t][s].op = "start"
    BY <1>0, <2>5, <2>6, ScopeValue
  <2>8. HeldAt(stack[w], n - 1) = k
    BY <1>1, <1>2, <1>3, <2>1, HeldAtFacts
  <2>9. \A u \in OpenStarts(program.code[t])[k] : HasOpen(t, u)
    BY <1>3, <1>4, <2>1, <2>8 DEF HasOpen
  <2>10. Open(f)
    BY <1>0, <2>2, <2>5, <2>7, <2>9 DEF ScopeInv
  <2>11. Started(f)
    BY <2>10 DEF Open, Started
  <2>12. s \in Nat /\ s \in DOMAIN program.code[t]
    BY <2>2, <2>7
  <2>13. CallsHelp(b, f)
    <3>1. /\ b.task = t /\ b.at = k + 1 /\ k \in 1 .. Len(program.code[t]) /\ program.code[t][k].op = "end"
          /\ f = <<t, s>> /\ IsLast(s, OpenStarts(program.code[t])[k]) /\ Open(f) /\ s \in DOMAIN program.code[t]
          /\ program.code[t][s].op = "start"
          /\ \A u \in OpenStarts(program.code[t])[k] : HasOpen(t, u)
      <4>1. b.task = t /\ b.at = k + 1 /\ k \in 1 .. Len(program.code[t]) /\ program.code[t][k].op = "end"
        BY <2>1, <2>4, <2>6
      <4>2. f = <<t, s>> /\ IsLast(s, OpenStarts(program.code[t])[k]) /\ Open(f) /\ s \in DOMAIN program.code[t]
            /\ program.code[t][s].op = "start"
        BY <2>5, <2>7, <2>10, <2>12
      <4> QED BY <2>9, <4>1, <4>2
    <3> QED BY <2>6, <2>12, <3>1, Zenon DEF CallsHelp
  <2> QED BY <1>1, <1>3, <2>7, <2>11, <2>13
<1> QED BY <1>6, <1>7, <1>8

\* The rest of hclib_end_finish.
LEMMA HelpReturnIInv ==
    ASSUME IsFiniteSet(Tasks), IsFiniteSet(Finishes), IInv, NEW w \in Workers, HelpReturn(w)
    PROVE  IInv'
<1>0. /\ SpawnJoin(program) /\ Types /\ StackInv /\ QueueInv /\ TaskInv /\ TextInv /\ ParentInv /\ ScopeInv
      /\ RootInv /\ CountInv
  BY DEF IInv
<1>1. PICK b, f, p : b = stack[w][Len(stack[w]) - 1] /\ f = Top(w).on /\ p = parent[f]
  OBVIOUS
<1>2. /\ Len(stack[w]) > 1 /\ Top(w).task = NULL /\ f \in Finishes /\ Started(f)
      /\ CallsHelp(b, f)
  BY <1>1, HelpAt DEF HelpReturn, Running
<1>3. current[w] = w /\ Below(w) = SubSeq(stack[w], 1, Len(stack[w]) - 1) /\ 0 \in Workers
  BY <1>0, StackFacts
<1>4. /\ counter[f] = 1 /\ CheckOut(w, {p} \ {NULL}, finishDep)
      /\ wsFinish' = [wsFinish EXCEPT ![w] = p] /\ ended' = ended \cup {f}
      /\ stack' = [stack EXCEPT ![w] = SubSeq(@, 1, Len(@) - 1)]
      /\ UNCHANGED <<program, prev, current, finish, parent, finishDep, runs, done, exited>>
  BY <1>1, <1>3 DEF HelpReturn, SetFrames
<1>5. /\ stack' \in [Ctxs -> Seq(FrameType)] /\ StackInv'
      /\ \A u \in Tasks : OneFrame(u)' /\ (OnStack(u)' <=> OnStack(u) /\ Top(w).task # u)
      /\ \A u \in Tasks, i \in Nat : Passed(u, i) => Passed(u, i)'
      /\ \A u \in Tasks, s \in Nat : HasOpen(u, s)' /\ b.task # u => HasOpen(u, s)
      /\ \A u \in Tasks, s \in Nat : HasOpen(u, s)' /\ b.task = u => s \in OpenStarts(program.code[u])[b.at]
      /\ Workers' = Workers /\ (\A v \in Workers : v # w => Top(v)' = Top(v)) /\ Top(w)' = b
  BY <1>0, <1>1, <1>2, <1>4, StackPop
<1>6. p \in Finishes \cup {NULL} /\ (f = Root => p = NULL)
  BY <1>0, <1>1, <1>2 DEF Types, ParentInv
<1>7. p # NULL /\ Open(f) => p \in Finishes /\ p \notin ended /\ counter[p] > 1 /\ p # f /\ Started(p)
  <2> SUFFICES ASSUME p # NULL, Open(f) PROVE p \in Finishes /\ p \notin ended /\ counter[p] > 1 /\ p # f /\ Started(p)
    OBVIOUS
  <2>1. p \in Finishes /\ Started(p)
    BY <1>0, <1>1, <1>2, <1>6 DEF ParentInv
  <2>2. f \in ScopesOf(p)
    BY <1>1, <1>2 DEF ScopesOf
  <2>3. p \notin ended /\ counter[p] > 1
    BY <1>0, <2>1, <2>2, BusyScope
  <2> QED BY <1>4, <2>1, <2>3
<1>8. p = NULL \/ Open(f)
  BY <1>2, <1>6 DEF CallsHelp
<1>9. /\ UNCHANGED <<satisfied, waiting, deque>>
      /\ counter' = [h \in Finishes |-> counter[h] - (IF h \in {p} \ {NULL} THEN 1 ELSE 0)]
  BY <1>4, <1>7, <1>8 DEF CheckOut
<1>10. /\ \A h \in Finishes : h # p => counter'[h] = counter[h]
       /\ p # NULL => counter'[p] = counter[p] - 1
       /\ counter' \in [Finishes -> Nat]
  <2>1. \A h \in Finishes : counter[h] \in Nat
    BY <1>0 DEF Types
  <2>2. \A h \in Finishes : h # p => counter'[h] = counter[h]
    BY <1>9, <2>1
  <2>3. p # NULL => counter'[p] = counter[p] - 1
    BY <1>7, <1>8, <1>9
  <2>4. \A h \in Finishes : counter'[h] \in Nat
    <3> TAKE h \in Finishes
    <3>1. CASE h = p
      <4>1. p # NULL /\ counter[p] > 1 /\ counter[p] \in Nat
        BY <1>7, <1>8, <2>1, <3>1, NullAssumption
      <4>2. counter'[h] = counter[h] - 1
        BY <2>3, <3>1, <4>1
      <4> QED BY <3>1, <4>1, <4>2
    <3>2. CASE h # p
      BY <2>1, <2>2, <3>2
    <3> QED BY <3>1, <3>2
  <2> QED BY <1>9, <2>2, <2>3, <2>4
<1>11. /\ wsFinish'[w] = p /\ wsFinish' \in [Workers -> Finishes \cup {NULL}]
       /\ \A v \in Workers : v # w => wsFinish'[v] = wsFinish[v]
  BY <1>0, <1>4, <1>6 DEF Types
<1>12. Types'
  BY <1>0, <1>2, <1>4, <1>5, <1>9, <1>10, <1>11 DEF Types
<1>13. \A u \in Tasks : OnStack(u)' <=> OnStack(u)
  BY <1>2, <1>5, NullAssumption
<1>14. QueueInv' /\ \A x \in Tasks : Queued(x)' <=> Queued(x)
  BY <1>0, <1>5, <1>9 DEF QueueInv, Queued
<1>15. TaskInv'
  BY <1>0, <1>4, <1>5, <1>13, <1>14 DEF TaskInv
<1>16. \A x \in Tasks : \A i : Scope(x, i)' = Scope(x, i)
  BY <1>4, ScopeKept
<1>17. \A x \in Tasks : DOMAIN program.code[x] \subseteq Nat
  BY <1>0, InstructionTypes DEF Types
<1>18. TextInv'
  BY <1>0, <1>4, <1>5, <1>16, <1>17 DEF TextInv, Started
<1>19. ParentInv'
  BY <1>0, <1>4, ParentKept
<1>20. \A h : Open(h)' <=> Open(h) /\ h # f
  BY <1>4 DEF Open
<1>21. /\ \A x \in Tasks : \A s \in DOMAIN program.code[x] : HasOpen(x, s)' => Open(<<x, s>>)'
       /\ b.task \in Tasks => p = Scope(b.task, b.at)
  <2>1. CASE b.task = Main /\ b.at = 2 /\ f = Root
    <3>1. \A x \in Tasks, s \in Nat : <<x, s>> # Root /\ x # Main
      BY RuntimeAssumption DEF Root
    <3> QED BY <1>0, <1>5, <1>17, <1>20, <2>1, <3>1 DEF ScopeInv
  <2>2. CASE b.task # Main
    <3>1. PICK t \in Tasks, k \in Nat, s \in Nat :
              /\ b.task = t /\ b.at = k + 1 /\ k \in 1 .. Len(program.code[t]) /\ program.code[t][k].op = "end"
              /\ f = <<t, s>> /\ IsLast(s, OpenStarts(program.code[t])[k]) /\ Open(f) /\ s \in DOMAIN program.code[t]
              /\ program.code[t][s].op = "start"
              /\ \A u \in OpenStarts(program.code[t])[k] : HasOpen(t, u)
      BY <1>2, <2>2 DEF CallsHelp
    <3>2. Len(program.code[t]) \in Nat
      BY <1>0, InstructionTypes DEF Types
    <3>3. /\ OpenStarts(program.code[t])[k + 1] = OpenStarts(program.code[t])[k] \ {s}
          /\ OpenStarts(program.code[t])[k + 1] = OpenStarts(program.code[t])[s]
      BY <3>1, <3>2, EndRestores
    <3>4. Scope(t, k + 1) = Scope(t, s)
      BY <3>3, RuntimeAssumption DEF Scope, Code
    <3>5. f # Root
      BY <3>1, RuntimeAssumption DEF Root
    <3>6. p # NULL
      BY <1>1, <3>1, <3>5 DEF Open
    <3>7. p = Scope(t, s)
      BY <1>0, <1>1, <3>1, <3>6 DEF TextInv
    <3>8. ASSUME NEW x \in Tasks, NEW u \in DOMAIN program.code[x], HasOpen(x, u)' PROVE Open(<<x, u>>)'
      <4>1. HasOpen(x, u) /\ <<x, u>> # f
        <5>1. CASE x = t
          BY <1>5, <1>17, <3>1, <3>3, <3>8, <5>1
        <5>2. CASE x # t
          BY <1>5, <1>17, <3>1, <3>8, <5>2
        <5> QED BY <5>1, <5>2
      <4>2. Open(<<x, u>>)
        BY <1>0, <4>1 DEF ScopeInv
      <4> QED BY <1>20, <4>1, <4>2
    <3>9. p = Scope(b.task, b.at)
      BY <3>1, <3>4, <3>7
    <3> QED BY <3>8, <3>9
  <2>3. b.task # Main \/ (b.task = Main /\ b.at = 2 /\ f = Root)
    BY <1>2, RuntimeAssumption DEF CallsHelp
  <2> QED BY <2>1, <2>2, <2>3
<1>22. ScopeInv'
  <2>1. ASSUME NEW v \in Workers, Top(v)'.task \in Tasks PROVE wsFinish'[v] = Scope(Top(v).task, Top(v).at)'
    <3>1. CASE v = w
      BY <1>5, <1>11, <1>16, <1>21, <2>1, <3>1
    <3>2. CASE v # w
      <4>1. Top(v)' = Top(v) /\ wsFinish'[v] = wsFinish[v]
        BY <1>5, <1>11, <3>2
      <4>2. PICK x, i : x \in Tasks /\ x = Top(v).task /\ i = Top(v).at
        BY <2>1, <4>1
      <4>3. wsFinish[v] = Scope(x, i)
        BY <1>0, <4>2 DEF ScopeInv
      <4> QED BY <1>16, <4>1, <4>2, <4>3
    <3> QED BY <3>1, <3>2
  <2>2. (\A h \in ended : Started(h))'
    BY <1>0, <1>2, <1>4 DEF ScopeInv, Started
  <2> QED BY <1>4, <1>5, <1>21, <2>1, <2>2 DEF ScopeInv
<1>23. RootInv'
  <2>1. b.task = Main => b.at = 2 /\ f = Root
    BY <1>2, RuntimeAssumption DEF CallsHelp
  <2> QED BY <1>0, <1>3, <1>4, <1>5, <1>11, <2>1 DEF RootInv
<1>24. CountInv'
  <2>1. \A h : TasksOf(h)' = TasksOf(h)
    BY <1>4, <1>13, <1>14 DEF TasksOf, Unfinished
  <2>2. \A h : h # p => ScopesOf(h)' = ScopesOf(h)
    <3> TAKE h
    <3> HAVE h # p
    <3>1. \A g \in Finishes : parent'[g] = h /\ Open(g)' <=> parent[g] = h /\ Open(g)
      BY <1>1, <1>4, <1>20
    <3> QED BY <3>1 DEF ScopesOf
  <2>3. TasksOf(f) = {} /\ ScopesOf(f) = {}
    <3>1. CASE f \in ended
      BY <1>0, <3>1 DEF CountInv
    <3>2. CASE f \notin ended
      <4>1. 1 = 1 + Cardinality(TasksOf(f)) + Cardinality(ScopesOf(f))
        BY <1>0, <1>2, <1>4, <3>2 DEF CountInv
      <4> QED BY <4>1, CountTypes
    <3> QED BY <3>1, <3>2
  <2>4. f # p
    BY <1>2, <1>7, <1>8, NullAssumption
  <2>5. ASSUME p # NULL PROVE Cardinality(ScopesOf(p)') = Cardinality(ScopesOf(p)) - 1
    <3>1. f \in ScopesOf(p)
      BY <1>1, <1>2, <1>8, <2>5 DEF ScopesOf
    <3>2. ScopesOf(p)' = ScopesOf(p) \ {f}
      BY <1>4, <1>20 DEF ScopesOf
    <3> QED BY <3>1, <3>2, CountTypes, FS_RemoveElement
  <2>6. ASSUME NEW h \in Finishes \ ended', Started(h)
        PROVE  counter'[h] = 1 + Cardinality(TasksOf(h)) + Cardinality(ScopesOf(h)')
    <3>1. /\ counter[h] = 1 + Cardinality(TasksOf(h)) + Cardinality(ScopesOf(h))
          /\ Cardinality(TasksOf(h)) \in Nat /\ Cardinality(ScopesOf(h)) \in Nat
      BY <1>0, <1>4, <2>6, CountTypes DEF CountInv
    <3>2. CASE h = p
      <4>1. p # NULL
        BY <3>2, NullAssumption
      <4>2. counter'[h] = counter[h] - 1 /\ Cardinality(ScopesOf(h)') = Cardinality(ScopesOf(h)) - 1
        BY <1>10, <2>5, <3>2, <4>1
      <4> QED BY <3>1, <4>2
    <3>3. CASE h # p
      BY <1>10, <2>2, <3>1, <3>3
    <3> QED BY <3>2, <3>3
  <2>7. \A h \in ended' : TasksOf(h) = {} /\ ScopesOf(h)' = {}
    <3> TAKE h \in ended'
    <3>1. h # p
      BY <1>0, <1>4, <1>7, <1>8, <2>4, NullAssumption DEF Types
    <3> QED BY <1>0, <1>4, <2>2, <2>3, <3>1 DEF CountInv
  <2> QED BY <1>4, <2>1, <2>6, <2>7 DEF CountInv, Started
<1> QED BY <1>0, <1>4, <1>5, <1>12, <1>14, <1>15, <1>18, <1>19, <1>22, <1>23, <1>24 DEF IInv

\* Where a worker is whose task returns.
LEMMA ReturnAt ==
    ASSUME IInv, NEW w \in Workers, Top(w).kind = "task", Top(w).task # Main
    PROVE  Top(w).task \in Tasks /\ Len(stack[w]) > 1 /\ stack[w][Len(stack[w]) - 1].task = NULL
<1>0. Types /\ StackInv
  BY DEF IInv
<1>1. PICK n : n = Len(stack[w])
  OBVIOUS
<1>2. /\ Top(w) = stack[w][n] /\ n \in Nat /\ n > 0 /\ FramesOK(program.code, w, stack[w])
      /\ \A j \in 1 .. n : stack[w][j] \in FrameType /\ FrameOK(program.code, w, stack[w], j)
  BY <1>0, <1>1, StackFacts
<1>3. stack[w][n] \in FrameType /\ FrameOK(program.code, w, stack[w], n)
  BY <1>2
<1>4. Top(w).task \in Tasks
  BY <1>2, <1>3 DEF FrameOK, FrameType
<1>5. n # 1
  <2> SUFFICES ASSUME n = 1 PROVE FALSE
    OBVIOUS
  <2>1. stack[w][1].kind = "task" /\ stack[w][1].kind = IF w = 0 THEN "task" ELSE "loop"
    BY <1>2 DEF FramesOK
  <2>2. w = 0
    BY <2>1
  <2>3. FrameOK(program.code, w, stack[w], 1)
    BY <1>3
  <2>4. stack[w][1].task = Main
    BY <2>2, <2>3 DEF FrameOK
  <2> QED BY <1>2, <2>4
<1>6. stack[w][n - 1].kind # "task"
  BY <1>2, <1>3, <1>5 DEF FrameOK
<1>7. FrameOK(program.code, w, stack[w], n - 1)
  BY <1>2, <1>5
<1>8. stack[w][n - 1].task = NULL
  BY <1>6, <1>7 DEF FrameOK
<1>9. n > 1
  BY <1>2, <1>5
<1> QED BY <1>1, <1>4, <1>8, <1>9

\* The end of execute_task.
LEMMA TaskReturnIInv ==
    ASSUME IsFiniteSet(Tasks), IsFiniteSet(Finishes), IInv, NEW w \in Workers, TaskReturn(w)
    PROVE  IInv'
<1>0. /\ SpawnJoin(program) /\ Types /\ StackInv /\ QueueInv /\ TaskInv /\ TextInv /\ ParentInv /\ ScopeInv
      /\ RootInv /\ CountInv
  BY DEF IInv
<1>1. PICK t, f, b : t = Top(w).task /\ f = finish[t] /\ b = stack[w][Len(stack[w]) - 1]
  OBVIOUS
<1>2. t \in Tasks /\ Len(stack[w]) > 1 /\ b.task = NULL
  BY <1>1, ReturnAt DEF TaskReturn, Running
<1>3. current[w] = w /\ Below(w) = SubSeq(stack[w], 1, Len(stack[w]) - 1) /\ 0 \in Workers
  BY <1>0, StackFacts
<1>4. /\ CheckOut(w, {f}, finishDep)
      /\ stack' = [stack EXCEPT ![w] = SubSeq(@, 1, Len(@) - 1)]
      /\ UNCHANGED <<program, prev, current, wsFinish, finish, parent, finishDep, runs, ended, done, exited>>
  BY <1>1, <1>3 DEF TaskReturn, SetFrames
<1>5. /\ stack' \in [Ctxs -> Seq(FrameType)] /\ StackInv'
      /\ \A u \in Tasks : OneFrame(u)' /\ (OnStack(u)' <=> OnStack(u) /\ t # u)
      /\ \A u \in Tasks, i \in Nat : Passed(u, i) => Passed(u, i)'
      /\ \A u \in Tasks, s \in Nat : HasOpen(u, s)' => HasOpen(u, s)
      /\ Workers' = Workers /\ (\A v \in Workers : v # w => Top(v)' = Top(v)) /\ Top(w)'.task = NULL
  <2>1. /\ stack' \in [Ctxs -> Seq(FrameType)] /\ StackInv'
        /\ \A u \in Tasks : OneFrame(u)' /\ (OnStack(u)' <=> OnStack(u) /\ Top(w).task # u)
        /\ \A u \in Tasks, i \in Nat : Passed(u, i) => Passed(u, i)'
        /\ \A u \in Tasks, s \in Nat : HasOpen(u, s)' /\ b.task # u => HasOpen(u, s)
        /\ Workers' = Workers /\ (\A v \in Workers : v # w => Top(v)' = Top(v)) /\ Top(w)' = b
    BY <1>0, <1>1, <1>2, <1>4, StackPop
  <2> QED BY <1>1, <1>2, <2>1, NullAssumption
<1>6. OnStack(t) /\ runs[t] = 1 /\ ~Queued(t) /\ f # NULL
  <2>1. OnStack(t) /\ f # NULL
    BY <1>1, <1>2, CurrentOpen
  <2> QED BY <1>0, <1>2, <2>1 DEF TaskInv
<1>7. f \in Finishes /\ Started(f) /\ t \in TasksOf(f)
  BY <1>0, <1>1, <1>2, <1>6 DEF Types, TextInv, TasksOf, Unfinished
<1>8. f \notin ended /\ counter[f] > 1
  BY <1>0, <1>7, BusyScope
<1>9. /\ UNCHANGED <<satisfied, waiting, deque>>
      /\ counter' = [h \in Finishes |-> counter[h] - (IF h \in {f} THEN 1 ELSE 0)]
  BY <1>4, <1>8 DEF CheckOut
<1>10. /\ \A h \in Finishes : h # f => counter'[h] = counter[h]
       /\ counter'[f] = counter[f] - 1
       /\ counter' \in [Finishes -> Nat]
  <2>1. \A h \in Finishes : counter[h] \in Nat
    BY <1>0 DEF Types
  <2>2. \A h \in Finishes : h # f => counter'[h] = counter[h]
    BY <1>9, <2>1
  <2>3. counter'[f] = counter[f] - 1
    BY <1>7, <1>9
  <2>4. \A h \in Finishes : counter'[h] \in Nat
    <3> TAKE h \in Finishes
    <3>1. CASE h = f
      BY <1>8, <2>1, <2>3, <3>1
    <3>2. CASE h # f
      BY <2>1, <2>2, <3>2
    <3> QED BY <3>1, <3>2
  <2> QED BY <1>9, <2>2, <2>3, <2>4
<1>11. Types'
  BY <1>0, <1>4, <1>5, <1>9, <1>10 DEF Types
<1>12. QueueInv' /\ \A x \in Tasks : Queued(x)' <=> Queued(x)
  BY <1>0, <1>5, <1>9 DEF QueueInv, Queued
<1>13. TaskInv'
  BY <1>0, <1>4, <1>5, <1>12 DEF TaskInv
<1>14. \A x \in Tasks : \A i : Scope(x, i)' = Scope(x, i)
  BY <1>4, ScopeKept
<1>15. \A x \in Tasks : DOMAIN program.code[x] \subseteq Nat
  BY <1>0, InstructionTypes DEF Types
<1>16. TextInv'
  BY <1>0, <1>4, <1>5, <1>14, <1>15 DEF TextInv, Started
<1>17. ParentInv'
  BY <1>0, <1>4, ParentKept
<1>18. ScopeInv'
  <2>1. \A x \in Tasks : \A s \in DOMAIN program.code[x] : HasOpen(x, s)' => Open(<<x, s>>)'
    BY <1>0, <1>4, <1>5, <1>15 DEF ScopeInv, Open
  <2>2. ASSUME NEW v \in Workers, Top(v)'.task \in Tasks PROVE wsFinish'[v] = Scope(Top(v).task, Top(v).at)'
    <3>1. v # w
      BY <1>5, <2>2, NullAssumption
    <3>2. Top(v)' = Top(v) /\ wsFinish'[v] = wsFinish[v]
      BY <1>4, <1>5, <3>1
    <3>3. PICK x, i : x \in Tasks /\ x = Top(v).task /\ i = Top(v).at
      BY <2>2, <3>2
    <3>4. wsFinish[v] = Scope(x, i)
      BY <1>0, <3>3 DEF ScopeInv
    <3> QED BY <1>14, <3>2, <3>3, <3>4
  <2> QED BY <1>0, <1>4, <1>5, <2>1, <2>2 DEF ScopeInv, Started
<1>19. RootInv'
  <2>1. 0 \in Workers /\ NULL # Main
    BY <1>3, NullAssumption
  <2> QED BY <1>0, <1>4, <1>5, <2>1 DEF RootInv
<1>20. CountInv'
  <2>1. \A x \in Tasks : Unfinished(x)' <=> Unfinished(x) /\ x # t
    BY <1>5, <1>6, <1>12 DEF Unfinished
  <2>2. TasksOf(f)' = TasksOf(f) \ {t}
    BY <1>4, <2>1 DEF TasksOf
  <2>3. \A h : h # f => TasksOf(h)' = TasksOf(h)
    BY <1>1, <1>4, <2>1 DEF TasksOf
  <2>4. \A h : ScopesOf(h)' = ScopesOf(h)
    BY <1>4 DEF ScopesOf, Open
  <2>5. Cardinality(TasksOf(f)') = Cardinality(TasksOf(f)) - 1
    BY <1>7, <2>2, CountTypes, FS_RemoveElement
  <2>6. ASSUME NEW h \in Finishes \ ended, Started(h)
        PROVE  counter'[h] = 1 + Cardinality(TasksOf(h)') + Cardinality(ScopesOf(h))
    <3>1. /\ counter[h] = 1 + Cardinality(TasksOf(h)) + Cardinality(ScopesOf(h))
          /\ Cardinality(TasksOf(h)) \in Nat /\ Cardinality(ScopesOf(h)) \in Nat
      BY <1>0, <2>6, CountTypes DEF CountInv
    <3>2. CASE h = f
      BY <1>10, <2>5, <3>1, <3>2
    <3>3. CASE h # f
      BY <1>10, <2>3, <3>1, <3>3
    <3> QED BY <3>2, <3>3
  <2>7. \A h \in ended : TasksOf(h)' = {} /\ ScopesOf(h) = {}
    BY <1>0, <1>8, <2>3 DEF CountInv
  <2> QED BY <1>4, <2>4, <2>6, <2>7 DEF CountInv, Started
<1> QED BY <1>0, <1>4, <1>5, <1>11, <1>12, <1>13, <1>16, <1>17, <1>18, <1>19, <1>20 DEF IInv

\* The end of core_work_loop and of _hclib_finalize_ctx.
LEMMA ExitIInv ==
    ASSUME IInv, exited' \subseteq Workers, done' \in BOOLEAN, done' => Root \in ended,
           UNCHANGED <<program, stack, prev, current, wsFinish, deque, finish, counter, parent,
                       finishDep, satisfied, waiting, runs, ended>>
    PROVE  IInv'
<1>0. /\ SpawnJoin(program) /\ Types /\ StackInv /\ QueueInv /\ TaskInv /\ TextInv /\ ParentInv /\ ScopeInv
      /\ RootInv /\ CountInv
  BY DEF IInv
<1>1. Workers' = Workers
  BY DEF Workers
<1>2. Types' /\ SpawnJoin(program)'
  BY <1>0, <1>1 DEF Types
<1>3. StackInv' /\ QueueInv'
  BY <1>0, <1>1 DEF StackInv, QueueInv
<1>4. \A t : (Queued(t)' <=> Queued(t)) /\ (OnStack(t)' <=> OnStack(t)) /\ (OneFrame(t)' <=> OneFrame(t))
  BY <1>1 DEF Queued, OnStack, OneFrame
<1>5. TaskInv'
  BY <1>0, <1>4 DEF TaskInv
<1>6. \A t : \A i : Scope(t, i)' = Scope(t, i)
  BY DEF Scope, Code
<1>7. \A t, i : (Passed(t, i)' <=> Passed(t, i)) /\ (HasOpen(t, i)' <=> HasOpen(t, i))
  BY <1>1 DEF Passed, HasOpen
<1>8. TextInv'
  BY <1>0, <1>6, <1>7 DEF TextInv, Started
<1>9. ParentInv'
  BY <1>0, ParentKept
<1>10. \A v : Top(v)' = Top(v)
  BY DEF Top
<1>11. ScopeInv'
  <2>1. \A v \in Workers : Scope(Top(v).task, Top(v).at)' = Scope(Top(v).task, Top(v).at)
    BY <1>10 DEF Scope, Code
  <2> QED BY <1>0, <1>1, <1>7, <1>10, <2>1 DEF ScopeInv, Started, Open
<1>12. RootInv'
  BY <1>0, <1>10 DEF RootInv
<1>13. CountInv'
  <2>1. \A t \in Tasks : Unfinished(t)' <=> Unfinished(t)
    BY <1>4 DEF Unfinished
  <2> QED BY <1>0, <2>1, CountKept
<1> QED BY <1>2, <1>3, <1>5, <1>8, <1>9, <1>11, <1>12, <1>13 DEF IInv

\* No worker is in a wait or a yield, or on a context made for one.
LEMMA KindsUsed ==
    ASSUME IInv, NEW w \in Workers
    PROVE  Top(w).kind \in {"loop", "task", "help"}
<1>1. Top(w) \in FrameType
  BY StackFacts DEF IInv
<1> QED BY <1>1 DEF FrameType

\* No task is at a wait, a yield or a nonblocking end.
LEMMA OpsUsed ==
    ASSUME IInv, NEW w \in Workers, NEW op, AtInstruction(w, op)
    PROVE  op \in {"async", "put", "start", "end"}
<1>0. SpawnJoin(program) /\ Types
  BY DEF IInv
<1>1. \/ op = "end"
      \/ /\ Top(w).task \in Tasks /\ Top(w).at \in 1 .. Len(program.code[Top(w).task])
         /\ program.code[Top(w).task][Top(w).at].op = op
  BY InstructionAt
<1>2. PICK t, k : t = Top(w).task /\ k = Top(w).at
  OBVIOUS
<1>3. CASE t \in Tasks /\ k \in 1 .. Len(program.code[t]) /\ program.code[t][k].op = op
  <2>1. program \in Programs
    BY <1>0 DEF Types
  <2>2. program.code[t][k].op \in {"async", "put", "start", "end"}
    BY <1>0, <1>3, <2>1, InstructionTypes
  <2> QED BY <1>3, <2>2
<1> QED BY <1>1, <1>2, <1>3

\* Every step keeps the invariant.
LEMMA NextIInv ==
    ASSUME IsFiniteSet(Tasks), IsFiniteSet(Finishes), IInv, [Next]_vars
    PROVE  IInv'
<1>1. CASE UNCHANGED vars
  <2>1. Workers' = Workers
    BY <1>1 DEF Workers, vars
  <2> QED BY <1>1, <2>1, ExitIInv DEF vars, IInv, Types, RootInv
<1>2. ASSUME NEW w \in Workers, Step(w) PROVE IInv'
  <2>0. Top(w).kind \in {"loop", "task", "help"}
    BY KindsUsed
  <2>1. CASE LoopRun(w)
    <3>1. Top(w).kind # "task"
      BY <2>1 DEF LoopRun, Running
    <3> QED BY <2>1, <3>1, RunIInv DEF LoopRun
  <2>2. CASE LoopExit(w)
    <3>1. exited' \subseteq Workers /\ done' = done
      BY <2>2 DEF LoopExit, IInv, Types
    <3> QED BY <2>2, <3>1, ExitIInv DEF LoopExit, IInv, Types, RootInv
  <2>3. CASE StartRun(w)
    BY <2>0, <2>3 DEF StartRun, Running
  <2>4. CASE DoAsync(w)
    BY <2>4, AsyncIInv
  <2>5. CASE DoPut(w)
    BY <2>5, PutIInv
  <2>6. CASE DoStartFinish(w)
    BY <2>6, StartFinishIInv
  <2>7. CASE DoEndFinish(w)
    BY <2>7, EndFinishIInv
  <2>8. CASE HelpRun(w)
    <3>1. Top(w).kind = "help" /\ Top(w).kind # "task"
      BY <2>8 DEF HelpRun, Running
    <3>2. Top(w).ws = w
      BY <3>1, HelpAt
    <3> QED BY <2>8, <3>1, <3>2, RunIInv DEF HelpRun
  <2>9. CASE HelpReturn(w)
    BY <2>9, HelpReturnIInv
  <2>10. CASE DoEndFinishNB(w)
    BY <2>10, OpsUsed DEF DoEndFinishNB
  <2>11. CASE DoWaitSatisfied(w) \/ DoWait(w)
    BY <2>11, OpsUsed DEF DoWaitSatisfied, DoWait
  <2>12. CASE WaitRun(w) \/ WaitReturn(w)
    BY <2>0, <2>12 DEF WaitRun, WaitReturn, Running
  <2>13. CASE DoYield(w)
    BY <2>13, OpsUsed DEF DoYield
  <2>14. CASE YieldRun(w) \/ YieldReturn(w) \/ SwappedBack(w)
    BY <2>0, <2>14 DEF YieldRun, YieldReturn, SwappedBack, Running
  <2>15. CASE TaskReturn(w)
    BY <2>15, TaskReturnIInv
  <2>16. CASE Finalize(w)
    <3>1. Top(w).kind = "task" /\ Top(w).task = Main /\ Top(w).at > Len(Code(Main))
      BY <2>16 DEF Finalize, Running
    <3>2. Len(Code(Main)) = 1
      BY DEF Code
    <3>3. FrameOK(program.code, w, stack[w], Len(stack[w])) /\ Top(w) = stack[w][Len(stack[w])]
      BY StackFacts DEF IInv
    <3>4. w = 0 /\ Top(w).at \in {1, 2}
      BY <3>1, <3>3 DEF FrameOK
    <3>5. Root \in ended
      BY <3>1, <3>2, <3>4 DEF IInv, RootInv
    <3>6. exited' \subseteq Workers /\ done' \in BOOLEAN
      BY <2>16 DEF Finalize, IInv, Types
    <3> QED BY <2>16, <3>5, <3>6, ExitIInv DEF Finalize
  <2> QED BY <1>2, <2>1, <2>2, <2>3, <2>4, <2>5, <2>6, <2>7, <2>8, <2>9, <2>10, <2>11, <2>12, <2>13,
             <2>14, <2>15, <2>16 DEF Step
<1> QED BY <1>1, <1>2 DEF Next

\* hclib_launch establishes it.
LEMMA InitIInv ==
    ASSUME Init, SpawnJoin(program)
    PROVE  IInv
<1>1. /\ program \in Programs /\ program.nworkers \in 1 .. MaxWorkers /\ 0 \in Workers /\ Workers \subseteq Ctxs
      /\ 0 \in Ctxs /\ Workers \subseteq Nat /\ Entry \in Tasks
  BY RuntimeAssumption DEF Init, Workers, Ctxs
<1>2. Root \in Finishes /\ Root # NULL
  BY NullAssumption DEF Finishes
<1>3. PICK m, l : m = Body(Main) /\ l = Loop
  OBVIOUS
<1>4. /\ m \in FrameType /\ m.kind = "task" /\ m.task = Main /\ m.at = 1
      /\ l \in FrameType /\ l.kind = "loop" /\ l.task = NULL /\ l.at = 1
  BY <1>3 DEF Body, Loop, Frame, FrameType
<1>5. /\ \A c \in Ctxs : stack[c] \in {<<m>>, <<l>>, << >>}
      /\ stack[0] = <<m>> /\ (\A w \in Workers : w # 0 => stack[w] = <<l>>)
      /\ \A c \in Ctxs \ Workers : stack[c] = << >>
  BY <1>1, <1>3 DEF Init
<1>6. /\ Len(<<m>>) = 1 /\ DOMAIN <<m>> = {1} /\ <<m>>[1] = m
      /\ Len(<<l>>) = 1 /\ DOMAIN <<l>> = {1} /\ <<l>>[1] = l
  OBVIOUS
<1>7. stack \in [Ctxs -> Seq(FrameType)]
  <2>1. <<m>> \in Seq(FrameType) /\ <<l>> \in Seq(FrameType) /\ << >> \in Seq(FrameType)
    BY <1>4
  <2>2. \A c \in Ctxs : stack[c] \in Seq(FrameType)
    BY <1>5, <2>1
  <2>3. stack = [c \in Ctxs |-> stack[c]]
    BY DEF Init
  <2> QED BY <2>2, <2>3
<1>8. deque \in [Workers -> Seq(Tasks)] /\ waiting \in [Promises -> Seq(Tasks)]
  <2>1. <<Entry>> \in Seq(Tasks) /\ << >> \in Seq(Tasks)
    BY <1>1
  <2> QED BY <2>1 DEF Init
<1>9. Types
  BY <1>1, <1>2, <1>7, <1>8 DEF Init, Types
<1>10. Main \notin Tasks /\ NULL \notin Tasks /\ NULL # Main
  BY RuntimeAssumption, NullAssumption
<1>11. StackInv
  <2>1. FramesOK(program.code, 0, <<m>>)
    <3>1. FrameOK(program.code, 0, <<m>>, 1)
      BY <1>4, <1>6, <1>10 DEF FrameOK
    <3> QED BY <1>4, <1>6, <3>1 DEF FramesOK
  <2>2. \A w \in Workers : w # 0 => FramesOK(program.code, w, <<l>>)
    <3> TAKE w \in Workers
    <3> HAVE w # 0
    <3>1. FrameOK(program.code, w, <<l>>, 1)
      BY <1>4, <1>6, <1>10 DEF FrameOK
    <3> QED BY <1>4, <1>6, <3>1 DEF FramesOK
  <2>3. ASSUME NEW w \in Workers PROVE FramesOK(program.code, w, stack[w])
    <3>1. CASE w = 0
      BY <1>5, <2>1, <3>1
    <3>2. CASE w # 0
      BY <1>5, <2>2, <3>2
    <3> QED BY <3>1, <3>2
  <2> QED BY <1>5, <2>3 DEF StackInv
<1>12. /\ deque[0] = <<Entry>> /\ (\A w \in Workers : w # 0 => deque[w] = << >>)
       /\ \A p \in Promises : waiting[p] = << >>
  BY <1>1 DEF Init
<1>13. /\ Elements(<<Entry>>) = {Entry} /\ Elements(<< >>) = {} /\ Distinct(<<Entry>>) /\ Distinct(<< >>)
  BY DEF Elements, Distinct
<1>14. /\ \A w \in Workers : Distinct(deque[w]) /\ (w # 0 => Elements(deque[w]) = {})
       /\ Elements(deque[0]) = {Entry}
       /\ \A p \in Promises : Distinct(waiting[p]) /\ Elements(waiting[p]) = {}
  <2>1. ASSUME NEW w \in Workers PROVE Distinct(deque[w]) /\ (w # 0 => Elements(deque[w]) = {})
    <3>1. CASE w = 0
      BY <1>12, <1>13, <3>1
    <3>2. CASE w # 0
      BY <1>12, <1>13, <3>2
    <3> QED BY <3>1, <3>2
  <2> QED BY <1>12, <1>13, <2>1
<1>15. QueueInv
  BY <1>14 DEF QueueInv
<1>16. \A t : Queued(t) <=> t = Entry
  BY <1>1, <1>14 DEF Queued
<1>17. \A w \in Workers : DOMAIN stack[w] = {1} /\ stack[w][1].task \in {Main, NULL}
  <2> TAKE w \in Workers
  <2>1. CASE w = 0
    BY <1>4, <1>5, <1>6, <2>1
  <2>2. CASE w # 0
    BY <1>4, <1>5, <1>6, <2>2
  <2> QED BY <2>1, <2>2
<1>18. \A t \in Tasks : ~OnStack(t) /\ OneFrame(t)
  BY <1>10, <1>17 DEF OnStack, OneFrame
<1>19. /\ finish[Entry] = Root /\ (\A t \in Tasks : t # Entry => finish[t] = NULL)
       /\ \A t \in Tasks : runs[t] = 0
  BY <1>1 DEF Init
<1>20. TaskInv
  BY <1>2, <1>16, <1>18, <1>19 DEF TaskInv
<1>21. \A f \in Finishes : parent[f] = NULL
  BY DEF Init
<1>22. TextInv
  <2>1. ASSUME NEW t \in Tasks, NEW i \in DOMAIN program.code[t]
        PROVE  /\ ~(program.code[t][i].op = "async" /\ finish[program.code[t][i].arg] # NULL)
               /\ ~(program.code[t][i].op = "start" /\ parent[<<t, i>>] # NULL)
    <3>1. program.code[t] \in Seq(SpawnJoinInstructions)
      BY DEF SpawnJoin
    <3>2. program.code[t][i] \in SpawnJoinInstructions
      BY <3>1
    <3>3. program.code[t][i].op = "async" => program.code[t][i].arg \in Spawnable
      BY <3>2 DEF SpawnJoinInstructions, Async, Await, Put, StartFinish, EndFinish
    <3>4. program.code[t][i].op = "async" => finish[program.code[t][i].arg] = NULL
      BY <1>19, <3>3 DEF Spawnable
    <3>5. program.code[t][i].op = "start" => <<t, i>> \in Finishes
      BY <1>1, InstructionTypes
    <3> QED BY <1>21, <3>4, <3>5
  <2> QED BY <1>19, <2>1 DEF TextInv, Started
<1>23. ParentInv
  BY <1>2, <1>21 DEF ParentInv, Started
<1>24. Top(0) = m
  BY <1>1, <1>5, <1>6 DEF Init, Top
<1>25. \A w \in Workers : Top(w).task \in {Main, NULL}
  <2> TAKE w \in Workers
  <2>1. Len(stack[w]) = 1
    BY <1>5, <1>6
  <2> QED BY <1>9, <1>11, <1>17, <2>1, StackFacts
<1>26. ScopeInv
  <2>1. \A t \in Tasks : \A s : ~HasOpen(t, s)
    BY <1>10, <1>17 DEF HasOpen
  <2> QED BY <1>10, <1>25, <2>1 DEF ScopeInv, Init
<1>27. RootInv
  BY <1>1, <1>4, <1>24 DEF RootInv, Init
<1>28. CountInv
  <2>1. TasksOf(Root) = {Entry}
    BY <1>1, <1>16, <1>18, <1>19 DEF TasksOf, Unfinished
  <2>2. ScopesOf(Root) = {}
    BY <1>2, <1>21 DEF ScopesOf
  <2>3. Cardinality({Entry}) = 1 /\ Cardinality({}) = 0
    BY FS_Singleton, FS_EmptySet
  <2>4. counter[Root] = 2
    BY <1>2 DEF Init
  <2>5. \A f \in Finishes : Started(f) => f = Root
    BY <1>21 DEF Started
  <2>6. ended = {}
    BY DEF Init
  <2>7. counter[Root] = 1 + Cardinality(TasksOf(Root)) + Cardinality(ScopesOf(Root))
    BY <2>1, <2>2, <2>3, <2>4
  <2> QED BY <2>5, <2>6, <2>7 DEF CountInv
<1> QED BY <1>9, <1>11, <1>15, <1>20, <1>22, <1>23, <1>26, <1>27, <1>28 DEF IInv

-----------------------------------------------------------------------------
(* What the invariant says of the properties *)

\* The places of a task, one by one.
LEMMA PlacesDef ==
    ASSUME NEW t
    PROVE  \A x : x \in Places(t) <=>
             \/ \E w \in Workers : \E i \in DOMAIN deque[w] : deque[w][i] = t /\ x = <<"deque", w, i>>
             \/ \E p \in Promises : \E i \in DOMAIN waiting[p] : waiting[p][i] = t /\ x = <<"list", p, i>>
             \/ \E c \in Ctxs : \E i \in DOMAIN stack[c] : stack[c][i].task = t /\ x = <<"stack", c, i>>
<1> DEFINE D(w) == {<<"deque", w, i>> : i \in {j \in DOMAIN deque[w] : deque[w][j] = t}}
           L(p) == {<<"list", p, i>> : i \in {j \in DOMAIN waiting[p] : waiting[p][j] = t}}
           K(c) == {<<"stack", c, i>> : i \in {j \in DOMAIN stack[c] : stack[c][j].task = t}}
<1> SUFFICES ASSUME NEW x
             PROVE  x \in Places(t) <=>
             \/ \E w \in Workers : \E i \in DOMAIN deque[w] : deque[w][i] = t /\ x = <<"deque", w, i>>
             \/ \E p \in Promises : \E i \in DOMAIN waiting[p] : waiting[p][i] = t /\ x = <<"list", p, i>>
             \/ \E c \in Ctxs : \E i \in DOMAIN stack[c] : stack[c][i].task = t /\ x = <<"stack", c, i>>
  OBVIOUS
<1>1. \A w : x \in D(w) <=> \E i \in DOMAIN deque[w] : deque[w][i] = t /\ x = <<"deque", w, i>>
  OBVIOUS
<1>2. \A p : x \in L(p) <=> \E i \in DOMAIN waiting[p] : waiting[p][i] = t /\ x = <<"list", p, i>>
  OBVIOUS
<1>3. \A c : x \in K(c) <=> \E i \in DOMAIN stack[c] : stack[c][i].task = t /\ x = <<"stack", c, i>>
  OBVIOUS
<1>4. x \in Places(t) <=> \/ x \in UNION {D(w) : w \in Workers}
                         \/ x \in UNION {L(p) : p \in Promises}
                         \/ x \in UNION {K(c) : c \in Ctxs}
  BY DEF Places
<1> HIDE DEF D, L, K
<1>5. /\ x \in UNION {D(w) : w \in Workers} <=> \E w \in Workers : x \in D(w)
      /\ x \in UNION {L(p) : p \in Promises} <=> \E p \in Promises : x \in L(p)
      /\ x \in UNION {K(c) : c \in Ctxs} <=> \E c \in Ctxs : x \in K(c)
  OBVIOUS
<1> QED BY <1>1, <1>2, <1>3, <1>4, <1>5

\* A task is somewhere while it is unfinished.
LEMMA PlacesUnfinished ==
    ASSUME IInv, NEW t \in Tasks
    PROVE  Places(t) # {} <=> Unfinished(t)
<1>0. Types /\ StackInv
  BY DEF IInv
<1>1. Workers \subseteq Ctxs /\ \A c \in Ctxs \ Workers : DOMAIN stack[c] = {}
  <2>1. 0 \in Workers
    BY <1>0, RuntimeAssumption DEF Types, Workers
  <2> QED BY <1>0, <2>1, StackFacts DEF StackInv
<1>2. ASSUME Unfinished(t) PROVE Places(t) # {}
  <2>1. ASSUME NEW w \in Workers, t \in Elements(deque[w]) PROVE Places(t) # {}
    <3>1. PICK i \in DOMAIN deque[w] : deque[w][i] = t
      BY <2>1 DEF Elements
    <3>2. <<"deque", w, i>> \in Places(t)
      BY <3>1, PlacesDef
    <3> QED BY <3>2
  <2>2. ASSUME NEW p \in Promises, t \in Elements(waiting[p]) PROVE Places(t) # {}
    <3>1. PICK i \in DOMAIN waiting[p] : waiting[p][i] = t
      BY <2>2 DEF Elements
    <3>2. <<"list", p, i>> \in Places(t)
      BY <3>1, PlacesDef
    <3> QED BY <3>2
  <2>3. ASSUME NEW w \in Workers, NEW i \in DOMAIN stack[w], stack[w][i].task = t PROVE Places(t) # {}
    <3>1. <<"stack", w, i>> \in Places(t)
      BY <1>1, <2>3, PlacesDef
    <3> QED BY <3>1
  <2> QED BY <1>2, <2>1, <2>2, <2>3 DEF Unfinished, Queued, OnStack
<1>3. ASSUME Places(t) # {} PROVE Unfinished(t)
  <2>1. \/ \E w \in Workers : \E i \in DOMAIN deque[w] : deque[w][i] = t
        \/ \E p \in Promises : \E i \in DOMAIN waiting[p] : waiting[p][i] = t
        \/ \E c \in Ctxs : \E i \in DOMAIN stack[c] : stack[c][i].task = t
    BY <1>3, PlacesDef
  <2> QED BY <1>1, <2>1 DEF Unfinished, Queued, OnStack, Elements
<1> QED BY <1>2, <1>3

\* A task is in one place.
LEMMA PlacesOne ==
    ASSUME IInv, NEW t \in Tasks
    PROVE  Cardinality(Places(t)) <= 1
<1>0. Types /\ StackInv /\ QueueInv /\ TaskInv
  BY DEF IInv
<1>1. \A c \in Ctxs \ Workers : DOMAIN stack[c] = {}
  BY <1>0 DEF StackInv
<1>2. \A x \in Places(t) :
        \/ \E w \in Workers : \E i \in DOMAIN deque[w] : deque[w][i] = t /\ x = <<"deque", w, i>>
        \/ \E p \in Promises : \E i \in DOMAIN waiting[p] : waiting[p][i] = t /\ x = <<"list", p, i>>
        \/ \E w \in Workers : \E i \in DOMAIN stack[w] : stack[w][i].task = t /\ x = <<"stack", w, i>>
  <2> TAKE x \in Places(t)
  <2>1. \/ \E w \in Workers : \E i \in DOMAIN deque[w] : deque[w][i] = t /\ x = <<"deque", w, i>>
        \/ \E p \in Promises : \E i \in DOMAIN waiting[p] : waiting[p][i] = t /\ x = <<"list", p, i>>
        \/ \E c \in Ctxs : \E i \in DOMAIN stack[c] : stack[c][i].task = t /\ x = <<"stack", c, i>>
    BY PlacesDef
  <2> QED BY <1>1, <2>1
<1>3. OnStack(t) => ~Queued(t)
  BY <1>0 DEF TaskInv
<1>4. ASSUME NEW v \in Workers, NEW i \in DOMAIN deque[v], deque[v][i] = t
      PROVE  \A y \in Places(t) : y = <<"deque", v, i>>
  <2>1. t \in Elements(deque[v]) /\ Queued(t)
    BY <1>4 DEF Elements, Queued
  <2>2. \A w \in Workers : \A j \in DOMAIN deque[w] : deque[w][j] = t => w = v /\ j = i
    BY <1>0, <1>4, <2>1 DEF QueueInv, Distinct, Elements
  <2>3. \A p \in Promises : \A j \in DOMAIN waiting[p] : waiting[p][j] # t
    BY <1>0, <2>1 DEF QueueInv, Elements
  <2>4. \A w \in Workers : \A j \in DOMAIN stack[w] : stack[w][j].task # t
    BY <1>3, <2>1 DEF OnStack
  <2> QED BY <1>2, <2>2, <2>3, <2>4
<1>5. ASSUME NEW p \in Promises, NEW i \in DOMAIN waiting[p], waiting[p][i] = t
      PROVE  \A y \in Places(t) : y = <<"list", p, i>>
  <2>1. t \in Elements(waiting[p]) /\ Queued(t)
    BY <1>5 DEF Elements, Queued
  <2>2. \A w \in Workers : \A j \in DOMAIN deque[w] : deque[w][j] # t
    BY <1>0, <2>1 DEF QueueInv, Elements
  <2>3. \A q \in Promises : \A j \in DOMAIN waiting[q] : waiting[q][j] = t => q = p /\ j = i
    BY <1>0, <1>5, <2>1 DEF QueueInv, Distinct, Elements
  <2>4. \A w \in Workers : \A j \in DOMAIN stack[w] : stack[w][j].task # t
    BY <1>3, <2>1 DEF OnStack
  <2> QED BY <1>2, <2>2, <2>3, <2>4
<1>6. ASSUME NEW v \in Workers, NEW i \in DOMAIN stack[v], stack[v][i].task = t
      PROVE  \A y \in Places(t) : y = <<"stack", v, i>>
  <2>1. ~Queued(t)
    BY <1>3, <1>6 DEF OnStack
  <2>2. \A w \in Workers : \A j \in DOMAIN deque[w] : deque[w][j] # t
    BY <2>1 DEF Queued, Elements
  <2>3. \A p \in Promises : \A j \in DOMAIN waiting[p] : waiting[p][j] # t
    BY <2>1 DEF Queued, Elements
  <2>4. \A w \in Workers : \A j \in DOMAIN stack[w] : stack[w][j].task = t => w = v /\ j = i
    BY <1>0, <1>6 DEF TaskInv, OneFrame
  <2> QED BY <1>2, <2>2, <2>3, <2>4
<1>7. \A x, y \in Places(t) : x = y
  BY <1>2, <1>4, <1>5, <1>6
<1>8. CASE Places(t) = {}
  BY <1>8, FS_EmptySet
<1>9. CASE Places(t) # {}
  <2>1. PICK x : Places(t) = {x}
    BY <1>7, <1>9
  <2>2. Cardinality({x}) = 1
    BY FS_Singleton
  <2> QED BY <2>1, <2>2
<1> QED BY <1>8, <1>9

\* The scopes that have not ended reach the root.
LEMMA RootLast ==
    ASSUME IsFiniteSet(Tasks), IsFiniteSet(Finishes), IInv, Root \in ended, NEW t \in Tasks
    PROVE  ~Unfinished(t)
<1>0. Types /\ TaskInv /\ TextInv /\ ParentInv /\ ScopeInv /\ CountInv
  BY DEF IInv
<1> SUFFICES ASSUME Unfinished(t) PROVE FALSE
  OBVIOUS
<1>1. finish[t] \in Finishes /\ Started(finish[t])
  BY <1>0 DEF Unfinished, TaskInv, TextInv, Types
<1>2. finish[t] \notin ended
  <2>1. t \in TasksOf(finish[t])
    BY DEF TasksOf
  <2> QED BY <1>0, <1>1, <2>1, BusyScope
<1> DEFINE S == {f \in Finishes : Started(f) /\ f \notin ended}
<1>3. S \in SUBSET {f \in Finishes : Started(f)} /\ S # {}
  BY <1>1, <1>2
<1>4. ASSUME NEW f \in S, parent[f] # NULL PROVE parent[f] \in S
  <2>1. parent[f] \in Finishes /\ Started(parent[f])
    BY <1>0, <1>4 DEF Types, ParentInv
  <2>2. finishDep[f] = NULL
    BY <1>0 DEF Types
  <2>3. f \in ScopesOf(parent[f])
    BY <1>4, <2>2 DEF ScopesOf, Open
  <2> QED BY <1>0, <2>1, <2>3, BusyScope
<1>5. Root \in S
  BY <1>0, <1>3, <1>4 DEF ParentInv
<1> QED BY <1>5

\* The invariant holds of every run of a program that spawns and joins.
LEMMA IInvHolds ==
    ASSUME IsFiniteSet(Tasks), IsFiniteSet(Finishes)
    PROVE  Spec /\ SpawnJoin(program) => []IInv
<1>1. Init /\ SpawnJoin(program) => IInv
  BY InitIInv
<1>2. IInv /\ [Next]_vars => IInv'
  BY NextIInv
<1> QED BY <1>1, <1>2, PTL DEF Spec

-----------------------------------------------------------------------------
(* Theorems *)

\* Check-ins and check-outs are exact: the counter of a finish scope is the
\* number of its unfinished tasks, its open inner scopes and its own body,
\* whatever worker each task ran on.
THEOREM CounterExactHolds ==
    ASSUME IsFiniteSet(Tasks), IsFiniteSet(Finishes)
    PROVE  Spec /\ SpawnJoin(program) => []CounterExact
<1>1. ASSUME IInv PROVE CounterExact
  <2>0. Types /\ CountInv
    BY <1>1 DEF IInv
  <2>1. TypeOK
    <3>1. Tasks \subseteq Items
      BY DEF Items
    <3>2. \A c \in Ctxs : \A i \in DOMAIN stack[c] :
             /\ stack[c][i].kind \in Kinds
             /\ stack[c][i].task \in Items \cup {Main, NULL}
             /\ stack[c][i].fin \in Finishes \cup {NULL}
      <4> TAKE c \in Ctxs
      <4> TAKE i \in DOMAIN stack[c]
      <4>1. stack[c][i] \in FrameType
        BY <2>0 DEF Types
      <4> QED BY <3>1, <4>1 DEF FrameType, Kinds
    <3>3. deque \in [Workers -> Seq(Items)] /\ waiting \in [Promises -> Seq(Items)]
      BY <2>0, <3>1 DEF Types
    <3>4. current \in [Workers -> Ctxs]
      <4>1. Workers \subseteq Ctxs
        BY <2>0, RuntimeAssumption DEF Types, Workers, Ctxs
      <4> QED BY <2>0, <4>1 DEF Types
    <3>5. prev \in [Ctxs -> Ctxs \cup {NULL}] /\ finishDep \in [Finishes -> Promises \cup {NULL}]
      BY <2>0 DEF Types
    <3>6. runs \in [Tasks -> Nat]
      <4>1. runs = [t \in Tasks |-> runs[t]] /\ \A t \in Tasks : runs[t] \in {0, 1}
        BY <2>0 DEF Types
      <4>2. \A t \in Tasks : runs[t] \in Nat
        BY <4>1
      <4> QED BY <4>1, <4>2
    <3> QED BY <2>0, <3>2, <3>3, <3>4, <3>5, <3>6 DEF Types, TypeOK
  <2>2. ASSUME NEW f \in Finishes \ ended, f = Root \/ parent[f] # NULL
        PROVE  counter[f] = (IF Open(f) THEN 1 ELSE 0)
                     + Cardinality({t \in Tasks : finish[t] = f /\ Places(t) # {}})
                     + Cardinality({g \in Finishes : parent[g] = f /\ Open(g)})
    <3>1. Open(f)
      BY <2>0, <2>2 DEF Open, Types
    <3>2. {t \in Tasks : finish[t] = f /\ Places(t) # {}} = TasksOf(f)
      BY <1>1, PlacesUnfinished DEF TasksOf
    <3>3. counter[f] = 1 + Cardinality(TasksOf(f)) + Cardinality(ScopesOf(f))
      BY <2>0, <2>2 DEF CountInv, Started
    <3> QED BY <3>1, <3>2, <3>3 DEF ScopesOf
  <2> QED BY <2>1, <2>2 DEF CounterExact
<1> QED BY <1>1, IInvHolds, PTL

\* Joins wait: hclib_end_finish returns after every task and inner scope of
\* the scope is done, and the done flag that ends the launch is set after
\* every task that was spawned anywhere has run.
THEOREM FinishJoinsHolds ==
    ASSUME IsFiniteSet(Tasks), IsFiniteSet(Finishes)
    PROVE  Spec /\ SpawnJoin(program) => []FinishJoins
<1>1. ASSUME IInv PROVE FinishJoins
  <2>0. Types /\ TaskInv /\ RootInv /\ CountInv
    BY <1>1 DEF IInv
  <2>1. ASSUME NEW t \in Tasks, finish[t] # NULL, ~Unfinished(t) PROVE runs[t] = 1 /\ Places(t) = {}
    <3>1. Places(t) = {}
      BY <1>1, <2>1, PlacesUnfinished
    <3>2. runs[t] \in {0, 1} /\ runs[t] # 0
      BY <2>0, <2>1 DEF Types, TaskInv, Unfinished
    <3> QED BY <3>1, <3>2
  <2>2. LaunchWaits
    <3>1. done => \A t \in Tasks : ~Unfinished(t)
      BY <1>1, <2>0, RootLast DEF RootInv
    <3> QED BY <2>1, <3>1 DEF LaunchWaits, Spawned
  <2>3. ASSUME NEW f \in Finishes, f \in ended \/ (finishDep[f] # NULL /\ satisfied[finishDep[f]])
        PROVE  /\ \A t \in Tasks : finish[t] = f => runs[t] = 1 /\ Places(t) = {}
               /\ \A g \in Finishes : parent[g] = f => ~Open(g)
    <3>1. f \in ended
      BY <2>0, <2>3 DEF Types
    <3>2. TasksOf(f) = {} /\ ScopesOf(f) = {} /\ f # NULL
      BY <2>0, <3>1, NullAssumption DEF CountInv
    <3>3. \A t \in Tasks : finish[t] = f => ~Unfinished(t)
      BY <3>2 DEF TasksOf
    <3> QED BY <2>1, <3>2, <3>3 DEF ScopesOf
  <2> QED BY <2>2, <2>3 DEF FinishJoins
<1> QED BY <1>1, IInvHolds, PTL

\* No task is started twice, and none is in two places.
THEOREM RunOnceHolds ==
    ASSUME IsFiniteSet(Tasks), IsFiniteSet(Finishes)
    PROVE  Spec /\ SpawnJoin(program) => []RunOnce
<1>1. ASSUME IInv PROVE RunOnce
  <2>1. \A t \in Tasks : runs[t] <= 1
    <3>1. \A t \in Tasks : runs[t] \in {0, 1}
      BY <1>1 DEF IInv, Types
    <3> QED BY <3>1
  <2> QED BY <1>1, <2>1, PlacesOne DEF RunOnce
<1> QED BY <1>1, IInvHolds, PTL

\* The current finish of a worker is the one the text of its task says,
\* although other tasks changed it while the task helped in an end_finish.
THEOREM ScopeCorrectHolds ==
    ASSUME IsFiniteSet(Tasks), IsFiniteSet(Finishes)
    PROVE  Spec /\ SpawnJoin(program) => []ScopeCorrect
<1>1. ASSUME IInv PROVE ScopeCorrect
  <2> SUFFICES ASSUME NEW w \in Workers, Running(w, "task"), Top(w).task # Main
               PROVE  wsFinish[w] = Scope(Top(w).task, Top(w).at)
    BY DEF ScopeCorrect
  <2>1. Top(w).task \in Tasks
    BY <1>1, ReturnAt DEF Running
  <2> QED BY <1>1, <2>1 DEF IInv, ScopeInv
<1> QED BY <1>1, IInvHolds, PTL
=============================================================================
