------------------------ MODULE ModuleServicesProofs ------------------------
(***************************************************************************)
(* Theorems about ModuleServices, for every set of workers, every loading  *)
(* order, every graph and every program.                                   *)
(*                                                                         *)
(* The types of locales are numbered as they are named, so the same name   *)
(* has another number in every loading order, and the lists of functions,  *)
(* the locales and the statics of the modules hold numbers only.  The      *)
(* invariant says which name each number stands for, and relates the lists *)
(* to the modules that have come to each stage of the launch.              *)
(***************************************************************************)
EXTENDS ModuleServices, Chains, FiniteSetTheorems, SequenceTheorems, TLAPS

\* The names of the types.
Labels == {"L1", "L2", "L3", "sysmem", "GPU", "Interconnect"}

\* The modules before the n-th that registered.
Before(n) == {registered[j] : j \in {i \in DOMAIN registered : i < n}}

\* The modules that have named their types, and those that are initialised.
Named ==
    CASE stage \in {"load", "abort"} -> {}
      [] stage = "pre" -> Before(next)
      [] OTHER -> Range(registered)

Posted ==
    CASE stage \in {"load", "pre", "graph", "abort"} -> {}
      [] stage = "post" -> Before(next)
      [] OTHER -> Range(registered)

\* A module is registered once, however often it is loaded, and those that
\* are loaded are registered.
RegInv ==
    /\ stage \in {"load", "pre", "graph", "post", "run", "final", "over", "abort"}
    /\ setup \in Setups /\ program \in Programs
    /\ registered \in Seq(Modules)
    /\ \A i, j \in DOMAIN registered : registered[i] = registered[j] => i = j
    /\ next \in Nat \ {0}
    /\ stage = "load" =>
        /\ next <= Len(setup.modules)
        /\ Range(registered) = {setup.modules[j] : j \in 1 .. next - 1}
    /\ stage # "load" =>
        /\ next <= Len(registered)
        /\ Range(registered) = Range(setup.modules)

\* The name of a type is known once, and numbers stand for the names that
\* modules and locales gave.
NameInv ==
    /\ known \in Seq(Labels)
    /\ \A i, j \in DOMAIN known : known[i] = known[j] => i = j
    /\ DOMAIN ids = Modules
    /\ \A m \in Modules :
        /\ DOMAIN ids[m] \subseteq LocaleTypes(m)
        /\ \A lbl \in DOMAIN ids[m] :
            ids[m][lbl] \in 0 .. Len(known) - 1 /\ known[ids[m][lbl] + 1] = lbl
    /\ \A m \in Named : DOMAIN ids[m] = LocaleTypes(m)
    /\ \A l \in DOMAIN type :
        type[l] \in 0 .. Len(known) - 1 /\ known[type[l] + 1] = setup.graph[l]
    /\ stage \notin {"load", "pre", "graph", "abort"} => DOMAIN type = Locales

\* A function in a list was put there by a module that is initialised and owns
\* the type, and a module that is initialised finds its functions.
ListInv ==
    /\ DOMAIN lists = Kinds
    /\ \A k \in Kinds : \E n \in Nat : DOMAIN lists[k] = 0 .. n - 1
    /\ stage # "abort" =>
        \A k \in Kinds \ {"metadata"} : \A i \in DOMAIN lists[k] :
            lists[k][i].fptr # NULL =>
                /\ lists[k][i].fptr \in Posted
                /\ k \in Provides(lists[k][i].fptr)
                /\ i \in Range(ids[lists[k][i].fptr])
                /\ k = "copy" => (lists[k][i].priority = "must" <=> lists[k][i].fptr = "cuda")
    /\ \A m \in Posted : \A k \in Provides(m) : \A i \in Range(ids[m]) :
        i \in DOMAIN lists[k] /\ lists[k][i].fptr = m

\* The state of the modules fills the states of the workers, which are alike.
StateInv ==
    /\ DOMAIN module_state = Workers
    /\ DOMAIN offset = Modules
    /\ \A w \in Workers : module_state[w] \in Seq(Modules \cup {NULL})
    /\ \A v, w \in Workers : Len(module_state[v]) = Len(module_state[w])
    /\ stage \in {"post", "run"} => \A m \in Posted : StateSize[m] > 0 =>
        /\ offset[m] \in Nat
        /\ \A w \in Workers :
            /\ offset[m] + StateSize[m] <= Len(module_state[w])
            /\ \A j \in offset[m] + 1 .. offset[m] + StateSize[m] : module_state[w][j] = m

\* A call that has been made is running on at most one worker; the calls the
\* main task has not come to have not been made.
CallInv ==
    /\ pc \in Nat
    /\ status \in [Calls -> {"none", "queued", "called", "done"}]
    /\ \A i \in Calls : i >= pc => status[i] = "none"
    /\ DOMAIN running = Workers
    /\ \A w \in Workers : running[w] # NULL =>
        running[w] \in Calls /\ status[running[w]] = "called"
    /\ \A v, w \in Workers : running[v] # NULL /\ running[v] = running[w] => v = w
    /\ DOMAIN cb = Calls

\* A communication module that is not yet initialised has looked up no locale.
NicInv ==
    /\ DOMAIN nic = Modules
    /\ stage # "abort" => \A m \in Modules : m \notin Posted => nic[m] = NULL

\* What ServedByOwner says of the calls.
Served ==
    \A i \in Calls : cb[i] # NULL =>
        LET c == program.code[i] IN
        IF c.do = "copy"
        THEN LET both == Owners("copy", c.at) \cup Owners("copy", c.from) IN
             cb[i] \in both /\ ("cuda" \in both => cb[i] = "cuda")
        ELSE cb[i] \in Owners(c.do, c.at)

IInv ==
    RegInv /\ NameInv /\ ListInv /\ StateInv /\ NicInv /\ CallInv /\ Served /\ AbortJustified

-----------------------------------------------------------------------------
(* The lists of functions and of types *)

\* A set of numbers up to a bound has a largest element.
LEMMA MaxExists ==
    ASSUME NEW N \in Nat, NEW S \in SUBSET (0 .. N), S # {}
    PROVE  Max(S) \in S /\ \A y \in S : y <= Max(S)
<1> DEFINE B == {b \in Nat : \A y \in S : y <= b}
<1>1. N \in B /\ B \in SUBSET Nat
  OBVIOUS
<1>2. PICK b \in B : \A c \in B : b <= c
  BY <1>1, LeastExists
<1>3. b \in S
  <2> SUFFICES ASSUME b \notin S PROVE FALSE
    OBVIOUS
  <2>1. b \in Nat /\ \A y \in S : y \in Nat /\ y <= b /\ y # b
    BY <1>2
  <2>2. b # 0
    <3>1. PICK y \in S : TRUE
      OBVIOUS
    <3>2. y \in Nat /\ y <= b /\ y # b
      BY <2>1
    <3> QED BY <2>1, <3>2
  <2>3. b - 1 \in B
    BY <2>1, <2>2
  <2> QED BY <1>2, <2>1, <2>3
<1>4. \E x \in S : \A y \in S : x >= y
  BY <1>2, <1>3
<1>5. Max(S) \in S /\ \A y \in S : Max(S) >= y
  BY <1>4, Zenon DEF Max
<1> QED BY <1>5

\* The list r is list with entry at the types of at.
Filled(list, at, entry, r) ==
    /\ \E k \in Nat : DOMAIN r = 0 .. k - 1
    /\ at \subseteq DOMAIN r /\ DOMAIN list \subseteq DOMAIN r
    /\ \A j \in DOMAIN r :
        \/ j \in at /\ r[j] = entry
        \/ j \in DOMAIN list \ at /\ r[j] = list[j]
        \/ j \notin DOMAIN list \cup at /\ r[j] = NoFunc

\* hclib_register_func keeps the other entries and leaves no type out.
LEMMA RegisterFuncAt ==
    ASSUME NEW list, NEW at, NEW entry, NEW n \in Nat, NEW N \in Nat,
           DOMAIN list = 0 .. n - 1, at \in SUBSET (0 .. N)
    PROVE  Filled(list, at, entry, RegisterFunc(list, at, entry))
<1> DEFINE r == RegisterFunc(list, at, entry)
<1>1. CASE at = {}
  <2>1. r = list
    BY <1>1 DEF RegisterFunc
  <2>2. \A j \in DOMAIN list : j \in DOMAIN list \ at
    BY <1>1
  <2> QED BY <1>1, <2>1, <2>2 DEF Filled
<1>2. CASE at # {}
  <2> DEFINE S == DOMAIN list \cup at
             M == Max(S)
  <2>0. N + n \in Nat
    OBVIOUS
  <2>1. S \in SUBSET (0 .. N + n) /\ S # {}
    BY <1>2
  <2> HIDE DEF S
  <2>2. M \in S /\ \A y \in S : y <= M
    BY <2>0, <2>1, MaxExists
  <2>3. M \in Nat
    <3>1. M \in 0 .. N + n
      BY <2>1, <2>2
    <3> QED BY <2>0, <3>1
  <2>4. r = [j \in 0 .. M |-> IF j \in at THEN entry
                              ELSE IF j \in DOMAIN list THEN list[j] ELSE NoFunc]
    BY <1>2, Zenon DEF RegisterFunc, S
  <2>5. S \subseteq 0 .. M
    <3> SUFFICES ASSUME NEW y \in S PROVE y \in 0 .. M
      OBVIOUS
    <3> HIDE DEF M
    <3>1. y \in 0 .. N + n /\ y <= M
      BY <2>1, <2>2
    <3> QED BY <2>0, <2>3, <3>1
  <2> HIDE DEF r, M
  <2>6. DOMAIN r = 0 .. (M + 1) - 1 /\ M + 1 \in Nat
    BY <2>3, <2>4
  <2>7. at \subseteq DOMAIN r /\ DOMAIN list \subseteq DOMAIN r
    BY <2>4, <2>5 DEF S
  <2>8. \A j \in DOMAIN r :
                \/ j \in at /\ r[j] = entry
                \/ j \in DOMAIN list \ at /\ r[j] = list[j]
                \/ j \notin DOMAIN list \cup at /\ r[j] = NoFunc
    BY <2>4
  <2>9. \E k \in Nat : DOMAIN r = 0 .. k - 1
    BY <2>6
  <2> QED BY <2>7, <2>8, <2>9 DEF r, Filled
<1> QED BY <1>1, <1>2

\* What one list of types has become in another: nothing moves.
Grown(s, t) ==
    /\ t \in Seq(Labels)
    /\ \A i, j \in DOMAIN t : t[i] = t[j] => i = j
    /\ Len(s) <= Len(t)
    /\ \A i \in 1 .. Len(s) : t[i] = s[i]

\* hclib_add_known_locale_type makes a name known and moves no other.
LEMMA AddTypeGrows ==
    ASSUME NEW s \in Seq(Labels), NEW t, Grown(s, t), NEW lbl \in Labels
    PROVE  /\ Grown(s, AddType(t, lbl)) /\ Grown(t, AddType(t, lbl))
           /\ lbl \in Range(AddType(t, lbl))
<1> DEFINE u == AddType(t, lbl)
<1>0. t \in Seq(Labels) /\ Len(s) \in Nat /\ Len(t) \in Nat /\ Len(s) <= Len(t)
  BY DEF Grown
<1>1. CASE lbl \in Range(t)
  <2>1. u = t
    BY <1>1 DEF AddType
  <2>2. Grown(t, t)
    BY <1>0 DEF Grown
  <2> QED BY <1>1, <2>1, <2>2
<1>2. CASE lbl \notin Range(t)
  <2>1. u = Append(t, lbl)
    BY <1>2 DEF AddType
  <2>2. \A i \in DOMAIN t : t[i] # lbl
    BY <1>2 DEF Range
  <2>3. /\ u \in Seq(Labels) /\ Len(u) = Len(t) + 1 /\ u[Len(t) + 1] = lbl
        /\ \A i \in 1 .. Len(t) : u[i] = t[i]
    BY <1>0, <2>1, AppendProperties
  <2>4. DOMAIN u = 1 .. Len(t) + 1 /\ DOMAIN t = 1 .. Len(t)
    BY <1>0, <2>3
  <2> HIDE DEF u
  <2>5. \A i, j \in DOMAIN u : u[i] = u[j] => i = j
    <3>1. \A i, j \in 1 .. Len(t) : t[i] = t[j] => i = j
      BY <2>4 DEF Grown
    <3>2. \A i \in 1 .. Len(t) : u[i] # u[Len(t) + 1]
      BY <2>2, <2>3, <2>4
    <3>3. \A i \in DOMAIN u : i \in 1 .. Len(t) \/ i = Len(t) + 1
      BY <1>0, <2>4
    <3> QED BY <2>3, <3>1, <3>2, <3>3
  <2>6. lbl \in Range(u)
    <3>1. Len(t) + 1 \in DOMAIN u
      BY <1>0, <2>4
    <3> QED BY <2>3, <3>1 DEF Range
  <2>7. \A i \in 1 .. Len(s) : i \in 1 .. Len(t) /\ u[i] = s[i]
    <3>1. \A i \in 1 .. Len(s) : i \in 1 .. Len(t)
      BY <1>0
    <3> QED BY <2>3, <3>1 DEF Grown
  <2>8. Len(t) <= Len(u) /\ Len(s) <= Len(u)
    BY <1>0, <2>3
  <2> QED BY <2>3, <2>5, <2>6, <2>7, <2>8 DEF Grown, u
<1> QED BY <1>1, <1>2

\* The place of a known name.
LEMMA TypeOfPlace ==
    ASSUME NEW t \in Seq(Labels), NEW lbl \in Range(t)
    PROVE  TypeOf(lbl, t) \in 0 .. Len(t) - 1 /\ t[TypeOf(lbl, t) + 1] = lbl
<1>1. PICK j \in 1 .. Len(t) : t[j] = lbl
  BY DEF Range
<1>2. \E i \in 0 .. Len(t) - 1 : t[i + 1] = lbl
  <2>1. j - 1 \in 0 .. Len(t) - 1 /\ t[(j - 1) + 1] = lbl
    BY <1>1
  <2> QED BY <2>1
<1> QED BY <1>2, Zenon DEF TypeOf

\* A list that has grown keeps its names.
LEMMA GrownRange ==
    ASSUME NEW s \in Seq(Labels), NEW t, Grown(s, t)
    PROVE  Range(s) \subseteq Range(t)
<1> SUFFICES ASSUME NEW i \in 1 .. Len(s) PROVE s[i] \in Range(t)
  BY DEF Range
<1>1. t \in Seq(Labels) /\ Len(s) \in Nat /\ Len(t) \in Nat /\ Len(s) <= Len(t) /\ t[i] = s[i]
  BY DEF Grown
<1>2. i \in DOMAIN t
  BY <1>1
<1> QED BY <1>1, <1>2 DEF Range

\* The pre-initialisation of a module makes its types known and moves none.
LEMMA AddTypesGrows ==
    ASSUME NameInv, NEW m \in Modules
    PROVE  Grown(known, AddTypes(m)) /\ LocaleTypes(m) \subseteq Range(AddTypes(m))
<1>0. /\ "L1" \in Labels /\ "L2" \in Labels /\ "L3" \in Labels /\ "sysmem" \in Labels
      /\ "GPU" \in Labels /\ "Interconnect" \in Labels
  BY DEF Labels
<1>1. known \in Seq(Labels) /\ Grown(known, known)
  BY DEF NameInv, Grown
<1>7. \A t : Grown(known, t) => \A lbl \in Labels :
        /\ Grown(known, AddType(t, lbl)) /\ Grown(t, AddType(t, lbl))
        /\ lbl \in Range(AddType(t, lbl))
  BY <1>1, AddTypeGrows
<1>2. CASE m = "system"
  <2> DEFINE a == AddType(known, "L1")
             b == AddType(a, "L2")
             c == AddType(b, "L3")
             d == AddType(c, "sysmem")
  <2>1. AddTypes(m) = d /\ LocaleTypes(m) = {"L1", "L2", "L3", "sysmem"}
    BY <1>2 DEF AddTypes, LocaleTypes
  <2> HIDE DEF a, b, c, d
  <2>2. Grown(known, a) /\ "L1" \in Range(a)
    BY <1>0, <1>1, <1>7 DEF a
  <2>3. Grown(known, b) /\ Grown(a, b) /\ "L2" \in Range(b)
    BY <1>0, <1>7, <2>2 DEF b
  <2>4. Grown(known, c) /\ Grown(b, c) /\ "L3" \in Range(c)
    BY <1>0, <1>7, <2>3 DEF c
  <2>5. Grown(known, d) /\ Grown(c, d) /\ "sysmem" \in Range(d)
    BY <1>0, <1>7, <2>4 DEF d
  <2>6. a \in Seq(Labels) /\ b \in Seq(Labels) /\ c \in Seq(Labels)
    BY <2>2, <2>3, <2>4 DEF Grown
  <2>7. Range(a) \subseteq Range(b) /\ Range(b) \subseteq Range(c) /\ Range(c) \subseteq Range(d)
    BY <2>3, <2>4, <2>5, <2>6, GrownRange
  <2> QED BY <2>1, <2>2, <2>3, <2>4, <2>5, <2>7
<1>3. CASE m = "cuda"
  <2>1. AddTypes(m) = AddType(known, "GPU") /\ LocaleTypes(m) = {"GPU"}
    BY <1>3 DEF AddTypes, LocaleTypes
  <2> QED BY <1>0, <1>1, <1>7, <2>1
<1>4. CASE m \in {"mpi", "sos"}
  <2>1. AddTypes(m) = AddType(known, "Interconnect") /\ LocaleTypes(m) = {"Interconnect"}
    BY <1>4 DEF AddTypes, LocaleTypes
  <2> QED BY <1>0, <1>1, <1>7, <2>1
<1>5. CASE m = "custom"
  <2>1. AddTypes(m) = AddType(known, "sysmem") /\ LocaleTypes(m) = {"sysmem"}
    BY <1>5 DEF AddTypes, LocaleTypes
  <2> QED BY <1>0, <1>1, <1>7, <2>1
<1> QED BY <1>2, <1>3, <1>4, <1>5, ModulesAssumption

\* The next module joins those before it.
LEMMA BeforeNext ==
    ASSUME registered \in Seq(Modules), next \in 1 .. Len(registered)
    PROVE  /\ registered[next] \in Modules
           /\ Before(next + 1) = Before(next) \cup {registered[next]}
           /\ next = Len(registered) => Range(registered) = Before(next) \cup {registered[next]}
           /\ Before(1) = {} /\ Before(next) \subseteq Range(registered)
<1>1. DOMAIN registered = 1 .. Len(registered) /\ Len(registered) \in Nat /\ next \in Nat
  OBVIOUS
<1>2. registered[next] \in Modules
  OBVIOUS
<1>3. \A i \in DOMAIN registered : i < next + 1 <=> (i < next \/ i = next)
  BY <1>1
<1>4. Before(next + 1) = Before(next) \cup {registered[next]}
  BY <1>1, <1>3 DEF Before
<1>5. ASSUME next = Len(registered)
      PROVE  Range(registered) = Before(next) \cup {registered[next]}
  <2>1. \A i \in DOMAIN registered : i < next + 1
    BY <1>1, <1>5
  <2>2. Range(registered) = Before(next + 1)
    BY <2>1 DEF Before, Range
  <2> QED BY <1>4, <2>2
<1>6. Before(1) = {}
  BY <1>1 DEF Before
<1>7. Before(next) \subseteq Range(registered)
  BY DEF Before, Range
<1> QED BY <1>2, <1>4, <1>5, <1>6, <1>7

-----------------------------------------------------------------------------
(* The steps of the launch *)

\* What a step of the launch leaves alone.
Idle == UNCHANGED <<setup, program, pc, status, memory, running, atomic>>

\* The calls are not touched before the program runs.
LEMMA IdleKeeps ==
    ASSUME CallInv, Served, Idle
    PROVE  CallInv' /\ Served'
BY DEF CallInv, Served, Idle, memory, Calls, Owners

LEMMA InitIInv == Init => IInv
<1> SUFFICES ASSUME Init PROVE IInv
  OBVIOUS
<1>0. setup \in Setups /\ program \in Programs /\ setup.modules \in Seq(Modules)
      /\ setup.modules # <<>>
  BY SetupsAssumption DEF Init
<1>1. RegInv
  <2>1. registered = <<>> /\ next = 1 /\ stage = "load"
    BY DEF Init
  <2>2. Len(setup.modules) \in Nat /\ Len(setup.modules) >= 1
    BY <1>0
  <2>3. Range(registered) = {} /\ {setup.modules[j] : j \in 1 .. next - 1} = {}
    BY <2>1 DEF Range
  <2> QED BY <1>0, <2>1, <2>2, <2>3 DEF RegInv
<1>2. Named = {} /\ Posted = {}
  BY DEF Init, Named, Posted
<1>3. NameInv
  BY <1>2 DEF Init, NameInv, Modules
<1>4. ListInv
  <2>1. \A k \in Kinds : lists[k] = <<>> /\ DOMAIN lists[k] = 0 .. 0 - 1
    BY DEF Init
  <2> QED BY <1>2, <2>1 DEF Init, ListInv
<1>5. StateInv /\ NicInv
  BY <1>2 DEF Init, StateInv, NicInv
<1>6. CallInv
  BY <1>0, ProgramsAssumption DEF Init, CallInv, Calls
<1>7. Served /\ AbortJustified
  BY DEF Init, Served, AbortJustified, Calls
<1> QED BY <1>1, <1>3, <1>4, <1>5, <1>6, <1>7 DEF IInv

\* A module that is loaded registers once.
LEMMA LoadIInv ==
    ASSUME IInv, hclib_add_module_init_function
    PROVE  IInv'
<1> PICK m : m = setup.modules[next]
  OBVIOUS
<1>0. /\ stage = "load" /\ RegInv /\ NameInv /\ ListInv /\ StateInv /\ NicInv /\ CallInv /\ Served
      /\ registered' = IF m \in Range(registered) THEN registered ELSE Append(registered, m)
      /\ UNCHANGED <<setup, program, known, ids, type, metadata, lists, offset, module_state, nic>>
      /\ Idle
      /\ IF next < Len(setup.modules)
         THEN next' = next + 1 /\ UNCHANGED stage
         ELSE next' = 1 /\ stage' = "pre"
  BY DEF IInv, hclib_add_module_init_function, Turn, Idle
<1>1. /\ setup.modules \in Seq(Modules) /\ registered \in Seq(Modules)
      /\ next \in 1 .. Len(setup.modules) /\ m \in Modules
      /\ Range(registered) = {setup.modules[j] : j \in 1 .. next - 1}
  BY <1>0, SetupsAssumption DEF RegInv
<1>2. /\ registered' \in Seq(Modules)
      /\ Range(registered)' = Range(registered) \cup {m}
      /\ \A i, j \in DOMAIN registered' : registered'[i] = registered'[j] => i = j
  <2>1. CASE m \in Range(registered)
    BY <1>0, <1>1, <2>1 DEF RegInv, Range
  <2>2. CASE m \notin Range(registered)
    <3>1. registered' = Append(registered, m)
      BY <1>0, <2>2
    <3>2. /\ registered' \in Seq(Modules) /\ Len(registered') = Len(registered) + 1
          /\ registered'[Len(registered) + 1] = m
          /\ \A i \in 1 .. Len(registered) : registered'[i] = registered[i]
      BY <1>1, <3>1, AppendProperties
    <3>3. /\ DOMAIN registered = 1 .. Len(registered) /\ Len(registered) \in Nat
          /\ DOMAIN registered' = 1 .. Len(registered) + 1
      BY <1>1, <3>2
    <3>4. \A i \in DOMAIN registered' : i \in DOMAIN registered \/ i = Len(registered) + 1
      BY <3>3
    <3>5. \A i \in DOMAIN registered : registered'[i] # m
      BY <2>2, <3>2, <3>3 DEF Range
    <3>6. \A i, j \in DOMAIN registered' : registered'[i] = registered'[j] => i = j
      BY <1>0, <3>2, <3>3, <3>4, <3>5 DEF RegInv
    <3>7. Range(registered)' = Range(registered) \cup {m}
      <4>1. \A i \in DOMAIN registered : i \in DOMAIN registered'
        BY <3>3
      <4>2. Len(registered) + 1 \in DOMAIN registered'
        BY <3>3
      <4> QED BY <3>2, <3>3, <3>4, <4>1, <4>2 DEF Range
    <3> QED BY <3>2, <3>6, <3>7
  <2> QED BY <2>1, <2>2
<1>3. Range(registered)' = {setup.modules[j] : j \in 1 .. next}
  <2>1. \A j \in 1 .. next : j \in 1 .. next - 1 \/ j = next
    BY <1>1
  <2>2. \A j \in 1 .. next - 1 : j \in 1 .. next
    BY <1>1
  <2>3. next \in 1 .. next
    BY <1>1
  <2> QED BY <1>1, <1>2, <2>1, <2>2, <2>3
<1>4. RegInv'
  <2>1. CASE next < Len(setup.modules)
    <3>1. next' = next + 1 /\ stage' = "load" /\ setup' = setup /\ program' = program
      BY <1>0, <2>1 DEF Idle
    <3>2. next' \in Nat \ {0} /\ next' <= Len(setup.modules) /\ next' - 1 = next
      BY <1>1, <2>1, <3>1
    <3> QED BY <1>0, <1>2, <1>3, <3>1, <3>2 DEF RegInv
  <2>2. CASE ~(next < Len(setup.modules))
    <3>1. next' = 1 /\ stage' = "pre" /\ setup' = setup /\ program' = program
      BY <1>0, <2>2 DEF Idle
    <3>2. next = Len(setup.modules) /\ DOMAIN setup.modules = 1 .. next
      BY <1>1, <2>2
    <3>3. Range(registered)' = Range(setup.modules)
      BY <1>3, <3>2 DEF Range
    <3>4. 1 <= Len(registered)'
      <4>1. PICK i \in DOMAIN registered' : TRUE
        BY <1>2 DEF Range
      <4> QED BY <1>2, <4>1
    <3> QED BY <1>0, <1>2, <3>1, <3>3, <3>4 DEF RegInv
  <2> QED BY <2>1, <2>2
<1>5. stage' \in {"load", "pre"}
  BY <1>0
<1>6. Named' = {} /\ Posted = {} /\ Posted' = {}
  <2>1. CASE stage' = "load"
    BY <1>0, <2>1 DEF Named, Posted
  <2>2. CASE stage' = "pre"
    <3>1. next' = 1
      BY <1>0, <2>2
    <3>2. Before(next)' = {}
      BY <1>2, <3>1 DEF Before
    <3> QED BY <1>0, <2>2, <3>2 DEF Named, Posted
  <2> QED BY <1>5, <2>1, <2>2
<1>7. NameInv'
  BY <1>0, <1>5, <1>6 DEF NameInv, Idle
<1>8. ListInv'
  BY <1>0, <1>5, <1>6 DEF ListInv
<1>9. StateInv' /\ NicInv'
  BY <1>0, <1>5, <1>6 DEF StateInv, NicInv
<1>10. CallInv' /\ Served' /\ AbortJustified'
  BY <1>0, <1>5, IdleKeeps DEF AbortJustified
<1> QED BY <1>4, <1>7, <1>8, <1>9, <1>10 DEF IInv

\* A module names its types: what stood for another name still does.
LEMMA PreInitIInv ==
    ASSUME IInv, PreInit
    PROVE  IInv'
<1> PICK m : m = registered[next]
  OBVIOUS
<1> PICK types : types = AddTypes(m)
  OBVIOUS
<1>0. /\ stage = "pre" /\ RegInv /\ NameInv /\ ListInv /\ StateInv /\ NicInv /\ CallInv /\ Served
      /\ known' = types
      /\ ids' = [ids EXCEPT ![m] = [lbl \in LocaleTypes(m) |-> TypeOf(lbl, types)]]
      /\ lists' = IF m = "cuda"
                  THEN [lists EXCEPT !["metadata"] =
                          RegisterFunc(@, {TypeOf("GPU", types)},
                                       [fptr |-> m, priority |-> "may"])]
                  ELSE lists
      /\ UNCHANGED <<registered, type, metadata, offset, module_state, nic>>
      /\ Idle
      /\ IF next < Len(registered)
         THEN next' = next + 1 /\ UNCHANGED stage
         ELSE next' = 1 /\ stage' = "graph"
  BY DEF IInv, PreInit, Turn, Idle
<1>1. /\ registered \in Seq(Modules) /\ next \in 1 .. Len(registered) /\ m \in Modules
      /\ Before(next + 1) = Before(next) \cup {m}
      /\ next = Len(registered) => Range(registered) = Before(next) \cup {m}
  <2>1. registered \in Seq(Modules) /\ next \in 1 .. Len(registered)
    BY <1>0 DEF RegInv
  <2> QED BY <2>1, BeforeNext
<1>2. /\ Grown(known, types) /\ LocaleTypes(m) \subseteq Range(types)
      /\ types \in Seq(Labels) /\ known \in Seq(Labels)
      /\ Len(types) \in Nat /\ Len(known) \in Nat /\ Len(known) <= Len(types)
      /\ \A i \in 1 .. Len(known) : types[i] = known[i]
  BY <1>0, <1>1, AddTypesGrows DEF Grown, NameInv
<1>3. RegInv' /\ stage' \in {"pre", "graph"}
  <2>1. CASE next < Len(registered)
    <3>1. next' = next + 1 /\ stage' = "pre" /\ setup' = setup /\ program' = program
      BY <1>0, <2>1 DEF Idle
    <3>2. next' \in Nat \ {0} /\ next' <= Len(registered)
      BY <1>1, <2>1, <3>1
    <3> QED BY <1>0, <3>1, <3>2 DEF RegInv
  <2>2. CASE ~(next < Len(registered))
    <3>1. next' = 1 /\ stage' = "graph" /\ setup' = setup /\ program' = program
      BY <1>0, <2>2 DEF Idle
    <3>2. 1 <= Len(registered)
      BY <1>1
    <3> QED BY <1>0, <3>1, <3>2 DEF RegInv
  <2> QED BY <2>1, <2>2
<1>4. Named = Before(next) /\ Named' = Before(next) \cup {m} /\ Posted = {} /\ Posted' = {}
  <2>1. CASE next < Len(registered)
    <3>1. Before(next)' = Before(next + 1)
      BY <1>0, <2>1 DEF Before
    <3> QED BY <1>0, <1>1, <2>1, <3>1 DEF Named, Posted
  <2>2. CASE ~(next < Len(registered))
    <3>1. next = Len(registered) /\ Range(registered)' = Range(registered)
      BY <1>0, <1>1, <2>2
    <3> QED BY <1>0, <1>1, <2>2, <3>1 DEF Named, Posted
  <2> QED BY <2>1, <2>2
<1>5. \A x \in 0 .. Len(known) - 1 : x \in 0 .. Len(types) - 1 /\ types[x + 1] = known[x + 1]
  BY <1>2
<1>6. \A lbl \in LocaleTypes(m) :
        TypeOf(lbl, types) \in 0 .. Len(types) - 1 /\ types[TypeOf(lbl, types) + 1] = lbl
  BY <1>2, TypeOfPlace
<1>7. NameInv'
  <2>1. known' \in Seq(Labels) /\ \A i, j \in DOMAIN known' : known'[i] = known'[j] => i = j
    BY <1>0, <1>2 DEF Grown
  <2>2. DOMAIN ids' = Modules
    BY <1>0 DEF NameInv
  <2>3. \A n \in Modules : n # m => ids'[n] = ids[n]
    BY <1>0 DEF NameInv
  <2>4. ids'[m] = [lbl \in LocaleTypes(m) |-> TypeOf(lbl, types)]
    BY <1>0, <1>1 DEF NameInv
  <2>5. ASSUME NEW n \in Modules
        PROVE  /\ DOMAIN ids'[n] \subseteq LocaleTypes(n)
               /\ \A lbl \in DOMAIN ids'[n] :
                    ids'[n][lbl] \in 0 .. Len(types) - 1 /\ types[ids'[n][lbl] + 1] = lbl
    <3>1. CASE n = m
      BY <1>6, <2>4, <3>1
    <3>2. CASE n # m
      <4>1. /\ DOMAIN ids[n] \subseteq LocaleTypes(n)
            /\ \A lbl \in DOMAIN ids[n] :
                ids[n][lbl] \in 0 .. Len(known) - 1 /\ known[ids[n][lbl] + 1] = lbl
        BY <1>0 DEF NameInv
      <4> QED BY <1>5, <2>3, <3>2, <4>1
    <3> QED BY <3>1, <3>2
  <2>6. \A n \in Named' : DOMAIN ids'[n] = LocaleTypes(n)
    <3> SUFFICES ASSUME NEW n \in Before(next) \cup {m}
                 PROVE  DOMAIN ids'[n] = LocaleTypes(n)
      BY <1>4
    <3>1. CASE n = m
      BY <2>4, <3>1
    <3>2. CASE n # m
      <4>1. n \in Named /\ n \in Modules
        BY <1>1, <1>4, <3>2 DEF Before
      <4> QED BY <1>0, <2>3, <3>2, <4>1 DEF NameInv
    <3> QED BY <3>1, <3>2
  <2>7. \A l \in DOMAIN type :
            type[l] \in 0 .. Len(types) - 1 /\ types[type[l] + 1] = setup.graph[l]
    BY <1>0, <1>5 DEF NameInv
  <2>8. type' = type /\ setup' = setup /\ known' = types
    BY <1>0 DEF Idle
  <2>9. \A l \in DOMAIN type' :
            type'[l] \in 0 .. Len(known') - 1 /\ known'[type'[l] + 1] = setup'.graph[l]
    BY <2>7, <2>8
  <2>10. \A n \in Modules :
            /\ DOMAIN ids'[n] \subseteq LocaleTypes(n)
            /\ \A lbl \in DOMAIN ids'[n] :
                ids'[n][lbl] \in 0 .. Len(known') - 1 /\ known'[ids'[n][lbl] + 1] = lbl
    BY <2>5, <2>8
  <2> QED BY ONLY <1>3, <2>1, <2>2, <2>6, <2>9, <2>10 DEF NameInv, Modules
<1>8. ListInv'
  <2>1. /\ DOMAIN lists' = Kinds
        /\ \A k \in Kinds \ {"metadata"} : lists'[k] = lists[k]
    BY <1>0 DEF ListInv
  <2>2. \A k \in Kinds : \E n \in Nat : DOMAIN lists'[k] = 0 .. n - 1
    <3> SUFFICES ASSUME NEW k \in Kinds PROVE \E n \in Nat : DOMAIN lists'[k] = 0 .. n - 1
      OBVIOUS
    <3>1. PICK n \in Nat : DOMAIN lists[k] = 0 .. n - 1
      BY <1>0 DEF ListInv
    <3>2. CASE k = "metadata" /\ m = "cuda"
      <4> DEFINE i == TypeOf("GPU", types)
                 e == [fptr |-> m, priority |-> "may"]
      <4>1. i \in 0 .. Len(types)
        <5>1. "GPU" \in LocaleTypes(m)
          BY <3>2 DEF LocaleTypes
        <5>2. i \in 0 .. Len(types) - 1
          BY <1>6, <5>1
        <5> HIDE DEF i
        <5> QED BY <1>2, <5>2
      <4>2. lists'[k] = RegisterFunc(lists[k], {i}, e)
        BY <1>0, <3>2 DEF ListInv
      <4> HIDE DEF i, e
      <4>3. {i} \in SUBSET (0 .. Len(types))
        BY <4>1
      <4>4. \E h \in Nat : DOMAIN RegisterFunc(lists[k], {i}, e) = 0 .. h - 1
        BY <1>2, <3>1, <4>3, RegisterFuncAt DEF Filled
      <4> QED BY <4>2, <4>4
    <3>3. CASE k # "metadata" \/ m # "cuda"
      <4>1. lists'[k] = lists[k]
        BY <1>0, <2>1, <3>3
      <4> QED BY <3>1, <4>1
    <3> QED BY <3>2, <3>3
  <2>3. \A k \in Kinds \ {"metadata"} : \A i \in DOMAIN lists'[k] : lists'[k][i].fptr = NULL
    BY <1>0, <1>4, <2>1 DEF ListInv
  <2> QED BY <1>4, <2>1, <2>2, <2>3 DEF ListInv
<1>9. StateInv' /\ NicInv'
  BY <1>0, <1>3, <1>4 DEF StateInv, NicInv
<1>10. CallInv' /\ Served' /\ AbortJustified'
  BY <1>0, <1>3, IdleKeeps DEF AbortJustified
<1> QED BY <1>3, <1>7, <1>8, <1>9, <1>10 DEF IInv

\* The locales of the graph get the numbers of the types they are labelled
\* with.
LEMMA LoadGraphIInv ==
    ASSUME IInv, LoadGraph
    PROVE  IInv'
<1>0. /\ stage = "graph" /\ RegInv /\ NameInv /\ ListInv /\ StateInv /\ NicInv /\ CallInv /\ Served
      /\ \A l \in Locales : setup.graph[l] \in Range(known)
      /\ type' = [l \in Locales |-> TypeOf(setup.graph[l], known)]
      /\ stage' = "post" /\ next' = 1
      /\ UNCHANGED <<registered, known, ids, lists, offset, module_state, nic>>
      /\ Idle
  BY DEF IInv, LoadGraph, Idle
<1>1. registered \in Seq(Modules) /\ next \in 1 .. Len(registered) /\ known \in Seq(Labels)
  BY <1>0 DEF RegInv, NameInv
<1>2. RegInv'
  <2>1. 1 <= Len(registered)
    BY <1>1
  <2> QED BY <1>0, <2>1 DEF RegInv, Idle
<1>3. Named' = Named /\ Posted = {} /\ Posted' = {}
  <2>1. Before(next)' = {}
    BY <1>0, <1>1 DEF Before
  <2> QED BY <1>0, <2>1 DEF Named, Posted
<1>4. NameInv'
  <2>1. \A l \in Locales : type'[l] \in 0 .. Len(known) - 1 /\ known[type'[l] + 1] = setup.graph[l]
    BY <1>0, <1>1, TypeOfPlace
  <2>2. DOMAIN type' = Locales /\ Locales' = Locales /\ setup' = setup
    BY <1>0 DEF Idle, Locales
  <2> QED BY <1>0, <1>3, <2>1, <2>2 DEF NameInv
<1>5. ListInv'
  BY <1>0, <1>3 DEF ListInv
<1>6. StateInv' /\ NicInv'
  BY <1>0, <1>3 DEF StateInv, NicInv
<1>7. CallInv' /\ Served' /\ AbortJustified'
  BY <1>0, IdleKeeps DEF AbortJustified
<1> QED BY <1>2, <1>4, <1>5, <1>6, <1>7 DEF IInv

\* A number in the statics of two modules stands for a name of both.
LEMMA NameOf ==
    ASSUME NameInv, NEW m \in Modules, NEW i \in Range(ids[m])
    PROVE  i \in 0 .. Len(known) - 1 /\ known[i + 1] \in LocaleTypes(m)
<1>1. PICK lbl \in DOMAIN ids[m] : i = ids[m][lbl]
  BY DEF Range
<1> QED BY <1>1 DEF NameInv

\* The modules have functions for memory only.
LEMMA ProvidesKinds ==
    ASSUME NEW m \in Modules
    PROVE  Provides(m) \subseteq Kinds \ {"metadata"}
BY DEF Provides, Kinds

\* Modules that have come to their initialisation are modules.
LEMMA PostedModules ==
    ASSUME RegInv
    PROVE  Posted \subseteq Modules /\ Posted \subseteq Range(setup.modules)
<1>1. CASE stage \in {"load", "pre", "graph", "abort"}
  BY <1>1 DEF Posted
<1>2. CASE stage \notin {"load", "pre", "graph", "abort"}
  <2>1. Posted \subseteq Range(registered)
    BY <1>2 DEF Posted, Before, Range
  <2>2. Range(registered) \subseteq Modules
    BY DEF RegInv, Range
  <2>3. Range(registered) = Range(setup.modules)
    BY <1>2 DEF RegInv
  <2> QED BY <2>1, <2>2, <2>3
<1> QED BY <1>1, <1>2

\* The module whose turn it is has not been initialised.
LEMMA NotPosted ==
    ASSUME RegInv, stage = "post"
    PROVE  /\ registered[next] \in Modules /\ registered[next] \in Range(setup.modules)
           /\ registered[next] \notin Posted
<1>1. registered \in Seq(Modules) /\ next \in 1 .. Len(registered)
  BY DEF RegInv
<1>2. next \in DOMAIN registered /\ registered[next] \in Modules
  BY <1>1
<1>3. registered[next] \in Range(setup.modules)
  <2>1. registered[next] \in Range(registered)
    BY <1>2 DEF Range
  <2> QED BY <2>1 DEF RegInv
<1>4. registered[next] \notin Before(next)
  <2> SUFFICES ASSUME NEW j \in DOMAIN registered, j < next, registered[j] = registered[next] PROVE FALSE
    BY DEF Before
  <2>1. j = next
    BY <1>2 DEF RegInv
  <2> QED BY <1>1, <2>1
<1> QED BY <1>2, <1>3, <1>4 DEF Posted

\* A module that finds its entries free fills them, adds its state behind
\* that of the others, and looks up its locale.
LEMMA PostInitIInv ==
    ASSUME IInv, PostInit
    PROVE  IInv'
<1> PICK m : m = registered[next]
  OBVIOUS
<1>0. /\ stage = "post" /\ RegInv /\ NameInv /\ ListInv /\ StateInv /\ NicInv /\ CallInv /\ Served
      /\ ~Occupied(m)
      /\ lists' = RegisterAll(m)
      /\ UNCHANGED <<registered, known, ids, type, metadata>>
      /\ Idle
      /\ IF next < Len(registered)
         THEN next' = next + 1 /\ UNCHANGED stage
         ELSE next' = 1 /\ stage' = "run"
  BY DEF IInv, PostInit, Turn, Idle
<1>a. IF StateSize[m] > 0
      THEN /\ offset' = [offset EXCEPT ![m] = Len(module_state[CHOOSE w \in Workers : TRUE])]
           /\ module_state' = AddState(m)
      ELSE UNCHANGED <<offset, module_state>>
  BY DEF PostInit
<1>b. \E l : nic' = nic \/ nic' = [nic EXCEPT ![m] = l]
  BY DEF PostInit
<1>1. /\ registered \in Seq(Modules) /\ next \in 1 .. Len(registered) /\ m \in Modules
      /\ Before(next + 1) = Before(next) \cup {m}
      /\ next = Len(registered) => Range(registered) = Before(next) \cup {m}
  <2>1. registered \in Seq(Modules) /\ next \in 1 .. Len(registered)
    BY <1>0 DEF RegInv
  <2> QED BY <2>1, BeforeNext
<1>2. RegInv' /\ stage' \in {"post", "run"}
  <2>1. CASE next < Len(registered)
    <3>1. next' = next + 1 /\ stage' = "post" /\ setup' = setup /\ program' = program
      BY <1>0, <2>1 DEF Idle
    <3>2. next' \in Nat \ {0} /\ next' <= Len(registered)
      BY <1>1, <2>1, <3>1
    <3> QED BY <1>0, <3>1, <3>2 DEF RegInv
  <2>2. CASE ~(next < Len(registered))
    <3>1. next' = 1 /\ stage' = "run" /\ setup' = setup /\ program' = program
      BY <1>0, <2>2 DEF Idle
    <3>2. 1 <= Len(registered)
      BY <1>1
    <3> QED BY <1>0, <3>1, <3>2 DEF RegInv
  <2> QED BY <2>1, <2>2
<1>3. /\ Named' = Named /\ Posted = Before(next) /\ Posted' = Posted \cup {m}
      /\ m \notin Posted /\ Posted \subseteq Modules
  <2>1. Named' = Named
    BY <1>0 DEF Named
  <2>2. Posted = Before(next)
    BY <1>0 DEF Posted
  <2>3. Posted' = Before(next) \cup {m}
    <3>1. CASE next < Len(registered)
      <4>1. Before(next)' = Before(next + 1)
        BY <1>0, <3>1 DEF Before
      <4> QED BY <1>0, <1>1, <3>1, <4>1 DEF Posted
    <3>2. CASE ~(next < Len(registered))
      <4>1. next = Len(registered) /\ Range(registered)' = Range(registered)
        BY <1>0, <1>1, <3>2
      <4> QED BY <1>0, <1>1, <3>2, <4>1 DEF Posted
    <3> QED BY <3>1, <3>2
  <2>4. m \notin Posted
    BY <1>0, NotPosted
  <2>5. Posted \subseteq Modules
    BY <1>0, PostedModules
  <2> QED BY <2>1, <2>2, <2>3, <2>4, <2>5
<1>4. NameInv'
  BY <1>0, <1>2, <1>3 DEF NameInv, Idle, Locales
<1> DEFINE at == Range(ids[m])
           entry(k) == [fptr |-> m,
                        priority |-> IF m = "cuda" /\ k = "copy" THEN "must" ELSE "may"]
<1>5. /\ DOMAIN lists' = Kinds
      /\ \A k \in Kinds : k \notin Provides(m) => lists'[k] = lists[k]
      /\ \A k \in Provides(m) : lists'[k] = RegisterFunc(lists[k], at, entry(k))
  BY <1>0, <1>1, ProvidesKinds DEF RegisterAll
<1>6. Len(known) \in Nat /\ at \in SUBSET (0 .. Len(known))
  <2>1. Len(known) \in Nat
    BY <1>0 DEF NameInv
  <2>2. \A i \in at : i \in 0 .. Len(known) - 1
    BY <1>0, <1>1, NameOf
  <2> QED BY <2>1, <2>2
<1>7. \A k \in Provides(m) :
        /\ \E n \in Nat : DOMAIN lists'[k] = 0 .. n - 1
        /\ at \subseteq DOMAIN lists'[k] /\ DOMAIN lists[k] \subseteq DOMAIN lists'[k]
        /\ \A j \in DOMAIN lists'[k] :
            \/ j \in at /\ lists'[k][j] = entry(k)
            \/ j \in DOMAIN lists[k] \ at /\ lists'[k][j] = lists[k][j]
            \/ j \notin DOMAIN lists[k] \cup at /\ lists'[k][j] = NoFunc
  <2> TAKE k \in Provides(m)
  <2>1. k \in Kinds
    BY <1>1, ProvidesKinds
  <2>2. PICK n \in Nat : DOMAIN lists[k] = 0 .. n - 1
    BY <1>0, <2>1 DEF ListInv
  <2> PICK e : e = entry(k)
    OBVIOUS
  <2>3. lists'[k] = RegisterFunc(lists[k], at, e)
    BY <1>5
  <2> PICK a : a = at
    OBVIOUS
  <2> PICK list : list = lists[k]
    OBVIOUS
  <2> PICK r : r = RegisterFunc(list, a, e)
    OBVIOUS
  <2>4. Filled(list, a, e, r)
    <3>1. DOMAIN list = 0 .. n - 1 /\ a \in SUBSET (0 .. Len(known)) /\ Len(known) \in Nat
      BY <1>6, <2>2
    <3>2. r = RegisterFunc(list, a, e)
      OBVIOUS
    <3> QED BY ONLY <3>1, <3>2, n \in Nat, RegisterFuncAt, Zenon
  <2>5. lists'[k] = r /\ lists[k] = list /\ at = a /\ entry(k) = e
    BY <2>3
  <2> HIDE DEF at, entry
  <2> QED BY ONLY <2>4, <2>5 DEF Filled
<1>8. \A k \in Provides(m) : \A i \in at : i \in DOMAIN lists[k] => lists[k][i].fptr = NULL
  BY <1>0 DEF Occupied, hclib_has_func_for, hclib_get_func_for
<1>9. ListInv'
  <2>1. \A k \in Kinds : \E n \in Nat : DOMAIN lists'[k] = 0 .. n - 1
    <3> TAKE k \in Kinds
    <3>1. CASE k \in Provides(m)
      BY <1>7, <3>1
    <3>2. CASE k \notin Provides(m)
      <4>1. lists'[k] = lists[k]
        BY <1>5, <3>2
      <4> QED BY <1>0, <4>1 DEF ListInv
    <3> QED BY <3>1, <3>2
  <2>2. ASSUME NEW k \in Kinds \ {"metadata"}, NEW i \in DOMAIN lists'[k],
               lists'[k][i].fptr # NULL
        PROVE  /\ lists'[k][i].fptr \in Posted'
               /\ k \in Provides(lists'[k][i].fptr)
               /\ i \in Range(ids[lists'[k][i].fptr])
               /\ k = "copy" => (lists'[k][i].priority = "must" <=> lists'[k][i].fptr = "cuda")
    <3>1. CASE k \in Provides(m) /\ i \in at
      <4>1. lists'[k][i] = entry(k)
        BY <1>7, <3>1
      <4>2. lists'[k][i].fptr = m /\ lists'[k][i].priority =
                IF m = "cuda" /\ k = "copy" THEN "must" ELSE "may"
        BY <4>1
      <4> QED BY <1>3, <3>1, <4>2
    <3>2. CASE ~(k \in Provides(m) /\ i \in at)
      <4>1. i \in DOMAIN lists[k] /\ lists'[k][i] = lists[k][i]
        <5>1. CASE k \notin Provides(m)
          BY <1>5, <5>1
        <5>2. CASE k \in Provides(m) /\ i \notin at
          <6>1. lists'[k][i] # NoFunc
            BY <2>2 DEF NoFunc
          <6> QED BY <1>7, <5>2, <6>1
        <5> QED BY <3>2, <5>1, <5>2
      <4> QED BY <1>0, <1>3, <2>2, <4>1 DEF ListInv
    <3> QED BY <3>1, <3>2
  <2>3. ASSUME NEW n \in Posted', NEW k \in Provides(n), NEW i \in Range(ids[n])
        PROVE  i \in DOMAIN lists'[k] /\ lists'[k][i].fptr = n
    <3>1. CASE n = m
      <4>1. i \in DOMAIN lists'[k] /\ lists'[k][i] = entry(k)
        BY <1>7, <2>3, <3>1
      <4> QED BY <3>1, <4>1
    <3>2. CASE n # m
      <4>1. n \in Posted /\ n # NULL /\ k \in Kinds
        BY <1>3, <2>3, <3>2, ModulesAssumption, ProvidesKinds
      <4>2. i \in DOMAIN lists[k] /\ lists[k][i].fptr = n
        BY <1>0, <2>3, <4>1 DEF ListInv
      <4>3. CASE k \notin Provides(m)
        BY <1>5, <4>1, <4>2, <4>3
      <4>4. CASE k \in Provides(m)
        <5>1. i \notin at
          BY <1>8, <4>1, <4>2, <4>4
        <5> QED BY <1>7, <4>2, <4>4, <5>1
      <4> QED BY <4>3, <4>4
    <3> QED BY <3>1, <3>2
  <2>4. ids' = ids
    BY <1>0
  <2> HIDE DEF at, entry
  <2> QED BY ONLY <1>5, <2>1, <2>2, <2>3, <2>4 DEF ListInv
<1>10. StateInv'
  <2> DEFINE v0 == CHOOSE w \in Workers : TRUE
  <2>0. v0 \in Workers
    BY WorkersAssumption
  <2> HIDE DEF v0
  <2> PICK L : L = Len(module_state[v0])
    OBVIOUS
  <2> PICK z : z = StateSize[m]
    OBVIOUS
  <2>1. /\ L \in Nat /\ z \in Nat
        /\ \A w \in Workers : module_state[w] \in Seq(Modules \cup {NULL})
                              /\ Len(module_state[w]) = L
    BY <1>0, <1>1, <2>0, ModulesAssumption DEF StateInv
  <2>2. CASE z > 0
    <3>1. offset' = [offset EXCEPT ![m] = L] /\ module_state' = AddState(m)
      BY <1>a, <2>2 DEF v0
    <3> PICK x : x = [j \in 1 .. z |-> m]
      OBVIOUS
    <3>2. x \in Seq(Modules \cup {NULL}) /\ Len(x) = z /\ \A j \in 1 .. z : x[j] = m
      BY <1>1, <2>1
    <3>3. \A w \in Workers : module_state'[w] = module_state[w] \o x
      BY <3>1 DEF AddState
    <3>4. \A w \in Workers :
            /\ module_state'[w] \in Seq(Modules \cup {NULL})
            /\ Len(module_state'[w]) = L + z
            /\ \A j \in 1 .. L : module_state'[w][j] = module_state[w][j]
            /\ \A j \in L + 1 .. L + z : module_state'[w][j] = m
      <4> TAKE w \in Workers
      <4> PICK y : y = module_state[w]
        OBVIOUS
      <4>1. y \in Seq(Modules \cup {NULL}) /\ Len(y) = L
        BY <2>1
      <4>2. /\ y \o x \in Seq(Modules \cup {NULL}) /\ Len(y \o x) = L + z
            /\ \A j \in 1 .. L + z : (y \o x)[j] = IF j <= L THEN y[j] ELSE x[j - L]
        BY <2>1, <3>2, <4>1, ConcatProperties
      <4>3. \A j \in 1 .. L : j \in 1 .. L + z /\ j <= L
        BY <2>1
      <4>4. \A j \in L + 1 .. L + z : j \in 1 .. L + z /\ ~(j <= L) /\ j - L \in 1 .. z
        BY <2>1
      <4>5. module_state'[w] = y \o x
        BY <3>3
      <4> PICK u : u = y \o x
        OBVIOUS
      <4>8. \A j \in 1 .. L + z : u[j] = IF j <= L THEN y[j] ELSE x[j - L]
        BY <4>2
      <4>6. \A j \in 1 .. L : u[j] = y[j]
        BY ONLY <4>3, <4>8, Zenon
      <4>7. \A j \in L + 1 .. L + z : u[j] = m
        BY ONLY <3>2, <4>4, <4>8, Zenon
      <4>9. u \in Seq(Modules \cup {NULL}) /\ Len(u) = L + z /\ module_state'[w] = u /\ module_state[w] = y
        BY <4>2, <4>5
      <4> QED BY ONLY <4>6, <4>7, <4>9, Zenon
    <3>5. DOMAIN module_state' = Workers /\ DOMAIN offset' = Modules
      BY <1>0, <3>1 DEF StateInv, AddState
    <3>6. ASSUME NEW n \in Posted', StateSize[n] > 0
          PROVE  /\ offset'[n] \in Nat
                 /\ \A w \in Workers :
                    /\ offset'[n] + StateSize[n] <= Len(module_state'[w])
                    /\ \A j \in offset'[n] + 1 .. offset'[n] + StateSize[n] :
                        module_state'[w][j] = n
      <4>1. CASE n = m
        <5>1. offset'[n] = L
          BY <1>0, <1>1, <3>1, <4>1 DEF StateInv
        <5>2. L + z <= L + z
          BY <2>1
        <5> QED BY <2>1, <3>4, <4>1, <5>1, <5>2
      <4>2. CASE n # m
        <5> PICK o : o = offset[n]
          OBVIOUS
        <5> PICK s : s = StateSize[n]
          OBVIOUS
        <5>1. n \in Posted /\ n \in Modules /\ s \in Nat
          BY <1>3, <3>6, <4>2, ModulesAssumption
        <5>2. o \in Nat /\ \A w \in Workers :
                /\ o + s <= L
                /\ \A j \in o + 1 .. o + s : module_state[w][j] = n
          BY <1>0, <2>1, <3>6, <5>1 DEF StateInv
        <5>3. offset'[n] = o
          BY <1>0, <3>1, <4>2, <5>1 DEF StateInv
        <5>4. \A w \in Workers : o + s <= L + z /\ \A j \in o + 1 .. o + s : j \in 1 .. L
          <6> TAKE w \in Workers
          <6>1. o + s <= L /\ o \in Nat /\ s \in Nat /\ L \in Nat /\ z \in Nat
            BY <2>1, <5>1, <5>2
          <6> QED BY ONLY <6>1
        <5> QED BY <3>4, <5>2, <5>3, <5>4
      <4> QED BY <4>1, <4>2
    <3> QED BY <3>4, <3>5, <3>6 DEF StateInv
  <2>3. CASE ~(z > 0)
    <3>1. offset' = offset /\ module_state' = module_state
      BY <1>a, <2>3
    <3>2. \A n \in Posted' : StateSize[n] > 0 => n \in Posted
      BY <1>3, <2>3
    <3> QED BY <1>0, <3>1, <3>2 DEF StateInv
  <2> QED BY <2>2, <2>3
<1>11. CallInv' /\ Served' /\ AbortJustified'
  BY <1>0, <1>2, IdleKeeps DEF AbortJustified
<1>12. NicInv'
  <2>1. DOMAIN nic = Modules /\ \A n \in Modules : n \notin Posted => nic[n] = NULL
    BY <1>0 DEF NicInv
  <2>2. DOMAIN nic' = Modules /\ \A n \in Modules : n # m => nic'[n] = nic[n]
    BY <1>b, <2>1
  <2>3. \A n \in Modules : n \notin Posted' => nic'[n] = NULL
    BY <1>3, <2>1, <2>2
  <2> QED BY <2>2, <2>3 DEF NicInv
<1> QED BY <1>2, <1>4, <1>9, <1>10, <1>11, <1>12 DEF IInv

\* The states of the workers may lose their words once the program is over.
LEMMA FinalizeIInv ==
    ASSUME IInv, Finalize
    PROVE  IInv'
<1> PICK m : m = registered[next]
  OBVIOUS
<1>0. /\ stage = "final" /\ RegInv /\ NameInv /\ ListInv /\ StateInv /\ NicInv /\ CallInv /\ Served
      /\ module_state' = IF StateSize[m] = 0 THEN module_state
                         ELSE hclib_release_per_worker_module_state(m)
      /\ UNCHANGED <<registered, known, ids, type, metadata, lists, offset, nic>>
      /\ Idle
      /\ IF next < Len(registered)
         THEN next' = next + 1 /\ UNCHANGED stage
         ELSE next' = 1 /\ stage' = "over"
  BY DEF IInv, Finalize, Turn, Idle
<1>1. registered \in Seq(Modules) /\ next \in 1 .. Len(registered)
  BY <1>0 DEF RegInv
<1>2. RegInv' /\ stage' \in {"final", "over"}
  <2>1. CASE next < Len(registered)
    <3>1. next' = next + 1 /\ stage' = "final" /\ setup' = setup /\ program' = program
      BY <1>0, <2>1 DEF Idle
    <3>2. next' \in Nat \ {0} /\ next' <= Len(registered)
      BY <1>1, <2>1, <3>1
    <3> QED BY <1>0, <3>1, <3>2 DEF RegInv
  <2>2. CASE ~(next < Len(registered))
    <3>1. next' = 1 /\ stage' = "over" /\ setup' = setup /\ program' = program
      BY <1>0, <2>2 DEF Idle
    <3>2. 1 <= Len(registered)
      BY <1>1
    <3> QED BY <1>0, <3>1, <3>2 DEF RegInv
  <2> QED BY <2>1, <2>2
<1>3. Named' = Named /\ Posted' = Posted
  BY <1>0, <1>2 DEF Named, Posted
<1>4. NameInv'
  BY <1>0, <1>2, <1>3 DEF NameInv, Idle, Locales
<1>5. ListInv' /\ NicInv'
  BY <1>0, <1>2, <1>3 DEF ListInv, NicInv
<1>6. StateInv'
  <2>1. CASE StateSize[m] = 0
    BY <1>0, <1>2, <1>3, <2>1 DEF StateInv
  <2>2. CASE StateSize[m] # 0
    <3>1. module_state' = [w \in Workers |-> [j \in DOMAIN module_state[w] |->
                              IF j \in Words(m) THEN NULL ELSE module_state[w][j]]]
      BY <1>0, <2>2 DEF hclib_release_per_worker_module_state
    <3>2. \A w \in Workers :
            /\ module_state'[w] \in Seq(Modules \cup {NULL})
            /\ Len(module_state'[w]) = Len(module_state[w])
      <4> TAKE w \in Workers
      <4> PICK x : x = module_state[w]
        OBVIOUS
      <4> PICK W : W = Words(m)
        OBVIOUS
      <4>1. module_state'[w] = [j \in DOMAIN x |-> IF j \in W THEN NULL ELSE x[j]]
        BY <3>1
      <4>2. x \in Seq(Modules \cup {NULL})
        BY <1>0 DEF StateInv
      <4> PICK y : y = [j \in 1 .. Len(x) |-> IF j \in W THEN NULL ELSE x[j]]
        OBVIOUS
      <4>3. Len(x) \in Nat /\ \A j \in 1 .. Len(x) : x[j] \in Modules \cup {NULL}
        BY <4>2
      <4>4. y \in Seq(Modules \cup {NULL}) /\ Len(y) = Len(x)
        BY ONLY <4>3, y = [j \in 1 .. Len(x) |-> IF j \in W THEN NULL ELSE x[j]]
      <4>5. DOMAIN x = 1 .. Len(x)
        BY <4>2
      <4> QED BY <4>1, <4>4, <4>5
    <3> QED BY <1>0, <1>2, <3>1, <3>2 DEF StateInv
  <2> QED BY <2>1, <2>2
<1>7. CallInv' /\ Served' /\ AbortJustified'
  BY <1>0, <1>2, IdleKeeps DEF AbortJustified
<1> QED BY <1>2, <1>4, <1>5, <1>6, <1>7 DEF IInv

-----------------------------------------------------------------------------
(* The runtime gives up *)

\* Giving up changes nothing else.
LEMMA AbortKeeps ==
    ASSUME IInv, Abort, stage # "load", AbortJustified'
    PROVE  IInv'
<1>0. /\ RegInv /\ NameInv /\ ListInv /\ StateInv /\ NicInv /\ CallInv /\ Served
      /\ UNCHANGED <<registered, known, ids, type, metadata, lists, offset, module_state, nic, next>>
      /\ Idle /\ stage' = "abort"
  BY DEF IInv, Abort, Idle, booted
<1>1. Named' = {} /\ Posted' = {}
  BY <1>0 DEF Named, Posted
<1>2. RegInv'
  BY <1>0 DEF RegInv, Idle
<1>3. NameInv'
  BY <1>0, <1>1 DEF NameInv, Idle
<1>4. ListInv' /\ StateInv' /\ NicInv'
  BY <1>0, <1>1 DEF ListInv, StateInv, NicInv
<1>5. CallInv' /\ Served'
  BY <1>0, IdleKeeps
<1> QED BY <1>2, <1>3, <1>4, <1>5 DEF IInv

\* A label that is not known is one no module has named.
LEMMA UnknownIInv ==
    ASSUME IInv, LoadGraphUnknown
    PROVE  IInv'
<1>0. stage = "graph" /\ RegInv /\ NameInv /\ Abort
  BY DEF IInv, LoadGraphUnknown
<1>1. PICK l \in Locales : setup.graph[l] \notin Range(known)
  BY DEF LoadGraphUnknown
<1>2. ASSUME NEW m \in Range(setup.modules)
      PROVE  setup.graph[l] \notin LocaleTypes(m)
  <2>1. m \in Named /\ m \in Modules
    <3>1. m \in Range(registered)
      BY <1>0, <1>2 DEF RegInv
    <3>2. Named = Range(registered)
      BY <1>0 DEF Named
    <3>3. Range(registered) \subseteq Modules
      BY <1>0 DEF RegInv, Range
    <3> QED BY <3>1, <3>2, <3>3
  <2>2. DOMAIN ids[m] = LocaleTypes(m)
    BY <1>0, <2>1 DEF NameInv
  <2>3. \A lbl \in LocaleTypes(m) :
            ids[m][lbl] \in 0 .. Len(known) - 1 /\ known[ids[m][lbl] + 1] = lbl
    BY <1>0, <2>1, <2>2 DEF NameInv
  <2>4. known \in Seq(Labels)
    BY <1>0 DEF NameInv
  <2>5. \A i \in 0 .. Len(known) - 1 : i + 1 \in DOMAIN known
    BY <2>4
  <2>6. LocaleTypes(m) \subseteq Range(known)
    BY <2>3, <2>5 DEF Range
  <2> QED BY <1>1, <2>6
<1>3. UNCHANGED setup
  BY <1>0 DEF Abort
<1>4. AbortJustified'
  BY <1>1, <1>2, <1>3 DEF AbortJustified, Locales
<1> QED BY <1>0, <1>4, AbortKeeps

\* An entry that is taken belongs to another module that serves the same.
LEMMA OccupiedIInv ==
    ASSUME IInv, PostInitOccupied
    PROVE  IInv'
<1> PICK m : m = registered[next]
  OBVIOUS
<1>0. stage = "post" /\ RegInv /\ NameInv /\ ListInv /\ Abort /\ Occupied(m)
  BY DEF IInv, PostInitOccupied
<1>1. registered \in Seq(Modules) /\ next \in DOMAIN registered /\ m \in Modules
      /\ m \in Range(setup.modules)
  <2>1. registered \in Seq(Modules) /\ next \in 1 .. Len(registered)
    BY <1>0 DEF RegInv
  <2>2. next \in DOMAIN registered
    BY <2>1
  <2>3. m \in Range(registered) /\ m \in Modules
    BY <2>1, <2>2 DEF Range
  <2> QED BY <1>0, <2>1, <2>2, <2>3 DEF RegInv
<1>2. PICK k \in Provides(m) : \E i \in Range(ids[m]) : hclib_has_func_for(lists[k], i)
  BY <1>0 DEF Occupied
<1>3. PICK i \in Range(ids[m]) : hclib_has_func_for(lists[k], i)
  BY <1>2
<1> PICK n : n = lists[k][i].fptr
  OBVIOUS
<1>4. i \in DOMAIN lists[k] /\ n # NULL
  BY <1>3 DEF hclib_has_func_for, hclib_get_func_for
<1>5. n \in Posted /\ k \in Provides(n) /\ i \in Range(ids[n])
  BY <1>0, <1>1, <1>2, <1>4, ProvidesKinds DEF ListInv
<1>6. n \in Modules /\ n \in Range(setup.modules)
  BY <1>0, <1>5, PostedModules
<1>7. n # m
  <2>1. n \in Before(next)
    BY <1>0, <1>5 DEF Posted
  <2>2. PICK j \in DOMAIN registered : j < next /\ registered[j] = n
    BY <2>1 DEF Before
  <2>3. j # next
    BY <1>1, <2>2
  <2> QED BY <1>0, <1>1, <2>2, <2>3 DEF RegInv
<1>8. known[i + 1] \in LocaleTypes(m) /\ known[i + 1] \in LocaleTypes(n)
  BY <1>0, <1>1, <1>3, <1>5, <1>6, NameOf
<1>9. UNCHANGED setup
  BY <1>0 DEF Abort
<1>10. \E a, b \in Range(setup.modules) :
            /\ a # b /\ Provides(a) \cap Provides(b) # {}
            /\ LocaleTypes(a) \cap LocaleTypes(b) # {}
  BY <1>1, <1>2, <1>5, <1>6, <1>7, <1>8
<1>11. AbortJustified'
  BY <1>9, <1>10 DEF AbortJustified
<1> QED BY <1>0, <1>11, AbortKeeps

\* A communication module that does not find its one locale is in a graph that
\* labels none or several with its type.
LEMMA NoNicIInv ==
    ASSUME IInv, PostInitNoNic
    PROVE  IInv'
<1> PICK m : m = registered[next]
  OBVIOUS
<1> PICK G : G = {l \in Locales : setup.graph[l] = "Interconnect"}
  OBVIOUS
<1>0. /\ stage = "post" /\ RegInv /\ NameInv /\ NicInv /\ Abort
      /\ m \in Comm /\ ~(Cardinality(Nics(m)) = 1 /\ nic[m] = NULL)
  BY DEF IInv, PostInitNoNic, NicFound
<1>1. m \in Modules /\ m \notin Posted /\ m \in Range(setup.modules)
  BY <1>0, NotPosted
<1>2. Cardinality(Nics(m)) # 1
  BY <1>0, <1>1 DEF NicInv
<1> PICK t : t = ids[m]["Interconnect"]
  OBVIOUS
<1>3. t \in 0 .. Len(known) - 1 /\ known[t + 1] = "Interconnect"
  <2>1. m \in Named
    <3>1. Named = Range(registered)
      BY <1>0 DEF Named
    <3> QED BY <1>0, <1>1, <3>1 DEF RegInv
  <2>2. "Interconnect" \in DOMAIN ids[m]
    BY <1>0, <2>1 DEF NameInv, LocaleTypes, Comm
  <2> QED BY <1>0, <1>1, <2>2 DEF NameInv
<1>4. ASSUME NEW l \in Locales PROVE type[l] = t <=> setup.graph[l] = "Interconnect"
  <2> PICK x : x = type[l]
    OBVIOUS
  <2>1. x \in 0 .. Len(known) - 1 /\ known[x + 1] = setup.graph[l] /\ known \in Seq(Labels)
    BY <1>0 DEF NameInv
  <2>2. x + 1 \in DOMAIN known /\ t + 1 \in DOMAIN known
    BY <1>3, <2>1
  <2>3. known[x + 1] = known[t + 1] => x + 1 = t + 1
    BY <1>0, <2>2 DEF NameInv
  <2> QED BY <1>3, <2>1, <2>3
<1>5. Nics(m) = G
  BY <1>4 DEF Nics
<1>6. UNCHANGED setup
  BY <1>0 DEF Abort
<1>7. Comm \cap Range(setup.modules) # {} /\ Cardinality(G) # 1
  BY <1>0, <1>1, <1>2, <1>5
<1>8. AbortJustified'
  BY <1>6, <1>7 DEF AbortJustified, Locales
<1> QED BY <1>0, <1>8, AbortKeeps

-----------------------------------------------------------------------------
(* The program runs *)

\* While the program runs, the function that a list has for a locale is that
\* of the one module that serves the locale, and there is none where no module
\* does.
LEMMA FoundOwner ==
    ASSUME IInv, stage = "run", NEW l \in Locales, NEW k \in Kinds \ {"metadata"}
    PROVE  /\ hclib_get_func_for(lists[k], type[l]) # NULL =>
                Owners(k, l) = {hclib_get_func_for(lists[k], type[l])}
           /\ hclib_get_func_for(lists[k], type[l]) = NULL => Owners(k, l) = {}
<1> PICK i : i = type[l]
  OBVIOUS
<1> PICK f : f = hclib_get_func_for(lists[k], i)
  OBVIOUS
<1>0. RegInv /\ NameInv /\ ListInv
  BY DEF IInv
<1>1. /\ i \in 0 .. Len(known) - 1 /\ known[i + 1] = setup.graph[l] /\ known \in Seq(Labels)
      /\ i + 1 \in DOMAIN known
  <2>1. /\ i \in 0 .. Len(known) - 1 /\ known[i + 1] = setup.graph[l] /\ known \in Seq(Labels)
    BY <1>0 DEF NameInv
  <2> QED BY <2>1
<1>2. Posted = Range(registered) /\ Named = Range(registered)
      /\ Range(registered) = Range(setup.modules)
  BY <1>0 DEF Posted, Named, RegInv
<1>3. Posted \subseteq Modules
  BY <1>0, PostedModules
<1>4. ASSUME f # NULL PROVE f \in Owners(k, l)
  <2>1. i \in DOMAIN lists[k] /\ f = lists[k][i].fptr
    BY <1>4 DEF hclib_get_func_for
  <2>2. f \in Posted /\ k \in Provides(f) /\ i \in Range(ids[f])
    BY <1>0, <1>4, <2>1 DEF ListInv
  <2>3. known[i + 1] \in LocaleTypes(f)
    BY <1>0, <1>3, <2>2, NameOf
  <2> QED BY <1>1, <1>2, <2>2, <2>3 DEF Owners
<1>5. ASSUME NEW m \in Owners(k, l) PROVE f = m /\ m # NULL
  <2>1. m \in Posted /\ m \in Named /\ m \in Modules /\ k \in Provides(m)
        /\ setup.graph[l] \in LocaleTypes(m)
    BY <1>2, <1>3 DEF Owners
  <2>2. setup.graph[l] \in DOMAIN ids[m]
    BY <1>0, <2>1 DEF NameInv
  <2> PICK x : x = ids[m][setup.graph[l]]
    OBVIOUS
  <2>3. x \in 0 .. Len(known) - 1 /\ known[x + 1] = setup.graph[l]
    BY <1>0, <2>1, <2>2 DEF NameInv
  <2>4. x + 1 \in DOMAIN known
    BY <1>1, <2>3
  <2>5. x + 1 = i + 1
    BY <1>0, <1>1, <2>3, <2>4 DEF NameInv
  <2>6. x = i
    BY <1>1, <2>3, <2>5
  <2>7. i \in Range(ids[m])
    BY <2>2, <2>6 DEF Range
  <2>8. i \in DOMAIN lists[k] /\ lists[k][i].fptr = m
    BY <1>0, <2>1, <2>7 DEF ListInv
  <2> QED BY <2>1, <2>8, ModulesAssumption DEF hclib_get_func_for
<1> QED BY <1>4, <1>5

\* What a step of the running program leaves alone.
RunStep == stage = "run" /\ UNCHANGED <<setup, program, stage, next, booted>>

LEMMA RunKeeps ==
    ASSUME IInv, RunStep, CallInv', Served'
    PROVE  IInv'
<1>0. /\ RegInv /\ NameInv /\ ListInv /\ StateInv /\ NicInv
      /\ UNCHANGED <<setup, program, stage, next, registered, known, ids, type, metadata,
                     lists, offset, module_state, nic>>
      /\ stage = "run"
  BY DEF IInv, RunStep, booted
<1>1. Named' = Named /\ Posted' = Posted
  BY <1>0 DEF Named, Posted
<1>2. RegInv' /\ NameInv'
  BY <1>0, <1>1 DEF RegInv, NameInv, Locales
<1>3. ListInv' /\ StateInv' /\ NicInv'
  BY <1>0, <1>1 DEF ListInv, StateInv, NicInv
<1>4. AbortJustified'
  BY <1>0 DEF AbortJustified
<1> QED BY <1>2, <1>3, <1>4 DEF IInv

\* The main task makes the call it has come to.
LEMMA MadeKeeps ==
    ASSUME IInv, RunStep, pc \in Calls, pc' = pc + 1, UNCHANGED running,
           NEW s \in {"queued", "done"}, status' = [status EXCEPT ![pc] = s],
           DOMAIN cb' = DOMAIN cb
    PROVE  CallInv'
<1>0. CallInv /\ Calls' = Calls /\ program \in Programs /\ Calls \subseteq Nat
  BY ProgramsAssumption DEF IInv, RunStep, Calls, RegInv
<1>1. pc \in Nat /\ pc' \in Nat
  BY <1>0 DEF CallInv
<1>2. status' \in [Calls -> {"none", "queued", "called", "done"}]
  BY <1>0 DEF CallInv
<1>3. \A i \in Calls : i >= pc' => i # pc /\ i >= pc
  BY <1>0, <1>1
<1>4. \A i \in Calls : i # pc => status'[i] = status[i]
  BY <1>0 DEF CallInv
<1>5. \A i \in Calls : i >= pc' => status'[i] = "none"
  BY <1>0, <1>3, <1>4 DEF CallInv
<1>6. status[pc] = "none"
  <2>1. pc >= pc
    BY <1>1
  <2> QED BY <1>0, <2>1 DEF CallInv
<1>7. \A w \in Workers : running[w] # NULL =>
        running[w] \in Calls /\ status'[running[w]] = "called"
  BY <1>0, <1>4, <1>6 DEF CallInv
<1> QED BY <1>0, <1>1, <1>2, <1>5, <1>7 DEF CallInv

\* A call that gives no callback to another keeps the callbacks as they were.
LEMMA ServedKeeps ==
    ASSUME Served, RunStep, UNCHANGED cb
    PROVE  Served'
BY DEF Served, RunStep, Calls, Owners

\* The callback of the call the main task has come to is that of an owner.
LEMMA ServedMade ==
    ASSUME IInv, RunStep, pc \in Calls, NEW f, cb' = [cb EXCEPT ![pc] = f],
           f # NULL => IF Call.do = "copy"
                       THEN LET both == Owners("copy", Call.at) \cup Owners("copy", Call.from) IN
                            f \in both /\ ("cuda" \in both => f = "cuda")
                       ELSE f \in Owners(Call.do, Call.at)
    PROVE  Served'
<1>0. Served /\ DOMAIN cb = Calls /\ UNCHANGED <<setup, program>>
  BY DEF IInv, CallInv, RunStep
<1>1. Calls' = Calls /\ \A k, l : Owners(k, l)' = Owners(k, l)
  BY <1>0 DEF Calls, Owners
<1>2. \A i \in Calls : i # pc => cb'[i] = cb[i]
  BY <1>0
<1>3. cb'[pc] = f
  BY <1>0
<1> SUFFICES ASSUME NEW i \in Calls, cb'[i] # NULL
             PROVE  IF program.code[i].do = "copy"
                    THEN LET both == Owners("copy", program.code[i].at)
                                     \cup Owners("copy", program.code[i].from) IN
                         cb'[i] \in both /\ ("cuda" \in both => cb'[i] = "cuda")
                    ELSE cb'[i] \in Owners(program.code[i].do, program.code[i].at)
  BY <1>0, <1>1 DEF Served
<1>4. CASE i = pc
  BY <1>3, <1>4 DEF Call
<1>5. CASE i # pc
  BY <1>0, <1>2, <1>5 DEF Served
<1> QED BY <1>4, <1>5

\* A program calls for memory at a locale of the graph.
LEMMA CallAt ==
    ASSUME IInv, pc \in Calls
    PROVE  /\ Call.do \in {"alloc", "realloc", "memset", "free", "copy"} => Call.at \in Locales
           /\ Call.do = "copy" => Call.from \in Locales
BY ProgramsAssumption DEF IInv, RegInv, Calls, Call, Locales

\* hclib_allocate_at, hclib_reallocate_at and hclib_memset_at find the
\* function of the owner.
LEMMA OffloadIInv ==
    ASSUME IInv, NEW kind \in {"alloc", "realloc", "memset"}, Offload(kind)
    PROVE  IInv'
<1> PICK f : f = hclib_get_func_for(lists[kind], type[Call.at])
  OBVIOUS
<1>0. /\ RunStep /\ pc \in Calls /\ Call.do = kind /\ pc' = pc + 1 /\ UNCHANGED running
      /\ status' = [status EXCEPT ![pc] = "queued"] /\ cb' = [cb EXCEPT ![pc] = f]
      /\ f # NULL
  BY DEF Offload, At, RunStep, hclib_has_func_for
<1>1. CallInv'
  BY <1>0, MadeKeeps
<1>2. Call.at \in Locales /\ kind \in Kinds \ {"metadata"}
  BY <1>0, CallAt DEF Kinds
<1>3. f \in Owners(kind, Call.at)
  BY <1>0, <1>2, FoundOwner DEF RunStep
<1>4. Served'
  BY <1>0, <1>3, ServedMade
<1> QED BY <1>0, <1>1, <1>4, RunKeeps

\* hclib_free_at finds the function of the owner.
LEMMA FreeIInv ==
    ASSUME IInv, hclib_free_at
    PROVE  IInv'
<1> PICK f : f = hclib_get_func_for(lists["free"], type[Call.at])
  OBVIOUS
<1>0. /\ RunStep /\ pc \in Calls /\ Call.do = "free" /\ pc' = pc + 1 /\ UNCHANGED running
      /\ status' = [status EXCEPT ![pc] = "done"] /\ cb' = [cb EXCEPT ![pc] = f]
      /\ f # NULL
  BY DEF hclib_free_at, At, RunStep, hclib_has_func_for
<1>1. CallInv'
  BY <1>0, MadeKeeps
<1>2. Call.at \in Locales /\ "free" \in Kinds \ {"metadata"}
  BY <1>0, CallAt DEF Kinds
<1>3. f \in Owners("free", Call.at)
  BY <1>0, <1>2, FoundOwner DEF RunStep
<1>4. Served'
  BY <1>0, <1>3, ServedMade
<1> QED BY <1>0, <1>1, <1>4, RunKeeps

\* A call for which there is no function is at a locale nobody serves.
LEMMA UnservedIInv ==
    ASSUME IInv, Unserved
    PROVE  IInv'
<1>0. /\ stage = "run" /\ pc \in Calls /\ Call.do \in {"alloc", "realloc", "memset", "free"}
      /\ hclib_get_func_for(lists[Call.do], type[Call.at]) = NULL /\ Abort
  BY DEF Unserved, At, hclib_has_func_for
<1>1. Call.at \in Locales /\ Call.do \in Kinds \ {"metadata"}
  BY <1>0, CallAt DEF Kinds
<1>2. Owners(Call.do, Call.at) = {}
  BY <1>0, <1>1, FoundOwner
<1>3. UNCHANGED <<setup, program, pc>>
  BY <1>0 DEF Abort
<1>4. pc' \in Calls' /\ Call'.do # "copy" /\ Owners(Call.do, Call.at)' = {}
  BY <1>0, <1>2, <1>3 DEF Calls, Call, Owners
<1>5. AbortJustified'
  BY <1>4 DEF AbortJustified
<1> QED BY <1>0, <1>5, AbortKeeps

\* A copy that no module takes is between locales nobody serves.
LEMMA CopyAbort ==
    ASSUME IInv, stage = "run", pc \in Calls, Call.do = "copy", Abort,
           hclib_get_func_for(lists["copy"], type[Call.at]) = NULL,
           hclib_get_func_for(lists["copy"], type[Call.from]) = NULL
    PROVE  IInv'
<1>1. Call.at \in Locales /\ Call.from \in Locales /\ "copy" \in Kinds \ {"metadata"}
  BY CallAt DEF Kinds
<1>2. Owners("copy", Call.at) = {} /\ Owners("copy", Call.from) = {}
  BY <1>1, FoundOwner
<1>3. UNCHANGED <<setup, program, pc>>
  BY DEF Abort
<1>4. /\ pc' \in Calls' /\ Call'.do = "copy"
      /\ (Owners("copy", Call.at) \cup Owners("copy", Call.from))' = {}
  BY <1>2, <1>3 DEF Calls, Call, Owners
<1>5. AbortJustified'
  BY <1>4 DEF AbortJustified
<1> QED BY <1>5, AbortKeeps

LEMMA CopyUnservedIInv ==
    ASSUME IInv, CopyUnserved
    PROVE  IInv'
<1>1. /\ stage = "run" /\ pc \in Calls /\ Call.do = "copy" /\ Abort
      /\ DOMAIN lists["copy"] = {}
  BY DEF CopyUnserved, At
<1>2. \A i : hclib_get_func_for(lists["copy"], i) = NULL
  BY <1>1 DEF hclib_get_func_for
<1> QED BY <1>1, <1>2, CopyAbort

\* The copy functions of cuda are the ones that must be used.
LEMMA MustBeCuda ==
    ASSUME IInv, stage = "run", NEW i, NEW p \in hclib_get_priority_for(lists["copy"], i),
           hclib_get_func_for(lists["copy"], i) # NULL
    PROVE  p = "must" <=> hclib_get_func_for(lists["copy"], i) = "cuda"
<1>1. i \in DOMAIN lists["copy"] /\ hclib_get_func_for(lists["copy"], i) = lists["copy"][i].fptr
  BY DEF hclib_get_func_for
<1>2. p = lists["copy"][i].priority
  BY <1>1 DEF hclib_get_priority_for
<1>3. ListInv /\ "copy" \in Kinds \ {"metadata"}
  BY DEF IInv, Kinds
<1> QED BY <1>1, <1>2, <1>3 DEF ListInv

\* hclib_async_copy takes the function of one of the two owners, and that of
\* cuda where cuda owns one of the locales.
LEMMA CopyIInv ==
    ASSUME IInv, hclib_async_copy
    PROVE  IInv'
<1>0. stage = "run" /\ pc \in Calls /\ Call.do = "copy"
  BY DEF hclib_async_copy, At
<1> PICK d : d = hclib_get_func_for(lists["copy"], type[Call.at])
  OBVIOUS
<1> PICK s : s = hclib_get_func_for(lists["copy"], type[Call.from])
  OBVIOUS
<1>1. PICK dp \in hclib_get_priority_for(lists["copy"], type[Call.at]),
           sp \in hclib_get_priority_for(lists["copy"], type[Call.from]) :
        LET asserted == /\ d # NULL \/ s # NULL
                        /\ \/ d = NULL \/ s = NULL \/ d = s
                           \/ dp # "must" \/ sp # "must" IN
        \/ /\ asserted
           /\ cb' = [cb EXCEPT ![pc] = CopyFunc(d, s, sp)]
           /\ status' = [status EXCEPT ![pc] = "queued"]
           /\ pc' = pc + 1
           /\ UNCHANGED <<setup, program, stage, next, booted, mem, wild, running, atomic>>
        \/ ~asserted /\ Abort
  BY DEF hclib_async_copy
<1>2. Call.at \in Locales /\ Call.from \in Locales /\ "copy" \in Kinds \ {"metadata"}
  BY <1>0, CallAt DEF Kinds
<1> DEFINE A == Owners("copy", Call.at)
           B == Owners("copy", Call.from)
<1>3. /\ A = IF d = NULL THEN {} ELSE {d}
      /\ B = IF s = NULL THEN {} ELSE {s}
  BY <1>0, <1>2, FoundOwner
<1>4. d # NULL => (dp = "must" <=> d = "cuda")
  BY <1>0, MustBeCuda
<1>5. s # NULL => (sp = "must" <=> s = "cuda")
  BY <1>0, MustBeCuda
<1> HIDE DEF A, B
<1>6. CASE d = NULL /\ s = NULL
  <2>1. Abort
    BY <1>1, <1>6
  <2> QED BY <1>0, <1>6, <2>1, CopyAbort
<1>7. CASE d # NULL \/ s # NULL
  <2> PICK f : f = CopyFunc(d, s, sp)
    OBVIOUS
  <2>1. \/ d = NULL \/ s = NULL \/ d = s \/ dp # "must" \/ sp # "must"
    BY <1>4, <1>5
  <2>2. /\ cb' = [cb EXCEPT ![pc] = f] /\ status' = [status EXCEPT ![pc] = "queued"]
        /\ pc' = pc + 1 /\ UNCHANGED running /\ RunStep
    BY <1>0, <1>1, <1>7, <2>1 DEF RunStep
  <2>3. f \in A \cup B /\ ("cuda" \in A \cup B => f = "cuda")
    BY <1>3, <1>4, <1>5, <1>7 DEF CopyFunc
  <2>4. CallInv'
    BY <1>0, <2>2, MadeKeeps
  <2>5. Served'
    BY <1>0, <2>2, <2>3, ServedMade DEF A, B
  <2> QED BY <2>2, <2>4, <2>5, RunKeeps
<1> QED BY <1>6, <1>7

\* A wait, a task that updates and a gather touch no callback.
LEMMA QuietIInv ==
    ASSUME IInv, Wait \/ SpawnUpdate \/ hclib_atomic_gather
    PROVE  IInv'
<1>1. /\ RunStep /\ pc \in Calls /\ pc' = pc + 1 /\ UNCHANGED <<running, cb>>
      /\ \E s \in {"queued", "done"} : status' = [status EXCEPT ![pc] = s]
  BY DEF Wait, SpawnUpdate, hclib_atomic_gather, At, RunStep, memory
<1>2. CallInv'
  BY <1>1, MadeKeeps
<1>3. Served'
  BY <1>1, ServedKeeps DEF IInv
<1> QED BY <1>1, <1>2, <1>3, RunKeeps

\* The end of the program leaves the lists as they are.
LEMMA JoinedIInv ==
    ASSUME IInv, Joined
    PROVE  IInv'
<1>0. /\ stage = "run" /\ RegInv /\ NameInv /\ ListInv /\ StateInv /\ NicInv /\ CallInv /\ Served
      /\ stage' = "final" /\ Idle
      /\ UNCHANGED <<next, registered, known, ids, type, metadata, lists, offset, module_state, nic>>
  BY DEF IInv, Joined, Idle, booted
<1>1. Named' = Named /\ Posted' = Posted
  BY <1>0 DEF Named, Posted
<1>2. RegInv' /\ NameInv'
  BY <1>0, <1>1 DEF RegInv, NameInv, Idle, Locales
<1>3. ListInv' /\ StateInv' /\ NicInv'
  BY <1>0, <1>1 DEF ListInv, StateInv, NicInv
<1>4. CallInv' /\ Served' /\ AbortJustified'
  BY <1>0, IdleKeeps DEF AbortJustified
<1> QED BY <1>2, <1>3, <1>4 DEF IInv

\* A worker takes a call that is queued.
LEMMA TakesIInv ==
    ASSUME IInv, NEW w \in Workers, NEW i \in Calls, Kernel(w, i) \/ UpdateRead(w, i)
    PROVE  IInv'
<1>1. /\ RunStep /\ UNCHANGED <<pc, cb>> /\ running[w] = NULL /\ status[i] = "queued"
      /\ running' = [running EXCEPT ![w] = i] /\ status' = [status EXCEPT ![i] = "called"]
  BY DEF Kernel, UpdateRead, Eligible, RunStep, CallBack, memory
<1>2. CallInv /\ Calls' = Calls /\ Served
  BY <1>1 DEF IInv, RunStep, Calls
<1>3. \A j \in Calls : j # i => status'[j] = status[j]
  BY <1>1, <1>2 DEF CallInv
<1>4. \A v \in Workers : v # w => running'[v] = running[v]
  BY <1>1, <1>2 DEF CallInv
<1>5. status'[i] = "called" /\ running'[w] = i
  BY <1>1, <1>2 DEF CallInv
<1>6. \A v \in Workers : running[v] # NULL => running[v] \in Calls /\ running[v] # i
  BY <1>1, <1>2 DEF CallInv
<1>7. status' \in [Calls -> {"none", "queued", "called", "done"}] /\ DOMAIN running' = Workers
  BY <1>1, <1>2 DEF CallInv
<1>8. \A j \in Calls : j >= pc => status'[j] = "none"
  BY <1>1, <1>2, <1>3 DEF CallInv
<1>9. \A v \in Workers : running'[v] # NULL =>
        running'[v] \in Calls /\ status'[running'[v]] = "called"
  BY <1>2, <1>3, <1>4, <1>5, <1>6 DEF CallInv
<1>10. \A u, v \in Workers : running'[v] # NULL /\ running'[v] = running'[u] => v = u
  BY <1>2, <1>4, <1>5, <1>6 DEF CallInv
<1>11. CallInv'
  BY <1>1, <1>2, <1>7, <1>8, <1>9, <1>10 DEF CallInv
<1>12. Served'
  BY <1>1, <1>2, ServedKeeps
<1> QED BY <1>1, <1>11, <1>12, RunKeeps

\* A worker is done with the call it runs, which no other runs.
LEMMA LeavesIInv ==
    ASSUME IInv, NEW w \in Workers, Put(w) \/ UpdateWrite(w)
    PROVE  IInv'
<1> PICK i : i = running[w]
  OBVIOUS
<1>1. /\ RunStep /\ UNCHANGED <<pc, cb>> /\ i # NULL
      /\ running' = [running EXCEPT ![w] = NULL] /\ status' = [status EXCEPT ![i] = "done"]
  BY DEF Put, UpdateWrite, RunStep, memory
<1>2. CallInv /\ Calls' = Calls /\ Served
  BY <1>1 DEF IInv, RunStep, Calls
<1>3. i \in Calls /\ status[i] = "called"
  BY <1>1, <1>2 DEF CallInv
<1>4. \A j \in Calls : j # i => status'[j] = status[j]
  BY <1>1, <1>2 DEF CallInv
<1>5. \A v \in Workers : v # w => running'[v] = running[v] /\ running[v] # i
  BY <1>1, <1>2 DEF CallInv
<1>6. running'[w] = NULL /\ DOMAIN running' = Workers
      /\ status' \in [Calls -> {"none", "queued", "called", "done"}]
  BY <1>1, <1>2 DEF CallInv
<1>7. \A j \in Calls : j >= pc => status'[j] = "none"
  BY <1>2, <1>3, <1>4 DEF CallInv
<1>8. \A v \in Workers : running'[v] # NULL =>
        running'[v] \in Calls /\ status'[running'[v]] = "called"
  BY <1>2, <1>4, <1>5, <1>6 DEF CallInv
<1>9. \A u, v \in Workers : running'[v] # NULL /\ running'[v] = running'[u] => v = u
  BY <1>2, <1>5, <1>6 DEF CallInv
<1>10. CallInv'
  BY <1>1, <1>2, <1>6, <1>7, <1>8, <1>9 DEF CallInv
<1>11. Served'
  BY <1>1, <1>2, ServedKeeps
<1> QED BY <1>1, <1>10, <1>11, RunKeeps

-----------------------------------------------------------------------------
(* The theorems *)

LEMMA StutterIInv == IInv /\ UNCHANGED vars => IInv'
<1> SUFFICES ASSUME IInv, UNCHANGED vars PROVE IInv'
  OBVIOUS
<1>0. /\ RegInv /\ NameInv /\ ListInv /\ StateInv /\ NicInv /\ CallInv /\ Served
      /\ AbortJustified /\ UNCHANGED <<setup, program, stage, next, registered, known, ids, type, metadata,
                     lists, offset, module_state, nic, pc, status, cb, running>>
      /\ Idle
  BY DEF IInv, vars, booted, memory, Idle
<1>1. Named' = Named /\ Posted' = Posted
  BY <1>0 DEF Named, Posted, Before
<1>2. RegInv' /\ NameInv'
  BY <1>0, <1>1 DEF RegInv, NameInv, Locales
<1>3. ListInv' /\ StateInv' /\ NicInv'
  BY <1>0, <1>1 DEF ListInv, StateInv, NicInv
<1>4. CallInv' /\ Served'
  BY <1>0, IdleKeeps
<1>5. AbortJustified'
  <2>1. /\ Locales' = Locales /\ Calls' = Calls /\ Call' = Call /\ setup' = setup /\ pc' = pc
        /\ stage' = stage /\ \A k, l : Owners(k, l)' = Owners(k, l)
    BY <1>0 DEF Locales, Calls, Call, Owners
  <2> QED BY ONLY <1>0, <2>1 DEF AbortJustified
<1> QED BY <1>2, <1>3, <1>4, <1>5 DEF IInv

LEMMA NextIInv == IInv /\ [Next]_vars => IInv'
<1> SUFFICES ASSUME IInv, [Next]_vars PROVE IInv'
  OBVIOUS
<1>1. CASE Boot
  BY <1>1, LoadIInv, PreInitIInv, LoadGraphIInv, UnknownIInv, PostInitIInv, OccupiedIInv,
     NoNicIInv, FinalizeIInv DEF Boot
<1>2. CASE Main
  BY <1>2, OffloadIInv, UnservedIInv, CopyIInv, CopyUnservedIInv, FreeIInv, QuietIInv,
     JoinedIInv DEF Main, hclib_allocate_at, hclib_reallocate_at, hclib_memset_at
<1>3. ASSUME NEW w \in Workers, Work(w) PROVE IInv'
  BY <1>3, TakesIInv, LeavesIInv DEF Work
<1>4. CASE Ended \/ UNCHANGED vars
  BY <1>4, StutterIInv DEF Ended
<1> QED BY <1>1, <1>2, <1>3, <1>4 DEF Next

\* The inductive invariant holds in every reachable state.
THEOREM ServicesInvariant == Spec => []IInv
<1>1. Init => IInv
  BY InitIInv
<1>2. IInv /\ [Next]_vars => IInv'
  BY NextIInv
<1> QED BY <1>1, <1>2, PTL DEF Spec

\* Whatever the order in which modules were loaded and numbered their types, a
\* call is served by the module that owns its locale, a copy to or from a GPU
\* by cuda, and the lists have an entry for every type up to their largest
\* (hclib_register_func, hclib_get_func_for, hclib_async_copy).
THEOREM ServedByOwnerHolds == Spec => []ServedByOwner
<1>1. IInv => ServedByOwner
  <2> SUFFICES ASSUME IInv PROVE ServedByOwner
    OBVIOUS
  <2>0. RegInv /\ NameInv /\ ListInv /\ CallInv /\ Served
    BY DEF IInv
  <2>1. \A k \in Kinds : DOMAIN lists[k] = 0 .. Cardinality(DOMAIN lists[k]) - 1
    <3> TAKE k \in Kinds
    <3>1. PICK n \in Nat : DOMAIN lists[k] = 0 .. n - 1
      BY <2>0 DEF ListInv
    <3>2. Cardinality(0 .. n - 1) = n
      <4>1. 0 \in Int /\ n - 1 \in Int
        OBVIOUS
      <4>2. Cardinality(0 .. n - 1) = IF 0 > n - 1 THEN 0 ELSE (n - 1) - 0 + 1
        BY <4>1, FS_Interval
      <4> QED BY <4>2
    <3> QED BY <3>1, <3>2
  <2>2. \A m \in Modules : Range(ids[m]) \subseteq 0 .. Len(known) - 1
    BY <2>0, NameOf
  <2>3. Range(type) \subseteq 0 .. Len(known) - 1
    BY <2>0 DEF NameInv, Range
  <2>4. TypeOK
    BY <2>0, <2>1, <2>2, <2>3 DEF TypeOK, RegInv, CallInv
  <2> QED BY <2>0, <2>4 DEF ServedByOwner, Served
<1> QED BY <1>1, ServicesInvariant, PTL

\* The runtime gives up only where it must: on a locale of a type no module has
\* named, on two modules that serve the same calls, on a communication module in
\* a graph that has not exactly one interconnect, or on a call no module serves
\* (the assertions of hclib_module.c, hclib-mem.c and of the modules mpi and
\* sos); a module that is loaded twice is none of them.
THEOREM AbortJustifiedHolds == Spec => []AbortJustified
<1>1. IInv => AbortJustified
  BY DEF IInv
<1> QED BY <1>1, ServicesInvariant, PTL

\* From its initialisation until its finalisation a module finds its own state
\* in every worker (hclib_add_per_worker_module_state).
THEOREM StatesKeptHolds == Spec => []StatesKept
<1>1. IInv => StatesKept
  <2> SUFFICES ASSUME IInv, stage = "run", NEW m \in Range(registered), StateSize[m] > 0,
                      NEW w \in Workers, NEW j \in Words(m)
               PROVE  j \in DOMAIN module_state[w] /\ module_state[w][j] = m
    BY DEF StatesKept
  <2>0. RegInv /\ StateInv /\ Posted = Range(registered)
    BY DEF IInv, Posted
  <2> PICK o : o = offset[m]
    OBVIOUS
  <2> PICK z : z = StateSize[m]
    OBVIOUS
  <2>1. m \in Posted /\ m \in Modules /\ z \in Nat
    BY <2>0, PostedModules, ModulesAssumption
  <2>2. /\ o \in Nat /\ j \in o + 1 .. o + z /\ o + z <= Len(module_state[w])
        /\ \A i \in o + 1 .. o + z : module_state[w][i] = m
    BY <2>0, <2>1 DEF StateInv, Words
  <2>3. module_state[w] \in Seq(Modules \cup {NULL})
    BY <2>0 DEF StateInv
  <2>4. j \in 1 .. Len(module_state[w])
    BY <2>1, <2>2, <2>3
  <2> QED BY <2>2, <2>3, <2>4
<1> QED BY <1>1, ServicesInvariant, PTL
=============================================================================
