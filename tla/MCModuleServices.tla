-------------------------- MODULE MCModuleServices --------------------------
(***************************************************************************)
(* Setups in several orders of registration, two of them with a module     *)
(* registered twice and two with a graph that a communication module does  *)
(* not accept, and programs that move data between the host and two GPUs,  *)
(* reallocate, free, ask for what is not served, and count.                *)
(***************************************************************************)
EXTENDS ModuleServices, TLC

MCStateSize == [m \in {"system", "cuda", "mpi", "sos", "custom"} |->
                    IF m = "sos" THEN 2 ELSE IF m = "custom" THEN 1 ELSE 0]

Full == <<"sysmem", "GPU", "Interconnect", "GPU">>

MCSetups ==
    {[modules |-> ms, graph |-> Full] :
        ms \in {<<"system", "sos", "cuda", "sos">>, <<"sos", "mpi", "cuda", "system">>,
                <<"cuda", "system", "cuda", "mpi">>, <<"system", "mpi">>}}
    \cup {[modules |-> <<"mpi", "custom", "sos">>,
           graph |-> <<"sysmem", "Interconnect", "sysmem", "sysmem">>],
          [modules |-> <<"system", "sos">>,
           graph |-> <<"sysmem", "Interconnect", "Interconnect", "sysmem">>],
          [modules |-> <<"mpi", "system">>,
           graph |-> <<"sysmem", "sysmem", "sysmem", "sysmem">>],
          [modules |-> <<"custom", "cuda", "system">>,
           graph |-> <<"sysmem", "GPU", "sysmem", "GPU">>]}

C(do, at, ptr, from, src, after, val) ==
    [do |-> do, at |-> at, ptr |-> ptr, from |-> from, src |-> src,
     after |-> after, val |-> val]

Alloc(l) == C("alloc", l, 0, 0, 0, {}, 0)
Memset(l, p, v) == C("memset", l, p, 0, 0, {}, v)
Copy(l, p, from, src, after) == C("copy", l, p, from, src, after, 0)
Realloc(l, p) == C("realloc", l, p, 0, 0, {}, 0)
Free(l, p) == C("free", l, p, 0, 0, {}, 0)
Update(v) == C("update", 0, 0, 0, 0, {}, v)
WaitFor(is) == C("wait", 0, 0, 0, 0, is, 0)
Gather == C("gather", 0, 0, 0, 0, {}, 0)

MCPrograms ==
    { \* host to one GPU, to the other, and back
      [code |-> <<Alloc(1), Alloc(2), Alloc(4), WaitFor({1, 2, 3}),
                  Memset(1, 1, 7), Memset(2, 2, 5), WaitFor({6}),
                  Copy(2, 2, 1, 1, {5}), Copy(4, 3, 2, 2, {8}),
                  Copy(1, 1, 4, 3, {9}), WaitFor({10}), Free(2, 2)>>,
       result |-> (1 :> 7) @@ (3 :> 7)],
      \* the source is the value of the future of an allocation
      [code |-> <<Alloc(1), WaitFor({1}), Memset(1, 1, 7), WaitFor({3}), Realloc(1, 1),
                  Alloc(4), WaitFor({6}), Copy(4, 6, 1, 5, {5}), WaitFor({8})>>,
       result |-> (5 :> 7) @@ (6 :> 7)],
      \* a GPU does not reallocate
      [code |-> <<Alloc(2), WaitFor({1}), Realloc(2, 1)>>, result |-> <<>>],
      \* a locale beyond the list of copy functions, on one side and on both
      [code |-> <<Alloc(1), Alloc(1), WaitFor({1, 2}), Memset(1, 1, 7), Copy(1, 2, 3, 1, {4}),
                  WaitFor({5}), Copy(3, 2, 3, 1, {})>>, result |-> <<>>],
      \* two buffers of one locale
      [code |-> <<Alloc(1), Alloc(1), WaitFor({1, 2}), Copy(1, 2, 1, 1, {}), WaitFor({4})>>,
       result |-> <<>>],
      \* updates on all workers, with an allocation between them
      [code |-> <<Update(1), Update(2), Alloc(1), Update(4), WaitFor({1, 2, 4}), Gather>>,
       result |-> <<>>] }

=============================================================================
