----------------------------- MODULE MCLocality -----------------------------
(* Locality files after those of src/locality_graphs, and environments. *)
EXTENDS Locality

Types == <<<<"L1">>, <<"L2">>, <<"sysmem">>, <<"Interconnect">>>>

\* "sysmem", "L2_0", "L2_1", "Interconnect"
sysmem == <<"sysmem">>
nic == <<"Interconnect">>
L2(n) == <<"L2">> \o itoa[n]

Lit(s) == <<<<"lit", s>>>>
L2Of(op) == <<<<"lit", "L2">>, <<"id", op>>>>

Paths(default, own) == [default |-> default, own |-> own]

File(n, lbls, edgesOf, popPaths, stealPaths) ==
    [nworkers |-> n, declarations |-> lbls, reachability |-> edgesOf,
     pop_paths |-> popPaths, steal_paths |-> stealPaths]

OwnCache == <<L2Of(<<"%", 2>>), Lit("sysmem")>>
WithNic == <<[id |-> 1, path |-> <<Lit("Interconnect"), Lit("L2") \o Lit("1"), Lit("sysmem")>>]>>

\* One cache for each worker; the second also serves the interconnect.
Edison ==
    File(2, <<sysmem, L2(0), L2(1), nic>>, {<<sysmem, L2(0)>>, <<sysmem, L2(1)>>, <<sysmem, nic>>},
         Paths(OwnCache, WithNic), Paths(OwnCache, WithNic))

\* A cache for two workers, and a second one that no path visits; the third
\* worker would be at the second.
Shared ==
    File(2, <<sysmem, L2(0), L2(1)>>, {<<L2(1), sysmem>>, <<sysmem, L2(0)>>},
         Paths(<<L2Of(<<"/", 2>>), Lit("sysmem")>>, << >>),
         Paths(<<Lit("sysmem"), L2Of(<<"/", 2>>)>>, << >>))

\* The label of the path is not declared.
Undeclared == [Shared EXCEPT !.declarations = <<sysmem, L2(1)>>]

Env(file, workers, affinity, pus) ==
    [file |-> file, workers |-> workers, online |-> 2, affinity |-> affinity, pus |-> pus]

MCEnvs ==
    {Env(Edison, NULL, NULL, << >>), Env(Edison, 1, NULL, << >>),
     Env(Shared, NULL, "strided", <<0, 1>>), Env(Shared, 3, "chunked", <<0, 0, 1>>),
     Env(Shared, 3, "chunked", <<0, 0, 1, 1>>), Env(Shared, 3, "strided", <<0, 1, 0, 1>>),
     Env(Shared, NULL, "strided", <<0>>), Env(Shared, 6, NULL, << >>),
     Env(Undeclared, NULL, NULL, << >>), Env(NULL, NULL, "strided", <<0, 1>>)}
=============================================================================
