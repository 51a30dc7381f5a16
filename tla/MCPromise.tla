----------------------------- MODULE MCPromise -----------------------------
(* Two workers, three promises and tasks that share them, for TLC. *)
EXTENDS Promise, TLC

CONSTANTS p, q, r, a, b, c, d

\* Two tasks that wait for the same promises in opposite orders, one that
\* needs more futures than fit inside a task (MaxNumWaits is 2), with a NULL
\* among the first ones, and one without futures.
CrossedDeps == (a :> <<p, q>>) @@ (b :> <<q, p>>) @@ (c :> <<p, NULL, r>>) @@ (d :> << >>)

ASSUME UsableAssumption == \A t \in Tasks : UsableFutures(t)
=============================================================================
