----------------------------- MODULE ParallelFor -----------------------------
(***************************************************************************)
(* What a parallel loop promises (hclib_forasync_future, src/inc/hclib.h): *)
(* each iteration is run once, in any order, and the event is put when all *)
(* have been run; or the program is aborted.                               *)
(***************************************************************************)
VARIABLES
    loop,       \* the iterations of the loop
    ran,        \* those that were run
    over,       \* the event was put
    aborted

vars == <<loop, ran, over, aborted>>

Init == ran = {} /\ ~over /\ ~aborted

\* Iterations are run that were not run before, the last of them perhaps.
Run ==
    /\ ~over /\ ~aborted
    /\ ran \subseteq ran' /\ ran' \subseteq loop /\ ran' # ran
    /\ over' => ran' = loop
    /\ UNCHANGED <<loop, aborted>>

End ==
    /\ ~over /\ ~aborted
    /\ ran = loop
    /\ over'
    /\ UNCHANGED <<loop, ran, aborted>>

Abort ==
    /\ ~over /\ ~aborted /\ aborted'
    /\ UNCHANGED <<loop, ran, over>>

Next == Run \/ End \/ Abort

Spec == Init /\ [][Next]_vars /\ <>(over \/ aborted)
=============================================================================
