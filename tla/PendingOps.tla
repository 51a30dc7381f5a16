----------------------------- MODULE PendingOps -----------------------------
(***************************************************************************)
(* The list of pending communication operations that the MPI, SOS and CUDA *)
(* modules share (src/modules/common/hclib-module-common.h).  Any worker   *)
(* appends operations at the head; the append that finds the list empty    *)
(* starts a polling task, which walks the list, removes what is complete,  *)
(* and ends when it has emptied the list.  One access to shared memory per *)
(* step.  An assertion that fails ends the program.                        *)
(***************************************************************************)
EXTENDS Integers, FiniteSets, Chains

CONSTANTS
    Ops,    \* the operations; each is appended by a call of its own
    NULL

ASSUME PendingOpsAssumption == NULL \notin Ops

VARIABLES
    head,       \* *addr_of_head
    next,       \* op->next
    complete,   \* operations for which the completion test says yes
    put,        \* how often the promise of an operation was put (or its task spawned)
    freed,      \* operations given to free
    appender,   \* where the append of each operation is
    poller,     \* where the polling task is that the append of an operation started
    prev,       \* its local variables
    cur,        \* (op)
    rest,       \* (next)
    nonEmpty,   \* (pending_list_non_empty)
    aborted     \* an assertion failed

opVars == <<head, next, complete, put, freed>>
localVars == <<prev, cur, rest, nonEmpty>>
vars == <<opVars, appender, poller, localVars, aborted>>

Init ==
    /\ head = NULL
    /\ next = [o \in Ops |-> NULL]
    /\ complete = {}
    /\ put = [o \in Ops |-> 0]
    /\ freed = {}
    /\ appender = [o \in Ops |-> "idle"]
    /\ poller = [o \in Ops |-> "none"]
    /\ prev = [o \in Ops |-> NULL]
    /\ cur = [o \in Ops |-> NULL]
    /\ rest = [o \in Ops |-> NULL]
    /\ nonEmpty = [o \in Ops |-> FALSE]
    /\ aborted = FALSE

At(o, from, to) == appender[o] = from /\ appender' = [appender EXCEPT ![o] = to]
Polls(k, from, to) == poller[k] = from /\ poller' = [poller EXCEPT ![k] = to]

\* The communication library completes an operation.
Complete(o) ==
    /\ o \notin complete
    /\ appender[o] # "idle"
    /\ complete' = complete \cup {o}
    /\ UNCHANGED <<head, next, put, freed, appender, poller, localVars, aborted>>

-----------------------------------------------------------------------------
(* append_to_pending *)

AppendRead(o) ==
    /\ At(o, "idle", "cas")
    /\ next' = [next EXCEPT ![o] = head]
    /\ UNCHANGED <<head, complete, put, freed, poller, localVars, aborted>>

\* Mutant of AppendLink: the head is stored without a comparison.
AppendBlindStore(o) ==
    /\ At(o, "cas", IF next[o] = NULL THEN "spawn" ELSE "done")
    /\ head' = o
    /\ UNCHANGED <<next, complete, put, freed, poller, localVars, aborted>>

\* The CAS succeeds.
AppendLink(o) ==
    /\ At(o, "cas", IF next[o] = NULL THEN "spawn" ELSE "done")
    /\ head = next[o]
    /\ head' = o
    /\ UNCHANGED <<next, complete, put, freed, poller, localVars, aborted>>

\* The CAS fails and returns the head to try next.
AppendRetry(o) ==
    /\ appender[o] = "cas"
    /\ head # next[o]
    /\ next' = [next EXCEPT ![o] = head]
    /\ UNCHANGED <<head, complete, put, freed, appender, poller, localVars, aborted>>

\* The list was empty: the polling task is created.
AppendSpawn(o) ==
    /\ At(o, "spawn", "done")
    /\ poller' = [poller EXCEPT ![o] = "head"]
    /\ nonEmpty' = [nonEmpty EXCEPT ![o] = TRUE]
    /\ UNCHANGED <<opVars, prev, cur, rest, aborted>>

-----------------------------------------------------------------------------
(* poll_on_pending *)

\* A pass over the list begins.
PollHead(k) ==
    /\ Polls(k, "head", "next")
    /\ head # NULL
    /\ cur' = [cur EXCEPT ![k] = head]
    /\ prev' = [prev EXCEPT ![k] = NULL]
    /\ nonEmpty' = [nonEmpty EXCEPT ![k] = TRUE]
    /\ UNCHANGED <<opVars, appender, rest, aborted>>

PollNext(k) ==
    /\ Polls(k, "next", "test")
    /\ rest' = [rest EXCEPT ![k] = next[cur[k]]]
    /\ UNCHANGED <<opVars, appender, prev, cur, nonEmpty, aborted>>

\* Mutant of Onwards: only the head of the list is looked at in each pass.
OnwardsToHead(k) == IF nonEmpty[k] THEN "head" ELSE "ended"

\* Where the poller goes with the next operation of the list; at its end it
\* yields and starts over, or ends when it has seen the list empty.
Onwards(k) ==
    IF rest[k] # NULL THEN "next" ELSE IF nonEmpty[k] THEN "head" ELSE "ended"

\* Mutant of TestComplete: the answer of the completion test is ignored.
TestIgnored(k) ==
    /\ Polls(k, "test", "unlink")
    /\ UNCHANGED <<opVars, appender, localVars, aborted>>

TestComplete(k) ==
    /\ Polls(k, "test", "unlink")
    /\ cur[k] \in complete
    /\ UNCHANGED <<opVars, appender, localVars, aborted>>

TestIncomplete(k) ==
    /\ Polls(k, "test", Onwards(k))
    /\ cur[k] \notin complete
    /\ prev' = [prev EXCEPT ![k] = cur[k]]
    /\ cur' = [cur EXCEPT ![k] = rest[k]]
    /\ UNCHANGED <<opVars, appender, rest, nonEmpty, aborted>>

\* Mutant of UnlinkHead: the poller does not notice that the list is empty.
UnlinkHeadStays(k) ==
    /\ Polls(k, "unlink", "notify")
    /\ prev[k] = NULL
    /\ head = cur[k]
    /\ head' = rest[k]
    /\ UNCHANGED <<next, complete, put, freed, appender, localVars, aborted>>

\* The operation is still at the head and the CAS removes it.
UnlinkHead(k) ==
    /\ Polls(k, "unlink", "notify")
    /\ prev[k] = NULL
    /\ head = cur[k]
    /\ head' = rest[k]
    /\ nonEmpty' = [nonEmpty EXCEPT ![k] = (rest[k] # NULL)]
    /\ UNCHANGED <<next, complete, put, freed, appender, prev, cur, rest, aborted>>

\* The CAS fails and returns the new head.
UnlinkMoved(k) ==
    /\ Polls(k, "unlink", "behind")
    /\ prev[k] = NULL
    /\ head # cur[k]
    /\ prev' = [prev EXCEPT ![k] = head]
    /\ UNCHANGED <<opVars, appender, cur, rest, nonEmpty, aborted>>

\* The link of the predecessor is moved past the operation.
UnlinkBehind(k) ==
    /\ poller[k] = "behind" \/ (poller[k] = "unlink" /\ prev[k] # NULL)
    /\ next[prev[k]] = cur[k]
    /\ next' = [next EXCEPT ![prev[k]] = rest[k]]
    /\ poller' = [poller EXCEPT ![k] = "notify"]
    /\ UNCHANGED <<head, complete, put, freed, appender, localVars, aborted>>

\* One of the assertions of poll_on_pending fails.
Abort(k) ==
    /\ \/ poller[k] = "head" /\ head = NULL
       \/ /\ poller[k] = "behind" \/ (poller[k] = "unlink" /\ prev[k] # NULL)
          /\ next[prev[k]] # cur[k]
    /\ aborted' = TRUE
    /\ UNCHANGED <<opVars, appender, poller, localVars>>

\* Mutant of Notify: the freed operation is kept as the predecessor.
NotifyKeepsFreed(k) ==
    /\ Polls(k, "notify", Onwards(k))
    /\ put' = [put EXCEPT ![cur[k]] = @ + 1]
    /\ freed' = freed \cup {cur[k]}
    /\ prev' = [prev EXCEPT ![k] = cur[k]]
    /\ cur' = [cur EXCEPT ![k] = rest[k]]
    /\ UNCHANGED <<head, next, complete, appender, rest, nonEmpty, aborted>>

\* The promise is put or the task spawned, and the operation is freed.
Notify(k) ==
    /\ Polls(k, "notify", Onwards(k))
    /\ put' = [put EXCEPT ![cur[k]] = @ + 1]
    /\ freed' = freed \cup {cur[k]}
    /\ cur' = [cur EXCEPT ![k] = rest[k]]
    /\ UNCHANGED <<head, next, complete, appender, prev, rest, nonEmpty, aborted>>

-----------------------------------------------------------------------------
Append(o) == AppendRead(o) \/ AppendLink(o) \/ AppendRetry(o) \/ AppendSpawn(o)

Poll(k) ==
    \/ PollHead(k) \/ PollNext(k) \/ TestComplete(k) \/ TestIncomplete(k)
    \/ UnlinkHead(k) \/ UnlinkMoved(k) \/ UnlinkBehind(k) \/ Abort(k) \/ Notify(k)

\* Every operation was appended and reported, or the program was aborted.
Stopped == aborted \/ \A o \in Ops : put[o] > 0 /\ poller[o] \in {"none", "ended"}

Next ==
    \/ ~aborted /\ \E o \in Ops : Append(o) \/ Poll(o) \/ Complete(o)
    \/ Stopped /\ UNCHANGED vars

Spec == Init /\ [][Next]_vars

\* A worker inside append and the polling task, which is scheduled again
\* after each yield, are not stopped for ever.
FairSpec ==
    Spec /\ \A o \in Ops : WF_vars(~aborted /\ Append(o)) /\ WF_vars(~aborted /\ Poll(o))

-----------------------------------------------------------------------------
(* Properties *)

MaybeOp == Ops \cup {NULL}
Walking == {"next", "test", "unlink", "behind", "notify"}

\* Types; a poller in the middle of a pass has an operation before it.
TypeOK ==
    /\ head \in MaybeOp
    /\ next \in [Ops -> MaybeOp]
    /\ complete \subseteq Ops
    /\ put \in [Ops -> Nat]
    /\ freed \subseteq Ops
    /\ appender \in [Ops -> {"idle", "cas", "spawn", "done"}]
    /\ poller \in [Ops -> Walking \cup {"none", "head", "ended"}]
    /\ prev \in [Ops -> MaybeOp]
    /\ cur \in [Ops -> MaybeOp]
    /\ rest \in [Ops -> MaybeOp]
    /\ nonEmpty \in [Ops -> BOOLEAN]
    /\ aborted \in BOOLEAN
    /\ \A k \in Ops : poller[k] \in Walking => cur[k] # NULL

\* The operations on the list.
Listed == Chain(next, head)

\* No operation falls off the list when appends and removals meet: an
\* operation that was linked is on the list until the poller has taken it
\* off, and then in the poller's hands until it is reported; a poller that
\* walks is at an operation (TypeOK).
NoneLost ==
    /\ TypeOK
    /\ {o \in Ops : appender[o] \in {"spawn", "done"} /\ put[o] = 0}
        = Listed \cup {cur[k] : k \in {j \in Ops : poller[j] = "notify"}}

\* The list has a poller, or one that is about to be started, exactly when
\* it is not empty: the poller that empties the list and the append that
\* restarts polling agree on who is responsible.
OnePoller ==
    Cardinality({o \in Ops : appender[o] = "spawn"}
                \cup {k \in Ops : poller[k] \in Walking \cup {"head"} /\ nonEmpty[k]})
        = IF head = NULL THEN 0 ELSE 1

\* The poller never follows or writes through an operation it has freed.
NoUseAfterFree ==
    \A k \in Ops :
        /\ poller[k] \in Walking => cur[k] \notin freed /\ prev[k] \notin freed
        /\ Listed \cap freed = {}

\* An operation is reported once, and only when it is complete.
ReportedOnce == \A o \in Ops : put[o] <= 1 /\ (put[o] = 1 => o \in complete)

\* A complete operation is reported in the end (unless an assertion ends the
\* program first).
Reported ==
    \A o \in Ops :
        (o \in complete /\ appender[o] = "done") ~> (put[o] > 0 \/ aborted)

\* A poller whose CAS failed finds the new head right before the operation it
\* removes, as the comment in poll_on_pending says.
NewHeadIsPredecessor ==
    \A k \in Ops : poller[k] = "behind" => next[prev[k]] = cur[k]
=============================================================================
