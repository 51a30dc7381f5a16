-------------------------- MODULE PendingOpsProofs --------------------------
(***************************************************************************)
(* Proofs about PendingOps, for every set of operations.                   *)
(***************************************************************************)
EXTENDS PendingOps, FiniteSetTheorems

-----------------------------------------------------------------------------
(* The inductive invariant *)

\* The operations that are linked and not yet reported, and those that a
\* poller has taken off the list and not yet reported.
Unreported == {o \in Ops : appender[o] \in {"spawn", "done"} /\ put[o] = 0}
Unlinked == {cur[k] : k \in {j \in Ops : poller[j] = "notify"}}

\* The pollers that have not seen the list empty, and the appends that are
\* about to start one.
Responsible ==
    {o \in Ops : appender[o] = "spawn"}
    \cup {k \in Ops : poller[k] \in Walking \cup {"head"} /\ nonEmpty[k]}

\* The list is a list: no operation is reached twice.
ListInv == Acyclic(next, head) /\ Injective(next, head)

\* An operation is freed exactly when it was reported, which happens once.
PutInv ==
    /\ Unreported = Listed \cup Unlinked
    /\ \A o \in Ops :
        /\ put[o] \in {0, 1}
        /\ o \in freed <=> put[o] = 1
        /\ put[o] = 1 => o \in complete /\ appender[o] \in {"spawn", "done"}

\* The local variables of a poller agree with the list although other workers
\* append to it: the operation it looks at and the one before it are linked,
\* and the links between them and behind them are the ones it has read.
PollerInv ==
    \A k \in Ops :
        /\ poller[k] # "none" => appender[k] = "done"
        /\ ~nonEmpty[k] => poller[k] \in {"none", "notify", "ended"}
        /\ poller[k] \in {"next", "test", "unlink", "behind"} => cur[k] \in Listed
        /\ poller[k] \in {"test", "unlink", "behind"} => rest[k] = next[cur[k]]
        /\ poller[k] \in {"unlink", "behind", "notify"} => cur[k] \in complete
        /\ poller[k] \in Walking /\ prev[k] # NULL => prev[k] \in Listed
        /\ poller[k] \in {"next", "test", "unlink"} /\ prev[k] # NULL => next[prev[k]] = cur[k]
        /\ poller[k] = "behind" => prev[k] # NULL

\* An operation taken off the list is no longer on it and in the hands of one
\* poller only, which goes on at its successor or has emptied the list.
NotifyInv ==
    \A k \in Ops : poller[k] = "notify" =>
        /\ cur[k] \in Ops \ Listed
        /\ rest[k] \in Listed \cup {NULL}
        /\ prev[k] # NULL => next[prev[k]] = rest[k]
        /\ ~nonEmpty[k] => rest[k] = NULL /\ prev[k] = NULL
        /\ \A j \in Ops : poller[j] = "notify" /\ cur[j] = cur[k] => j = k

\* One responsible task when the list is not empty, none when it is.
ResponsibleInv ==
    /\ head = NULL => Responsible = {}
    /\ head # NULL => \E k \in Ops : Responsible = {k}

IInv == TypeOK /\ ListInv /\ PutInv /\ PollerInv /\ NotifyInv /\ ResponsibleInv

-----------------------------------------------------------------------------
(* Lemmas *)

\* A chain that starts further down an acyclic, injective chain is so, too.
LEMMA TailSound ==
    ASSUME NEW nxt, NEW x, NEW y, Acyclic(nxt, x), Injective(nxt, x),
           Chain(nxt, y) \subseteq Chain(nxt, x)
    PROVE  Acyclic(nxt, y) /\ Injective(nxt, y)
BY DEF Acyclic, Injective

\* Writing the link of an operation that is not on the list (append_to_pending
\* before its CAS succeeds) changes nothing about the list.
LEMMA LinkOutside ==
    ASSUME TypeOK, ListInv, NEW o \in Ops, o \notin Listed, head' = head,
           next' = [next EXCEPT ![o] = head]
    PROVE  ListInv' /\ Listed' = Listed /\ \A u \in Listed : next'[u] = next[u]
<1>1. Listed' = Listed
  BY ChainElsewhere DEF Listed
<1>2. \A u \in Listed : u \in Ops /\ next'[u] = next[u]
  BY ChainClosed DEF Listed, TypeOK
<1>3. Acyclic(next', head')
  <2> SUFFICES ASSUME NEW u \in Listed PROVE u \notin Chain(next', next[u])
    BY <1>1, <1>2 DEF Acyclic, Listed
  <2>1. Chain(next, next[u]) \subseteq Listed
    BY ChainTail, ChainClosed DEF Listed, Closed
  <2>2. Chain(next', next[u]) = Chain(next, next[u])
    BY <2>1, ChainElsewhere
  <2> QED BY <2>2 DEF ListInv, Acyclic, Listed
<1>4. Injective(next', head')
  BY <1>1, <1>2 DEF Injective, Listed, ListInv, TypeOK
<1> QED BY <1>1, <1>2, <1>3, <1>4 DEF ListInv

\* The CAS of append_to_pending puts its operation in front of the list.
LEMMA LinkFront ==
    ASSUME TypeOK, ListInv, NEW o \in Ops, o \notin Listed, next[o] = head,
           head' = o, next' = next
    PROVE  ListInv' /\ Listed' = Listed \cup {o}
<1>1. DOMAIN next = Ops
  BY DEF TypeOK
<1>2. Listed' = Listed \cup {o}
  BY <1>1, ChainUnfold DEF Listed
<1>3. Acyclic(next', head')
  BY <1>2 DEF Acyclic, Listed, ListInv
<1>4. Injective(next', head')
  <2>1. \A u \in Listed : head \in Ops => next[u] # head
    BY <1>1, FirstNotTarget DEF Listed, ListInv
  <2> QED BY <1>1, <1>2, <2>1 DEF Injective, Listed, ListInv
<1> QED BY <1>2, <1>3, <1>4 DEF ListInv

\* The CAS of poll_on_pending takes the first operation off the list.
LEMMA UnlinkFirst ==
    ASSUME TypeOK, ListInv, head \in Ops, head' = next[head], next' = next
    PROVE  /\ ListInv'
           /\ Listed' = Listed \ {head}
           /\ head' # NULL => head' \in Listed'
<1>1. DOMAIN next = Ops /\ head' \in MaybeOp
  BY DEF TypeOK
<1>2. Listed = {head} \cup Listed' /\ head \in Listed
  BY <1>1, ChainUnfold DEF Listed
<1>3. head \notin Listed'
  BY <1>2 DEF Listed, ListInv, Acyclic
<1>4. ListInv'
  BY <1>2, TailSound DEF ListInv, Listed
<1> QED BY <1>1, <1>2, <1>3, <1>4, ChainClosed DEF Listed, MaybeOp

\* Moving a link past the operation behind it takes that operation off.
LEMMA UnlinkSecond ==
    ASSUME TypeOK, ListInv, NEW p \in Listed, NEW c \in Ops, next[p] = c, head' = head,
           next' = [next EXCEPT ![p] = next[c]]
    PROVE  /\ ListInv'
           /\ c \in Listed /\ c # p /\ c # next[c]
           /\ Listed' = Listed \ {c}
           /\ next'[p] = next[c]
           /\ \A u \in Ops : u # p => next'[u] = next[u]
<1>1. DOMAIN next = Ops /\ p \in Ops
  BY ChainClosed DEF TypeOK, Listed
<1>2. c \in Listed
  BY <1>1, ChainClosed DEF Listed, Closed
<1>3. c \in Chain(next, c)
  BY <1>1, ChainClosed
<1>4. c # p /\ c # next[c]
  BY <1>2, <1>3 DEF ListInv, Acyclic, Listed
<1>5. ListInv' /\ Listed' = Listed \ {c}
  BY <1>1, ChainUnlink DEF ListInv, Listed
<1> QED BY <1>1, <1>2, <1>4, <1>5 DEF TypeOK

\* What the list holds: operations, the first one unless it is empty, and the
\* successor of every one that has a successor.
LEMMA ListedFacts ==
    ASSUME TypeOK
    PROVE  /\ Listed \subseteq Ops
           /\ head # NULL => head \in Listed
           /\ head = NULL => Listed = {}
           /\ \A u \in Listed : next[u] \in Listed \cup {NULL}
<1>1. DOMAIN next = Ops /\ head \in MaybeOp /\ \A u \in Ops : next[u] \in MaybeOp
  BY DEF TypeOK
<1> QED BY <1>1, PendingOpsAssumption, ChainClosed, ChainEmpty DEF Listed, Closed, MaybeOp

\* A responsible task is alone: any other poller has emptied the list and
\* holds nothing but the operation it is about to report.
LEMMA Alone ==
    ASSUME IInv, NEW k \in Responsible
    PROVE  /\ head # NULL
           /\ Responsible = {k}
           /\ \A j \in Ops : j # k =>
                /\ appender[j] # "spawn"
                /\ poller[j] \in {"none", "ended"}
                   \/ (poller[j] = "notify" /\ ~nonEmpty[j])
<1>1. head # NULL /\ Responsible = {k}
  BY DEF IInv, ResponsibleInv
<1>2. \A j \in Ops : poller[j] \in Walking \cup {"none", "head", "ended"} /\ nonEmpty[j] \in BOOLEAN
  BY DEF IInv, TypeOK
<1>3. \A j \in Ops : j # k =>
        appender[j] # "spawn" /\ ~(poller[j] \in Walking \cup {"head"} /\ nonEmpty[j])
  BY <1>1 DEF Responsible
<1>4. \A j \in Ops : ~nonEmpty[j] => poller[j] \in {"none", "notify", "ended"}
  BY DEF IInv, PollerInv
<1> QED BY <1>1, <1>2, <1>3, <1>4

-----------------------------------------------------------------------------
(* The invariant is inductive *)

\* An empty list, no append and no poller satisfy the invariant.
LEMMA InitIInv == Init => IInv
<1> SUFFICES ASSUME Init PROVE IInv
  OBVIOUS
<1> USE PendingOpsAssumption DEF Init
<1>1. TypeOK
  BY DEF TypeOK, MaybeOp, Walking
<1>2. Listed = {}
  BY <1>1, ListedFacts
<1> QED
  BY <1>1, <1>2 DEF IInv, ListInv, Acyclic, Injective, Listed, PutInv, Unreported, Unlinked,
     PollerInv, NotifyInv, ResponsibleInv, Responsible, Walking

\* Appending an operation preserves the invariant.
LEMMA AppendIInv ==
    ASSUME IInv, NEW o \in Ops, Append(o)
    PROVE  IInv'
<1> USE PendingOpsAssumption
<1>a. TypeOK /\ ListInv /\ PutInv /\ PollerInv /\ NotifyInv /\ ResponsibleInv
  BY DEF IInv
<1>b. /\ Listed \subseteq Ops
      /\ \A u \in Listed : appender[u] \in {"spawn", "done"} /\ put[u] = 0
  BY <1>a, ListedFacts DEF PutInv, Unreported
<1>1. CASE AppendRead(o) \/ AppendRetry(o)
  <2>1. /\ appender[o] \in {"idle", "cas"}
        /\ appender' \in [Ops -> {"idle", "cas", "spawn", "done"}]
        /\ \A u \in Ops : u # o => appender'[u] = appender[u]
        /\ appender'[o] = "cas"
        /\ next' = [next EXCEPT ![o] = head]
        /\ UNCHANGED <<head, complete, put, freed, poller, localVars, aborted>>
    BY <1>1, <1>a DEF AppendRead, AppendRetry, At, TypeOK
  <2>2. ListInv' /\ Listed' = Listed /\ \A u \in Listed : next'[u] = next[u]
    BY <1>a, <1>b, <2>1, LinkOutside
  <2>3. TypeOK'
    BY <1>a, <2>1 DEF TypeOK, MaybeOp, localVars
  <2>4. PutInv'
    BY <1>a, <2>1, <2>2 DEF PutInv, Unreported, Unlinked, localVars
  <2>5. PollerInv'
    BY <1>a, <1>b, <2>1, <2>2 DEF PollerInv, Walking, localVars
  <2>6. NotifyInv'
    BY <1>a, <1>b, <2>1, <2>2 DEF NotifyInv, PollerInv, Walking, localVars
  <2>7. ResponsibleInv'
    <3>1. Responsible' = Responsible
      BY <1>a, <2>1 DEF Responsible, localVars
    <3> QED BY <1>a, <2>1, <3>1 DEF ResponsibleInv
  <2> QED BY <2>2, <2>3, <2>4, <2>5, <2>6, <2>7 DEF IInv
<1>2. CASE AppendLink(o)
  <2>1. /\ appender[o] = "cas" /\ head = next[o] /\ head' = o
        /\ appender' = [appender EXCEPT ![o] = IF next[o] = NULL THEN "spawn" ELSE "done"]
        /\ UNCHANGED <<next, complete, put, freed, poller, localVars, aborted>>
    BY <1>2 DEF AppendLink, At
  <2>2. o \notin Listed
    BY <1>b, <2>1
  <2>3. ListInv' /\ Listed' = Listed \cup {o}
    BY <1>a, <2>1, <2>2, LinkFront
  <2>4. TypeOK'
    BY <1>a, <2>1 DEF TypeOK, MaybeOp, localVars
  <2>5. \A u \in Ops : u # o => appender'[u] = appender[u]
    BY <1>a, <2>1 DEF TypeOK
  <2>6. appender'[o] \in {"spawn", "done"}
    BY <1>a, <2>1 DEF TypeOK
  <2>7. put[o] = 0 /\ poller[o] = "none"
    BY <1>a, <2>1 DEF PutInv, PollerInv
  <2>8. PutInv'
    <3>1. Unreported' = Unreported \cup {o}
      BY <2>1, <2>5, <2>6, <2>7 DEF Unreported
    <3> QED BY <1>a, <2>1, <2>3, <2>5, <2>6, <3>1 DEF PutInv, Unlinked, localVars
  <2>9. PollerInv'
    BY <1>a, <2>1, <2>3, <2>5, <2>7 DEF PollerInv, localVars
  <2>10. NotifyInv'
    <3>1. \A k \in Ops : poller[k] = "notify" => cur[k] # o
      BY <1>a, <2>1 DEF PutInv, Unreported, Unlinked
    <3> QED BY <1>a, <2>1, <2>3, <3>1 DEF NotifyInv, localVars
  <2>11. ResponsibleInv'
    <3>1. CASE head = NULL
      <4>1. Responsible' = {o}
        BY <1>a, <2>1, <2>5, <2>6, <2>7, <3>1 DEF ResponsibleInv, Responsible, localVars, TypeOK
      <4> QED BY <2>1, <4>1 DEF ResponsibleInv
    <3>2. CASE head # NULL
      <4>1. Responsible' = Responsible
        BY <1>a, <2>1, <2>5, <3>2 DEF Responsible, localVars, TypeOK
      <4> QED BY <1>a, <2>1, <3>2, <4>1 DEF ResponsibleInv
    <3> QED BY <3>1, <3>2
  <2> QED BY <2>3, <2>4, <2>8, <2>9, <2>10, <2>11 DEF IInv
<1>3. CASE AppendSpawn(o)
  <2> USE <1>3 DEF AppendSpawn, At, opVars
  <2>1. poller[o] = "none"
    BY <1>a DEF PollerInv
  <2>2. /\ \A u \in Ops : u # o => /\ appender'[u] = appender[u]
                                   /\ poller'[u] = poller[u]
                                   /\ nonEmpty'[u] = nonEmpty[u]
        /\ appender'[o] = "done" /\ poller'[o] = "head" /\ nonEmpty'[o] = TRUE
    BY <1>a DEF TypeOK
  <2>3. Listed' = Listed /\ ListInv'
    BY <1>a DEF Listed, ListInv
  <2>4. TypeOK'
    BY <1>a DEF TypeOK, MaybeOp, Walking
  <2>5. PutInv'
    <3>1. Unreported' = Unreported
      BY <1>a, <2>2 DEF Unreported
    <3>2. Unlinked' = Unlinked
      BY <1>a, <2>1, <2>2 DEF Unlinked
    <3>3. \A u \in Ops : appender[u] \in {"spawn", "done"} => appender'[u] \in {"spawn", "done"}
      BY <2>2
    <3> QED BY <1>a, <2>3, <3>1, <3>2, <3>3 DEF PutInv
  <2>6. PollerInv'
    BY <1>a, <2>2, <2>3 DEF PollerInv, Walking
  <2>7. NotifyInv'
    BY <1>a, <2>2, <2>3 DEF NotifyInv
  <2>8. ResponsibleInv'
    <3>1. Responsible' = Responsible
      BY <1>a, <2>1, <2>2 DEF Responsible
    <3> QED BY <1>a, <3>1 DEF ResponsibleInv
  <2> QED BY <2>3, <2>4, <2>5, <2>6, <2>7, <2>8 DEF IInv
<1> QED BY <1>1, <1>2, <1>3 DEF Append

\* The steps of a poller that only read the list preserve the invariant.
LEMMA PollReadsIInv ==
    ASSUME IInv, NEW k \in Ops,
           PollHead(k) \/ PollNext(k) \/ TestComplete(k) \/ TestIncomplete(k)
           \/ UnlinkMoved(k) \/ Abort(k)
    PROVE  IInv'
<1> USE PendingOpsAssumption
<1>a. TypeOK /\ ListInv /\ PutInv /\ PollerInv /\ NotifyInv /\ ResponsibleInv
  BY DEF IInv
<1>b. /\ Listed \subseteq Ops
      /\ head # NULL => head \in Listed
      /\ \A u \in Listed : next[u] \in Listed \cup {NULL}
  BY <1>a, ListedFacts
<1>c. UNCHANGED <<opVars, appender>>
  BY DEF PollHead, PollNext, TestComplete, TestIncomplete, UnlinkMoved, Abort
<1>d. Listed' = Listed /\ ListInv'
  BY <1>a, <1>c DEF Listed, ListInv, opVars
<1>e. \A j \in Ops : j # k => /\ poller'[j] = poller[j] /\ nonEmpty'[j] = nonEmpty[j]
                              /\ prev'[j] = prev[j] /\ cur'[j] = cur[j] /\ rest'[j] = rest[j]
  BY <1>a DEF TypeOK, PollHead, PollNext, TestComplete, TestIncomplete, UnlinkMoved, Abort,
     Polls, localVars
<1>1. CASE PollHead(k)
  <2> USE <1>1 DEF PollHead, Polls
  <2>1. /\ poller[k] = "head" /\ poller'[k] = "next" /\ cur'[k] = head /\ head # NULL
        /\ prev'[k] = NULL /\ rest'[k] = rest[k] /\ nonEmpty[k] /\ nonEmpty'[k] = TRUE
    BY <1>a DEF TypeOK, PollerInv
  <2>2. TypeOK'
    BY <1>a, <1>c, <1>e, <2>1 DEF TypeOK, opVars, Walking, MaybeOp
  <2>3. PutInv'
    <3>1. Unlinked' = Unlinked
      BY <1>e, <2>1 DEF Unlinked
    <3> QED BY <1>a, <1>c, <1>d, <3>1 DEF PutInv, Unreported, opVars
  <2>4. PollerInv'
    BY <1>a, <1>b, <1>c, <1>d, <1>e, <2>1 DEF PollerInv, opVars, Walking
  <2>5. NotifyInv'
    BY <1>a, <1>c, <1>d, <1>e, <2>1 DEF NotifyInv, opVars
  <2>6. ResponsibleInv'
    <3>1. Responsible' = Responsible
      BY <1>c, <1>e, <2>1 DEF Responsible, Walking
    <3> QED BY <1>a, <1>c, <3>1 DEF ResponsibleInv, opVars
  <2> QED BY <1>d, <2>2, <2>3, <2>4, <2>5, <2>6 DEF IInv
<1>2. CASE PollNext(k)
  <2> USE <1>2 DEF PollNext, Polls
  <2>1. /\ poller[k] = "next" /\ poller'[k] = "test" /\ cur'[k] = cur[k]
        /\ prev'[k] = prev[k] /\ rest'[k] = next[cur[k]] /\ nonEmpty'[k] = nonEmpty[k]
        /\ cur[k] \in Listed
    BY <1>a DEF TypeOK, PollerInv
  <2>2. TypeOK'
    BY <1>a, <1>b, <1>c, <1>e, <2>1 DEF TypeOK, opVars, Walking, MaybeOp
  <2>3. PutInv'
    <3>1. Unlinked' = Unlinked
      BY <1>e, <2>1 DEF Unlinked
    <3> QED BY <1>a, <1>c, <1>d, <3>1 DEF PutInv, Unreported, opVars
  <2>4. PollerInv'
    BY <1>a, <1>b, <1>c, <1>d, <1>e, <2>1 DEF PollerInv, opVars, Walking
  <2>5. NotifyInv'
    BY <1>a, <1>c, <1>d, <1>e, <2>1 DEF NotifyInv, opVars
  <2>6. ResponsibleInv'
    <3>1. Responsible' = Responsible
      BY <1>c, <1>e, <2>1 DEF Responsible, Walking
    <3> QED BY <1>a, <1>c, <3>1 DEF ResponsibleInv, opVars
  <2> QED BY <1>d, <2>2, <2>3, <2>4, <2>5, <2>6 DEF IInv
<1>3. CASE TestComplete(k)
  <2> USE <1>3 DEF TestComplete, Polls, localVars
  <2>1. /\ poller[k] = "test" /\ poller'[k] = "unlink" /\ cur'[k] = cur[k]
        /\ prev'[k] = prev[k] /\ rest'[k] = rest[k] /\ nonEmpty'[k] = nonEmpty[k]
        /\ cur[k] \in complete
    BY <1>a DEF TypeOK, PollerInv
  <2>2. TypeOK'
    BY <1>a, <1>c, <1>e, <2>1 DEF TypeOK, opVars, Walking, MaybeOp
  <2>3. PutInv'
    <3>1. Unlinked' = Unlinked
      BY <1>e, <2>1 DEF Unlinked
    <3> QED BY <1>a, <1>c, <1>d, <3>1 DEF PutInv, Unreported, opVars
  <2>4. PollerInv'
    BY <1>a, <1>b, <1>c, <1>d, <1>e, <2>1 DEF PollerInv, opVars, Walking
  <2>5. NotifyInv'
    BY <1>a, <1>c, <1>d, <1>e, <2>1 DEF NotifyInv, opVars
  <2>6. ResponsibleInv'
    <3>1. Responsible' = Responsible
      BY <1>c, <1>e, <2>1 DEF Responsible, Walking
    <3> QED BY <1>a, <1>c, <3>1 DEF ResponsibleInv, opVars
  <2> QED BY <1>d, <2>2, <2>3, <2>4, <2>5, <2>6 DEF IInv
<1>4. CASE TestIncomplete(k)
  <2> USE <1>4 DEF TestIncomplete, Polls
  <2>1. /\ poller[k] = "test" /\ nonEmpty[k] /\ cur[k] \in Listed
        /\ rest[k] = next[cur[k]] /\ rest[k] \in Listed \cup {NULL}
    BY <1>a, <1>b DEF TypeOK, PollerInv
  <2>2. /\ poller'[k] = IF rest[k] # NULL THEN "next" ELSE "head"
        /\ cur'[k] = rest[k] /\ prev'[k] = cur[k]
        /\ rest'[k] = rest[k] /\ nonEmpty'[k] = nonEmpty[k]
    BY <1>a, <2>1 DEF TypeOK, Onwards
  <2>3. TypeOK'
    BY <1>a, <1>c, <1>e, <2>1, <2>2 DEF TypeOK, opVars, Walking, MaybeOp, Onwards
  <2>4. PutInv'
    <3>1. Unlinked' = Unlinked
      BY <1>e, <2>1, <2>2 DEF Unlinked
    <3> QED BY <1>a, <1>c, <1>d, <3>1 DEF PutInv, Unreported, opVars
  <2>5. PollerInv'
    BY <1>a, <1>b, <1>c, <1>d, <1>e, <2>1, <2>2 DEF PollerInv, opVars, Walking
  <2>6. NotifyInv'
    BY <1>a, <1>c, <1>d, <1>e, <2>1, <2>2 DEF NotifyInv, opVars
  <2>7. ResponsibleInv'
    <3>1. Responsible' = Responsible
      BY <1>c, <1>e, <2>1, <2>2 DEF Responsible, Walking
    <3> QED BY <1>a, <1>c, <3>1 DEF ResponsibleInv, opVars
  <2> QED BY <1>d, <2>3, <2>4, <2>5, <2>6, <2>7 DEF IInv
<1>5. CASE UnlinkMoved(k)
  <2> USE <1>5 DEF UnlinkMoved, Polls
  <2>1. /\ poller[k] = "unlink" /\ poller'[k] = "behind" /\ cur'[k] = cur[k]
        /\ prev'[k] = head /\ rest'[k] = rest[k] /\ nonEmpty'[k] = nonEmpty[k]
        /\ nonEmpty[k]
    BY <1>a DEF TypeOK, PollerInv
  <2>2. head # NULL
    BY <2>1, Alone DEF Responsible, Walking
  <2>3. TypeOK'
    BY <1>a, <1>c, <1>e, <2>1 DEF TypeOK, opVars, Walking, MaybeOp
  <2>4. PutInv'
    <3>1. Unlinked' = Unlinked
      BY <1>e, <2>1 DEF Unlinked
    <3> QED BY <1>a, <1>c, <1>d, <3>1 DEF PutInv, Unreported, opVars
  <2>5. PollerInv'
    BY <1>a, <1>b, <1>c, <1>d, <1>e, <2>1, <2>2 DEF PollerInv, opVars, Walking
  <2>6. NotifyInv'
    BY <1>a, <1>c, <1>d, <1>e, <2>1 DEF NotifyInv, opVars
  <2>7. ResponsibleInv'
    <3>1. Responsible' = Responsible
      BY <1>c, <1>e, <2>1 DEF Responsible, Walking
    <3> QED BY <1>a, <1>c, <3>1 DEF ResponsibleInv, opVars
  <2> QED BY <1>d, <2>3, <2>4, <2>5, <2>6, <2>7 DEF IInv
<1>6. CASE Abort(k)
  <2>1. UNCHANGED <<opVars, appender, poller, localVars>> /\ aborted' = TRUE
    BY <1>6 DEF Abort
  <2> QED
    BY <1>a, <1>d, <2>1 DEF IInv, opVars, localVars, TypeOK, PutInv, Unreported, Unlinked,
       PollerInv, NotifyInv, ResponsibleInv, Responsible
<1> QED BY <1>1, <1>2, <1>3, <1>4, <1>5, <1>6

\* Taking an operation off the list, at its head or behind a predecessor,
\* preserves the invariant.
LEMMA UnlinkIInv ==
    ASSUME IInv, NEW k \in Ops, UnlinkHead(k) \/ UnlinkBehind(k)
    PROVE  IInv'
<1> USE PendingOpsAssumption
<1>a. TypeOK /\ ListInv /\ PutInv /\ PollerInv /\ NotifyInv /\ ResponsibleInv
  BY DEF IInv
<1>b. /\ Listed \subseteq Ops
      /\ head # NULL => head \in Listed
      /\ \A u \in Listed : next[u] \in Listed \cup {NULL}
  BY <1>a, ListedFacts
<1>c. UNCHANGED <<complete, put, freed, appender, prev, cur, rest, aborted>>
  BY DEF UnlinkHead, UnlinkBehind, localVars
<1>d. /\ poller[k] \in {"unlink", "behind"} /\ poller'[k] = "notify"
      /\ \A j \in Ops : j # k => poller'[j] = poller[j] /\ nonEmpty'[j] = nonEmpty[j]
  BY <1>a DEF TypeOK, UnlinkHead, UnlinkBehind, Polls, localVars
<1>e. /\ appender[k] = "done" /\ nonEmpty[k]
      /\ cur[k] \in Listed /\ rest[k] = next[cur[k]]
      /\ cur[k] \in complete /\ rest[k] \in Listed \cup {NULL} /\ cur[k] \in Ops
  BY <1>a, <1>b, <1>d DEF PollerInv
<1>f. k \in Responsible
  BY <1>d, <1>e DEF Responsible, Walking
<1>g. /\ head # NULL /\ Responsible = {k}
      /\ \A j \in Ops : j # k =>
            /\ appender[j] # "spawn"
            /\ poller[j] \in {"none", "ended"} \/ (poller[j] = "notify" /\ ~nonEmpty[j])
  BY <1>f, Alone
<1>h. \A j \in Ops : j # k /\ poller[j] = "notify" =>
         cur[j] \notin Listed /\ cur[j] # cur[k] /\ rest[j] = NULL /\ prev[j] = NULL
  BY <1>a, <1>e, <1>g DEF NotifyInv
<1>i. ASSUME ListInv', Listed' = Listed \ {cur[k]}, next' \in [Ops -> MaybeOp],
             head' \in MaybeOp, nonEmpty' \in [Ops -> BOOLEAN],
             poller' \in [Ops -> Walking \cup {"none", "head", "ended"}],
             rest[k] # cur[k],
             prev[k] # NULL => prev[k] \in Listed' /\ next'[prev[k]] = rest[k],
             ~nonEmpty'[k] => rest[k] = NULL /\ prev[k] = NULL,
             ResponsibleInv'
      PROVE  IInv'
  <2> USE <1>i
  <2>1. TypeOK'
    BY <1>a, <1>c, <1>d, <1>e DEF TypeOK, Walking, MaybeOp
  <2>2. PutInv'
    <3>1. Unlinked' = Unlinked \cup {cur[k]}
      BY <1>c, <1>d DEF Unlinked
    <3> QED BY <1>a, <1>c, <1>e, <3>1 DEF PutInv, Unreported
  <2>3. PollerInv'
    <3>1. \A j \in Ops : j # k => poller'[j] \in {"none", "notify", "ended"} /\ poller'[j] = poller[j]
      BY <1>d, <1>g
    <3>2. \A j \in Ops : j # k => nonEmpty'[j] = nonEmpty[j]
      BY <1>d
    <3> QED BY <1>a, <1>c, <1>d, <1>e, <1>h, <3>1, <3>2 DEF PollerInv, Walking
  <2>4. NotifyInv'
    BY <1>a, <1>c, <1>d, <1>e, <1>g, <1>h DEF NotifyInv
  <2> QED BY <2>1, <2>2, <2>3, <2>4 DEF IInv
<1>1. CASE UnlinkHead(k)
  <2> USE <1>1 DEF UnlinkHead, Polls
  <2>1. ListInv' /\ Listed' = Listed \ {cur[k]} /\ (head' # NULL => head' \in Listed')
    BY <1>a, <1>e, UnlinkFirst
  <2>2. nonEmpty'[k] = (rest[k] # NULL) /\ prev[k] = NULL
    BY <1>a DEF TypeOK
  <2>3. rest[k] # cur[k]
    BY <1>e, <2>1
  <2>4. /\ head' \in MaybeOp /\ nonEmpty' \in [Ops -> BOOLEAN] /\ next' \in [Ops -> MaybeOp]
        /\ poller' \in [Ops -> Walking \cup {"none", "head", "ended"}]
    BY <1>a DEF TypeOK, Walking
  <2>5. ResponsibleInv'
    <3>1. Responsible' = IF rest[k] = NULL THEN {} ELSE {k}
      BY <1>c, <1>d, <1>e, <1>g, <2>2 DEF Responsible, Walking
    <3> QED BY <3>1 DEF ResponsibleInv
  <2> QED BY <1>i, <2>1, <2>2, <2>3, <2>4, <2>5
<1>2. CASE UnlinkBehind(k)
  <2> USE <1>2 DEF UnlinkBehind, localVars
  <2>1. prev[k] \in Listed
    BY <1>a, <1>d DEF PollerInv, Walking
  <2>2. /\ ListInv' /\ Listed' = Listed \ {cur[k]} /\ cur[k] # prev[k] /\ cur[k] # rest[k]
        /\ next'[prev[k]] = rest[k]
    <3>1. next' = [next EXCEPT ![prev[k]] = next[cur[k]]] /\ next[prev[k]] = cur[k] /\ head' = head
      BY <1>e
    <3>2. /\ ListInv' /\ Listed' = Listed \ {cur[k]} /\ cur[k] # prev[k] /\ cur[k] # next[cur[k]]
          /\ next'[prev[k]] = next[cur[k]]
      BY ONLY <1>a, <1>e, <2>1, <3>1, UnlinkSecond, Zenon
    <3> QED BY <1>e, <3>2
  <2>3. /\ head' \in MaybeOp /\ nonEmpty' \in [Ops -> BOOLEAN] /\ next' \in [Ops -> MaybeOp]
        /\ poller' \in [Ops -> Walking \cup {"none", "head", "ended"}]
    BY <1>a, <1>e DEF TypeOK, Walking
  <2>4. ResponsibleInv'
    <3>1. Responsible' = Responsible
      BY <1>c, <1>d, <1>e DEF Responsible, Walking
    <3> QED BY <1>a, <3>1 DEF ResponsibleInv
  <2> QED BY <1>e, <1>i, <2>1, <2>2, <2>3, <2>4
<1> QED BY <1>1, <1>2

\* Reporting and freeing an operation preserves the invariant.
LEMMA NotifyIInv ==
    ASSUME IInv, NEW k \in Ops, Notify(k)
    PROVE  IInv'
<1> USE PendingOpsAssumption DEF Notify, Polls
<1>a. TypeOK /\ ListInv /\ PutInv /\ PollerInv /\ NotifyInv /\ ResponsibleInv
  BY DEF IInv
<1>b. Listed' = Listed /\ ListInv' /\ Listed \subseteq Ops
  BY <1>a, ListedFacts DEF Listed, ListInv
<1>c. /\ poller[k] = "notify" /\ cur[k] \in Ops \ Listed /\ cur[k] \in complete
      /\ rest[k] \in Listed \cup {NULL}
      /\ prev[k] # NULL => prev[k] \in Listed /\ next[prev[k]] = rest[k]
      /\ ~nonEmpty[k] => rest[k] = NULL
  BY <1>a DEF NotifyInv, PollerInv, Walking
<1>d. put[cur[k]] = 0 /\ appender[cur[k]] \in {"spawn", "done"}
  BY <1>a, <1>c DEF PutInv, Unlinked, Unreported
<1>e. /\ poller'[k] = Onwards(k) /\ cur'[k] = rest[k]
      /\ \A j \in Ops : j # k => poller'[j] = poller[j] /\ cur'[j] = cur[j]
      /\ put'[cur[k]] = 1 /\ \A o \in Ops : o # cur[k] => put'[o] = put[o]
  BY <1>a, <1>c, <1>d DEF TypeOK
<1>f. /\ Onwards(k) \in {"next", "head", "ended"}
      /\ Onwards(k) = "next" <=> rest[k] # NULL
      /\ Onwards(k) = "ended" <=> ~nonEmpty[k]
  BY <1>a, <1>c DEF Onwards, TypeOK
<1>1. TypeOK'
  BY <1>a, <1>b, <1>c, <1>d, <1>e, <1>f DEF TypeOK, Walking, MaybeOp
<1>2. PutInv'
  <2>1. Unlinked' = Unlinked \ {cur[k]}
    BY <1>a, <1>c, <1>e, <1>f DEF Unlinked, NotifyInv
  <2>2. Unreported' = Unreported \ {cur[k]}
    BY <1>c, <1>e DEF Unreported
  <2>3. Unreported' = Listed' \cup Unlinked'
    BY <1>a, <1>b, <1>c, <2>1, <2>2 DEF PutInv
  <2> QED BY <1>a, <1>c, <1>d, <1>e, <2>3 DEF PutInv
<1>3. PollerInv'
  BY <1>a, <1>b, <1>c, <1>e, <1>f DEF PollerInv, Walking
<1>4. NotifyInv'
  BY <1>a, <1>b, <1>e, <1>f DEF NotifyInv
<1>5. ResponsibleInv'
  <2>1. Responsible' = Responsible
    BY <1>c, <1>e, <1>f DEF Responsible, Walking
  <2> QED BY <1>a, <2>1 DEF ResponsibleInv
<1> QED BY <1>b, <1>1, <1>2, <1>3, <1>4, <1>5 DEF IInv

\* Every step preserves the invariant.
LEMMA NextIInv == IInv /\ [Next]_vars => IInv'
<1> SUFFICES ASSUME IInv, [Next]_vars PROVE IInv'
  OBVIOUS
<1>1. ASSUME NEW o \in Ops, Complete(o) PROVE IInv'
  BY <1>1 DEF Complete, localVars, IInv, TypeOK, ListInv, Listed, PutInv, Unreported, Unlinked,
     PollerInv, NotifyInv, ResponsibleInv, Responsible
<1>2. CASE UNCHANGED vars
  BY <1>2 DEF vars, opVars, localVars, IInv, TypeOK, ListInv, Listed, PutInv, Unreported,
     Unlinked, PollerInv, NotifyInv, ResponsibleInv, Responsible
<1> QED
  BY <1>1, <1>2, AppendIInv, PollReadsIInv, UnlinkIInv, NotifyIInv DEF Next, Poll

\* The invariant holds in every reachable state.
LEMMA InvariantHolds == Spec => []IInv
BY InitIInv, NextIInv, PTL DEF Spec

-----------------------------------------------------------------------------
(* The theorems *)

\* However many operations are appended while the poller removes others, no
\* operation falls off the list before it is reported.
THEOREM NoneLostHolds == Spec => []NoneLost
<1>1. IInv => NoneLost
  BY DEF IInv, PutInv, NoneLost, Unreported, Unlinked
<1> QED BY <1>1, InvariantHolds, PTL

\* The append that finds the list empty and the poller that empties it agree:
\* a list with operations always has exactly one poller, an empty one none.
THEOREM OnePollerHolds == Spec => []OnePoller
<1>1. IInv => OnePoller
  <2> SUFFICES ASSUME IInv PROVE OnePoller
    OBVIOUS
  <2>1. OnePoller <=> Cardinality(Responsible) = IF head = NULL THEN 0 ELSE 1
    BY DEF OnePoller, Responsible
  <2>2. CASE head = NULL
    BY <2>1, <2>2, FS_EmptySet DEF IInv, ResponsibleInv
  <2>3. CASE head # NULL
    BY <2>1, <2>3, FS_Singleton DEF IInv, ResponsibleInv
  <2> QED BY <2>2, <2>3
<1> QED BY <1>1, InvariantHolds, PTL

\* The poller never follows or writes through an operation it has freed.
THEOREM NoUseAfterFreeHolds == Spec => []NoUseAfterFree
<1>1. IInv => NoUseAfterFree
  <2> SUFFICES ASSUME IInv PROVE NoUseAfterFree
    OBVIOUS
  <2>1. Listed \cup Unlinked = Unreported /\ \A o \in Ops : o \in freed <=> put[o] = 1
    BY DEF IInv, PutInv
  <2>2. Unreported \cap freed = {}
    BY <2>1 DEF Unreported
  <2>3. NULL \notin freed
    BY PendingOpsAssumption DEF IInv, TypeOK
  <2>4. \A k \in Ops : poller[k] \in Walking =>
           cur[k] \in Listed \cup Unlinked /\ prev[k] \in Listed \cup {NULL}
    BY DEF IInv, PollerInv, Unlinked, Walking
  <2> QED BY <2>1, <2>2, <2>3, <2>4 DEF NoUseAfterFree
<1> QED BY <1>1, InvariantHolds, PTL

\* The promise of an operation is put at most once, and only when the
\* operation is complete.
THEOREM ReportedOnceHolds == Spec => []ReportedOnce
<1>1. IInv => ReportedOnce
  BY DEF IInv, PutInv, ReportedOnce
<1> QED BY <1>1, InvariantHolds, PTL

=============================================================================
