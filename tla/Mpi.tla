-------------------------------- MODULE Mpi --------------------------------
(***************************************************************************)
(* The MPI module (src/modules/mpi), next to Shmem: point-to-point and     *)
(* collective calls made by the interconnect worker, and the operations    *)
(* that return a future and are polled for (PendingOps).                   *)
(*                                                                         *)
(* An operation that returns a future is a task of one call, which its     *)
(* caller starts; the future is the promise of that call.  What MPI does   *)
(* is external: a send may be buffered or wait for the receive, and        *)
(* requests match in the order in which they were made.                    *)
(***************************************************************************)
EXTENDS Shmem

VARIABLE
    reqs        \* the requests made to MPI, in order

mpiVars == <<vars, reqs>>

-----------------------------------------------------------------------------
(* Calls *)

\* finish { async_nb_at(the call, nic) }
MPI_Send(buf, dest, tag) == Instr("send", "request", NULL, buf, tag, dest)
MPI_Recv(buf, source, tag) == Instr("recv", "request", buf, NULL, tag, source)
MPI_Allreduce(sendbuf, recvbuf) == NicCall("sum", recvbuf, sendbuf, NULL, NULL)
MPI_Allgather(sendbuf, recvbuf) == NicCall("collect", recvbuf, sendbuf, NULL, NULL)
MPI_Bcast(buffer, root) == NicCall("broadcast", buffer, buffer, root, NULL)
MPI_Barrier == NicCall("barrier", NULL, NULL, NULL, NULL)
MPI_Reduce(sendbuf, recvbuf, root) == NicCall("reduce", recvbuf, sendbuf, root, NULL)

\* The calls that a task op makes at the interconnect locale.
Isend(buf, dest, tag) == Instr("isend", "request", NULL, buf, tag, dest)
Irecv(buf, source, tag) == Instr("irecv", "request", buf, NULL, tag, source)

\* async_nb_await_at(op, fut, nic); the future returned is Future(op).
Future(op) == <<op, 1>>
MPI_Isend_await(op, fut) == Instr("async", "async", op, fut, NULL, NULL)
MPI_Isend(op) == MPI_Isend_await(op, NULL)
MPI_Irecv_await(op, fut) == Instr("async", "async", op, fut, NULL, NULL)
MPI_Irecv(op) == MPI_Irecv_await(op, NULL)
MPI_Allreduce_future(op) == Instr("async", "async", op, NULL, NULL, NULL)
MPI_Waitall(ops) == Instr("waitall", "waitall", NULL, NULL, ops, NULL)

-----------------------------------------------------------------------------
(* MPI *)

Sends == {"send", "isend"}
Request(t) ==
    [id |-> Mine(t), kind |-> IF Now(t).lib \in Sends THEN "send" ELSE "recv",
     at |-> PEOf[t], peer |-> Now(t).pe, tag |-> Now(t).v,
     buf |-> IF Now(t).lib \in Sends THEN Now(t).b ELSE Now(t).a,
     value |-> NULL, matched |-> FALSE]

\* The first request that is not matched among those like request i.
Foremost(i) ==
    /\ ~reqs[i].matched
    /\ \A j \in 1 .. i - 1 : ~reqs[j].matched =>
            <<reqs[j].kind, reqs[j].at, reqs[j].peer, reqs[j].tag>>
                # <<reqs[i].kind, reqs[i].at, reqs[i].peer, reqs[i].tag>>

\* MPI takes the message of a send before there is a receive for it.
Buffer(i) ==
    /\ reqs[i].kind = "send" /\ reqs[i].value = NULL
    /\ reqs' = [reqs EXCEPT ![i].value = mem[reqs[i].at][reqs[i].buf]]
    /\ UNCHANGED vars

\* A send meets a receive.
Match(i, j) ==
    LET snd == reqs[i]  rcv == reqs[j]
        value == IF snd.value = NULL THEN mem[snd.at][snd.buf] ELSE snd.value
    IN  /\ snd.kind = "send" /\ rcv.kind = "recv"
        /\ snd.peer = rcv.at /\ rcv.peer = snd.at /\ snd.tag = rcv.tag
        /\ Foremost(i) /\ Foremost(j)
        /\ mem' = [mem EXCEPT ![rcv.at][rcv.buf] = value]
        /\ reqs' = [reqs EXCEPT ![i].matched = TRUE, ![i].value = value, ![j].matched = TRUE]
        /\ UNCHANGED <<tasks, busy, entered, epoch, flight, cell, fetched, owner, locking, aborted>>

\* MPI_Test says that the request of task t is complete.
test_mpi_completion(t) ==
    \E i \in DOMAIN reqs :
        /\ reqs[i].id = Mine(t)
        /\ IF reqs[i].kind = "send" THEN reqs[i].value # NULL ELSE reqs[i].matched

-----------------------------------------------------------------------------
(* The interconnect worker *)

\* The request is made.  MPI_Send and MPI_Recv stay in MPI; after MPI_Isend and
\* MPI_Irecv the operation is appended to the list of pending ones.
MakeRequest(t) ==
    /\ Inside(t) /\ stage[t] = "posted" /\ Now(t).via = "request"
    /\ reqs' = Append(reqs, Request(t))
    /\ IF Now(t).lib \in {"send", "recv"}
       THEN Goes(t, "entered") /\ UNCHANGED busy
       ELSE Goes(t, "pending") /\ busy' = [busy EXCEPT ![PEOf[t]] = NULL]
    /\ UNCHANGED <<entered, epoch, flight, mem, cell, fetched, owner, locking, aborted>>

\* MPI_Send or MPI_Recv returns.
RequestReturn(t) ==
    /\ Inside(t) /\ stage[t] = "entered" /\ Now(t).via = "request"
    /\ test_mpi_completion(t)
    /\ busy' = [busy EXCEPT ![PEOf[t]] = NULL]
    /\ Goes(t, "done")
    /\ UNCHANGED <<entered, epoch, flight, mem, cell, fetched, owner, locking, aborted, reqs>>

\* Between two calls it polls a pending operation.
poll_on_pending(t) ==
    /\ ~aborted /\ stage[t] = "pending" /\ busy[PEOf[t]] = NULL
    /\ test_mpi_completion(t)
    /\ Goes(t, "done")
    /\ UNCHANGED <<library, locking, aborted, reqs>>

-----------------------------------------------------------------------------
(* Tasks *)

\* Mutant of async_nb_await_at: the future is forgotten.
async_nb_at(t) ==
    LET op == Now(t).a IN
    /\ In(t, "run", {"async"})
    /\ stage' = [stage EXCEPT ![op] = "posted"]
    /\ pc' = [pc EXCEPT ![t] = @ + 1]
    /\ UNCHANGED <<program, conds, turn, library, locking, aborted, reqs>>

\* The operation is spawned and the caller goes on.
async_nb_await_at(t) ==
    LET op == Now(t).a IN
    /\ In(t, "run", {"async"})
    /\ stage' = [stage EXCEPT ![op] = "posted"]
    /\ await' = [await EXCEPT ![op] = Now(t).b]
    /\ pc' = [pc EXCEPT ![t] = @ + 1]
    /\ UNCHANGED <<program, conds, turn, library, last, live, toPut, satisfied, aborted, reqs>>

\* The futures are waited for one after the other; each stays satisfied.
Waitall(t) ==
    /\ In(t, "run", {"waitall"})
    /\ {Future(op) : op \in Now(t).v} \subseteq satisfied
    /\ Returns(t)
    /\ UNCHANGED <<library, locking, aborted, reqs>>

MpiStep(t) ==
    \/ MakeRequest(t) \/ RequestReturn(t) \/ poll_on_pending(t)
    \/ async_nb_await_at(t) \/ Waitall(t)

MpiInit == Init /\ reqs = << >>

MpiNext ==
    \/ Next /\ UNCHANGED reqs
    \/ \E t \in Tasks : MpiStep(t)
    \/ \E i \in DOMAIN reqs : Buffer(i) \/ \E j \in DOMAIN reqs : Match(i, j)

\* As FairSpec of Shmem, and requests that match are matched; buffering is up
\* to MPI.
MpiSpec ==
    /\ MpiInit /\ [][MpiNext]_mpiVars
    /\ \A t \in Tasks :
        /\ WF_mpiVars(NicStep(t) /\ UNCHANGED reqs)
        /\ WF_mpiVars(TaskStep(t) /\ UNCHANGED reqs)
        /\ WF_mpiVars(MpiStep(t))
    /\ WF_mpiVars((\E m \in flight : Deliver(m)) /\ UNCHANGED reqs)
    /\ WF_mpiVars(\E i, j \in DOMAIN reqs : Match(i, j))

-----------------------------------------------------------------------------
(* Properties *)

\* A task that has waited for its futures finds in memory what the program
\* says: a value is relayed from PE to PE through operations that wait for each
\* other's futures (MPI_Isend_await), whatever the interconnect workers and MPI
\* do in between.  program.results is a set of [task, pe, addr, value].
ResultsDelivered ==
    \A r \in program.results :
        stage[r.task] = "run" /\ Ended(r.task) => mem[r.pe][r.addr] = r.value
=============================================================================
