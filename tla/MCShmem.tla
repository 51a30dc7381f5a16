------------------------------- MODULE MCShmem -------------------------------
(* Two PEs of three tasks each, and programs for the calls of the modules. *)
EXTENDS Mpi

CONSTANTS a1, a2, a3, b1, b2, b3, x, y, s, c, L

MCPEOf == [t \in {a1, a2, a3, b1, b2, b3} |-> IF t \in {a1, a2, a3} THEN 0 ELSE 1]

Code(fa1, fa2, fb1, fb2) ==
    [t \in {a1, a2, a3, b1, b2, b3} |->
        CASE t = a1 -> fa1 [] t = a2 -> fa2 [] t = b1 -> fb1 [] t = b2 -> fb2 [] OTHER -> << >>]
Program(module, start, code) ==
    [module |-> module, start |-> start, code |-> code, ones |-> {}, results |-> {}]

Critical == <<shmem_set_lock(L), shmem_clear_lock(L)>>

\* Three tasks want one lock, two of them on the same PE.
Locked(module) == Program(module, {a1, a2, b1}, Code(Critical, Critical, Critical, << >>))

\* A task of the other PE waits for the signal, another is spawned by it.
Signalled ==
    Program("openshmem", {a1, b1},
        Code(<<shmem_int_p(x, 1, 0), shmem_quiet, shmem_char_put_signal_nbi(y, x, s, 1, 1)>>,
             << >>,
             <<shmem_int_async_when_any({<<s, "NE", 0>>, <<y, "EQ", 7>>}, b2), shmem_int_wait_until(s, "EQ", 1),
               shmem_int_get(x, y, 1)>>,
             <<shmem_int_wait_until_any({<<x, "EQ", 1>>, <<y, "EQ", 1>>})>>))

\* Puts before a barrier, and atomics of other tasks at the same time.
Barriered ==
    Program("openshmem", {a1, a2, b1, b2},
        Code(<<shmem_put64(y, x, 1), shmem_char_put_nbi(s, x, 1), shmem_barrier_all, shmem_fence>>,
             <<shmem_int_fadd(c, 2, 1)>>,
             <<shmem_longlong_put(y, x, 0), shmem_barrier_all, shmem_getmem(x, y, 0)>>,
             <<shmem_int_finc(c, 1), shmem_longlong_fadd(c, 1, 1)>>))

Written ==
    Program("openshmem", {a1, a2, b1},
        Code(<<shmem_putmem(y, x, 1), shmem_int_put(y, x, 1), shmem_fence, shmem_longlong_p(y, 2, 1)>>,
             <<shmem_int_add(c, 1, 1), shmem_int_swap(c, 1, 0)>>,
             <<shmem_int_async_when(y, "NE", 0, b2), shmem_int_wait_until(y, "EQ", 2)>>, << >>))

Reduced ==
    LET calls == <<shmem_malloc, shmem_int_sum_to_all(y, x), shmem_longlong_sum_to_all(y, x),
                   shmem_longlong_max_to_all(y, x), shmem_broadcast64(y, x, 1), shmem_broadcast32(y, x, 0),
                   shmem_collect32(y, x), shmem_fcollect64(y, x), shmem_free>>
    IN  Program("openshmem", {a1, b1}, Code(<<shmem_int_p(x, 1, 0)>> \o calls, << >>, calls, << >>))

SosBarriered ==
    Program("sos", {a1, a2, b1},
        Code(<<sos_putmem(y, x, 1), sos_int_put(s, x, 1), sos_barrier_all>>,
             <<sos_longlong_fadd(c, 1, 1), sos_int_finc(c, 1)>>,
             <<sos_putmem(y, x, 0), sos_barrier_all, sos_getmem(x, y, 0)>>, << >>))

SosAtomics ==
    Program("sos", {a1, b1, b2},
        Code(<<sos_long_finc(c, 1), sos_int_swap(x, 2, 1)>>, << >>,
             <<sos_int_finc(c, 1), sos_int_cswap(x, 2, 1, 1)>>,
             <<sos_longlong_fadd(c, 1, 1)>>))

SosPassed ==
    LET calls == <<sos_malloc, sos_int_sum_to_all(y, x), sos_longlong_sum_to_all(y, x),
                   sos_longlong_max_to_all(y, x), sos_broadcast64(y, x, 1),
                   sos_collect32(y, x), sos_fcollect64(y, x), sos_free>>
    IN  Program("sos", {a1, a2, b1},
            Code(calls, <<sos_put64(c, x, 1), sos_fence, sos_int_fadd(c, 1, 1), sos_int_add(c, 1, 1)>>,
                 <<sos_longlong_p(x, 1, 1), sos_quiet>> \o calls, << >>))

SosSignalled ==
    Program("sos", {a1, b1},
        Code(<<sos_longlong_p(x, 1, 0), sos_longlong_put(c, x, 0), sos_quiet, sos_char_put_nbi(y, c, 1),
               sos_char_put_signal_nbi(y, x, s, 1, 1)>>,
             << >>,
             <<sos_int_wait_until(s, "NE", 0), sos_int_get(x, y, 1)>>, << >>))

\* A value goes to the other PE and back, each operation behind the one before.
Relayed ==
    [module |-> "mpi", start |-> {a1, b1}, ones |-> {<<0, x>>},
     code |-> [Code(<<MPI_Irecv(a3), MPI_Isend(a2), MPI_Waitall({a2, a3})>>, <<Isend(x, 1, 1)>>,
                    <<MPI_Irecv(b2), MPI_Isend_await(b3, Future(b2)), MPI_Waitall({b2, b3})>>,
                    <<Irecv(y, 0, 1)>>)
               EXCEPT ![a3] = <<Irecv(c, 1, 2)>>, ![b3] = <<Isend(y, 0, 2)>>],
     results |-> {[task |-> a1, pe |-> 0, addr |-> c, value |-> 1], [task |-> b1, pe |-> 1, addr |-> y, value |-> 1]}]

\* Blocking calls, a receive that waits for them, and a reduction in the
\* background.
Exchanged ==
    [module |-> "mpi", start |-> {a1, b1}, ones |-> {<<0, x>>, <<1, s>>},
     code |-> Code(<<MPI_Send(x, 1, 1), MPI_Recv(y, 1, 1), MPI_Allreduce_future(a2), MPI_Waitall({a2})>>,
                   <<MPI_Allreduce(y, c)>>,
                   <<MPI_Irecv_await(b2, NULL), MPI_Waitall({b2}), MPI_Send(s, 0, 1), MPI_Allreduce(y, c)>>,
                   <<Irecv(y, 0, 1)>>),
     results |-> {[task |-> a1, pe |-> 0, addr |-> c, value |-> 2], [task |-> b1, pe |-> 1, addr |-> c, value |-> 2]}]

Gathered ==
    LET calls == <<MPI_Bcast(x, 0), MPI_Barrier, MPI_Allgather(x, y), MPI_Allreduce(y, c), MPI_Reduce(x, s, 1)>> IN
    [module |-> "mpi", start |-> {a1, b1}, ones |-> {<<0, x>>}, code |-> Code(calls, << >>, calls, << >>),
     results |-> {[task |-> a1, pe |-> 0, addr |-> c, value |-> 6], [task |-> a1, pe |-> 0, addr |-> s, value |-> 0],
                  [task |-> b1, pe |-> 1, addr |-> s, value |-> 2]}]

MCPrograms ==
    {Locked("openshmem"), Locked("sos"), Signalled, Barriered, Written, Reduced, SosBarriered, SosAtomics,
     SosPassed, SosSignalled, Relayed, Exchanged, Gathered}

\* Every program but SosPassed, which also puts to it, only adds to a counter.
ASSUME CountersAssumption == \A prog \in MCPrograms \ {SosPassed} : Counted(prog)

\* Every program makes its collective calls in step, and its signals have a
\* place of their own.
ASSUME InStepAssumption == \A prog \in MCPrograms : InStep(prog) /\ OwnSignals(prog)
=============================================================================
