------------------------------ MODULE Runtime ------------------------------
(***************************************************************************)
(* The scheduler of src/src/hclib-runtime.c: workers that run tasks on     *)
(* lightweight contexts (src/src/inc/litectx.h), finish scopes counted by  *)
(* finish_t, waits on futures and yields that set the current context      *)
(* aside, and the launch and shutdown of a program.                        *)
(*                                                                         *)
(* Deques are used through their abstract operations (TaskDeque, which     *)
(* Deque implements) and hclib_promise_put as one step (see Promise).  A   *)
(* context is the stack of the runtime and user frames on it.              *)
(***************************************************************************)
EXTENDS Integers, Sequences, FiniteSets, FiniteSetsExt

CONSTANTS
    MaxWorkers,     \* the most workers a program is run with
    MaxCtx,         \* bound on the contexts alive at a time
    Tasks,          \* user tasks, Entry among them
    Entry,          \* the task hclib_launch creates
    Main,           \* the frame of _hclib_finalize_ctx
    Promises,
    Programs,       \* the programs considered, [nworkers, nonblocking, code]: the number of
                    \* workers, the tasks created by hclib_async_nb, the instructions of each task
    NULL

Ctxs == 0 .. MaxCtx - 1

ASSUME RuntimeAssumption ==
    /\ MaxWorkers \in Nat /\ MaxCtx \in Nat /\ MaxCtx >= MaxWorkers
    /\ Entry \in Tasks /\ Main \notin Tasks
    /\ \A prog \in Programs :
        prog.nworkers \in 1 .. MaxWorkers /\ prog.nonblocking \subseteq Tasks /\ DOMAIN prog.code = Tasks

(***************************************************************************)
(* The instructions of a task.  _hclib_finalize_ctx ends the root finish.  *)
(***************************************************************************)
Async(u)    == [op |-> "async",  arg |-> u,    on |-> NULL]   \* hclib_async, no futures
Await(u, p) == [op |-> "async",  arg |-> u,    on |-> p]      \* hclib_async on a future
StartFinish == [op |-> "start",  arg |-> NULL, on |-> NULL]
EndFinish   == [op |-> "end",    arg |-> NULL, on |-> NULL]
EndFinishNB(p) == [op |-> "endNB", arg |-> NULL, on |-> p]    \* p is the event returned
Put(p)      == [op |-> "put",    arg |-> NULL, on |-> p]
Wait(p)     == [op |-> "wait",   arg |-> NULL, on |-> p]
Yield       == [op |-> "yield",  arg |-> NULL, on |-> NULL]

\* A finish scope is known by the place that starts it.
Root == <<Main, 0>>
Starts(code) == {i \in DOMAIN code : code[i].op = "start"}
Finishes == {Root} \cup UNION {{t} \X Starts(prog.code[t]) : t \in Tasks, prog \in Programs}

ASSUME NullAssumption == NULL \notin Tasks \cup {Main} \cup Promises \cup Finishes

\* The start_finish instructions whose scope is open before each instruction:
\* an end closes the scope that was started last.
OpenedBy(code, i, open) ==
    CASE code[i].op = "start" -> open \cup {i}
      [] code[i].op \in {"end", "endNB"} -> {s \in open : \E u \in open : s < u}
      [] OTHER -> open

OpenStarts(code) ==
    LET open[i \in 1 .. Len(code) + 1] == IF i = 1 THEN {} ELSE OpenedBy(code, i - 1, open[i - 1])
    IN  open

(***************************************************************************)
(* Programs that spawn tasks, put promises and join in nested finish       *)
(* scopes, without waits and yields: every end has a start, every scope is *)
(* ended by the task that starts it, and every task is spawned at most     *)
(* once.                                                                   *)
(***************************************************************************)
Spawnable == Tasks \ {Entry}
SpawnJoinInstructions ==
    {Async(u) : u \in Spawnable} \cup {Await(u, p) : u \in Spawnable, p \in Promises}
    \cup {Put(p) : p \in Promises} \cup {StartFinish, EndFinish}

SpawnJoin(prog) ==
    /\ \A t \in Tasks :
        /\ prog.code[t] \in Seq(SpawnJoinInstructions)
        /\ \A i \in DOMAIN prog.code[t] :
            prog.code[t][i].op = "end" => OpenStarts(prog.code[t])[i] # {}
        /\ OpenStarts(prog.code[t])[Len(prog.code[t]) + 1] = {}
    /\ \A t, u \in Tasks : \A i \in DOMAIN prog.code[t], j \in DOMAIN prog.code[u] :
        /\ prog.code[t][i].op = "async"
        /\ prog.code[u][j].op = "async"
        /\ prog.code[t][i].arg = prog.code[u][j].arg
        => t = u /\ i = j

VARIABLES
    program,    \* the program that runs
    stack,      \* the frames on each context, innermost last; << >>: not allocated
    prev,       \* ctx->prev, the context that last swapped to this one
    current,    \* ws->curr_ctx
    wsFinish,   \* ws->current_finish
    deque,      \* the tasks in each worker's deque, oldest first
    finish,     \* task->current_finish
    counter,    \* finish->counter
    parent,     \* finish->parent
    finishDep,  \* finish->finish_dep
    satisfied,  \* promise->satisfied
    waiting,    \* the wait list of each promise
    runs,       \* how often each task was started
    ended,      \* finish scopes whose end has been passed
    done,       \* done_flags
    exited      \* workers back on their root context

vars == <<program, stack, prev, current, wsFinish, deque, finish, counter, parent,
          finishDep, satisfied, waiting, runs, ended, done, exited>>

Workers == 0 .. program.nworkers - 1
Code(t) == IF t = Main THEN <<EndFinish>> ELSE program.code[t]

(***************************************************************************)
(* A frame: what runs (kind), for which task and at which instruction, the *)
(* finish or promise it is about (on), the worker state it keeps in a      *)
(* local variable (ws) and the finish it restores when it returns (fin).   *)
(***************************************************************************)
Frame(kind, t, on, ws, fin) ==
    [kind |-> kind, task |-> t, at |-> 1, on |-> on, ws |-> ws, fin |-> fin]

Loop     == Frame("loop", NULL, NULL, NULL, NULL)     \* core_work_loop
Resuming == Frame("resume", NULL, NULL, NULL, NULL)   \* _finish_ctx_resume
Body(t)  == Frame("task", t, NULL, NULL, NULL)

Top(w) == stack[current[w]][Len(stack[current[w]])]
Below(w) == SubSeq(stack[current[w]], 1, Len(stack[current[w]]) - 1)
Running(w, kind) == w \notin exited /\ Top(w).kind = kind

\* A deque holds user tasks and the continuations of contexts.
Continuation(c) == [ctx |-> c]
Items == Tasks \cup {Continuation(c) : c \in Ctxs}

-----------------------------------------------------------------------------
(* hclib_launch: the root finish is started, the entry task is spawned, the  *)
(* first worker enters _hclib_finalize_ctx and the others core_work_loop.    *)
Init ==
    /\ program \in Programs
    /\ stack = [c \in Ctxs |-> IF c = 0 THEN <<Body(Main)>>
                               ELSE IF c \in Workers THEN <<Loop>> ELSE << >>]
    /\ prev = [c \in Ctxs |-> NULL]
    /\ current = [w \in Workers |-> w]
    /\ wsFinish = [w \in Workers |-> IF w = 0 THEN Root ELSE NULL]
    /\ deque = [w \in Workers |-> IF w = 0 THEN <<Entry>> ELSE << >>]
    /\ finish = [t \in Tasks |-> IF t = Entry THEN Root ELSE NULL]
    /\ counter = [f \in Finishes |-> IF f = Root THEN 2 ELSE 0]
    /\ parent = [f \in Finishes |-> NULL]
    /\ finishDep = [f \in Finishes |-> NULL]
    /\ satisfied = [p \in Promises |-> FALSE]
    /\ waiting = [p \in Promises |-> << >>]
    /\ runs = [t \in Tasks |-> 0]
    /\ ended = {}
    /\ done = FALSE
    /\ exited = {}

-----------------------------------------------------------------------------
(* Pieces of steps *)

\* rt_schedule_async, or the end of a wait list: task x of worker w waits for
\* p, if there is a p and it is not satisfied.
ScheduleOn(w, x, p) ==
    IF p = NULL \/ satisfied[p]
    THEN deque' = [deque EXCEPT ![w] = Append(@, x)] /\ UNCHANGED waiting
    ELSE waiting' = [waiting EXCEPT ![p] = <<x>> \o @] /\ UNCHANGED deque

\* hclib_promise_put: the tasks of the wait list are scheduled in its order.
PutOn(w, p) ==
    /\ satisfied' = [satisfied EXCEPT ![p] = TRUE]
    /\ waiting' = [waiting EXCEPT ![p] = << >>]
    /\ deque' = [deque EXCEPT ![w] = @ \o waiting[p]]

\* check_out_finish for each of a set of finishes; dep gives the event of each.
\* At most one reaches zero: a parent still counts its own body.
CheckOut(w, fs, dep) ==
    LET zero == {f \in fs : counter[f] = 1} IN
    /\ counter' = [f \in Finishes |-> counter[f] - (IF f \in fs THEN 1 ELSE 0)]
    /\ IF zero = {} THEN UNCHANGED <<satisfied, waiting, deque>>
       ELSE \E f \in zero : PutOn(w, dep[f])

\* Mutant of Take: a stolen task stays in the deque it came from.
TakeLeavesStolen(ws, x) ==
    \/ /\ deque[ws] # << >>
       /\ x = deque[ws][Len(deque[ws])]
       /\ deque' = [deque EXCEPT ![ws] = SubSeq(@, 1, Len(@) - 1)]
    \/ /\ deque[ws] = << >>
       /\ \E v \in Workers :
            /\ deque[v] # << >>
            /\ x = Head(deque[v])
            /\ UNCHANGED deque

\* locale_pop_task, then locale_steal_task, with worker state ws.
Take(ws, x) ==
    \/ /\ deque[ws] # << >>
       /\ x = deque[ws][Len(deque[ws])]
       /\ deque' = [deque EXCEPT ![ws] = SubSeq(@, 1, Len(@) - 1)]
    \/ /\ deque[ws] = << >>
       /\ \E v \in Workers :
            /\ deque[v] # << >>
            /\ x = Head(deque[v])
            /\ deque' = [deque EXCEPT ![v] = Tail(@)]

\* The frames of the current context become fs; the worker stays on it.
SetFrames(w, fs) ==
    /\ stack' = [stack EXCEPT ![current[w]] = fs]
    /\ UNCHANGED <<prev, current>>

\* Mutant of Execute: the context records itself as the one that resumed it.
ExecuteSwapsArguments(w, x, fs) ==
    IF x \in Tasks
    THEN /\ SetFrames(w, Append(fs, Body(x)))
         /\ wsFinish' = [wsFinish EXCEPT ![w] = finish[x]]
         /\ runs' = [runs EXCEPT ![x] = @ + 1]
    ELSE /\ stack' = [stack EXCEPT ![current[w]] = Append(fs, Resuming)]
         /\ prev' = [prev EXCEPT ![x.ctx] = x.ctx]
         /\ current' = [current EXCEPT ![w] = x.ctx]
         /\ wsFinish' = [wsFinish EXCEPT ![w] = NULL]
         /\ UNCHANGED runs

\* execute_task on top of frames fs: a user task gets a frame, a continuation
\* swaps to the context it was made for (_finish_ctx_resume).
Execute(w, x, fs) ==
    IF x \in Tasks
    THEN /\ SetFrames(w, Append(fs, Body(x)))
         /\ wsFinish' = [wsFinish EXCEPT ![w] = finish[x]]
         /\ runs' = [runs EXCEPT ![x] = @ + 1]
    ELSE /\ stack' = [stack EXCEPT ![current[w]] = Append(fs, Resuming)]
         /\ prev' = [prev EXCEPT ![x.ctx] = current[w]]
         /\ current' = [current EXCEPT ![w] = x.ctx]
         /\ wsFinish' = [wsFinish EXCEPT ![w] = NULL]
         /\ UNCHANGED runs

\* LiteCtx_create and ctx_swap: the current context is left in a frame that
\* waits to be swapped back, the new one has a continuation to make for it
\* (to run once p is satisfied) and a task x to start with.
SwapOut(w, x, p) ==
    \E c \in Ctxs :
        /\ stack[c] = << >> /\ \A b \in 0 .. c - 1 : stack[b] # << >>
        /\ stack' = [stack EXCEPT
               ![current[w]] = Append(Below(w), [Top(w) EXCEPT !.kind = "swapped"]),
               ![c] = <<Loop, Frame("start", x, p, NULL, NULL)>>]
        /\ prev' = [prev EXCEPT ![c] = current[w]]
        /\ current' = [current EXCEPT ![w] = c]
        /\ UNCHANGED <<wsFinish, runs>>

-----------------------------------------------------------------------------
(* core_work_loop *)

LoopRun(w) ==
    /\ Running(w, "loop")
    /\ ~done
    /\ \E x \in Items : Take(w, x) /\ Execute(w, x, stack[current[w]])
    /\ UNCHANGED <<program, finish, counter, parent, finishDep, satisfied, waiting,
                   ended, done, exited>>

\* Mutant of LoopExit: the loop does not look at the done flag.
LoopStays(w) ==
    /\ Running(w, "loop")
    /\ done
    /\ UNCHANGED vars

\* The done flag is cleared: back to the root context of the thread.
LoopExit(w) ==
    /\ Running(w, "loop")
    /\ done
    /\ exited' = exited \cup {w}
    /\ UNCHANGED <<program, stack, prev, current, wsFinish, deque, finish, counter, parent,
                   finishDep, satisfied, waiting, runs, ended, done>>

\* Mutant of StartRun: the new context makes a continuation of itself.
StartQueuesItself(w) ==
    /\ Running(w, "start")
    /\ ScheduleOn(w, Continuation(current[w]), Top(w).on)
    /\ Execute(w, Top(w).task, Below(w))
    /\ UNCHANGED <<program, finish, counter, parent, finishDep, satisfied, ended, done,
                   exited>>

\* Mutant of StartRun: the continuation does not wait for the future.
StartIgnoresFuture(w) ==
    /\ Running(w, "start")
    /\ ScheduleOn(w, Continuation(prev[current[w]]), NULL)
    /\ Execute(w, Top(w).task, Below(w))
    /\ UNCHANGED <<program, finish, counter, parent, finishDep, satisfied, ended, done,
                   exited>>

\* _help_wait and yield_helper on a new context: the continuation of the old
\* context is spawned (spawn_escaping), then the starting task runs.
StartRun(w) ==
    /\ Running(w, "start")
    /\ ScheduleOn(w, Continuation(prev[current[w]]), Top(w).on)
    /\ Execute(w, Top(w).task, Below(w))
    /\ UNCHANGED <<program, finish, counter, parent, finishDep, satisfied, ended, done,
                   exited>>

-----------------------------------------------------------------------------
(* The body of a task *)

AtInstruction(w, op) ==
    /\ Running(w, "task")
    /\ Top(w).at <= Len(Code(Top(w).task))
    /\ Code(Top(w).task)[Top(w).at].op = op

Operand(w) == Code(Top(w).task)[Top(w).at]

\* The frames once the current instruction is behind.
Past(w) == Append(Below(w), [Top(w) EXCEPT !.at = @ + 1])

\* Mutant of DoAsync: the task is not checked in.
AsyncWithoutCheckIn(w) ==
    /\ AtInstruction(w, "async")
    /\ finish' = [finish EXCEPT ![Operand(w).arg] = wsFinish[w]]
    /\ ScheduleOn(w, Operand(w).arg, Operand(w).on)
    /\ SetFrames(w, Past(w))
    /\ UNCHANGED <<program, wsFinish, parent, counter, finishDep, satisfied, runs,
                   ended, done, exited>>

\* hclib_async: spawn_handler
DoAsync(w) ==
    /\ AtInstruction(w, "async")
    /\ counter' = [counter EXCEPT ![wsFinish[w]] = @ + 1]
    /\ finish' = [finish EXCEPT ![Operand(w).arg] = wsFinish[w]]
    /\ ScheduleOn(w, Operand(w).arg, Operand(w).on)
    /\ SetFrames(w, Past(w))
    /\ UNCHANGED <<program, wsFinish, parent, finishDep, satisfied, runs, ended, done,
                   exited>>

\* hclib_promise_put
DoPut(w) ==
    /\ AtInstruction(w, "put")
    /\ PutOn(w, Operand(w).on)
    /\ SetFrames(w, Past(w))
    /\ UNCHANGED <<program, wsFinish, finish, counter, parent, finishDep, runs, ended,
                   done, exited>>

\* hclib_start_finish
DoStartFinish(w) ==
    /\ AtInstruction(w, "start")
    /\ LET f == <<Top(w).task, Top(w).at>> IN
       /\ counter' = [counter EXCEPT ![f] = 1, ![wsFinish[w]] = @ + 1]
       /\ parent' = [parent EXCEPT ![f] = wsFinish[w]]
       /\ wsFinish' = [wsFinish EXCEPT ![w] = f]
    /\ SetFrames(w, Past(w))
    /\ UNCHANGED <<program, deque, finish, finishDep, satisfied, waiting, runs, ended,
                   done, exited>>

\* hclib_end_finish up to the loop of help_finish, which keeps the worker
\* state it read at its start.
DoEndFinish(w) ==
    /\ AtInstruction(w, "end")
    /\ SetFrames(w, Append(Past(w), Frame("help", NULL, wsFinish[w], w, NULL)))
    /\ UNCHANGED <<program, wsFinish, deque, finish, counter, parent, finishDep, satisfied,
                   waiting, runs, ended, done, exited>>

\* find_and_run_task called with on_fresh_ctx = 1: whatever is found runs here.
\* The loop's look at the counter and the take that ends the search are one step.
HelpRun(w) ==
    /\ Running(w, "help")
    /\ counter[Top(w).on] > 1
    /\ \E x \in Items : Take(Top(w).ws, x) /\ Execute(w, x, stack[current[w]])
    /\ UNCHANGED <<program, finish, counter, parent, finishDep, satisfied, waiting,
                   ended, done, exited>>

\* Mutant of HelpReturn: one task may still be unfinished.
HelpReturnsEarly(w) ==
    /\ Running(w, "help")
    /\ counter[Top(w).on] <= 2
    /\ LET f == Top(w).on IN
       /\ CheckOut(w, {parent[f]} \ {NULL}, finishDep)
       /\ wsFinish' = [wsFinish EXCEPT ![w] = parent[f]]
       /\ ended' = ended \cup {f}
    /\ SetFrames(w, Below(w))
    /\ UNCHANGED <<program, finish, parent, finishDep, runs, done, exited>>

\* The rest of hclib_end_finish.
HelpReturn(w) ==
    /\ Running(w, "help")
    /\ counter[Top(w).on] = 1
    /\ LET f == Top(w).on IN
       /\ CheckOut(w, {parent[f]} \ {NULL}, finishDep)
       /\ wsFinish' = [wsFinish EXCEPT ![w] = parent[f]]
       /\ ended' = ended \cup {f}
    /\ SetFrames(w, Below(w))
    /\ UNCHANGED <<program, finish, parent, finishDep, runs, done, exited>>

\* hclib_end_finish_nonblocking; its two check-outs and the reset of
\* current_finish, which no other worker reads, are one step.
DoEndFinishNB(w) ==
    /\ AtInstruction(w, "endNB")
    /\ LET f == wsFinish[w] IN
       /\ finishDep' = [finishDep EXCEPT ![f] = Operand(w).on]
       /\ CheckOut(w, {f, parent[f]} \ {NULL}, finishDep')
       /\ wsFinish' = [wsFinish EXCEPT ![w] = parent[f]]
    /\ SetFrames(w, Past(w))
    /\ UNCHANGED <<program, finish, parent, runs, ended, done, exited>>

\* hclib_future_wait on a satisfied future.
DoWaitSatisfied(w) ==
    /\ AtInstruction(w, "wait")
    /\ satisfied[Operand(w).on]
    /\ SetFrames(w, Past(w))
    /\ UNCHANGED <<program, wsFinish, deque, finish, counter, parent, finishDep, satisfied,
                   waiting, runs, ended, done, exited>>

DoWait(w) ==
    /\ AtInstruction(w, "wait")
    /\ ~satisfied[Operand(w).on]
    /\ SetFrames(w, Append(Past(w), Frame("wait", NULL, Operand(w).on, w, wsFinish[w])))
    /\ UNCHANGED <<program, wsFinish, deque, finish, counter, parent, finishDep, satisfied,
                   waiting, runs, ended, done, exited>>

\* A non-blocking task runs here; for any other this context is set aside.  The
\* loop's look at satisfied and the take that ends the search are one step.
WaitRun(w) ==
    /\ Running(w, "wait")
    /\ ~satisfied[Top(w).on]
    /\ \E x \in Items :
        /\ Take(Top(w).ws, x)
        /\ IF x \in program.nonblocking THEN Execute(w, x, stack[current[w]])
           ELSE SwapOut(w, x, Top(w).on)
    /\ UNCHANGED <<program, finish, counter, parent, finishDep, satisfied, waiting,
                   ended, done, exited>>

\* The future is satisfied before the context had to be set aside.
WaitReturn(w) ==
    /\ Running(w, "wait")
    /\ satisfied[Top(w).on]
    /\ wsFinish' = [wsFinish EXCEPT ![w] = Top(w).fin]
    /\ SetFrames(w, Below(w))
    /\ UNCHANGED <<program, deque, finish, counter, parent, finishDep, satisfied, waiting, runs,
                   ended, done, exited>>

DoYield(w) ==
    /\ AtInstruction(w, "yield")
    /\ SetFrames(w, Append(Past(w), Frame("yield", NULL, NULL, NULL, wsFinish[w])))
    /\ UNCHANGED <<program, wsFinish, deque, finish, counter, parent, finishDep, satisfied,
                   waiting, runs, ended, done, exited>>

YieldRun(w) ==
    /\ Running(w, "yield")
    /\ \E x \in Items :
        /\ Take(w, x)
        /\ IF x \in program.nonblocking THEN Execute(w, x, stack[current[w]])
           ELSE SwapOut(w, x, NULL)
    /\ UNCHANGED <<program, finish, counter, parent, finishDep, satisfied, waiting,
                   ended, done, exited>>

\* The pop finds nothing, and neither does the steal (which may come back
\* empty-handed whenever others move tasks about).
YieldReturn(w) ==
    /\ Running(w, "yield")
    /\ deque[w] = << >>
    /\ wsFinish' = [wsFinish EXCEPT ![w] = Top(w).fin]
    /\ SetFrames(w, Below(w))
    /\ UNCHANGED <<program, deque, finish, counter, parent, finishDep, satisfied, waiting, runs,
                   ended, done, exited>>

\* Mutant of SwappedBack: the finish of the caller is not restored.
SwappedBackKeepsScope(w) ==
    /\ Running(w, "swapped")
    /\ stack' = [stack EXCEPT ![prev[current[w]]] = << >>, ![current[w]] = Below(w)]
    /\ UNCHANGED <<program, wsFinish, prev, current, deque, finish, counter, parent, finishDep, satisfied,
                   waiting, runs, ended, done, exited>>

\* ctx_swap returns in hclib_future_wait or hclib_yield: the context that
\* resumed this one is destroyed, the finish scope restored.
SwappedBack(w) ==
    /\ Running(w, "swapped")
    /\ stack' = [stack EXCEPT ![prev[current[w]]] = << >>, ![current[w]] = Below(w)]
    /\ wsFinish' = [wsFinish EXCEPT ![w] = Top(w).fin]
    /\ UNCHANGED <<program, prev, current, deque, finish, counter, parent, finishDep, satisfied,
                   waiting, runs, ended, done, exited>>

\* The end of execute_task.
TaskReturn(w) ==
    /\ Running(w, "task")
    /\ Top(w).task # Main
    /\ Top(w).at > Len(Code(Top(w).task))
    /\ CheckOut(w, {finish[Top(w).task]}, finishDep)
    /\ SetFrames(w, Below(w))
    /\ UNCHANGED <<program, wsFinish, finish, parent, finishDep, runs, ended, done, exited>>

\* The end of _hclib_finalize_ctx: hclib_signal_join and back to the root
\* context of the worker it is now on.
Finalize(w) ==
    /\ Running(w, "task")
    /\ Top(w).task = Main
    /\ Top(w).at > Len(Code(Main))
    /\ done' = TRUE
    /\ exited' = exited \cup {w}
    /\ UNCHANGED <<program, stack, prev, current, wsFinish, deque, finish, counter, parent,
                   finishDep, satisfied, waiting, runs, ended>>

Step(w) ==
    \/ LoopRun(w) \/ LoopExit(w) \/ StartRun(w)
    \/ DoAsync(w) \/ DoPut(w)
    \/ DoStartFinish(w) \/ DoEndFinish(w) \/ HelpRun(w) \/ HelpReturn(w) \/ DoEndFinishNB(w)
    \/ DoWaitSatisfied(w) \/ DoWait(w) \/ WaitRun(w) \/ WaitReturn(w)
    \/ DoYield(w) \/ YieldRun(w) \/ YieldReturn(w) \/ SwappedBack(w)
    \/ TaskReturn(w) \/ Finalize(w)

\* hclib_join has collected every worker.
Terminated == exited = Workers

Next == (\E w \in Workers : Step(w)) \/ (Terminated /\ UNCHANGED vars)

Spec == Init /\ [][Next]_vars

\* A worker that can take a step does: threads are scheduled, and the search
\* for work visits every deque again and again.
FairSpec == Spec /\ \A w \in 0 .. MaxWorkers - 1 : WF_vars(w \in Workers /\ Step(w))

-----------------------------------------------------------------------------
(* Properties *)

Kinds == {"loop", "resume", "start", "task", "help", "wait", "yield", "swapped"}

\* Types: counters never fall below zero, and a worker in a task or a frame
\* that is to restore one has a finish scope of the program or none.
TypeOK ==
    /\ \A c \in Ctxs : \A i \in DOMAIN stack[c] :
        /\ stack[c][i].kind \in Kinds
        /\ stack[c][i].task \in Items \cup {Main, NULL}
        /\ stack[c][i].fin \in Finishes \cup {NULL}
    /\ prev \in [Ctxs -> Ctxs \cup {NULL}]
    /\ current \in [Workers -> Ctxs]
    /\ wsFinish \in [Workers -> Finishes \cup {NULL}]
    /\ deque \in [Workers -> Seq(Items)]
    /\ finish \in [Tasks -> Finishes \cup {NULL}]
    /\ counter \in [Finishes -> Nat]
    /\ parent \in [Finishes -> Finishes \cup {NULL}]
    /\ finishDep \in [Finishes -> Promises \cup {NULL}]
    /\ satisfied \in [Promises -> BOOLEAN]
    /\ waiting \in [Promises -> Seq(Items)]
    /\ runs \in [Tasks -> Nat]
    /\ ended \subseteq Finishes
    /\ done \in BOOLEAN
    /\ exited \subseteq Workers

\* Where a task or continuation is: in a deque, on a wait list, on a stack.
Places(x) ==
    (UNION {{<<"deque", w, i>> : i \in {j \in DOMAIN deque[w] : deque[w][j] = x}} : w \in Workers})
    \cup (UNION {{<<"list", p, i>> : i \in {j \in DOMAIN waiting[p] : waiting[p][j] = x}} : p \in Promises})
    \cup (UNION {{<<"stack", c, i>> : i \in {j \in DOMAIN stack[c] : stack[c][j].task = x}} : c \in Ctxs})

Spawned(t) == finish[t] # NULL
Open(f) == (f = Root \/ parent[f] # NULL) /\ f \notin ended /\ finishDep[f] = NULL

\* The counter of a finish scope is the number of its unfinished tasks, its
\* open inner scopes and its own body: no check-in or check-out is missed,
\* doubled or made on the wrong scope, wherever the task ran or resumed.
CounterExact ==
    /\ TypeOK
    /\ \A f \in Finishes \ ended : (f = Root \/ parent[f] # NULL) =>
        counter[f] = (IF Open(f) THEN 1 ELSE 0)
                     + Cardinality({t \in Tasks : finish[t] = f /\ Places(t) # {}})
                     + Cardinality({g \in Finishes : parent[g] = f /\ Open(g)})

\* hclib_launch returns after every task of the program has run.
LaunchWaits == done => \A t \in Tasks : Spawned(t) => runs[t] = 1 /\ Places(t) = {}

\* hclib_end_finish returns, and the event of hclib_end_finish_nonblocking is
\* put, only after every task of the scope and every inner scope is done; and
\* the launch ends after all of them.
FinishJoins ==
    /\ LaunchWaits
    /\ \A f \in Finishes :
        (f \in ended \/ (finishDep[f] # NULL /\ satisfied[finishDep[f]])) =>
            /\ \A t \in Tasks : finish[t] = f => runs[t] = 1 /\ Places(t) = {}
            /\ \A g \in Finishes : parent[g] = f => ~Open(g)

\* Every task is started at most once and is never in two places.
RunOnce == \A t \in Tasks : runs[t] <= 1 /\ Cardinality(Places(t)) <= 1

\* The finish scope that is open, in the program text, before instruction i.
Scope(t, i) ==
    LET open == OpenStarts(Code(t))[i] IN IF open = {} THEN finish[t] ELSE <<t, Max(open)>>

\* While a task's own code runs, the worker's current finish is the one the
\* program text says, although other tasks ran on this worker while the task
\* helped, waited or yielded, and although it may have changed workers.
ScopeCorrect ==
    \A w \in Workers :
        (Running(w, "task") /\ Top(w).task # Main) => wsFinish[w] = Scope(Top(w).task, Top(w).at)

\* What keeps a context from being forgotten: it is current on a worker, a
\* continuation for it is queued, or a new context is about to queue it.
Handles(c) ==
    {<<"current", w>> : w \in {v \in Workers : current[v] = c}}
    \cup Places(Continuation(c))
    \cup {<<"old", w>> : w \in {v \in Workers :
            Top(v).kind \in {"start", "swapped"} /\ prev[current[v]] = c}}

\* No context is resumed twice and none is forgotten: each has one handle.
OneHandle == \A c \in Ctxs : stack[c] # << >> => Cardinality(Handles(c)) = 1

\* A context that was set aside for a future comes back once the future is
\* satisfied (the assertion at the end of hclib_future_wait).
ResumedWhenReady ==
    \A w \in Workers : (Running(w, "swapped") /\ Top(w).on # NULL) => satisfied[Top(w).on]

\* The context that is destroyed after a swap back is defunct: nothing but
\* the work loop and the task that swapped is on it.
DefunctDestroyed ==
    \A w \in Workers : Running(w, "swapped") =>
        \A i \in DOMAIN stack[prev[current[w]]] :
            stack[prev[current[w]]][i] \in {Loop, Resuming}

\* Only the thread that owns a deque pops from it.
OwnDeque == \A w \in Workers : (Running(w, "help") \/ Running(w, "wait")) => Top(w).ws = w

\* The program ends and every worker is joined.
Terminates == <>Terminated
=============================================================================
