----------------------------- MODULE TaskRunner -----------------------------
(***************************************************************************)
(* The application's background operations: TaskRunnerController           *)
(* (app/controllers/task_runner.py) and GenericWorker                      *)
(* (app/thread_worker.py).                                                 *)
(*                                                                         *)
(* The GUI thread submits operations, cancels them, and handles the events *)
(* of its loop one at a time, in the order in which they were posted.      *)
(* Workers run on a thread pool and post an error and a finished event.    *)
(* The controller means to run its queue one operation after the other;    *)
(* each finished or failed operation posts the event that starts the next. *)
(***************************************************************************)
EXTENDS Naturals, FiniteSets, Sequences

CONSTANTS Op,          \* the operations, each submitted at most once
          None,
          MaxCancels   \* bound on the cancellations

ASSUME OpAssumption == IsFiniteSet(Op) /\ None \notin Op
ASSUME CancelAssumption == MaxCancels \in Nat

VARIABLES
  queue,       \* operation_queue
  processing,  \* is_processing_queue
  current,     \* main.current_worker
  phase,       \* per operation: where its worker stands
  immediate,   \* the operations started past the queue
  failed,      \* the operations whose callback raised
  cancels,     \* how often the user cancelled
  events       \* the event loop of the GUI thread

vars == <<queue, processing, current, phase, immediate, failed, cancels, events>>

\* returned: the result or error signal is out, the finished signal is due.
Phases == {"new", "waiting", "running", "returned", "done", "dropped"}
EventKinds == {"error", "finished", "next"}

TypeOK ==
  /\ queue \in Seq(Op)
  /\ processing \in BOOLEAN
  /\ current \in Op \cup {None}
  /\ phase \in [Op -> Phases]
  /\ immediate \subseteq Op
  /\ failed \subseteq Op
  /\ cancels \in 0..MaxCancels
  /\ events \in Seq(EventKinds \X (Op \cup {None}))

Init ==
  /\ queue = <<>> /\ processing = FALSE /\ current = None
  /\ phase = [o \in Op |-> "new"]
  /\ immediate = {} /\ failed = {} /\ cancels = 0
  /\ events = <<>>

-----------------------------------------------------------------------------
StartNext == <<"next", None>>
HeadIs(kind) == events # <<>> /\ Head(events)[1] = kind
HeadOp == Head(events)[2]

\* _process_next_operation on the queue q of a runner whose phases are ph.
ProcessNext(q, ph) ==
  IF q = <<>>
  THEN /\ processing' = FALSE
       /\ phase' = ph
       /\ UNCHANGED <<queue, current>>
  ELSE /\ processing' = TRUE
       /\ queue' = Tail(q)
       /\ phase' = [ph EXCEPT ![Head(q)] = "running"]
       /\ current' = Head(q)

\* Mutant of Submit: a busy runner starts the operation as well.
SubmitUnqueued(o) ==
  /\ phase[o] = "new"
  /\ ProcessNext(Append(queue, o), [phase EXCEPT ![o] = "waiting"])
  /\ UNCHANGED <<immediate, failed, cancels, events>>

\* run_threaded, run_threaded_with_progress and run_finish_only.
Submit(o) ==
  /\ phase[o] = "new"
  /\ LET q == Append(queue, o)  ph == [phase EXCEPT ![o] = "waiting"] IN
       IF processing
       THEN queue' = q /\ phase' = ph /\ UNCHANGED <<processing, current>>
       ELSE ProcessNext(q, ph)
  /\ UNCHANGED <<immediate, failed, cancels, events>>

\* run_threaded_immediate.
SubmitImmediate(o) ==
  /\ phase[o] = "new"
  /\ phase' = [phase EXCEPT ![o] = "running"]
  /\ immediate' = immediate \cup {o}
  /\ current' = o
  /\ UNCHANGED <<queue, processing, failed, cancels, events>>

\* cancel_current_task and request_current_batch_pause: the queue is emptied
\* and the flag reset, whether or not an operation is running.  The current
\* worker is told, which only withholds its result.
Cancel ==
  /\ cancels < MaxCancels
  /\ cancels' = cancels + 1
  /\ phase' = [o \in Op |-> IF phase[o] = "waiting" THEN "dropped" ELSE phase[o]]
  /\ queue' = <<>> /\ processing' = FALSE
  /\ UNCHANGED <<current, immediate, failed, events>>

-----------------------------------------------------------------------------
(* GenericWorker.run on a pool thread.                                      *)

Return(o) ==
  /\ phase[o] = "running"
  /\ phase' = [phase EXCEPT ![o] = "returned"]
  /\ UNCHANGED <<queue, processing, current, immediate, failed, cancels, events>>

\* Mutant of Fail: run has no except clause and the worker dies.
FailEscaping(o) ==
  /\ phase[o] = "running"
  /\ phase' = [phase EXCEPT ![o] = "crashed"]
  /\ failed' = failed \cup {o}
  /\ UNCHANGED <<queue, processing, current, immediate, cancels, events>>

Fail(o) ==
  /\ phase[o] = "running"
  /\ phase' = [phase EXCEPT ![o] = "returned"]
  /\ failed' = failed \cup {o}
  /\ events' = Append(events, <<"error", o>>)
  /\ UNCHANGED <<queue, processing, current, immediate, cancels>>

\* Mutant of Finish: a failed operation reports no end.
FinishUnlessFailed(o) ==
  /\ phase[o] = "returned" /\ o \notin failed
  /\ phase' = [phase EXCEPT ![o] = "done"]
  /\ events' = Append(events, <<"finished", o>>)
  /\ UNCHANGED <<queue, processing, current, immediate, failed, cancels>>

\* The finally clause.
Finish(o) ==
  /\ phase[o] = "returned"
  /\ phase' = [phase EXCEPT ![o] = "done"]
  /\ events' = Append(events, <<"finished", o>>)
  /\ UNCHANGED <<queue, processing, current, immediate, failed, cancels>>

-----------------------------------------------------------------------------
(* The event loop.  The operations' own callbacks run here; one that raises *)
(* is logged, one that submits is Submit before the event.                  *)

\* What an event of a queued operation posts; an immediate one posts nothing.
Advance(o) ==
  events' = IF o \in immediate THEN Tail(events) ELSE Append(Tail(events), StartNext)

HandleError ==
  /\ HeadIs("error")
  /\ Advance(HeadOp)
  /\ UNCHANGED <<queue, processing, current, phase, immediate, failed, cancels>>

\* Mutant of HandleFinished: only the current worker's end starts the next.
HandleFinishedOfCurrent ==
  /\ HeadIs("finished")
  /\ IF current = HeadOp THEN Advance(HeadOp) ELSE events' = Tail(events)
  /\ current' = IF current = HeadOp THEN None ELSE current
  /\ UNCHANGED <<queue, processing, phase, immediate, failed, cancels>>

\* Mutant of HandleFinished: the worker is never cleared.
HandleFinishedKeepingWorker ==
  /\ HeadIs("finished")
  /\ Advance(HeadOp)
  /\ UNCHANGED <<queue, processing, current, phase, immediate, failed, cancels>>

HandleFinished ==
  /\ HeadIs("finished")
  /\ Advance(HeadOp)
  /\ current' = IF current = HeadOp THEN None ELSE current
  /\ UNCHANGED <<queue, processing, phase, immediate, failed, cancels>>

HandleNext ==
  /\ HeadIs("next")
  /\ ProcessNext(queue, phase)
  /\ events' = Tail(events)
  /\ UNCHANGED <<immediate, failed, cancels>>

HandleEvent == HandleError \/ HandleFinished \/ HandleNext

-----------------------------------------------------------------------------
User == Cancel \/ \E o \in Op : Submit(o) \/ SubmitImmediate(o)
Worker(o) == Return(o) \/ Fail(o) \/ Finish(o)

Next == User \/ HandleEvent \/ \E o \in Op : Worker(o)

\* The event loop goes on and every callback returns or raises.
Fairness == WF_vars(HandleEvent) /\ \A o \in Op : WF_vars(Worker(o))

Spec == Init /\ [][Next]_vars /\ Fairness

-----------------------------------------------------------------------------
(* Properties.                                                              *)

Alive(o) == phase[o] \in {"running", "returned"}
Queued == Op \ immediate
Posted(e) == \E i \in DOMAIN events : events[i] = e

\* Something is on its way that will start the next operation.
Moving ==
  \/ Posted(StartNext)
  \/ \E o \in Queued : Alive(o) \/ Posted(<<"finished", o>>)

\* The queue is never wedged, whatever is cancelled, fails or overtakes: work
\* waits only behind a busy runner, and a busy runner has a start on its way.
NeverWedged ==
  /\ queue # <<>> => processing
  /\ processing => Moving

\* How far the queue is from serial: a failed operation posts two starts and a
\* cancellation forgets one running operation, and nothing else ever lets an
\* operation of the queue run beside another.
ConcurrencyBounded ==
  Cardinality({o \in Queued : Alive(o)}) <= 1 + Cardinality(failed) + cancels

\* Cancelling always reaches a worker that still has something to report: the
\* current worker is never one whose end has already been handled.
CurrentIsLive ==
  current # None => Alive(current) \/ Posted(<<"finished", current>>)

\* Every submitted operation is run to its end, or dropped by a cancellation.
EveryOperationSettles ==
  \A o \in Op : phase[o] = "waiting" ~> phase[o] \in {"done", "dropped"}
=============================================================================
