# Verification of the document translator's core

The program translates comics and scanned documents. A *batch* takes all pages
through detection, OCR, translation, inpainting and rendering, stage by stage, on
one GPU that holds one model at a time. The models live in Docker containers that
the program starts, hands over and stops. Results of the stages are kept in a cache
beside the project file, which is saved while all this goes on. This directory
holds TLA+ modules of the code that decides who may use the GPU and when, of the
batch that drives it, of the task queue, of the cache and of the saves of a
project; the TLC runs that check them; and TLAPS proofs about the parts where a
small instance says least.

## Inventory

| Part | State | Operations | What is hard | What makes it correct |
|---|---|---|---|---|
| Runtime resource arbiter, `pipeline/runtime_resource_arbiter.py` | generation, cancel flag, active model, state per service, re-entrant command lock | `reset`, `cancel_generation`, `model_start`, `model_release`, external acquire / ready / release | threads, nested commands, failing cleanups, cancellation between a check and its use | one service on the GPU; nothing half done; the lease is left only by a proven stop |
| Llama Router coordinator, `modules/utils/local_llama_router/` | state, owned contract, loaded alias, accepting flag, active requests | `load`, `prepare`, `finish`, `unload`, `stop`, `inference_lease` | Docker calls that fail after taking effect, drains, snapshots read before locks, two arbiters | requests meet a resident model; at most one model; nothing orphaned; a failed release can be repeated |
| OCR and Gemma managers, `modules/ocr/local_runtime.py`, `modules/translation/local_runtime.py` | adopted pair and spec, active engine, readiness cache | ensure, prepare, hand-off, shutdown | what a manager believes against what the coordinator owns | whatever is owned has a manager that stops it |
| Stage-batched processor, `pipeline/stage_batched_processor.py` | pages, prewarm jobs and executor, render jobs, lease of the inpainter | preflight, five sweeps, prewarm, fallbacks, hand-overs, reconciliation, shutdown rounds | prewarm and renders racing the pipeline, retries, teardown after cancellation | it ends, leaves no runtime behind, and no page without an output |
| Task runner, `app/controllers/task_runner.py`, `app/thread_worker.py` | queue, busy flag, current worker | submit, run at once, cancel | callbacks posted twice, late, after a cancellation, or raising | the queue never wedges; every operation settles |
| Application shutdown, `controller.py` | the above | `shutdown` | runs beside a live batch | no model outlives the window unnoticed |
| Checkpoint store and stage checkpoints, `app/projects/` | SQLite rows, object files, sidecar | record, look up, invalidate, clean, move | crashes between file and row, moves half done | a recovered record is whole |
| Project state and autosave, `app/projects/`, `app/controllers/projects.py` | project file, recovery checkpoint, sidecar, dirty flag, save pending / retrigger flags | autosave, save, page save, deferral, move | a save that comes due during a save, two saves under way, moves half done | a clean window is a saved one; the last edit is saved |
| Series queue, `app/projects/series_state_v1.py`, `app/controllers/series.py` | items and their run states | run, pause, retry | restart from its file | every item is run or reported |
| Render pool and worker, `pipeline/render_pool.py`, `render_worker.py` | Qt pool, futures | submit, shutdown | futures dropped by a shutdown | every future is completed |
| Caches and translation memory | bounded stores keyed by identity | get, put, evict | stale identity | a hit belongs to the runtime that made it |
| User interface, image processing, engines, file formats, scripts | – | – | – | outside this project |

The processor brackets each call of a manager with the arbiter; the managers call
the coordinator, which brackets its own work with the same arbiter once more
(re-entrant), or with a *fallback* arbiter of its own when the caller gives none, as
page operations and the closing window do. Batches and page operations are
submitted through the task runner; the window is locked while one is active. The
processor reads and records its results through the checkpoint store, tells the
project controller of each finished page, which saves the project next to the
batch, and asks it to put the automatic saves off while pages are inpainted.

## Modules

* `GpuModelLease` – what the arbiter promises: a lease that passes from one service
  to another only through nobody, with a ready model only at its holder.
* `RuntimeArbiter` – the arbiter. `generation`, `cancelled`, `active`, `states` are
  the code's fields; `owner` and `depth` are the re-entrant command lock, and
  `frames` the commands in progress on the thread that holds it. Each command is
  cut where the code leaves `_state_lock` (entry, the caller's body, the second
  cancellation check, publication, cleanup), so that generations change in between.
  A body may succeed, raise, or run a nested command; `Nestings` lists which.
* `RuntimeArbiterProofs` – the theorems about it.
* `LlamaRouter`, with `LlamaRouterProofs`, `LlamaRouterOpenProofs` and
  `LlamaRouterLeaseProofs` – the coordinator with both managers, both arbiters, the rounds of
  shutdowns of a batch and the closing window. `state` … `active` are its fields,
  `container`, `resident` and `serving` what Docker and the Router really run,
  `cmd` its command lock, `job` where each thread's call stands. An adapter call
  succeeds, fails, or fails after it took effect. A drain may time out
  (`MayTimeOut`). A request that a stop cuts off ends later; once the container is
  disowned it is *forgotten*, and when its end then takes the count of another request,
  `miscounted` remembers that. The shortcut to a matching model is a look that only
  gives a hint (`EnsureMatching`) and an adoption (`AdoptMatching`); the late mark of a
  failed start is a look (`LateLook`) and a mark (`LateMark`). The arbiters appear as their lease, lock and failed flag; a
  batch's call holds the stage arbiter's lock throughout because the processor's
  bracket does. A pair's name stands for its container, fingerprint and OCR alias.
* `TaskRunner`, with `TaskRunnerProofs` – the queue, the pool threads and the GUI thread's event loop. A
  worker's signals and the zero-delay timers behind them are one posted event each;
  events are handled in order.
* `StageBatch`, with `StageBatchProofs` – one run of `batch_process`. `at` says where the pipeline thread
  stands, `job` are the Futures of the prewarm thread's jobs, `render` those of the
  render pool's; `call` is the manager call that a thread is in. The arbiter and the
  OCR manager appear with their locks, in the order in which each call takes them,
  the lease and what is on the GPU. What the caches answer is a choice of the planning
  step, page by page; which pages need their model is `todo`. An exception takes the
  pipeline to its `finally` clause (`Leave`), through the release of the inpainter. The
  file of a page is `rendered`, or `lost` when its render was drawn but never recorded
  (`CollectionFails`, an exception in the collection of another page's render) or has
  become unreadable since (`Damage`); `Reconcile` writes what is missing as a `fallback`
  and what was lost as a `replaced` picture.
* `StageCache` – what the checkpoint store promises: a lookup answers with what one
  recording stored for the same question, or misses.
* `CheckpointStore`, with `CheckpointStoreProofs` – the rows of its database, the
  object files beside it, and the calls in progress, cut at each commit, each file
  operation and each read. Objects are stored before the row that names them. A lock
  may time out, a call may fail and disable the store, a process may crash and come
  back, a file may be damaged. Several stores share one sidecar; `Calls` says what
  the owner of each store does. It implements `StageCache`.
* `ProjectSave`, with `ProjectSaveProofs` – the saves of a project as jobs on workers: what each has read of the
  live state, the file, the sidecar and the recovery checkpoint on disk, the dirty
  flag, the flags of the autosave and its deferral, and the events that wait for the
  GUI thread. A job is cut at each change on disk. A worker that failed posts an
  error event and then a finished event as well; for a page save both start the save
  that was asked for meanwhile (`PageSaveOver`). A sidecar is the project's `own`, with
  all results, or `behind`, with the right identity but not all of them, or `foreign`;
  a batch records into the one beside the project's file (`RecordStage`). A batch that
  is cancelled while it waits is `forgotten`, and `_batch_active` stays set. The file
  moves from wherever it is to any other path, also back.
* `MC…` – the small instances.

## Runs

| Run | Question | Bounds |
|---|---|---|
| `arbiter` | exclusivity, no half-done state, lease left only when stopped, refinement of `GpuModelLease` | 2 threads, 2 managed services and the inpainter, 3 generations, nesting depth 2 |
| `arbiter_late_ready` (violation) | is a cancelled run's model never published? | the same |
| `arbiter_release_in_start` (violation) | what a release inside a start's body does to exclusivity | the same, with that nesting |
| `router` | accepting requests, one model, orphans, recovery, accounting, draining before an unload | 2 pairs, batch and prewarm threads, a page-job thread, 2 requests in parallel, time-outs; 205,066 states up to symmetry of pairs and of requests |
| `router_closing` | the same hazards with the window closing next to a batch, and the release of everything | 1 pair, batch thread, GUI thread, 1 request, time-outs; 389,528 states |
| `router_two_leases` (violation) | is the GPU leased once? | 2 pairs, batch, page job |
| `router_prepared_container` (violation) | is every container stopped after a batch? | 2 pairs, batch |
| `router_double_finish` (violation) | can a failed release always be retried? | 1 pair, batch, GUI thread |
| `task_runner` | wedging, overlap, the current worker, settling | 3 operations, 1 cancellation |
| `stage_batch` | end of a batch, what it leaves, outputs, models, lock order, cause of a failure | 2 pages, 1 render worker, 2 faults, a cancellation at any moment; 717,312 states |
| `checkpoint_store` | dangling rows, agreement of the tables, refinement of `StageCache`, return of every call | 2 stores on one sidecar, 1 page, 2 stages, 2 results that share an object; any number of crashes and failures |
| `project_save` | what a clean window means, autosave flags, sidecar, what was on disk stays | 2 jobs at once, 2 paths, 1 edit, 1 accident, 1 batch; 1,814,994 states |

Two threads and two services suffice for the arbiter, whose commands exclude each
other by one lock: a third thread only waits, and a third service meets the same
lease conflict. Depth 2 is the deepest the callers nest (a processor bracket around
a coordinator bracket). The number of generations is cut at 3 so that a token can
be two generations old. Two pairs are the least with a change of pair. `router_closing`
drops the second pair and the page job; `ClosedReleases` would not hold with them, because the model knows less than the code: that the closing window's request for
cancellation makes a page job's start fail, and that a batch's shutdown names the pair
which the batch has loaded. In
`task_runner` three operations are one running, one waiting and one immediate; it
does not check deadlock, as the system stops once all are settled.

`router` has two requests in parallel, the least with which the count goes wrong: one that
was forgotten and one whose place it takes. The code sends up to eight, and
`RequestsProtected` is proved for any number. In `router_closing` the requests are cut off
or end as anywhere else, so one is enough. Page jobs next to the closing window, with
their shortcut outside the locks, are in no run, only in the theorems.

In `stage_batch` two pages are one with a render under way and one before or behind
it, with any two of text, no text and failure; two faults let a start and its
fallback, a release and the next shutdown, or a model and a render fail in one
batch. More render workers only add orders in which the renders end, which one
worker's orders against the pipeline already give. In `checkpoint_store` two stores
are the batch and whoever else has the sidecar open; one page, two
results and two stages are the least with a result that replaces another, shares an
object with it and invalidates what was built on it. `project_save` has one edit because
an edit matters only as newer than what a save has read, and two paths for the
least move and for the move back; both a free and a taken target are initial states.
One accident is a failing write, copy or removal, or a cancellation, each at
any moment; the theorems have any number of everything.

With the window closing, `AcceptImpliesResident` and `DrainProtects` do not hold: a
"force" finish, decided before the locks, stops what the batch has loaded since. They
are therefore checked and proved for an open window only.

### What the violations say

* The generation token does not prevent a late `MODEL_READY`: `is_cancelled` is
  asked before the lock under which the model is published.
* An OCR engine off the Router that starts while a container of an earlier batch is
  kept finishes that container inside its own start, under its own name. The nested
  release gives the lease up, and the start is then published without one.
* A page operation's model is leased under the fallback arbiter, of which the stage
  arbiter of the next batch knows nothing.
* A prepared container that never got its model belongs to no manager, and no
  shutdown of the batch stops it.
* Two finishes that overlap leave the coordinator in `RELEASE_FAILED` with no
  contract; every later finish and load then raises.

### What holds only with a reservation

Some properties name the cases in which the code does less than a reader may expect;
each was met as a counterexample first.

* `FailsForCause`: a prewarm job of the OCR model is submitted unless every page has
  a record, and awaited only when a page needs the model. One that is not awaited
  may take the lease after the OCR stage has released it, and the start of Gemma or
  of the inpainter then conflicts with it although nothing has failed.
* `ModelUp`: a cached page of low quality is read again by the model, which is
  started for it in the middle of the sweep. When that start fails, its cleanup takes
  the model from the pages behind it, which then fail one by one.
* `CleanMeansSaved`: a failed autosave marks the project as clean and clears the
  recovery checkpoint as a good one does, since a worker's finished event follows its
  error (`unsaved`); a save that was queued before its path was settled may write
  another file (`stray`); and once the queue runs two saves together the older one may
  write last (`together`; the task runner's `ConcurrencyBounded` says when it does).
  `NothingIsLost` makes the first and the last of these reservations. A cancellation,
  which forgets what is queued (`dropped`), is none of them, because the busy dialog
  keeps the user from cancelling a save of his own. What a cancellation does leave
  behind is the pending flag (`PendingHasSave`), or `_batch_active`: a batch that is
  cancelled, or paused, while it waits in the task queue is dropped with the callback
  that would have reset it, and from then on `autosave_project` returns at once, the
  interval timer's recovery snapshots included. That every edit reaches the disk is
  therefore no property of the code; a user's save still works.
* `SidecarFits` is about the project that a move replaces. The moved project's own
  stage results are less safe: the end of a move looks only at the identity of the
  sidecar at the new place. When the copy has failed the save has made an empty one with
  that identity there, and one that an earlier move could not remove has it as well; the
  full one beside the old file is then removed for it.
* `DrainProtects`: two ways remain in which a model goes under a request in flight. The
  terminal stop of a failed release cuts off what did not drain in time, which is meant;
  and a forced stop sets the count of requests to zero while those that it cut have not
  ended. The late end of one is then subtracted from the requests of the next model, whose
  drain ends too early (`miscounted`).
* `FailsForCause`, again: a cancellation while the OCR model is unloaded between OCR and
  translation is turned into a release failure by the coordinator, the second attempt is
  refused for that failure, and the batch is told as failed and not as cancelled.
* `FallbackHasCause`: a page whose file is lost gets a picture that stands in for it
  though none of its stages failed, as the code and its tests intend.
* `StoreIsACache`: a lookup reads two tables and then the object files outside a
  transaction. That it never mixes two results rests on the payload digests; fields
  that no digest covers (`attempt_count`, `engine_name`, `page_profile` of an OCR
  result) may be those of a neighbour. A damaged object is never repaired by storing
  it again: each recording of the same bytes disables the cache for its run.
* `CallsReturn` does not say that a call succeeds: a crash during the creation of the
  schema leaves a database that every later open refuses, and the user interface's
  invalidation gives up after 50 ms and leaves the stale rows.

### Fairness

`task_runner`: `WF_vars(HandleEvent)`, the GUI thread's event loop goes on as long
as the application runs; `WF_vars(Worker(o))`, an operation's callback returns or
raises and its `finally` clause is run. A callback that blocks for ever is outside
the runner's control.

`stage_batch`: weak fairness of the pipeline, the prewarm thread and the render
pool, which are threads of their own; every Docker or HTTP call behind a step has a
time-out. `checkpoint_store`: weak fairness of each store's steps, among them the
time-out of a lock that another one holds.

Nothing is assumed of the user, and none of the faults is assumed to happen or to
stop, other than by the bounds.

## Proofs

`RuntimeArbiterProofs` proves, for every set of threads and services and any
`External` among them:

* `TypeCorrect` and `LeaseLeftOnlyWhenStopped`, for every nesting. The invariant is
  `BaseInv`: types and `StackOK`, which ties the lock's owner and recursion count to
  the frames. It is needed because exits read the top frame.
* `LeaseIsExclusive`, `NothingIsHalfDone` and `ArbiterImplementsLease`, under
  `PlainNestings`: no start body releases its own service. Exclusivity alone is not
  inductive: publishing `MODEL_READY` needs to know that the command that publishes
  still holds the lease (`TopHolds`), and vacating needs to know that no service but
  that of the commands in progress is unsettled (`UnsettledHasFrame`). The run
  `arbiter_release_in_start` shows that the assumption cannot be dropped.

The lock and stack operators have lemmas of their own (`PushStack`, `GotoStack`,
`PopStack`, `PopRaisingStack`), and so has each kind of effect on the data
(`EnterKeepsInv`, `GotoKeepsInv`, `ExitKeepsInv`); the step proofs combine one of
each. The constants' assumptions are in `RuntimeArbiter` and TLC evaluates them.

`TaskRunnerProofs` proves `TypeCorrect`, `QueueNeverWedges`, `CurrentWorkerIsLive`
and `QueueIsSerial` for every set of operations and any number of cancellations.
`NeverWedged` is not inductive: that the end of a queued operation starts the next one
needs `QueueIsQueued` (nothing in the queue was ever started past it), and that an
operation started past the queue takes no start away needs `EndsAreOld` (an end that
is reported belongs to an operation that was submitted). Lemmas on the event loop
(`PostedAppend`, `PostedTail`, `AdvancePosted`) say which events a step keeps. The
bound on overlapping operations counts the starts there are: `Backlog` adds the live
operations of the queue and the events that will start one, and sets them against one
for a busy runner, one for each failure and one for each cancellation. Every step keeps
this balance (`StartsAppend`, `StartsTail`: what posting and handling an event does to
the number); that a failure is counted once needs `QueueWaits` and `FailedEnded`.

`CheckpointStoreProofs` proves, for every set of stores, pages, stages and results,
that the rows and objects agree (`References`, `Tables`) and that the store
implements `StageCache` (`Implements`). Neither is inductive. `ReferencesBacked`
rests on the write lock: a call that is about to commit has its objects in place
(`PublicationKept`), a cleanup under the lock has nothing on its list that a row
names (`SweepKept`), and who is at such a point has the lock (`LockKept`). The
refinement rests on `AnswerKept`: an answer has the objects of its own result.

`StageBatchProofs` proves of a batch with any number of pages, render workers and
faults that its state is well formed (`TypeCorrect`), that the pipeline and the
prewarm thread never wait for each other's lock (`NoLockCycleHolds`) and that no page
is passed over (`FallbacksHaveCause`). The two threads do take the locks in opposite
orders; what keeps them apart is that only the container's preparation takes the
manager's lock first (`LockHeld`), that it runs on the worker while its job is not
over (`Preparing`), and that until then the pipeline is still at the places where it
makes no call (`PipelineKeepsOut`). For the outputs, `AllAccounted` says at each place
behind the planning of the inpainting which pages have a render, a lost one, a failure or
a render to be collected, and which are still in `todo`, whichever page is blamed when a
collection fails; the drain and the end of the loops leave none of the others to the
reconciliation. `NoEarlyFallback` keeps the
fallback picture out of everything before it.

Of the GPU the same module proves `NothingIsLeft`, `ModelIsUp` and `FailuresHaveCause`,
over `GpuInv`. Its core is the order in which the prewarm worker takes its jobs
(`JobsKept`) and what a call in progress holds at each of its places (`CallsKept`):
from both follows which models are up at which stage (`Served`), whoever started them.
That nothing is left needs that as long as nothing has failed every stage has given its
model and lease back (`Faultless`), and that a deferred autosave belongs to a batch that
has not come to its end (`DeferralKept`). `FailsForCause` is a property of steps; the
step that fails is one of the pipeline, and without a fault only a lease conflict with
the OCR job that nobody awaited can raise there, or the cancelled unload (`UnloadCancelled`).

The three modules on `LlamaRouter` prove, for any set of pairs, threads and requests:

* `LlamaRouterProofs`: `TypeCorrect`, `NeverTwoModels` and `NeverAnOrphan`, without any
  further assumption: also with the window closing next to a batch. The invariant `Inv`
  says for each place of a call what it holds there (`Locks`, `AtPoints`), who may be
  between two places at the same time (`Strays`, `Drains`), and that whatever Docker runs
  is what the contract says unless a release has failed (`Ownership`). `CountTyped` bounds
  `active_requests` by the requests under way.
* `LlamaRouterOpenProofs`: `AcceptsOnlyResident` and `NeverStuck` under `Open`, that is
  while the window stays open and with at most one thread of manual jobs;
  and so is `RequestsProtected`, for any number of requests. Until the end of a forgotten
  request is mistaken for another's, the count is that of the requests in the container,
  cut off or not (`Counted`), so that a drain that has come to zero has waited for all of
  them. The task runner runs manual jobs one at a time, which is why one thread is
  enough; that the window is open is needed, since its forced finish breaks these
  properties (see above).
* `LlamaRouterLeaseProofs`: `ResidentLeased` under `OneManual` only, closing included.
  `Accounts` says of every model in the container, between calls and at each place of
  one, whose lease covers it or which cleanup is on its way. `ClosedIsReleased` has the
  hypotheses of the run `router_closing`, one pair and no page job (`BatchOnly`), for any
  number of batch threads, requests and closing threads. Its invariant `Emptying` says
  that what is loaded is leased from the stage arbiter (`StageLeased`) and belongs to a
  batch (`ForBatch`), and that in a round the manager of a loaded model has not made an
  attempt yet (`Untried`): each attempt, even one that raises (`Raised`), meets another's
  lease, or finds no Router to finish, shows or leaves its own model gone. So a batch
  ends with nothing loaded, whatever the closing window does meanwhile.

In these proofs a load turned out to be modelled by a `CASE` with overlapping guards,
which TLC reads in order and TLA+ does not; it is now the cascade of conditionals that
the code has.

`ProjectSaveProofs` proves, for any number of jobs, paths, edits and accidents, that the
autosave's flag is never left behind (`PendingHasItsSave`), that another project's stage
results stay beside it (`SidecarsFit`), that what is on disk is never taken away
(`NothingLost`) and that a clean window has everything saved (`CleanIsSaved`), next to
`TypeCorrect`. `SaveInv` is
built from below:

* what a job may carry where (`Shapes`), the user's save being the only one of its kind
  and aimed at the project's file, which the busy dialog sees to (`User`), and one save
  at a time until the queue has been overtaken (`Alone`);
* for the pending flag, that a save which will reset it is there (`Pending`): the end of
  a page save, well or not, either resets the flag or starts the next save;
* for the sidecars, that the move which put a foreign one aside still has it as its
  backup (`Sides`);
* for the files, that what is about to be written, or has just been, is the newest there
  is (`Newest`). This is what the clearing of the recovery checkpoint and the removal of
  a moved project's old file rest on: they come with the end of a save, and its file is
  at least as new;
* for the clean window (`Clean`), that edits made since a save read the project leave
  the window dirty (`Stale`), and that what an autosave or a page save has written is
  still a file of the project when its callback clears the flag (`Placed`): a move that
  is under way keeps the file it comes from among them, and one that failed has restored
  the old name before it is forgotten.

Each step first gets a lemma on what becomes of the job (`BeginJob`, `WriteJob`,
`AddFresh`, ...). Half of the actions touch neither a file nor a save under way (`Calm`);
the later invariants look only at the rest.

In the last three models `None` must be none of the values it stands beside (`NoneAssumption`).

Every invariant and every action property of a passing run is a theorem, under the
hypotheses named above. Only model-checked: liveness
(`EveryOperationSettles`, `CallsReturn`, `BatchEnds`), which the prover cannot treat.
`ProjectSave` states none and needs no fairness.

## Not modelled

* The managers' separate-server path and its health polling; the adapter's port,
  image and fingerprint checks; the VRAM measurements of the hand-off.
* Of a batch: the prefetch of Gemma's file into the page cache (a mid-sweep start of
  Gemma does not await it, and its executor may outlive the batch), the benchmark's
  OCR ceiling, translators that are not local, and a second batch while a render of the first is still
  running, which the 30 seconds of the render pool's shutdown allow.
* Of the store: fingerprints and payload formats, statistics, loss of power (the
  directory of the objects is not synced).
* Of a project: a crash of the program between two steps and the restart after it, Save
  As, series files, loading, exports, and the reading of the live state, which is one
  step here. `close_cached_connection` and
  `ensure_lazy_blob_materialized` take two locks of `project_state_v2.py` in opposite orders; blobs that are loaded late have no module.
* Series queue, result caches and translation memory: the next steps of the plan. The
  queue runs one project at a time through the batch of `StageBatch`; caches and
  memory only answer pages, which `StageBatch` leaves to chance.
* User interface, image processing, OCR engines, file formats and scripts: sequential
  or numeric.

## Plan

Done: the arbiter, the task runner, the checkpoint store, the batch with its prewarm
thread and render pool, the Router with its callers and the saves of a project, all
with their proofs.

Left, in this order:

1. `SeriesQueue`: the run states of a series, with restart from its file, and its
   proofs.
2. `ResultCache`: identity and eviction of cached OCR results.
3. The separate-server path in `LlamaRouter`, and two batches in a row in
   `StageBatch`.
