----------------------------- MODULE StageBatch -----------------------------
(***************************************************************************)
(* pipeline/stage_batched_processor.py: one run of batch_process, with     *)
(* pipeline/render_pool.py and pipeline/render_worker.py.                  *)
(*                                                                         *)
(* The pipeline thread takes all pages through one stage after the other.  *)
(* Next to it run the one thread of the prewarm executor, which prepares   *)
(* the OCR container and loads the models ahead of their stage, and the    *)
(* threads of the render pool, which draw the pages that are inpainted.    *)
(* The pipeline collects what they are done with, and stops both when it   *)
(* leaves, by its end, by an exception or by the user's cancellation.      *)
(*                                                                         *)
(* The arbiter (RuntimeArbiter) and the OCR manager (LlamaRouter) appear   *)
(* with their locks, the lease and what is loaded on the GPU.              *)
(***************************************************************************)
EXTENDS Naturals, Sequences, FiniteSets

CONSTANTS
  PageCount,      \* pages of the batch, processed in the order 1..PageCount
  RenderWorkers,  \* threads of the render pool (CT_RENDER_WORKERS, 1 if unset)
  None,
  MaxFaults       \* bound on the faults of models, containers and disks

ASSUME PageAssumption == PageCount \in Nat \ {0}
ASSUME WorkerAssumption == RenderWorkers \in Nat \ {0}
ASSUME FaultAssumption == MaxFaults \in Nat

Page == 1..PageCount
Thread == {"pipeline", "worker"}
Key == {"container", "ocr", "gemma"}          \* the prewarm jobs
Service == {"ocr", "gemma", "inpainter"}

VARIABLES
  at,            \* where batch_process stands
  nextPage,      \* the page its loop is at
  awaiting,      \* the prewarm job that _await_prewarm_or_run waits for
  gemmaStarted,  \* gemma_runtime_started
  deferred,      \* the autosave of the project is deferred
  outcome,       \* how batch_process ends
  page,          \* "text", or "blank" (no_text_detected), or "failed" (failed_stage),
                 \* "unserved" when what failed was to start its model
  todo,          \* the pages the stage needs its model for
  output,        \* the file of a page: "rendered", or "lost" (drawn, but not recorded, or
                 \* no longer readable), or by the fallback, "replaced" if it was lost; or none
  render,        \* the Future of a page's render job
  queue,         \* the render pool's queue
  pending,       \* _pending_render_jobs
  cancelled,     \* is_current_task_cancelled
  renderCancel,  \* _render_cancel_event
  stopping,      \* _prewarm_cancel_event and the cancelled generation
  job,           \* the Future of a prewarm job; they are queued in the order of Before
  known,         \* the keys of _prewarm_jobs and _ocr_container_prewarm_job
  call,          \* the manager call a thread is in
  command,       \* the holder of the arbiter's command lock
  manager,       \* the holder of the OCR manager's lock
  holder,        \* the service that has the lease
  stuck,         \* that service is RELEASE_FAILED
  resident,      \* the services whose model is on the GPU
  faults         \* how many faults there were

control == <<at, nextPage, awaiting, gemmaStarted, deferred, outcome>>
work == <<page, todo, output>>
renders == <<render, queue, pending>>
prewarm == <<job, known>>
gpu == <<command, manager, holder, stuck, resident>>

vars == <<control, work, renders, cancelled, renderCancel, stopping, prewarm,
          call, gpu, faults>>

\* The stages, then what the finally clause does.
Places == {"preflight", "detect", "prewarmOcr", "planOcr", "loadOcr", "ocr", "ocrRelease",
           "planTranslation", "translate", "gemmaRelease", "gemmaStop",
           "inpaint", "loadInpainter", "infer", "drain", "reconcile",
           "stopRender", "awaitRender", "stopPrewarm", "awaitWorker",
           "stopOcr", "stopGemma", "stopGemmaForeign", "returned"}

\* A call waits for the arbiter's command lock ("bracket") and for the manager's
\* lock, runs, and is over with one of the three results.
Results == {"done", "failed", "cancelled"}
Call == [op : {"start", "release", "prepare"}, service : {"ocr", "gemma"},
         at : {"bracket", "manager", "body"} \cup Results]
ASSUME NoneAssumption ==
  None \notin Call \cup Thread \cup Service \cup {"rendered", "lost", "fallback", "replaced",
                                                 "completed", "cancelled", "failed"}

Failures == {"failed", "unserved"}
Outputs == {"rendered", "lost", "fallback", "replaced"}

ControlTyped ==
  /\ at \in Places /\ nextPage \in 1..(PageCount + 1)
  /\ awaiting \in {None, "ocr", "gemma"}
  /\ outcome \in {None, "completed", "cancelled", "failed"}

WorkTyped ==
  /\ page \in [Page -> {"text", "blank"} \cup Failures]
  /\ todo \subseteq Page
  /\ output \in [Page -> Outputs \cup {None}]

RenderTyped ==
  /\ render \in [Page -> {"none", "queued", "running", "done", "raised",
                          "collected", "dropped"}]
  /\ queue \in Seq(Page) /\ pending \subseteq Page

PrewarmTyped ==
  /\ job \in [Key -> {"none", "queued", "running"} \cup Results]
  /\ known \subseteq Key

CallTyped == call \in [Thread -> Call \cup {None}]

GpuTyped ==
  /\ {command, manager} \subseteq Thread \cup {None}
  /\ holder \in Service \cup {None} /\ resident \subseteq Service
  /\ faults \in 0..MaxFaults

FlagsTyped ==
  {gemmaStarted, deferred, cancelled, renderCancel, stopping, stuck} \subseteq BOOLEAN

TypeOK ==
  /\ ControlTyped /\ WorkTyped /\ RenderTyped /\ PrewarmTyped
  /\ CallTyped /\ GpuTyped /\ FlagsTyped

Init ==
  /\ at = "preflight" /\ nextPage = 1 /\ awaiting = None
  /\ gemmaStarted = FALSE /\ deferred = FALSE /\ outcome = None
  /\ page = [p \in Page |-> "text"] /\ todo = {}
  /\ output = [p \in Page |-> None]
  /\ render = [p \in Page |-> "none"] /\ queue = <<>> /\ pending = {}
  /\ cancelled = FALSE /\ renderCancel = FALSE /\ stopping = FALSE
  /\ job = [k \in Key |-> "none"] /\ known = {}
  /\ call = [t \in Thread |-> None]
  /\ command = None /\ manager = None
  /\ holder = None /\ stuck = FALSE /\ resident = {}
  /\ faults = 0

-----------------------------------------------------------------------------
(* Helpers.                                                                 *)

Fault == faults < MaxFaults /\ faults' = faults + 1
NoFault == UNCHANGED faults

\* _prewarm_cancel_checker.
CancelSeen == stopping \/ cancelled

\* The pipeline is in no call and waits for no prewarm job.
Free == awaiting = None /\ call["pipeline"] = None

\* A stage's loop is at page p.
AtPage(place, p) == at = place /\ Free /\ ~cancelled /\ nextPage = p
\* Its loop is over, and so is the check for a cancellation behind it.
LoopOver(place) == at = place /\ Free /\ ~cancelled /\ nextPage > PageCount

Goto(place) == at' = place /\ nextPage' = 1
NextPage == nextPage' = nextPage + 1 /\ UNCHANGED at

Steady == UNCHANGED <<awaiting, gemmaStarted, deferred, outcome>>

\* The inpainter's lease is given back; its model is off the GPU.
InpainterReleased ==
  /\ holder' = IF holder = "inpainter" THEN None ELSE holder
  /\ resident' = resident \ {"inpainter"}
  /\ command' = IF command = "pipeline" THEN None ELSE command
  /\ UNCHANGED <<manager, stuck>>

\* release_inpainter_resources raised: the lease stays, marked as failed.
InpainterKept ==
  /\ command' = IF command = "pipeline" THEN None ELSE command
  /\ stuck' = (stuck \/ holder = "inpainter")
  /\ UNCHANGED <<manager, holder, resident>>

\* An exception leaves batch_process for its finally clause.
Leave(end) ==
  /\ Goto("stopRender")
  /\ outcome' = end /\ awaiting' = None
  /\ call' = [call EXCEPT !["pipeline"] = None]
  /\ todo' = {}
  /\ UNCHANGED <<gemmaStarted, deferred, page, output, renders, cancelled, stopping, prewarm>>

\* The except branch of _inpaint_all, which swallows a failed release.
Unwind ==
  \/ InpainterReleased /\ NoFault
  \/ resident \cap {"inpainter"} # {} /\ InpainterKept /\ Fault

\* _raise_if_cancelled, which also wakes the render workers.
Cancelled ==
  /\ Leave("cancelled")
  /\ renderCancel' = TRUE
  /\ Unwind

\* The points from the preflight to the drain begin or end with that check.
Checked == {"preflight", "detect", "prewarmOcr", "planOcr", "loadOcr", "ocr", "planTranslation",
            "translate", "gemmaStop", "inpaint", "loadInpainter", "infer", "drain"}

NoticeCancel ==
  /\ cancelled /\ Free /\ at \in Checked
  /\ Cancelled

\* An exception that no stage catches: a page cannot be read, a file not written.
Raises ==
  /\ Free /\ ~cancelled /\ at \in Checked
  /\ Fault
  /\ Leave("failed")
  /\ InpainterReleased
  /\ UNCHANGED renderCancel

\* is_current_task_cancelled: the user cancels.
Cancel ==
  /\ ~cancelled /\ at # "returned"
  /\ cancelled' = TRUE
  /\ UNCHANGED <<control, work, renders, renderCancel, stopping, prewarm, call, gpu, faults>>

-----------------------------------------------------------------------------
(* The managers' calls.  A start and a release are bracketed by the arbiter *)
(* and take the manager's lock inside; the preparation of the container     *)
(* takes the manager's lock first and the arbiter's inside.                 *)

Move(t, place) == call' = [call EXCEPT ![t].at = place]
InCall(t, place) == call[t] # None /\ call[t].at = place
Begin(t, op, s) ==
  call' = [call EXCEPT ![t] = [op |-> op, service |-> s,
                               at |-> IF op = "prepare" THEN "manager" ELSE "bracket"]]

\* A release that tears down another service's lease, after a failed one.
Foreign == at = "stopGemmaForeign"

\* What model_start and model_release refuse before they change anything.
Refused(op, s) ==
  \/ holder \notin {None, s} /\ ~(op = "release" /\ Foreign)
  \/ op # "release" /\ holder = s /\ stuck

EnterBracket(t) ==
  LET c == call[t] IN
  /\ InCall(t, "bracket") /\ command = None
  /\ ~Refused(c.op, c.service)
  /\ c.op = "release" \/ ~CancelSeen
  /\ command' = t
  /\ holder' = IF holder = None THEN c.service ELSE holder
  /\ Move(t, IF c.op # "prepare" /\ c.service = "ocr" THEN "manager" ELSE "body")
  /\ UNCHANGED <<manager, stuck, resident, faults>>

\* The bracket raises; the preparation swallows it and returns False.
RefuseBracket(t) ==
  LET c == call[t] IN
  /\ InCall(t, "bracket") /\ command = None
  /\ Refused(c.op, c.service) \/ (c.op # "release" /\ CancelSeen)
  /\ manager' = IF c.op = "prepare" THEN None ELSE manager
  /\ Move(t, IF c.op = "prepare" THEN "done"
             ELSE IF c.op = "start" /\ CancelSeen THEN "cancelled" ELSE "failed")
  /\ UNCHANGED <<command, holder, stuck, resident, faults>>

EnterManager(t) ==
  /\ InCall(t, "manager") /\ manager = None
  /\ manager' = t
  /\ Move(t, IF call[t].op = "prepare" THEN "bracket" ELSE "body")
  /\ UNCHANGED <<command, holder, stuck, resident, faults>>

\* The call gives its locks back and ends.
End(t, result) ==
  /\ Move(t, result)
  /\ command' = None
  /\ manager' = IF manager = t THEN None ELSE manager

Vacated(s) ==
  /\ holder' = IF holder = s THEN None ELSE holder
  /\ stuck' = (stuck /\ holder # s)
  /\ resident' = resident \ {s}

\* The service keeps the lease; its model may be gone or not.
Retained(s) ==
  /\ stuck' = (stuck \/ holder = s)
  /\ resident' \in {resident, resident \ {s}}
  /\ UNCHANGED holder

Ending(t, op) == InCall(t, "body") /\ call[t].op = op

StartSucceeds(t) ==
  /\ Ending(t, "start") /\ ~CancelSeen
  /\ End(t, "done")
  /\ resident' = resident \cup {call[t].service}
  /\ UNCHANGED <<holder, stuck, faults>>

\* The model does not load, or was loaded for nobody: stale_cleanup stops it.
StartFails(t) ==
  /\ Ending(t, "start")
  /\ IF CancelSeen THEN NoFault ELSE Fault
  /\ End(t, IF CancelSeen THEN "cancelled" ELSE "failed")
  /\ Vacated(call[t].service)

\* So does the cleanup.
StartAndCleanupFail(t) ==
  /\ Ending(t, "start") /\ Fault
  /\ End(t, "failed")
  /\ stuck' = (holder = call[t].service)
  /\ resident' \in {resident, resident \cup {call[t].service}}
  /\ UNCHANGED holder

ReleaseSucceeds(t) ==
  /\ Ending(t, "release")
  /\ End(t, "done")
  /\ Vacated(call[t].service)
  /\ NoFault

\* Mutant of ReleaseCancelled: the cleanup asks the same checker as the stages.
ReleaseCancelledAlways == cancelled

\* A cancellation is enough for the unload between the OCR and the translation to fail,
\* and then its second attempt; no other release asks whether the user cancelled.
ReleaseCancelled == cancelled /\ at = "ocrRelease"

\* Both attempts of a release failed: a RouterReleaseError, whatever the reason was.
ReleaseFails(t) ==
  /\ Ending(t, "release")
  /\ IF ReleaseCancelled THEN NoFault ELSE Fault
  /\ End(t, "failed")
  /\ Retained(call[t].service)

\* No model is loaded: the lease is given back before the call returns.
PrepareEnds(t) ==
  /\ Ending(t, "prepare")
  /\ End(t, "done")
  /\ \/ Vacated("ocr") /\ NoFault
     \/ Retained("ocr") /\ Fault

CallStep(t) ==
  /\ \/ EnterBracket(t) \/ RefuseBracket(t) \/ EnterManager(t)
     \/ StartSucceeds(t) \/ StartFails(t) \/ StartAndCleanupFail(t)
     \/ ReleaseSucceeds(t) \/ ReleaseFails(t) \/ PrepareEnds(t)
  /\ UNCHANGED <<control, work, renders, cancelled, renderCancel, stopping, prewarm>>

-----------------------------------------------------------------------------
(* The prewarm executor: one thread, which takes the jobs in their order.   *)

Before(k) == CASE k = "container" -> {}
               [] k = "ocr" -> {"container"}
               [] k = "gemma" -> {"container", "ocr"}

Unfinished(k) == job[k] \in {"queued", "running"}

\* Mutant of RunnerCall: the container's preparation names no service.
RunnerCallNameless(k) ==
  IF k = "container" THEN Begin("worker", "prepare", None)
                     ELSE Begin("worker", "start", k)

RunnerCall(k) ==
  IF k = "container" THEN Begin("worker", "prepare", "ocr")
                     ELSE Begin("worker", "start", k)

\* The runner looks for a cancellation before it calls the manager.
TakeJob(k) ==
  /\ job[k] = "queued" /\ call["worker"] = None
  /\ \A b \in Before(k) : ~Unfinished(b)
  /\ IF CancelSeen
     THEN /\ job' = [job EXCEPT ![k] = IF k = "container" THEN "done" ELSE "cancelled"]
          /\ UNCHANGED call
     ELSE /\ job' = [job EXCEPT ![k] = "running"]
          /\ RunnerCall(k)
  /\ UNCHANGED <<control, work, renders, cancelled, renderCancel, stopping, known, gpu, faults>>

FinishJob(k) ==
  /\ job[k] = "running" /\ call["worker"].at \in Results
  /\ job' = [job EXCEPT ![k] = call["worker"].at]
  /\ call' = [call EXCEPT !["worker"] = None]
  /\ UNCHANGED <<control, work, renders, cancelled, renderCancel, stopping, known, gpu, faults>>

WorkerStep == CallStep("worker") \/ \E k \in Key : TakeJob(k) \/ FinishJob(k)

-----------------------------------------------------------------------------
(* The render pool.                                                         *)

Running == {p \in Page : render[p] = "running"}

TakeRender ==
  /\ queue # <<>> /\ Cardinality(Running) < RenderWorkers
  /\ render' = [render EXCEPT ![Head(queue)] = "running"]
  /\ queue' = Tail(queue)
  /\ UNCHANGED <<control, work, pending, cancelled, renderCancel, stopping, prewarm, call, gpu, faults>>

\* Mutant of FinishRender: when the job raises, nothing is put into its Future.
FinishRenderUnreported(p) ==
  /\ render[p] = "running"
  /\ \E result \in {"done", "dropped"} : render' = [render EXCEPT ![p] = result]
  /\ UNCHANGED <<control, work, queue, pending, cancelled, renderCancel, stopping, prewarm, call, gpu, faults>>

\* run_render_job returns, raises, or sees the cancellation.
FinishRender(p) ==
  /\ render[p] = "running"
  /\ \E result \in {"done", "raised"} : render' = [render EXCEPT ![p] = result]
  /\ UNCHANGED <<control, work, queue, pending, cancelled, renderCancel, stopping, prewarm, call, gpu, faults>>

RenderStep == TakeRender \/ \E p \in Page : FinishRender(p)

-----------------------------------------------------------------------------
(* The stages.                                                              *)

Text == {p \in Page : page[p] = "text"}

\* The preflight's round of shutdowns passes; the container job is submitted.
Preflight ==
  /\ at = "preflight" /\ Free /\ ~cancelled
  /\ Goto("detect")
  /\ job' = [job EXCEPT !["container"] = "queued"]
  /\ known' = {"container"}
  /\ Steady
  /\ UNCHANGED <<work, renders, renderCancel, call, gpu, faults>>

DetectPage(p) ==
  /\ AtPage("detect", p)
  /\ \E found \in {"text", "blank"} : page' = [page EXCEPT ![p] = found]
  /\ NextPage
  /\ Steady
  /\ UNCHANGED <<todo, output, renders, renderCancel, prewarm, call, gpu, faults>>

DetectEnds ==
  /\ LoopOver("detect")
  /\ Goto("prewarmOcr")
  /\ Steady
  /\ UNCHANGED <<work, renders, renderCancel, prewarm, call, gpu, faults>>

\* Mutant of ContainerAwaited: the container's job is left running.
ContainerLeft == TRUE

\* _await_ocr_container_prewarm returned.
ContainerAwaited == ~Unfinished("container")

\* Then the OCR model is loaded ahead, unless a probe of the caches defers it.
StartOcrPrewarm ==
  /\ at = "prewarmOcr" /\ Free /\ ~cancelled
  /\ ContainerAwaited
  /\ \/ /\ job' = [job EXCEPT !["ocr"] = "queued"]
        /\ known' = {"ocr"}
     \/ known' = {} /\ UNCHANGED job
  /\ Goto("planOcr")
  /\ Steady
  /\ UNCHANGED <<work, renders, renderCancel, call, gpu, faults>>

\* Which pages no cache answers; planning may fail a page.  Only if there are
\* such pages is the prewarm job awaited.
PlanOcr ==
  /\ at = "planOcr" /\ Free /\ ~cancelled
  /\ \E misses \in SUBSET Text : \E broken \in SUBSET (Text \ misses) :
       /\ page' = [p \in Page |-> IF p \in broken THEN "failed" ELSE page[p]]
       /\ todo' = misses
       /\ awaiting' = IF misses # {} THEN "ocr" ELSE None
  /\ Goto("loadOcr")
  /\ UNCHANGED <<gemmaStarted, deferred, outcome, output, renders, renderCancel,
                 prewarm, call, gpu, faults>>

OcrLoaded ==
  /\ at = "loadOcr" /\ Free /\ ~cancelled
  /\ Goto("ocr")
  /\ Steady
  /\ UNCHANGED <<work, renders, renderCancel, prewarm, call, gpu, faults>>

\* Failed and blank pages are passed over, the others read, found to have no
\* text after all, or failed.
OcrPage(p) ==
  /\ AtPage("ocr", p)
  /\ \/ p \notin Text /\ UNCHANGED page
     \/ /\ p \in Text
        /\ \E result \in {"text", "blank", "failed"} : page' = [page EXCEPT ![p] = result]
  /\ todo' = todo \ {p}
  /\ NextPage
  /\ Steady
  /\ UNCHANGED <<output, renders, renderCancel, prewarm, call, gpu, faults>>

\* A cached page of low quality is read once more, by the model.
RetryOcrPage(p) ==
  /\ AtPage("ocr", p)
  /\ p \in Text \ todo
  /\ todo' = todo \cup {p}
  /\ awaiting' = "ocr"
  /\ UNCHANGED <<at, nextPage, gemmaStarted, deferred, outcome, page, output, renders,
                 renderCancel, prewarm, call, gpu, faults>>

\* Mutant of ReleaseAfter: the OCR model is left where it is.
ReleaseAfterGemmaOnly(place, s) ==
  IF s = "gemma"
  THEN Begin("pipeline", "release", s)
  ELSE call' = [call EXCEPT !["pipeline"] = [op |-> "release", service |-> s, at |-> "done"]]

\* _shutdown_runtime_with_retry, called at this place.
ReleaseAfter(place, s) == Begin("pipeline", "release", s)

OcrEnds ==
  /\ at = "ocr" /\ Free /\ nextPage > PageCount
  /\ Goto("ocrRelease")
  /\ ReleaseAfter("ocr", "ocr")
  /\ Steady
  /\ UNCHANGED <<work, renders, renderCancel, prewarm, gpu, faults>>

\* Gemma is needed for the pages that neither a checkpoint nor the translation
\* memory answers.  Its job is submitted and awaited at once.
StartGemma ==
  /\ job' = [job EXCEPT !["gemma"] = "queued"]
  /\ known' = known \cup {"gemma"}
  /\ awaiting' = "gemma" /\ gemmaStarted' = TRUE

PlanTranslation ==
  /\ at = "planTranslation" /\ Free /\ ~cancelled
  /\ todo' \in SUBSET Text
  /\ IF todo' # {} THEN StartGemma ELSE UNCHANGED <<awaiting, gemmaStarted, prewarm>>
  /\ Goto("translate")
  /\ UNCHANGED <<deferred, outcome, page, output, renders, renderCancel, call, gpu, faults>>

TranslatePage(p) ==
  /\ AtPage("translate", p)
  /\ \/ p \notin Text /\ UNCHANGED page
     \/ /\ p \in Text
        /\ \E result \in {"text", "failed"} : page' = [page EXCEPT ![p] = result]
  /\ todo' = todo \ {p}
  /\ NextPage
  /\ Steady
  /\ UNCHANGED <<output, renders, renderCancel, prewarm, call, gpu, faults>>

\* The page's plan is made again, and now it needs Gemma.
LateGemma(p) ==
  /\ AtPage("translate", p)
  /\ p \in Text \ todo /\ ~gemmaStarted
  /\ todo' = todo \cup {p}
  /\ StartGemma
  /\ UNCHANGED <<at, nextPage, deferred, outcome, page, output, renders, renderCancel,
                 call, gpu, faults>>

TranslateEnds ==
  /\ at = "translate" /\ Free /\ nextPage > PageCount
  /\ IF gemmaStarted THEN Goto("gemmaRelease") /\ ReleaseAfter("translate", "gemma")
                     ELSE Goto("gemmaStop") /\ UNCHANGED call
  /\ Steady
  /\ UNCHANGED <<work, renders, renderCancel, prewarm, gpu, faults>>

\* _release_gemma_before_inpainter.
StopGemma ==
  /\ at = "gemmaStop" /\ Free /\ ~cancelled
  /\ ReleaseAfter("gemmaStop", "gemma")
  /\ UNCHANGED <<control, work, renders, renderCancel, prewarm, gpu, faults>>

\* What the pipeline's call came to.  A start or a release between two stages must
\* work, except that a page read once more only fails itself, and except the last
\* release before the inpainter; after that one the autosave is deferred.
Returns == call["pipeline"] # None /\ call["pipeline"].at \in Results
GoOn == call' = [call EXCEPT !["pipeline"] = None]

CallWorked ==
  /\ Returns /\ call["pipeline"].at = "done"
  /\ at \in {"loadOcr", "ocr", "ocrRelease", "translate", "gemmaRelease"}
  /\ at' = CASE at = "ocrRelease" -> "planTranslation"
             [] at = "gemmaRelease" -> "gemmaStop"
             [] OTHER -> at
  /\ GoOn
  /\ Steady
  /\ UNCHANGED <<nextPage, work, renders, renderCancel, prewarm, gpu, faults>>

CallFailed ==
  /\ Returns /\ call["pipeline"].at # "done"
  /\ \/ at \in {"loadOcr", "ocrRelease", "translate", "gemmaRelease"}
     \/ at = "ocr" /\ call["pipeline"].at = "cancelled"
  /\ Leave(call["pipeline"].at)
  /\ UNCHANGED <<renderCancel, gpu, faults>>

RetryFailed ==
  /\ Returns /\ call["pipeline"].at = "failed" /\ at = "ocr"
  /\ page' = [page EXCEPT ![nextPage] = "unserved"]
  /\ todo' = todo \ {nextPage}
  /\ NextPage
  /\ GoOn
  /\ Steady
  /\ UNCHANGED <<output, renders, renderCancel, prewarm, gpu, faults>>

GemmaStopped ==
  /\ Returns /\ at = "gemmaStop"
  /\ Goto("inpaint")
  /\ deferred' = TRUE
  /\ GoOn
  /\ UNCHANGED <<awaiting, gemmaStarted, outcome, work, renders, renderCancel, prewarm, gpu, faults>>

\* Mutant of FallbackStart: a prewarm that failed is taken for good.
FallbackStartSkipped(s) == UNCHANGED call

\* _run_runtime_fallback: the model is started on the pipeline thread.
FallbackStart(s) == Begin("pipeline", "start", s)

\* _await_prewarm_or_run: no job, or one that failed, falls back.
AwaitPrewarm ==
  /\ awaiting # None /\ call["pipeline"] = None
  /\ LET k == awaiting
         submitted == k \in known
     IN /\ submitted => ~Unfinished(k)
        /\ IF cancelled \/ (submitted /\ job[k] = "cancelled")
           THEN /\ Leave("cancelled")
                /\ renderCancel' = (renderCancel \/ cancelled)
           ELSE /\ awaiting' = None
                /\ known' = known \ {k}
                /\ IF submitted /\ job[k] = "done" THEN UNCHANGED call ELSE FallbackStart(k)
                /\ UNCHANGED <<at, nextPage, gemmaStarted, deferred, outcome, work, renders,
                               renderCancel, job>>
  /\ UNCHANGED <<gpu, faults>>

-----------------------------------------------------------------------------
(* Inpainting and rendering.                                                *)

\* _drain_render_futures: what the render workers are done with is collected.
Finished == {p \in pending : render[p] \in {"done", "raised"}}
PageAfter(p) == IF p \in Finished /\ render[p] = "raised" THEN "failed" ELSE page[p]
OutputAfter(p) == IF p \in Finished /\ render[p] = "done" THEN "rendered" ELSE output[p]
RenderAfter(p) == IF p \in Finished THEN "collected" ELSE render[p]

Collect ==
  /\ page' = [p \in Page |-> PageAfter(p)]
  /\ output' = [p \in Page |-> OutputAfter(p)]
  /\ render' = [p \in Page |-> RenderAfter(p)]
  /\ pending' = pending \ Finished
  /\ UNCHANGED queue

CollectAndFail(p) ==
  /\ page' = [q \in Page |-> IF q = p THEN "failed" ELSE PageAfter(q)]
  /\ output' = [q \in Page |-> OutputAfter(q)]
  /\ render' = [q \in Page |-> RenderAfter(q)]
  /\ pending' = pending \ Finished
  /\ UNCHANGED queue

\* _submit_or_inline_render: a checkpoint already has the page's file, or the
\* page is given to the render pool, or neither works and the page fails.
CollectAndRender(p) ==
  \/ /\ page' = [q \in Page |-> PageAfter(q)]
     /\ output' = [q \in Page |-> IF q = p THEN "rendered" ELSE OutputAfter(q)]
     /\ render' = [q \in Page |-> RenderAfter(q)]
     /\ pending' = pending \ Finished
     /\ UNCHANGED queue
  \/ /\ page' = [q \in Page |-> PageAfter(q)]
     /\ output' = [q \in Page |-> OutputAfter(q)]
     /\ render' = [q \in Page |-> IF q = p THEN "queued" ELSE RenderAfter(q)]
     /\ pending' = (pending \ Finished) \cup {p}
     /\ queue' = Append(queue, p)
  \/ CollectAndFail(p)

\* The renders in seen are looked at, q's the last of them; p fails.
CollectedUpTo(p, q, seen, kept) ==
  /\ page' = [r \in Page |-> IF r = p THEN "failed"
                            ELSE IF r \in seen THEN PageAfter(r) ELSE page[r]]
  /\ output' = [r \in Page |-> IF r = q /\ render[q] = "done" THEN kept
                              ELSE IF r \in seen THEN OutputAfter(r) ELSE output[r]]
  /\ render' = [r \in Page |-> IF r \in seen THEN "collected" ELSE render[r]]
  /\ pending' = pending \ seen
  /\ UNCHANGED queue

\* What follows q's render, done before p's inpainting, raises: p is the page that fails,
\* q has its file or is left without, and what was not looked at yet stays pending.
CollectionFails(p) ==
  \E q \in Finished, before \in SUBSET Finished, kept \in {"rendered", "lost"} :
    CollectedUpTo(p, q, before \cup {q}, kept)

InpaintUnchanged ==
  /\ Steady
  /\ UNCHANGED <<renderCancel, prewarm, call>>

\* Mutant of PlanBlankPage: without text there is nothing to render.
PlanBlankPageSkipped(p) == Collect

\* A page without text needs no inpainting, but it has its output like the rest.
PlanBlankPage(p) == CollectAndRender(p)

\* The first loop of _inpaint_pages: what needs the model is put aside.
PlanInpaintPage(p) ==
  /\ AtPage("inpaint", p)
  /\ \/ page[p] \in Failures /\ Collect /\ UNCHANGED todo
     \/ page[p] = "blank" /\ PlanBlankPage(p) /\ UNCHANGED todo
     \/ p \in Text /\ CollectAndRender(p) /\ UNCHANGED todo
     \/ p \in Text /\ Collect /\ todo' = todo \cup {p}
  /\ NextPage
  /\ NoFault
  /\ InpaintUnchanged
  /\ UNCHANGED gpu

PlanInpaintEnds ==
  /\ LoopOver("inpaint")
  /\ Goto(IF todo # {} THEN "loadInpainter" ELSE "drain")
  /\ InpaintUnchanged
  /\ UNCHANGED <<work, renders, gpu, faults>>

\* _ensure_inpainter: on the GPU it takes the lease, and keeps the command lock
\* until it is released; on the CPU it takes nothing.
LoadInpainter ==
  /\ at = "loadInpainter" /\ Free /\ ~cancelled
  /\ \/ /\ command = None /\ holder \in {None, "inpainter"}
        /\ command' = "pipeline" /\ holder' = "inpainter"
        /\ resident' = resident \cup {"inpainter"}
        /\ UNCHANGED <<manager, stuck>>
     \/ UNCHANGED gpu
  /\ Collect
  /\ Goto("infer")
  /\ InpaintUnchanged
  /\ UNCHANGED <<todo, faults>>

\* The lease is another service's.
InpainterRefused ==
  /\ at = "loadInpainter" /\ Free /\ ~cancelled
  /\ command = None /\ holder \notin {None, "inpainter"}
  /\ Leave("failed")
  /\ UNCHANGED <<renderCancel, gpu, faults>>

\* The second loop of _inpaint_pages.
InpaintPage(p) ==
  /\ AtPage("infer", p)
  /\ \/ p \notin todo /\ UNCHANGED <<page, output, renders>> /\ NoFault
     \/ p \in todo /\ (CollectAndRender(p) \/ CollectAndFail(p)) /\ NoFault
     \/ p \in todo /\ CollectionFails(p) /\ Fault
  /\ todo' = todo \ {p}
  /\ NextPage
  /\ InpaintUnchanged
  /\ UNCHANGED gpu

\* _release_inpainter_before_render; when it cannot, the batch fails.
InpaintEnds ==
  /\ at = "infer" /\ Free /\ nextPage > PageCount
  /\ \/ /\ Goto("drain") /\ Steady
        /\ InpainterReleased
        /\ NoFault
        /\ UNCHANGED <<work, renders, prewarm, call>>
     \/ /\ Leave("failed")
        /\ InpainterKept
        /\ Fault
  /\ UNCHANGED renderCancel

Drained == pending = {}

\* _render_all: the remaining renders are waited for and collected.
DrainTail ==
  /\ at = "drain" /\ Free /\ ~cancelled /\ Finished # {}
  /\ Collect
  /\ UNCHANGED <<control, todo, renderCancel, prewarm, call, gpu, faults>>

DrainEnds ==
  /\ at = "drain" /\ Free /\ ~cancelled /\ Drained
  /\ Goto("reconcile")
  /\ Steady
  /\ UNCHANGED <<work, renders, renderCancel, prewarm, call, gpu, faults>>

\* A page's file is gone from the disk, or cannot be read any more.
Damage(p) ==
  /\ outcome = None /\ output[p] = "rendered"
  /\ output' = [output EXCEPT ![p] = "lost"]
  /\ Fault
  /\ UNCHANGED <<control, page, todo, renders, cancelled, renderCancel, stopping, prewarm,
                 call, gpu>>

\* _reconcile_page_outputs: a page without a readable file is written from the picture
\* there is; when that fails too the batch does not count as completed.
Reconcile ==
  /\ at = "reconcile"
  /\ LET without == {p \in Page : output[p] \in {None, "lost"}}
     IN \/ /\ output' = [p \in Page |-> IF p \notin without THEN output[p]
                                        ELSE IF output[p] = None THEN "fallback" ELSE "replaced"]
           /\ outcome' = "completed"
           /\ Goto("stopRender")
           /\ NoFault
           /\ UNCHANGED <<awaiting, gemmaStarted, deferred, page, todo, renders, prewarm, call>>
        \/ without # {} /\ Leave("failed") /\ Fault
  /\ UNCHANGED <<renderCancel, gpu>>

-----------------------------------------------------------------------------
(* The finally clause of batch_process.                                     *)

\* QtRenderPool.shutdown: jobs not begun are dropped, their Futures with them.
StopRender ==
  /\ at = "stopRender"
  /\ renderCancel' = TRUE
  /\ render' = [p \in Page |-> IF render[p] = "queued" THEN "dropped" ELSE render[p]]
  /\ queue' = <<>> /\ pending' = {}
  /\ Goto("awaitRender")
  /\ Steady
  /\ UNCHANGED <<work, prewarm, call, gpu, faults>>

\* waitForDone, for 30 seconds at most; then the autosave's deferral ends.
AwaitRender ==
  /\ at = "awaitRender"
  /\ Goto("stopPrewarm")
  /\ deferred' = FALSE
  /\ UNCHANGED <<awaiting, gemmaStarted, outcome, work, renders, renderCancel, prewarm,
                 call, gpu, faults>>

WorkerIdle == \A k \in Key : ~Unfinished(k)

\* _shutdown_prewarm_executor: a cancelled generation, jobs not begun cancelled.
StopPrewarm ==
  /\ at = "stopPrewarm"
  /\ job' = [k \in Key |-> IF job[k] = "queued" THEN "cancelled" ELSE job[k]]
  /\ known' = {}
  /\ Goto("awaitWorker")
  /\ Steady
  /\ UNCHANGED <<work, renders, renderCancel, call, gpu, faults>>

\* shutdown(wait=True); then the round of shutdowns begins.
AwaitWorker ==
  /\ at = "awaitWorker" /\ WorkerIdle
  /\ Goto("stopOcr")
  /\ Begin("pipeline", "release", "ocr")
  /\ Steady
  /\ UNCHANGED <<work, renders, renderCancel, prewarm, gpu, faults>>

\* The Gemma manager's shutdown, which after a failed OCR shutdown may tear down
\* another service's lease; then batch_process returns.
StopSecond ==
  /\ Returns /\ at = "stopOcr"
  /\ at' = IF call["pipeline"].at = "done" THEN "stopGemma" ELSE "stopGemmaForeign"
  /\ Begin("pipeline", "release", "gemma")
  /\ Steady
  /\ UNCHANGED <<nextPage, work, renders, renderCancel, prewarm, gpu, faults>>

BatchReturns ==
  /\ Returns /\ at \in {"stopGemma", "stopGemmaForeign"}
  /\ at' = "returned"
  /\ GoOn
  /\ Steady
  /\ UNCHANGED <<nextPage, work, renders, renderCancel, prewarm, gpu, faults>>

Returned == at = "returned" /\ UNCHANGED vars

-----------------------------------------------------------------------------
PipelineMove ==
  \/ Preflight \/ DetectEnds \/ StartOcrPrewarm \/ PlanOcr \/ OcrLoaded \/ OcrEnds
  \/ PlanTranslation \/ TranslateEnds \/ StopGemma \/ AwaitPrewarm
  \/ CallWorked \/ CallFailed \/ RetryFailed \/ GemmaStopped
  \/ \E p \in Page : \/ DetectPage(p) \/ OcrPage(p) \/ RetryOcrPage(p)
                     \/ TranslatePage(p) \/ LateGemma(p)
                     \/ PlanInpaintPage(p) \/ InpaintPage(p)
  \/ PlanInpaintEnds \/ LoadInpainter \/ InpainterRefused \/ InpaintEnds
  \/ DrainTail \/ DrainEnds \/ Reconcile
  \/ NoticeCancel \/ Raises
  \/ StopRender \/ AwaitRender \/ AwaitWorker \/ StopSecond \/ BatchReturns

\* StopPrewarm is the one step that sets the prewarm's cancellation.
PipelineStep ==
  \/ PipelineMove /\ UNCHANGED <<cancelled, stopping>>
  \/ StopPrewarm /\ stopping' = TRUE /\ UNCHANGED cancelled
  \/ CallStep("pipeline")

Next ==
  \/ PipelineStep \/ WorkerStep \/ RenderStep \/ Returned
  \/ Cancel \/ \E p \in Page : Damage(p)

\* Every thread goes on with its work; nobody has to cancel.
Spec == Init /\ [][Next]_vars
        /\ WF_vars(PipelineStep) /\ WF_vars(WorkerStep) /\ WF_vars(RenderStep)

-----------------------------------------------------------------------------
(* Properties.                                                              *)

\* When batch_process returns, no command of the executor is running or to come,
\* the autosave is no longer deferred, no lock is held, and unless something
\* failed there is no model on the GPU and nobody has the lease.
LeavesNothing ==
  at = "returned" =>
    /\ \A k \in Key : ~Unfinished(k)
    /\ ~deferred /\ command = None /\ manager = None
    /\ faults = 0 => resident = {} /\ holder = None

\* A completed batch has a file for every page.  A page that failed no stage has its
\* own render, and the picture that stands in for one only if its file was lost.
FallbackHasCause ==
  outcome = "completed" =>
    \A p \in Page : \/ output[p] \in {"rendered", "replaced"}
                    \/ output[p] = "fallback" /\ page[p] \in Failures

\* A page that no cache answers is sent to its model only while that model is
\* loaded and has the lease, whatever became of the job that was to load it; unless
\* a start for another page read once more has failed and taken the model down.
ModelUp ==
  at \in {"ocr", "translate"} /\ Free /\ nextPage \in todo =>
       LET s == IF at = "ocr" THEN "ocr" ELSE "gemma"
       IN (s \in resident /\ holder = s) \/ (\E p \in Page : page[p] = "unserved")

\* The container's job takes the manager's lock and then the arbiter's, all others
\* take them the other way round: never are both threads half way.
NoLockCycle ==
  ~(\E t, u \in Thread :
      /\ command = t /\ InCall(t, "manager")
      /\ manager = u /\ InCall(u, "bracket") /\ t # u)

\* A batch fails only when something has failed in it, or when the OCR prewarm,
\* which nobody awaits if no page needs the model, got in the way of another, or when
\* the user cancelled while the OCR model was unloaded: that is told as a failure.
FailsForCause ==
  [][outcome = None /\ outcome' = "failed" =>
       faults' > 0 \/ "ocr" \in known \/ (cancelled /\ at = "ocrRelease")]_vars

\* Whatever fails and whoever waits, a batch comes to its end.
BatchEnds == <>(at = "returned")
=============================================================================
