---------------------------- MODULE LlamaRouter ----------------------------
(***************************************************************************)
(* The shared llama.cpp Router container: LocalLlamaRouterCoordinator      *)
(* (modules/utils/local_llama_router/coordinator.py) with its two callers, *)
(* the OCR and the Gemma runtime managers, under the two arbiters that     *)
(* guard it.  A batch brackets every call with the stage arbiter; a manual *)
(* page operation and the closing window call the coordinator directly and *)
(* so use its own fallback arbiter.                                        *)
(*                                                                         *)
(* A pair is named by its container; it doubles as the alias of its OCR    *)
(* model, as its contract fingerprint and as the lease name of its OCR     *)
(* service.  Docker and the Router API are the environment: an adapter     *)
(* call may fail with or without having taken effect.                      *)
(***************************************************************************)
EXTENDS Naturals, FiniteSets

CONSTANTS
  Pair,        \* the Router pairs
  Gemma,       \* the Gemma alias, and its lease name
  App,         \* the lease name "app_shutdown"
  None,
  Batch,       \* threads of the batch job: the pipeline and the prewarm worker
  Manual,      \* threads of a manual page job
  Closing,     \* the GUI thread once the window closes
  Request,     \* HTTP inference requests
  MayTimeOut   \* whether a drain may run into its 30 s limit

Alias == Pair \cup {Gemma}
Service == Alias \cup {App}
Thread == Batch \cup Manual \cup Closing
Arbiter == {"stage", "fallback"}
Managers == {"ocr", "gemma"}

ASSUME NamesAssumption == Gemma \notin Pair /\ App \notin Alias /\ None \notin Service
ASSUME ThreadAssumption ==
  Batch \cap Manual = {} /\ Closing \cap (Batch \cup Manual) = {} /\ None \notin Thread
ASSUME TimeOutAssumption == MayTimeOut \in BOOLEAN
ASSUME RequestAssumption == IsFiniteSet(Request)

VARIABLES
  state, contract, loaded, accepting, active,  \* the coordinator
  container, resident,  \* what Docker runs and which models it has loaded
  serving,              \* each request: none, live, cut by a stop, or forgotten by one
  miscounted,           \* history: a request has ended in another's place
  lease, failed, lock,  \* per arbiter: holder, its RELEASE_FAILED, its lock
  cmd,                  \* the holder of the coordinator's command lock
  ocrPair, spec, gemmaPair,  \* _router_pair and _router_spec of the managers
  job,                  \* per thread: the call in progress
  mode,                 \* what the application runs
  todo, unreleased,     \* a round of shutdowns: attempts left, whether one failed
  closing               \* how many shutdowns the closing window has begun

coordinator == <<state, contract, loaded, accepting, active, miscounted>>
world == <<container, resident, serving>>
arbiters == <<lease, failed, lock>>
managers == <<ocrPair, spec, gemmaPair>>
application == <<mode, todo, unreleased, closing>>
vars == <<coordinator, world, arbiters, cmd, managers, job, application>>

RouterState == {"IDLE", "CONTAINER_READY", "OCR_LOADED", "GEMMA_LOADED",
                "DRAINING", "RELEASE_FAILED"}
Loaded == {"OCR_LOADED", "GEMMA_LOADED"}

\* Where a call stands.  prepare..loading and confirm: load and prepare;
\* matched: the load that found its model; abort, aborting: the failed start's
\* cleanup; lateMark, lateMarking: its except branch; outer: the cleanup of the
\* batch's own model_start around a load;
\* unload..stopEmpty: finish; mark: the except branch of unload and finish.
Points == {"matched", "prepare", "stopOld", "create", "load", "loading", "confirm",
           "abort", "aborting", "lateMark", "lateMarking", "outer",
           "unload", "drain", "force", "stopEmpty", "stopping",
           "mark", "raise", "return"}
Job == [op : {"load", "prepare", "finish", "change"}, at : Points, owner : Managers \cup {"app"},
        service : Service, alias : Alias \cup {None}, pair : Pair \cup {None},
        stop : BOOLEAN,
        quiet : BOOLEAN]  \* the exception raised is one that load re-raises as it is

ASSUME NoneAssumption == None \notin Job

\* Three rounds shut both runtimes down: before a batch, after one that was
\* completed, and after one that was cancelled or failed.
Rounds == {"preflight", "completed", "teardown"}

TypeOK ==
  /\ state \in RouterState
  /\ contract \in Pair \cup {None}
  /\ loaded \in Alias \cup {None}
  /\ accepting \in BOOLEAN
  /\ active \in 0..Cardinality(Request)
  /\ container \in Pair \cup {None}
  /\ resident \subseteq Alias
  /\ serving \in [Request -> {"none", "live", "cut", "forgotten"}]
  /\ miscounted \in BOOLEAN
  /\ lease \in [Arbiter -> Service \cup {None}]
  /\ failed \in [Arbiter -> BOOLEAN]
  /\ lock \in [Arbiter -> Thread \cup {None}]
  /\ cmd \in Thread \cup {None}
  /\ {ocrPair, spec, gemmaPair} \subseteq Pair \cup {None}
  /\ job \in [Thread -> Job \cup {None}]
  /\ mode \in {"idle", "manual", "batch"} \cup Rounds
  /\ todo \in [Managers -> 0..2]
  /\ unreleased \in BOOLEAN
  /\ closing \in 0..3

Init ==
  /\ state = "IDLE" /\ contract = None /\ loaded = None
  /\ accepting = FALSE /\ active = 0
  /\ container = None /\ resident = {}
  /\ serving = [r \in Request |-> "none"] /\ miscounted = FALSE
  /\ lease = [a \in Arbiter |-> None]
  /\ failed = [a \in Arbiter |-> FALSE]
  /\ lock = [a \in Arbiter |-> None]
  /\ cmd = None
  /\ ocrPair = None /\ spec = None /\ gemmaPair = None
  /\ job = [t \in Thread |-> None]
  /\ mode = "idle" /\ closing = 0
  /\ todo = [m \in Managers |-> 0] /\ unreleased = FALSE

-----------------------------------------------------------------------------
(* Helpers.                                                                 *)

Idle(S) == \A t \in S : job[t] = None
At(t, point) == job[t] # None /\ job[t].at = point
Goto(t, point) == job' = [job EXCEPT ![t].at = point]
EndJob(t) == job' = [job EXCEPT ![t] = None]

\* A batch thread holds the stage arbiter's lock around the whole call.
Bracketed(t) == t \in Batch
ArbiterOf(t) == IF Bracketed(t) THEN "stage" ELSE "fallback"

\* router_is_active of a manager.
Active(m) == LET p == IF m = "ocr" THEN ocrPair ELSE gemmaPair
             IN p # None /\ contract = p

\* Entry of model_start, or of model_release.
TakeLease(t, s) ==
  LET a == ArbiterOf(t) IN
  /\ lock[a] \in {None, t}
  /\ lock' = [lock EXCEPT ![a] = t]
  /\ lease' = [lease EXCEPT ![a] = IF @ = None THEN s ELSE @]
  /\ failed' = [failed EXCEPT ![a] = @ /\ lease[a] # s]

CanStart(t, s) == LET a == ArbiterOf(t) IN
  lease[a] \in {None, s} /\ ~(lease[a] = s /\ failed[a])

\* Exit of a release or of a cleanup that worked: the holder gives the lease up.
Vacate(a, s) ==
  /\ lease' = [lease EXCEPT ![a] = IF @ = s THEN None ELSE @]
  /\ failed' = [failed EXCEPT ![a] = @ /\ lease[a] # s]

\* Exit of one that failed.
Retain(a, s) ==
  /\ failed' = [failed EXCEPT ![a] = @ \/ lease[a] = s]
  /\ UNCHANGED lease

Unlock(a) == lock' = [lock EXCEPT ![a] = None]

\* _clear_container_locked: the count is zeroed whatever it was.
Clear ==
  /\ state' = "IDLE" /\ contract' = None /\ loaded' = None
  /\ accepting' = FALSE /\ active' = 0 /\ miscounted' = FALSE

\* Mutant of Mark: the failed coordinator goes on accepting requests.
MarkAccepting ==
  /\ state' = "RELEASE_FAILED"
  /\ UNCHANGED <<contract, loaded, accepting, active, miscounted>>

\* _mark_release_failed.
Mark ==
  /\ state' = "RELEASE_FAILED" /\ accepting' = FALSE
  /\ UNCHANGED <<contract, loaded, active, miscounted>>

\* The snapshot of the own container, which has to answer, shows no model.
HoldsNoModel == container = contract /\ resident = {}

\* adapter.stop_pair took effect: requests to the container are cut off.
Stopped ==
  /\ container' = None /\ resident' = {}
  /\ serving' = [r \in Request |-> IF serving[r] = "live" THEN "cut" ELSE serving[r]]

\* The container is stopped and disowned: a request that is still in it, cut off
\* now or before, will end without having been counted any more.
StoppedAndCleared ==
  /\ container' = None /\ resident' = {}
  /\ serving' = [r \in Request |-> IF serving[r] = "none" THEN "none" ELSE "forgotten"]
  /\ Clear

\* adapter.stop_pair raised: Docker may or may not have stopped the container.
StoppedOrNot == Stopped \/ UNCHANGED world

\* The body of a start raises: the lock is left, the arbiter cleans up.
Raise(t, quiet) ==
  /\ job' = [job EXCEPT ![t].at = "abort", ![t].quiet = quiet]
  /\ cmd' = None

NewJob(op, at, owner, s, alias, p, stop) ==
  [op |-> op, at |-> at, owner |-> owner, service |-> s, alias |-> alias,
   pair |-> p, stop |-> stop, quiet |-> TRUE]

-----------------------------------------------------------------------------
(* The application: a batch (preflight, stages, teardown) and a manual page *)
(* job exclude each other, as the window is locked while either one runs.   *)

StartManual ==
  /\ mode = "idle" /\ Manual # {} /\ closing = 0
  /\ mode' = "manual"
  /\ UNCHANGED <<coordinator, world, arbiters, cmd, managers, job, todo, unreleased, closing>>

EndManual ==
  /\ mode = "manual" /\ Idle(Manual)
  /\ mode' = "idle"
  /\ UNCHANGED <<coordinator, world, arbiters, cmd, managers, job, todo, unreleased, closing>>

\* Each runtime of a round gets two attempts.
StartRound(round) ==
  /\ mode' = round
  /\ todo' = [m \in Managers |-> 2] /\ unreleased' = FALSE
  /\ UNCHANGED <<coordinator, world, arbiters, cmd, managers, job, closing>>

RoundOver == Idle(Batch) /\ \A m \in Managers : todo[m] = 0

StartBatch ==
  /\ mode = "idle" /\ Batch # {} /\ closing = 0
  /\ StartRound("preflight")

PreflightPasses ==
  /\ mode = "preflight" /\ RoundOver /\ ~unreleased
  /\ mode' = "batch"
  /\ UNCHANGED <<coordinator, world, arbiters, cmd, managers, job, todo, unreleased, closing>>

\* The stages are over, or an exception or a cancellation ended one of them, or
\* the preflight before or after its round.
StartTeardown ==
  /\ Idle(Batch)
  /\ \/ mode = "batch" /\ StartRound("completed")
     \/ mode = "batch" /\ StartRound("teardown")
     \/ /\ mode = "preflight" /\ (RoundOver \/ \A m \in Managers : todo[m] = 2)
        /\ StartRound("teardown")

EndBatch ==
  /\ mode \in {"completed", "teardown"} /\ RoundOver
  /\ mode' = "idle"
  /\ UNCHANGED <<coordinator, world, arbiters, cmd, managers, job, todo, unreleased, closing>>

\* Nothing starts any more once the window has closed.
Closed ==
  /\ closing = 3 /\ mode = "idle" /\ Idle(Thread)
  /\ UNCHANGED vars

\* The pipeline awaits the container prewarm before it calls the coordinator.
NoPrewarm == \A u \in Batch : job[u] # None => job[u].op # "prepare"

MayCall(t) ==
  /\ job[t] = None
  /\ \/ t \in Manual /\ mode = "manual"
     \/ t \in Batch /\ mode = "batch" /\ NoPrewarm

-----------------------------------------------------------------------------
(* Requests: inference_lease never takes the command lock.                  *)

RequestStart(r) ==
  /\ serving[r] = "none"
  /\ loaded # None /\ state \in Loaded /\ accepting
  /\ serving' = [serving EXCEPT ![r] = "live"]
  /\ active' = active + 1
  /\ UNCHANGED <<state, contract, loaded, accepting, miscounted, container, resident,
                 arbiters, cmd, managers, job, application>>

\* Mutant of RequestEnd: the count is not kept from falling below zero.
RequestEndUnguarded(r) ==
  /\ serving[r] # "none"
  /\ serving' = [serving EXCEPT ![r] = "none"]
  /\ active' = active - 1
  /\ UNCHANGED <<state, contract, loaded, accepting, miscounted, container, resident,
                 arbiters, cmd, managers, job, application>>

\* The lease does not know of which container it counts: the end of a forgotten
\* request takes away the count of one that is in flight.
RequestEnd(r) ==
  /\ serving[r] # "none"
  /\ serving' = [serving EXCEPT ![r] = "none"]
  /\ active' = IF active = 0 THEN 0 ELSE active - 1
  /\ miscounted' = (miscounted \/ (serving[r] = "forgotten" /\ active > 0))
  /\ UNCHANGED <<state, contract, loaded, accepting, container, resident,
                 arbiters, cmd, managers, job, application>>

-----------------------------------------------------------------------------
(* load and prepare.                                                        *)

BeginStart(t, op, owner, s, alias, p) ==
  /\ CanStart(t, s)
  /\ TakeLease(t, s)
  /\ job' = [job EXCEPT ![t] = NewJob(op, "prepare", owner, s, alias, p, FALSE)]
  /\ UNCHANGED <<coordinator, world, cmd, application>>

\* What a manager records when its finish returned; the OCR's takes the spec
\* from Gemma's, and with it its pair.
Released(owner, stop) ==
  CASE owner = "ocr" /\ stop -> ocrPair' = None /\ spec' = None /\ gemmaPair' = None
    [] owner = "gemma" -> gemmaPair' = None /\ UNCHANGED <<ocrPair, spec>>
    [] OTHER -> UNCHANGED managers

\* Mutant of Adopt: the OCR manager does not remember that it uses the Router.
AdoptSpecOnly(owner, p) ==
  IF owner = "ocr" THEN spec' = p /\ UNCHANGED <<ocrPair, gemmaPair>>
                   ELSE gemmaPair' = p /\ UNCHANGED <<ocrPair, spec>>

\* What a manager records when the coordinator has loaded its model.
Adopt(owner, p) ==
  IF owner = "ocr" THEN ocrPair' = p /\ spec' = p /\ UNCHANGED gemmaPair
                   ELSE gemmaPair' = p /\ UNCHANGED <<ocrPair, spec>>

\* _matching_loaded_contract: without a bracket a matching model is returned
\* before any arbiter is asked.
Matches(alias, p) == contract = p /\ loaded = alias /\ state \in Loaded

\* ensure_engine on the Router path (_ensure_router_engine).
EnsureOCR(t, p) ==
  /\ MayCall(t) /\ ocrPair \in {None, p}
  /\ Bracketed(t) \/ ~Matches(p, p)
  /\ BeginStart(t, "load", "ocr", p, p, p)
  /\ UNCHANGED managers

\* ensure_server on the Router path: _router_pair_for_server found the pair.
GemmaOnRouter == spec # None /\ contract = spec /\ state \notin {"IDLE", "RELEASE_FAILED"}

EnsureGemma(t) ==
  /\ MayCall(t) /\ GemmaOnRouter
  /\ Bracketed(t) \/ ~Matches(Gemma, spec)
  /\ BeginStart(t, "load", "gemma", Gemma, Gemma, spec)
  /\ UNCHANGED managers

\* Its second look, of which the first is but a hint: the contract is returned,
EnsureMatching(t, m, p) ==
  /\ MayCall(t) /\ ~Bracketed(t)
  /\ \/ m = "ocr" /\ ocrPair \in {None, p} /\ Matches(p, p)
     \/ m = "gemma" /\ GemmaOnRouter /\ p = spec /\ Matches(Gemma, p)
  /\ LET alias == IF m = "ocr" THEN p ELSE Gemma
     IN job' = [job EXCEPT ![t] = NewJob("load", "matched", m, alias, alias, p, FALSE)]
  /\ UNCHANGED <<coordinator, world, arbiters, cmd, managers, application>>

\* and the manager adopts it, whatever has become of it since.
AdoptMatching(t) ==
  /\ At(t, "matched")
  /\ Adopt(job[t].owner, job[t].pair)
  /\ EndJob(t)
  /\ UNCHANGED <<coordinator, world, arbiters, cmd, application>>

\* prepare_engine_container, on the prewarm worker while the pages are detected.
PrepareContainer(t, p) ==
  /\ MayCall(t) /\ t \in Batch /\ Idle(Batch)
  /\ ocrPair = None /\ loaded = None
  /\ BeginStart(t, "prepare", "ocr", p, None, p)
  /\ UNCHANGED managers

\* _prepare_locked up to its first effect.
Prepare(t) ==
  /\ At(t, "prepare") /\ cmd = None
  /\ LET j == job[t]
         reusable == contract = j.pair /\ state \in {"CONTAINER_READY"} \cup Loaded
         next == CASE state = "RELEASE_FAILED" -> "abort"
                   [] state # "RELEASE_FAILED" /\ reusable ->
                        IF j.op = "prepare" THEN "confirm" ELSE "load"
                   [] state # "RELEASE_FAILED" /\ ~reusable /\ loaded # None -> "abort"
                   [] OTHER -> IF contract # None THEN "stopOld" ELSE "create"
     IN /\ Goto(t, next)
        /\ cmd' = IF next \in {"abort", "confirm"} THEN None ELSE t
  /\ UNCHANGED <<coordinator, world, arbiters, managers, application>>

\* _stop_container_without_model_locked for the pair that is left.
StopOld(t) ==
  /\ At(t, "stopOld") /\ HoldsNoModel
  /\ StoppedAndCleared
  /\ Goto(t, "create")
  /\ UNCHANGED <<arbiters, cmd, managers, application>>

StopOldFails(t, quiet) ==
  /\ At(t, "stopOld")
  /\ StoppedOrNot
  /\ Raise(t, quiet)
  /\ UNCHANGED <<coordinator, arbiters, managers, application>>

\* adapter.prepare replaces whatever product container holds the ports; the
\* ownership is published before the probe, which may still fail.
Create(t, probed) ==
  /\ At(t, "create")
  /\ container' = job[t].pair /\ resident' = {}
  /\ serving' = [r \in Request |-> IF serving[r] = "live" THEN "cut" ELSE serving[r]]
  /\ state' = "CONTAINER_READY" /\ contract' = job[t].pair
  /\ loaded' = None /\ accepting' = FALSE
  /\ LET next == IF ~probed THEN "abort"
                 ELSE IF job[t].op = "prepare" THEN "confirm" ELSE "load"
     IN Goto(t, next) /\ cmd' = IF next = "load" THEN cmd ELSE None
  /\ UNCHANGED <<active, miscounted, arbiters, managers, application>>

\* adapter.prepare cleans up after itself, but that may fail too.
CreateFails(t, quiet) ==
  /\ At(t, "create")
  /\ \/ UNCHANGED world
     \/ Stopped
     \/ container' = job[t].pair /\ resident' = {} /\ UNCHANGED serving
  /\ Raise(t, quiet)
  /\ UNCHANGED <<coordinator, arbiters, managers, application>>

\* Mutant of Load: another model's presence is not checked.
LoadUnchecked(t) ==
  /\ At(t, "load")
  /\ LET next == IF state = "RELEASE_FAILED" \/ contract # job[t].pair THEN "abort"
                 ELSE IF loaded = job[t].alias THEN "confirm" ELSE "loading"
     IN Goto(t, next) /\ cmd' = IF next = "loading" THEN cmd ELSE None
  /\ UNCHANGED <<coordinator, world, arbiters, managers, application>>

\* _load_locked: the checks.
Load(t) ==
  /\ At(t, "load")
  /\ LET next == IF state = "RELEASE_FAILED" \/ contract # job[t].pair THEN "abort"
                 ELSE IF loaded = job[t].alias THEN "confirm"
                 ELSE IF loaded = None /\ state = "CONTAINER_READY" THEN "loading"
                 ELSE "abort"
     IN Goto(t, next) /\ cmd' = IF next = "loading" THEN cmd ELSE None
  /\ UNCHANGED <<coordinator, world, arbiters, managers, application>>

\* The model is loaded, alone, and attributed: it is published.
LoadPublish(t) ==
  /\ At(t, "loading")
  /\ container = contract /\ resident \subseteq {job[t].alias}
  /\ resident' = {job[t].alias}
  /\ loaded' = job[t].alias /\ accepting' = TRUE
  /\ state' = IF job[t].alias = Gemma THEN "GEMMA_LOADED" ELSE "OCR_LOADED"
  /\ Goto(t, "confirm") /\ cmd' = None
  /\ UNCHANGED <<contract, active, miscounted, container, serving, arbiters, managers,
                 application>>

\* The load raised or timed out; it may still complete in the container.
LoadFails(t, quiet) ==
  /\ At(t, "loading")
  /\ \/ UNCHANGED resident
     \/ container = contract /\ resident' = resident \cup {job[t].alias}
  /\ Raise(t, quiet)
  /\ UNCHANGED <<coordinator, container, serving, arbiters, managers, application>>

\* Mutant of StartSucceeds: load releases its lease as prepare does.
StartSucceedsReleasing(t) ==
  /\ At(t, "confirm")
  /\ LET a == ArbiterOf(t) IN
       /\ Vacate(a, job[t].service) /\ Unlock(a)
       /\ IF job[t].op = "prepare" THEN UNCHANGED managers
          ELSE Adopt(job[t].owner, job[t].pair)
  /\ EndJob(t)
  /\ UNCHANGED <<coordinator, world, cmd, application>>

\* The arbiter publishes MODEL_READY; prepare then releases its lease.
StartSucceeds(t) ==
  /\ At(t, "confirm")
  /\ LET a == ArbiterOf(t) IN
       /\ IF job[t].op = "prepare"
          THEN Vacate(a, job[t].service) /\ UNCHANGED managers
          ELSE Adopt(job[t].owner, job[t].pair) /\ UNCHANGED <<lease, failed>>
       /\ Unlock(a)
  /\ EndJob(t)
  /\ UNCHANGED <<coordinator, world, cmd, application>>

\* is_cancelled after the body.
StartCancelled(t) ==
  /\ At(t, "confirm")
  /\ Goto(t, "abort")
  /\ UNCHANGED <<coordinator, world, arbiters, cmd, managers, application>>

\* A batch load, with the change of pair before it, runs inside the pipeline's
\* own model_start for the service.
InOuterStart(t) == Bracketed(t) /\ job[t].op \in {"load", "change"}

\* The coordinator's model_start ends with an exception.
LeaveStart(t, point) ==
  /\ IF InOuterStart(t) THEN UNCHANGED lock ELSE Unlock(ArbiterOf(t))
  /\ Goto(t, point) /\ cmd' = None
  /\ UNCHANGED <<managers, application>>

\* _abort_failed_start_locked.  With nothing owned the cleanup is over.
AbortNothing(t) ==
  /\ At(t, "abort") /\ cmd = None /\ contract = None
  /\ Vacate(ArbiterOf(t), job[t].service)
  /\ LeaveStart(t, "lateMark")
  /\ UNCHANGED <<coordinator, world>>

Abort(t) ==
  /\ At(t, "abort") /\ cmd = None /\ contract # None
  /\ cmd' = t
  /\ state' = "DRAINING" /\ accepting' = FALSE
  /\ Goto(t, "aborting")
  /\ UNCHANGED <<contract, loaded, active, miscounted, world, arbiters, managers, application>>

AbortStops(t) ==
  /\ At(t, "aborting") /\ active = 0
  /\ StoppedAndCleared
  /\ Vacate(ArbiterOf(t), job[t].service)
  /\ LeaveStart(t, "lateMark")

\* Mutant of AbortStopFails: the container is forgotten although its stop failed.
AbortStopFailsCleared(t) ==
  /\ At(t, "aborting") /\ active = 0
  /\ StoppedOrNot /\ Clear
  /\ Retain(ArbiterOf(t), job[t].service)
  /\ LeaveStart(t, "lateMark")

AbortStopFails(t) ==
  /\ At(t, "aborting") /\ active = 0
  /\ StoppedOrNot /\ Mark
  /\ Retain(ArbiterOf(t), job[t].service)
  /\ LeaveStart(t, "lateMark")

\* The drain times out: the state stays DRAINING.
AbortTimesOut(t) ==
  /\ At(t, "aborting") /\ active > 0 /\ MayTimeOut
  /\ Retain(ArbiterOf(t), job[t].service)
  /\ LeaveStart(t, "outer")
  /\ UNCHANGED <<coordinator, world>>

\* Mutant of LateLook: whether anything is still owned is not asked.
LateLookAlways(t) ==
  /\ At(t, "lateMark")
  /\ Goto(t, IF job[t].quiet THEN "outer" ELSE "lateMarking")
  /\ UNCHANGED <<coordinator, world, arbiters, cmd, managers, application>>

\* _mark_release_failed_if_ownership_remains runs outside the coordinator's
\* locks, and outside the arbiter's unless an outer model_start holds it.
LateLook(t) ==
  /\ At(t, "lateMark")
  /\ Goto(t, IF ~job[t].quiet /\ (contract # None \/ state # "IDLE")
             THEN "lateMarking" ELSE "outer")
  /\ UNCHANGED <<coordinator, world, arbiters, cmd, managers, application>>

\* Its mark takes the state lock anew, whatever has been stopped since the look.
LateMark(t) ==
  /\ At(t, "lateMarking")
  /\ Mark
  /\ Goto(t, "outer")
  /\ UNCHANGED <<world, arbiters, cmd, managers, application>>

-----------------------------------------------------------------------------
(* finish, stop and unload.                                                 *)

\* Where finish goes, from what it reads before it takes any lock.
FinishPoint(stop) ==
  CASE state = "RELEASE_FAILED" -> IF stop /\ contract # None THEN "force" ELSE "raise"
    [] state # "RELEASE_FAILED" /\ loaded # None -> "unload"
    [] state \in Loaded \cup {"DRAINING"} /\ loaded = None -> "raise"
    [] OTHER -> IF contract = None \/ ~stop THEN "return" ELSE "stopEmpty"

FinishJob(owner, s, stop) ==
  NewJob("finish", FinishPoint(stop), owner, s, loaded, contract, stop)

\* The retry loop of a round's shutdown.
Tried(t, owner, succeeded) ==
  /\ IF Bracketed(t) /\ mode \in Rounds
     THEN /\ todo' = [todo EXCEPT ![owner] = IF succeeded THEN 0 ELSE @ - 1]
          /\ unreleased' = (unreleased \/ (~succeeded /\ todo[owner] = 1))
     ELSE UNCHANGED <<todo, unreleased>>
  /\ UNCHANGED <<mode, closing>>

-----------------------------------------------------------------------------
(* The calls that finish the coordinator's work.                            *)

BeginFinish(t, owner, s, stop) == job' = [job EXCEPT ![t] = FinishJob(owner, s, stop)]

\* Which shutdown is due: at any stage of the batch that of a runtime it is done
\* with; in a round the OCR's, then Gemma's.  stop is FALSE for the OCR's
\* release_for_handoff (preserve_sleeping_paddle); foreign is
\* allow_foreign_owner_teardown, given to Gemma when the OCR's has failed.
MayShutDown(t, m, s, stop, foreign) ==
  /\ t \in Batch /\ NoPrewarm
  /\ s \in (IF m = "ocr" THEN Pair ELSE {Gemma})
  /\ \/ mode = "batch" /\ ~foreign /\ (stop \/ m = "ocr")
     \/ /\ mode \in Rounds /\ Idle(Batch) /\ todo[m] > 0
        /\ m = "gemma" => todo["ocr"] = 0
        /\ stop = (m = "gemma" \/ mode = "teardown")
        /\ foreign = (m = "gemma" /\ unreleased)

\* _shutdown_runtime_with_retry, one attempt: the bracket, then the manager's
\* shutdown or release_for_handoff.
Shutdown(t, m, s, stop, foreign) ==
  /\ MayShutDown(t, m, s, stop, foreign) /\ Active(m)
  /\ job[t] = None
  /\ lease["stage"] \in {None, s} \/ foreign
  /\ TakeLease(t, s)
  /\ BeginFinish(t, m, s, stop)
  /\ UNCHANGED <<coordinator, world, cmd, managers, application>>

\* A manager that has adopted no live pair has no Router to finish.
ShutdownInactive(t, m, s, stop, foreign) ==
  /\ MayShutDown(t, m, s, stop, foreign) /\ ~Active(m)
  /\ job[t] = None /\ lock["stage"] = None
  /\ lease["stage"] \in {None, s} \/ foreign
  /\ Vacate("stage", s)
  /\ Tried(t, m, TRUE)
  /\ UNCHANGED <<coordinator, world, lock, cmd, managers, job>>

\* The attempt met another service's lease.
ShutdownConflict(t, m, s, stop) ==
  /\ MayShutDown(t, m, s, stop, FALSE)
  /\ job[t] = None /\ lock["stage"] = None
  /\ lease["stage"] \notin {None, s}
  /\ Tried(t, m, FALSE)
  /\ UNCHANGED <<coordinator, world, arbiters, cmd, managers, job>>

\* Another pair is asked for than the adopted one: _ensure_router_engine first
\* finishes that one, under the name of the lease that its model would hold.
ChangePair(t, p) ==
  /\ t \in Manual /\ MayCall(t)
  /\ ocrPair \notin {None, p}
  /\ BeginFinish(t, "ocr", IF loaded = Gemma THEN Gemma ELSE ocrPair, TRUE)
  /\ UNCHANGED <<coordinator, world, arbiters, cmd, managers, application>>

\* A batch does so inside its start of the new pair, whose name its release
\* bears; its own pair is fixed, so no model of the old one is loaded any more.
ChangePairInStart(t, p) ==
  /\ t \in Batch /\ MayCall(t)
  /\ ocrPair \notin {None, p} /\ loaded = None
  /\ CanStart(t, p) /\ TakeLease(t, p)
  /\ job' = [job EXCEPT ![t] = NewJob("change", FinishPoint(TRUE), "ocr", p, None, contract, TRUE)]
  /\ UNCHANGED <<coordinator, world, cmd, managers, application>>

\* closeEvent, once: stop on the coordinator, then the shutdown of each manager.
CloseApp(t) ==
  /\ t \in Closing /\ closing = 0
  /\ closing' = 1
  /\ BeginFinish(t, "app", App, TRUE)
  /\ UNCHANGED <<coordinator, world, arbiters, cmd, managers, mode, todo, unreleased>>

CloseManager(t, m) ==
  /\ t \in Closing /\ job[t] = None
  /\ closing = (IF m = "ocr" THEN 1 ELSE 2)
  /\ closing' = closing + 1
  /\ IF Active(m)
     THEN BeginFinish(t, m, IF m = "ocr" THEN ocrPair ELSE Gemma, TRUE)
     ELSE UNCHANGED job
  /\ UNCHANGED <<coordinator, world, arbiters, cmd, managers, mode, todo, unreleased>>

-----------------------------------------------------------------------------
(* The steps of finish and unload.                                          *)

\* A manual job's release is refused while its arbiter leases another service;
\* the closing window's is a foreign teardown, the batch's was let in before.
LeaseAllows(t) == t \notin Manual \/ lease["fallback"] \in {None, job[t].service}

EnterRelease(t) ==
  /\ cmd = None /\ LeaseAllows(t)
  /\ TakeLease(t, job[t].service)

\* The load that follows a change of pair, a start inside the outer one.
ContinueStart(t) == LET p == job[t].service IN
  /\ TakeLease(t, p)
  /\ job' = [job EXCEPT ![t] = NewJob("load", "prepare", "ocr", p, p, p, FALSE)]

\* The release's body returned.
ReleaseEnds(t) ==
  /\ IF job[t].op = "change" THEN ContinueStart(t)
     ELSE /\ Vacate(ArbiterOf(t), job[t].service) /\ Unlock(ArbiterOf(t))
          /\ EndJob(t)
  /\ Released(job[t].owner, job[t].stop)
  /\ Tried(t, job[t].owner, TRUE)
  /\ cmd' = None

\* The release's body raised: its except branch comes after the locks.
ReleaseFails(t) ==
  /\ Retain(ArbiterOf(t), job[t].service)
  /\ IF Bracketed(t) THEN UNCHANGED lock ELSE Unlock(ArbiterOf(t))
  /\ Goto(t, "mark") /\ cmd' = None
  /\ UNCHANGED <<managers, application>>

\* _unload_locked up to the drain.
Unload(t) ==
  /\ At(t, "unload") /\ EnterRelease(t)
  /\ contract # None /\ loaded = job[t].alias /\ state \in Loaded
  /\ cmd' = t
  /\ state' = "DRAINING" /\ accepting' = FALSE
  /\ Goto(t, "drain")
  /\ UNCHANGED <<contract, loaded, active, miscounted, world, managers, application>>

\* The snapshot is out of date once the locks are held, or the lease is
\* refused: the release raises before it does anything.
Refused(t) ==
  /\ cmd = None
  /\ \/ At(t, "unload") /\ ~(contract # None /\ loaded = job[t].alias /\ state \in Loaded)
     \/ At(t, "force") /\ contract # job[t].pair
     \/ At(t, "stopEmpty") /\ (contract # job[t].pair \/ ~HoldsNoModel)
  /\ LET a == ArbiterOf(t)  s == job[t].service IN
       /\ LeaseAllows(t) /\ lock[a] \in {None, t}
       /\ lease' = [lease EXCEPT ![a] = IF @ = None THEN s ELSE @]
       /\ failed' = [failed EXCEPT ![a] = @ \/ (lease[a] \in {None, s})]
  /\ Goto(t, "mark")
  /\ UNCHANGED <<coordinator, world, lock, cmd, managers, application>>

Conflict(t) ==
  /\ \E point \in {"unload", "force", "stopEmpty"} : At(t, point)
  /\ lock["fallback"] = None /\ ~LeaseAllows(t)
  /\ Goto(t, "mark")
  /\ UNCHANGED <<coordinator, world, arbiters, cmd, managers, application>>

\* Mutant of Unloaded: the requests in flight are not waited for.
UnloadedUndrained(t) ==
  /\ At(t, "drain")
  /\ container = contract /\ resident = {job[t].alias}
  /\ IF job[t].stop
     THEN StoppedAndCleared
     ELSE /\ resident' = {} /\ loaded' = None /\ accepting' = FALSE
          /\ state' = "CONTAINER_READY"
          /\ UNCHANGED <<contract, active, miscounted, container, serving>>
  /\ ReleaseEnds(t)

\* Mutant of Unloaded: that the unload took effect is not waited for.
UnloadedUnconfirmed(t) ==
  /\ At(t, "drain") /\ active = 0
  /\ container = contract /\ resident = {job[t].alias}
  /\ IF job[t].stop
     THEN StoppedAndCleared
     ELSE /\ resident' \in {resident, {}} /\ loaded' = None /\ accepting' = FALSE
          /\ state' = "CONTAINER_READY"
          /\ UNCHANGED <<contract, active, miscounted, container, serving>>
  /\ ReleaseEnds(t)

\* Drained, unloaded, and the container kept or stopped.
Unloaded(t) ==
  /\ At(t, "drain") /\ active = 0
  /\ container = contract /\ resident = {job[t].alias}
  /\ IF job[t].stop
     THEN StoppedAndCleared
     ELSE /\ resident' = {} /\ loaded' = None /\ accepting' = FALSE
          /\ state' = "CONTAINER_READY"
          /\ UNCHANGED <<contract, active, miscounted, container, serving>>
  /\ ReleaseEnds(t)

\* The drain timed out, or an adapter call raised before or after its effect.
UnloadFails(t) ==
  /\ At(t, "drain")
  /\ \/ active > 0 /\ MayTimeOut /\ UNCHANGED world
     \/ active = 0 /\ resident' \in {resident, {}} /\ UNCHANGED <<container, serving>>
     \/ active = 0 /\ job[t].stop /\ Stopped
  /\ ReleaseFails(t)
  /\ UNCHANGED coordinator

\* _force_stop_container_locked, alone or after the zero-model check.
ForceStop(t) ==
  /\ At(t, "force") \/ (At(t, "stopEmpty") /\ HoldsNoModel)
  /\ EnterRelease(t) /\ contract = job[t].pair
  /\ Goto(t, "stopping") /\ cmd' = t
  /\ UNCHANGED <<coordinator, world, managers, application>>

ForceStopped(t) ==
  /\ At(t, "stopping")
  /\ StoppedAndCleared
  /\ ReleaseEnds(t)

ForceStopFails(t) ==
  /\ At(t, "stopping")
  /\ StoppedOrNot
  /\ ReleaseFails(t)
  /\ UNCHANGED coordinator

\* The except branch of finish and unload.
MarkFailed(t) ==
  /\ At(t, "mark")
  /\ Mark
  /\ Goto(t, "raise")
  /\ UNCHANGED <<world, arbiters, cmd, managers, application>>

\* The caller sees the exception; a bracket around it fails too, and a start
\* around it cleans up.
FinishRaises(t) ==
  /\ At(t, "raise")
  /\ CASE InOuterStart(t) -> Goto(t, "outer") /\ UNCHANGED arbiters
       [] Bracketed(t) /\ ~InOuterStart(t) ->
            Retain("stage", job[t].service) /\ Unlock("stage") /\ EndJob(t)
       [] OTHER -> EndJob(t) /\ UNCHANGED arbiters
  /\ Tried(t, job[t].owner, FALSE)
  /\ UNCHANGED <<coordinator, world, cmd, managers>>

\* There was nothing to stop.
FinishReturns(t) ==
  /\ At(t, "return")
  /\ CASE job[t].op = "change" -> ContinueStart(t)
       [] job[t].op # "change" /\ Bracketed(t) ->
            Vacate("stage", job[t].service) /\ Unlock("stage") /\ EndJob(t)
       [] OTHER -> EndJob(t) /\ UNCHANGED arbiters
  /\ Released(job[t].owner, job[t].stop)
  /\ Tried(t, job[t].owner, TRUE)
  /\ UNCHANGED <<coordinator, world, cmd>>

\* The stale cleanup of the pipeline's own model_start: only a manager that has
\* adopted the pair passes its shutdown on to the coordinator.
OuterCleanup(t) ==
  /\ At(t, "outer")
  /\ IF ~InOuterStart(t)
     THEN EndJob(t) /\ UNCHANGED arbiters
     ELSE IF Active(job[t].owner)
          THEN BeginFinish(t, job[t].owner, job[t].service, TRUE) /\ UNCHANGED arbiters
          ELSE Vacate("stage", job[t].service) /\ Unlock("stage") /\ EndJob(t)
  /\ UNCHANGED <<coordinator, world, cmd, managers, application>>

-----------------------------------------------------------------------------
Application ==
  \/ StartManual \/ EndManual
  \/ StartBatch \/ PreflightPasses \/ StartTeardown \/ EndBatch
  \/ Closed

Requests == \E r \in Request : RequestStart(r) \/ RequestEnd(r)

StartStep(t) ==
  \/ \E p \in Pair : EnsureOCR(t, p) \/ PrepareContainer(t, p)
  \/ EnsureGemma(t)
  \/ \E m \in Managers, p \in Pair : EnsureMatching(t, m, p)
  \/ AdoptMatching(t)
  \/ Prepare(t) \/ StopOld(t) \/ Load(t) \/ LoadPublish(t)
  \/ \E probed \in BOOLEAN : Create(t, probed)
  \/ \E quiet \in BOOLEAN : StopOldFails(t, quiet) \/ CreateFails(t, quiet) \/ LoadFails(t, quiet)
  \/ StartSucceeds(t) \/ StartCancelled(t)
  \/ AbortNothing(t) \/ Abort(t) \/ AbortStops(t) \/ AbortStopFails(t) \/ AbortTimesOut(t)
  \/ LateLook(t) \/ LateMark(t) \/ OuterCleanup(t)

FinishStep(t) ==
  \/ \E m \in Managers, s \in Service, foreign \in BOOLEAN :
       \E stop \in BOOLEAN :
         \/ Shutdown(t, m, s, stop, foreign)
         \/ ShutdownInactive(t, m, s, stop, foreign)
  \/ \E m \in Managers, s \in Service, stop \in BOOLEAN : ShutdownConflict(t, m, s, stop)
  \/ \E p \in Pair : ChangePair(t, p) \/ ChangePairInStart(t, p)
  \/ CloseApp(t) \/ \E m \in Managers : CloseManager(t, m)
  \/ Unload(t) \/ Refused(t) \/ Conflict(t) \/ Unloaded(t) \/ UnloadFails(t)
  \/ ForceStop(t) \/ ForceStopped(t) \/ ForceStopFails(t)
  \/ MarkFailed(t) \/ FinishRaises(t) \/ FinishReturns(t)

Next == Application \/ Requests \/ \E t \in Thread : StartStep(t) \/ FinishStep(t)

Spec == Init /\ [][Next]_vars

-----------------------------------------------------------------------------
(* Properties.                                                              *)

\* Whatever the threads and Docker do, a coordinator that accepts requests is
\* in the loaded state of its model, that model is the only one resident, and
\* it is resident in the coordinator's own container: a request is never let
\* through to a model that is being unloaded, replaced or stopped.
AcceptImpliesResident ==
  accepting => /\ state = IF loaded = Gemma THEN "GEMMA_LOADED" ELSE "OCR_LOADED"
               /\ contract # None /\ container = contract
               /\ resident = {loaded}

\* Two models are never resident together, although failed loads and failed
\* unloads leave the coordinator in doubt about what is resident.
OneModel == Cardinality(resident) <= 1

\* No model is ever resident in a container that the coordinator does not own
\* and so could not stop.
NoOrphanModel == resident # {} => contract = container

\* When nobody is in a command the coordinator is in no dead end: a failed
\* release still names the container to stop, and an interrupted drain the
\* model to unload.  In either dead end each later finish only raises.
Recoverable ==
  cmd = None /\ Idle(Thread) =>
    /\ state = "RELEASE_FAILED" => contract # None
    /\ state = "DRAINING" => loaded # None

\* Draining protects requests, however many there are: while one is in flight the
\* model under it goes away only by a terminal stop of an already failed release,
\* or after a request that such a stop forgot has ended in its place.
DrainProtects ==
  [][(\E r \in Request : serving[r] = "live") /\ resident' # resident
       => (state = "RELEASE_FAILED" /\ container' = None) \/ miscounted]_vars

\* Between calls a resident model is covered by a lease, or its release is
\* known to be unfinished.
ResidentAccounted ==
  Idle(Thread) /\ resident # {} =>
    \/ state \in {"RELEASE_FAILED", "DRAINING"}
    \/ \E a \in Arbiter : lease[a] = loaded

\* Once the window has closed, the batch has torn itself down and every thread is
\* done, no model is left resident unless a release is known to have failed.
ClosedReleases ==
  closing = 3 /\ mode = "idle" /\ Idle(Thread) /\ resident # {} =>
    state \in {"RELEASE_FAILED", "DRAINING"}

\* What the README says: managed containers are stopped when a batch is over or
\* cancelled.  After one the coordinator owns none, unless its release failed or
\* one of the managers keeps it for the next use.
StoppedAfterBatch ==
  mode = "idle" /\ Idle(Thread) /\ contract # None =>
    \/ state \in {"RELEASE_FAILED", "DRAINING"}
    \/ \E m \in Managers : Active(m)

\* What the code map says: one GPU model lease is never issued to two services.
OneLease ==
  lease["stage"] # None /\ lease["fallback"] # None => lease["stage"] = lease["fallback"]
=============================================================================
