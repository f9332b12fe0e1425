--------------------------- MODULE StageBatchProofs ---------------------------
(***************************************************************************)
(* What is proved of one batch (StageBatch), for any number of pages, of   *)
(* render workers and of faults: its state is well formed; its two threads *)
(* never wait for each other's lock; and when it completes each page has   *)
(* its own render, or a fallback because a stage failed on it or because   *)
(* its file was lost.                                                      *)
(***************************************************************************)
EXTENDS StageBatch, TLAPS

-----------------------------------------------------------------------------
(* The inductive invariant.                                                 *)

\* The OCR sweep waits only for the sake of a page.
RetryInPage == at = "ocr" /\ ~Free => nextPage \in Page

\* A prewarm job is awaited only where its model is needed, and in no call.
AwaitsInStage ==
  awaiting # None => at \in {"loadOcr", "ocr", "translate"} /\ call["pipeline"] = None

Typed == TypeOK /\ RetryInPage /\ AwaitsInStage

\* Who has the manager's lock is in a call, and only the container's preparation
\* has it without having the arbiter's.
LockHeld(t) ==
  manager = t =>
    /\ call[t] # None
    /\ call[t].at = "body" \/ (call[t].at = "bracket" /\ call[t].op = "prepare")

\* The worker alone prepares, while the container's job is not over; until then
\* the pipeline makes no call.
Preparing(t) ==
  call[t] # None /\ call[t].op = "prepare" => t = "worker" /\ job["container"] = "running"
ContainerPlaces ==
  {"detect", "prewarmOcr", "stopRender", "awaitRender", "stopPrewarm", "awaitWorker"}
PipelineKeepsOut ==
  Unfinished("container") => at \in ContainerPlaces /\ call["pipeline"] = None


\* Nor is the pipeline in a call when it enters its finally clause.
QuietPlaces == {"reconcile", "stopRender", "awaitRender", "stopPrewarm", "awaitWorker"}
PipelineQuiet == at \in QuietPlaces => call["pipeline"] = None

Ordered ==
  /\ \A t \in Thread : LockHeld(t) /\ Preparing(t)
  /\ PipelineKeepsOut /\ PipelineQuiet

\* What a page that is through with inpainting has, even if its file is lost again.
Rendered(p) == output[p] \in {"rendered", "lost"} \/ page[p] \in Failures
Accounted(p) == Rendered(p) \/ p \in pending

\* Which pages are accounted for where; what is left has yet to be inpainted.
AllAccounted ==
  /\ at = "inpaint" => \A p \in Page : p < nextPage => Accounted(p) \/ p \in todo
  /\ at \in {"loadInpainter", "infer"} => \A p \in Page : Accounted(p) \/ p \in todo
  /\ at = "infer" => \A p \in todo : p >= nextPage
  /\ at = "drain" => \A p \in Page : Accounted(p)
  /\ at = "reconcile" => \A p \in Page : Rendered(p)

\* The places behind the reconciliation.
EndingPlaces == {"stopRender", "awaitRender", "stopPrewarm", "awaitWorker", "stopOcr",
                 "stopGemma", "stopGemmaForeign", "returned"}

NoEarlyFallback ==
  /\ outcome = "completed" => at \in EndingPlaces
  /\ outcome # "completed" => \A p \in Page : output[p] \notin {"fallback", "replaced"}

OutputsKept == AllAccounted /\ NoEarlyFallback /\ FallbackHasCause

Inv == Typed /\ Ordered /\ OutputsKept

-----------------------------------------------------------------------------
(* Calls.                                                                   *)

USE DEF Page, Thread, Key, Service, Results, Free, Goto, NextPage, Steady, Fault, NoFault

\* A call that moves on stays the same call.
LEMMA MoveType ==
  ASSUME NEW t \in Thread, call \in [Thread -> Call \cup {None}], call[t] # None,
         NEW place \in {"bracket", "manager", "body"} \cup Results,
         Move(t, place)
  PROVE  /\ call' \in [Thread -> Call \cup {None}]
         /\ call'[t] \in Call /\ call'[t] # None
         /\ call'[t].op = call[t].op /\ call'[t].at = place
         /\ \A u \in Thread : u # t => call'[u] = call[u]
<1>1. call[t] \in Call
  OBVIOUS
<1>2. /\ [call[t] EXCEPT !.at = place] \in Call
      /\ [call[t] EXCEPT !.at = place].op = call[t].op
      /\ [call[t] EXCEPT !.at = place].at = place
  BY <1>1 DEF Call
<1>3. call' = [call EXCEPT ![t] = [call[t] EXCEPT !.at = place]]
  BY DEF Move
<1> QED
  BY <1>2, <1>3, NoneAssumption

\* Every step of a call moves it, and keeps the GPU's state well formed.
LEMMA CallMoves ==
  ASSUME NEW t \in Thread, TypeOK, CallStep(t)
  PROVE  /\ call[t] \in Call /\ call[t] # None
         /\ \E place \in {"bracket", "manager", "body"} \cup Results : Move(t, place)
         /\ GpuTyped' /\ stuck' \in BOOLEAN
<1>1. call[t] \in Call /\ call[t] # None
  BY DEF CallStep, TypeOK, CallTyped, EnterBracket, RefuseBracket, EnterManager, StartSucceeds,
      StartFails,
         StartAndCleanupFail, ReleaseSucceeds, ReleaseFails, PrepareEnds, Ending, InCall
<1>2. call[t].service \in {"ocr", "gemma"}
  BY <1>1 DEF Call
<1> USE <1>2, FaultAssumption DEF TypeOK, CallTyped, GpuTyped, FlagsTyped, End, Ending, InCall,
    Vacated, Retained
<1>3. CASE EnterBracket(t)
  BY <1>1, <1>3 DEF EnterBracket
<1>4. CASE RefuseBracket(t)
  BY <1>1, <1>4 DEF RefuseBracket
<1>5. CASE EnterManager(t)
  BY <1>1, <1>5 DEF EnterManager
<1>6. CASE StartSucceeds(t)
  BY <1>1, <1>6 DEF StartSucceeds
<1>7. CASE StartFails(t)
  <2>1. \E place \in {"cancelled", "failed"} : Move(t, place)
    BY <1>7 DEF StartFails
  <2>2. stuck' \in BOOLEAN /\ command' = None /\ faults' \in 0..MaxFaults
    BY <1>7 DEF StartFails
  <2> QED
    BY <1>1, <1>7, <2>1, <2>2 DEF StartFails
<1>8. CASE StartAndCleanupFail(t)
  BY <1>1, <1>8 DEF StartAndCleanupFail
<1>9. CASE ReleaseSucceeds(t)
  BY <1>1, <1>9 DEF ReleaseSucceeds
<1>10. CASE ReleaseFails(t)
  BY <1>1, <1>10 DEF ReleaseFails
<1>11. CASE PrepareEnds(t)
  <2>1. CASE Vacated("ocr") /\ NoFault
    BY <1>1, <1>11, <2>1 DEF PrepareEnds
  <2>2. CASE Retained("ocr") /\ Fault
    BY <1>1, <1>11, <2>2 DEF PrepareEnds
  <2> QED
    BY <1>11, <2>1, <2>2 DEF PrepareEnds
<1> QED
  BY <1>1, <1>3, <1>4, <1>5, <1>6, <1>7, <1>8, <1>9, <1>10, <1>11 DEF CallStep

LEMMA BeginTyped ==
  ASSUME CallTyped, NEW t \in Thread, NEW op \in {"start", "release", "prepare"},
         NEW s \in {"ocr", "gemma"}, Begin(t, op, s)
  PROVE  CallTyped'
  BY DEF CallTyped, Begin, Call

LEMMA CallStepTyped ==
  ASSUME NEW t \in Thread, Typed, CallStep(t)
  PROVE  Typed'
<1>1. CallTyped /\ call[t] # None /\ GpuTyped' /\ stuck' \in BOOLEAN
  BY CallMoves DEF Typed, TypeOK
<1>2. PICK place \in {"bracket", "manager", "body"} \cup Results : Move(t, place)
  BY CallMoves DEF Typed
<1>3. CallTyped' /\ \A u \in Thread : u # t => call'[u] = call[u]
  BY <1>1, <1>2, MoveType DEF CallTyped
<1>4. TypeOK'
  BY <1>1, <1>3 DEF Typed, TypeOK, ControlTyped, WorkTyped, RenderTyped, PrewarmTyped, FlagsTyped,
                    CallStep, control, work, renders, prewarm
<1>5. RetryInPage' /\ AwaitsInStage'
  BY <1>1, <1>3 DEF Typed, RetryInPage, AwaitsInStage, CallStep, control
<1> QED
  BY <1>4, <1>5 DEF Typed

-----------------------------------------------------------------------------
(* Types.                                                                   *)

USE PageAssumption, FaultAssumption

LEMMA InitTyped == Init => Typed
<1> SUFFICES ASSUME Init PROVE Typed
  OBVIOUS
<1> USE DEF Init
<1>1. ControlTyped
  BY DEF ControlTyped, Places
<1>2. WorkTyped
  BY DEF WorkTyped, Failures
<1>3. RenderTyped
  BY DEF RenderTyped
<1>4. PrewarmTyped
  BY DEF PrewarmTyped
<1>5. CallTyped /\ GpuTyped
  BY DEF CallTyped, GpuTyped
<1>7. FlagsTyped
  BY DEF FlagsTyped
<1>6. RetryInPage /\ AwaitsInStage
  BY DEF RetryInPage, AwaitsInStage
<1> QED
  BY <1>1, <1>2, <1>3, <1>4, <1>5, <1>7, <1>6 DEF Typed, TypeOK

\* Whether the inpainter is released or stays, the GPU's state is well formed.
LEMMA InpainterTyped ==
  ASSUME GpuTyped, FlagsTyped, InpainterReleased \/ InpainterKept, faults' \in 0..MaxFaults
  PROVE  GpuTyped' /\ stuck' \in BOOLEAN
<1>1. CASE InpainterReleased
  BY <1>1 DEF InpainterReleased, GpuTyped, FlagsTyped
<1>2. CASE InpainterKept
  <2>1. stuck' \in BOOLEAN
    BY <1>2 DEF InpainterKept
  <2> QED
    BY <1>2, <2>1 DEF InpainterKept, GpuTyped
<1> QED
  BY <1>1, <1>2

\* Collecting renders, then failing or rendering a page, keeps pages and renders typed.
LEMMA CollectedTypes ==
  ASSUME WorkTyped, RenderTyped, NEW q \in Page
  PROVE  /\ PageAfter(q) \in {"text", "blank"} \cup Failures
         /\ OutputAfter(q) \in Outputs \cup {None}
         /\ RenderAfter(q) \in {"none", "queued", "running", "done", "raised",
                                "collected", "dropped"}
  BY DEF WorkTyped, RenderTyped, PageAfter, OutputAfter, RenderAfter, Failures, Outputs

LEMMA CollectTyped ==
  ASSUME WorkTyped, RenderTyped, Collect
  PROVE  (todo' \subseteq Page => WorkTyped') /\ RenderTyped'
  BY CollectedTypes DEF Collect, WorkTyped, RenderTyped

LEMMA CollectAndFailTyped ==
  ASSUME WorkTyped, RenderTyped, NEW p \in Page, CollectAndFail(p)
  PROVE  (todo' \subseteq Page => WorkTyped') /\ RenderTyped'
<1>1. "failed" \in Failures
  BY DEF Failures
<1> QED
  BY <1>1, CollectedTypes DEF CollectAndFail, WorkTyped, RenderTyped

LEMMA CollectAndRenderTyped ==
  ASSUME WorkTyped, RenderTyped, NEW p \in Page, CollectAndRender(p)
  PROVE  (todo' \subseteq Page => WorkTyped') /\ RenderTyped'
<1>1. CASE CollectAndFail(p)
  BY <1>1, CollectAndFailTyped
<1>2. CASE ~CollectAndFail(p)
  <2>1. page' = [q \in Page |-> PageAfter(q)]
    BY <1>2 DEF CollectAndRender
  <2>2. output' \in [Page -> Outputs \cup {None}]
    BY <1>2, CollectedTypes DEF CollectAndRender, Outputs
  <2>3. render' \in [Page -> {"none", "queued", "running", "done", "raised",
                              "collected", "dropped"}]
    BY <1>2, CollectedTypes DEF CollectAndRender
  <2>4. queue' \in Seq(Page)
    <3>1. queue \in Seq(Page) /\ (queue' = queue \/ queue' = Append(queue, p))
      BY <1>2 DEF CollectAndRender, RenderTyped
    <3> QED
      BY <3>1
  <2>5. pending' \subseteq Page
    <3>1. pending \subseteq Page /\ Finished \subseteq pending
      BY DEF RenderTyped, Finished
    <3>2. pending' = pending \ Finished \/ pending' = (pending \ Finished) \cup {p}
      BY <1>2 DEF CollectAndRender
    <3> QED
      BY <3>1, <3>2
  <2> QED
    BY <2>1, <2>2, <2>3, <2>4, <2>5, CollectedTypes DEF WorkTyped, RenderTyped
<1> QED
  BY <1>1, <1>2

\* So does a collection that is broken off by an exception.
LEMMA CollectionFailsTyped ==
  ASSUME WorkTyped, RenderTyped, NEW p \in Page, CollectionFails(p)
  PROVE  (todo' \subseteq Page => WorkTyped') /\ RenderTyped'
<1>1. PICK q \in Finished, before \in SUBSET Finished, kept \in {"rendered", "lost"} :
        CollectedUpTo(p, q, before \cup {q}, kept)
  BY DEF CollectionFails
<1> USE DEF CollectedUpTo
<1>2. page' \in [Page -> {"text", "blank"} \cup Failures]
  BY <1>1, CollectedTypes DEF WorkTyped, Failures
<1>3. output' \in [Page -> Outputs \cup {None}]
  BY <1>1, CollectedTypes DEF WorkTyped, Outputs
<1>4. RenderTyped'
  BY <1>1 DEF RenderTyped
<1> QED
  BY <1>2, <1>3, <1>4 DEF WorkTyped

\* Every step keeps the state well formed.
LEMMA StepTyped ==
  ASSUME Typed, [Next]_vars
  PROVE  Typed'
<1> USE DEF Typed, TypeOK, RetryInPage, AwaitsInStage, Places, Checked, Failures, Text, AtPage,
    LoopOver,
           ControlTyped, WorkTyped, RenderTyped, PrewarmTyped, CallTyped, GpuTyped, FlagsTyped,
           control, work, renders, prewarm, gpu
<1>1. ASSUME PipelineMove, UNCHANGED <<cancelled, stopping>> PROVE Typed'
  <2> USE <1>1
  <2>1. CASE Preflight
    BY <2>1 DEF Preflight
  <2>2. CASE DetectEnds
    BY <2>2 DEF DetectEnds
  <2>3. CASE StartOcrPrewarm
    BY <2>3 DEF StartOcrPrewarm, ContainerAwaited, Unfinished
  <2>4. CASE PlanOcr
    BY <2>4 DEF PlanOcr
  <2>5. CASE OcrLoaded
    BY <2>5 DEF OcrLoaded
  <2>6. CASE OcrEnds
    BY <2>6, BeginTyped DEF OcrEnds, ReleaseAfter
  <2>7. CASE PlanTranslation
    <3> USE <2>7 DEF PlanTranslation, StartGemma
    <3> HIDE DEF ControlTyped, WorkTyped, RenderTyped, PrewarmTyped, CallTyped, GpuTyped,
        FlagsTyped,
                 RetryInPage, AwaitsInStage, Places, Failures
    <3>1. ControlTyped'
      BY DEF ControlTyped, Places
    <3>2. WorkTyped'
      BY DEF WorkTyped, Failures
    <3>3. RenderTyped' /\ PrewarmTyped'
      BY DEF RenderTyped, PrewarmTyped
    <3>4. CallTyped'
      BY DEF CallTyped
    <3>5. GpuTyped'
      BY DEF GpuTyped
    <3>6. FlagsTyped'
      BY DEF FlagsTyped
    <3>7. RetryInPage' /\ AwaitsInStage'
      BY DEF RetryInPage, AwaitsInStage, ControlTyped
    <3> QED
      BY <3>1, <3>2, <3>3, <3>4, <3>5, <3>6, <3>7
  <2>8. CASE TranslateEnds
    BY <2>8, BeginTyped DEF TranslateEnds, ReleaseAfter
  <2>9. CASE StopGemma
    BY <2>9, BeginTyped DEF StopGemma, ReleaseAfter
  <2>10. CASE AwaitPrewarm
    <3> USE <2>10 DEF AwaitPrewarm
    <3> HIDE DEF ControlTyped, WorkTyped, RenderTyped, PrewarmTyped, CallTyped, GpuTyped,
        FlagsTyped,
                 RetryInPage, AwaitsInStage, Places, Failures
    <3>1. CASE cancelled \/ (awaiting \in known /\ job[awaiting] = "cancelled")
      <4>1. Leave("cancelled") /\ UNCHANGED gpu /\ UNCHANGED faults
        BY <3>1
      <4>2. renderCancel' \in BOOLEAN
        BY <3>1
      <4>3. ControlTyped' /\ WorkTyped' /\ RenderTyped' /\ PrewarmTyped' /\ CallTyped'
        BY <4>1 DEF Leave, ControlTyped, WorkTyped, RenderTyped, PrewarmTyped, CallTyped, Places
      <4>4. GpuTyped' /\ FlagsTyped'
        BY <4>1, <4>2 DEF Leave, GpuTyped, FlagsTyped
      <4>5. RetryInPage' /\ AwaitsInStage'
        BY <4>1 DEF Leave, RetryInPage, AwaitsInStage
      <4> QED
        BY <4>3, <4>4, <4>5
    <3>2. CASE ~(cancelled \/ (awaiting \in known /\ job[awaiting] = "cancelled"))
      <4>1. /\ awaiting' = None /\ known' = known \ {awaiting}
            /\ UNCHANGED <<at, nextPage, gemmaStarted, deferred, outcome, work, renders,
                           renderCancel, job>>
            /\ call' = call \/ FallbackStart(awaiting)
        BY <3>2
      <4>2. awaiting \in {"ocr", "gemma"}
        BY DEF ControlTyped
      <4>3. CallTyped'
        BY <4>1, <4>2, BeginTyped DEF CallTyped, FallbackStart
      <4>4. ControlTyped' /\ WorkTyped' /\ RenderTyped' /\ PrewarmTyped' /\ GpuTyped' /\ FlagsTyped'
        BY <4>1 DEF ControlTyped, WorkTyped, RenderTyped, PrewarmTyped, GpuTyped, FlagsTyped
      <4>5. RetryInPage' /\ AwaitsInStage'
        BY <4>1 DEF RetryInPage, AwaitsInStage
      <4> QED
        BY <4>3, <4>4, <4>5
    <3> QED
      BY <3>1, <3>2
  <2>11. CASE CallWorked
    BY <2>11 DEF CallWorked, Returns, GoOn
  <2>12. CASE CallFailed
    BY <2>12 DEF CallFailed, Returns, Leave
  <2>13. CASE RetryFailed
    <3> USE <2>13 DEF RetryFailed, Returns, GoOn
    <3> HIDE DEF ControlTyped, WorkTyped, RenderTyped, PrewarmTyped, CallTyped, GpuTyped,
        FlagsTyped,
                 RetryInPage, AwaitsInStage, Places, Failures
    <3>9. nextPage \in Page
      BY DEF RetryInPage
    <3>1. ControlTyped'
      BY <3>9 DEF ControlTyped, Places
    <3>2. WorkTyped'
      BY DEF WorkTyped, Failures
    <3>3. RenderTyped' /\ PrewarmTyped'
      BY DEF RenderTyped, PrewarmTyped
    <3>4. CallTyped'
      BY DEF CallTyped
    <3>5. GpuTyped'
      BY DEF GpuTyped
    <3>6. FlagsTyped'
      BY DEF FlagsTyped
    <3>7. RetryInPage' /\ AwaitsInStage'
      BY <3>9 DEF CallTyped, RetryInPage, AwaitsInStage, ControlTyped
    <3> QED
      BY <3>1, <3>2, <3>3, <3>4, <3>5, <3>6, <3>7
  <2>14. CASE GemmaStopped
    BY <2>14 DEF GemmaStopped, Returns, GoOn
  <2>15. CASE PlanInpaintEnds
    BY <2>15 DEF PlanInpaintEnds, InpaintUnchanged
  <2>16. CASE LoadInpainter
    <3> USE <2>16 DEF LoadInpainter, InpaintUnchanged
    <3> HIDE DEF ControlTyped, WorkTyped, RenderTyped, PrewarmTyped, CallTyped, GpuTyped,
        FlagsTyped,
                 RetryInPage, AwaitsInStage, Places, Failures
    <3>1. ControlTyped'
      BY DEF ControlTyped, Places
    <3>2. WorkTyped'
      BY CollectTyped DEF WorkTyped
    <3>3. RenderTyped' /\ PrewarmTyped'
      BY CollectTyped DEF RenderTyped, PrewarmTyped
    <3>4. CallTyped'
      BY DEF CallTyped
    <3>5. GpuTyped'
      BY DEF GpuTyped
    <3>6. FlagsTyped'
      BY DEF FlagsTyped
    <3>7. RetryInPage' /\ AwaitsInStage'
      BY DEF RetryInPage, AwaitsInStage, ControlTyped
    <3> QED
      BY <3>1, <3>2, <3>3, <3>4, <3>5, <3>6, <3>7
  <2>17. CASE InpainterRefused
    BY <2>17 DEF InpainterRefused, Leave
  <2>18. CASE InpaintEnds
    <3> USE <2>18 DEF InpaintEnds, Leave
    <3> HIDE DEF ControlTyped, WorkTyped, RenderTyped, PrewarmTyped, CallTyped, GpuTyped,
        FlagsTyped,
                 RetryInPage, AwaitsInStage, Places, Failures
    <3>1. ControlTyped'
      BY DEF ControlTyped, Places
    <3>2. WorkTyped'
      BY DEF WorkTyped, Failures
    <3>3. RenderTyped' /\ PrewarmTyped'
      BY DEF RenderTyped, PrewarmTyped
    <3>4. CallTyped'
      BY DEF CallTyped
    <3>5. GpuTyped'
      <4>1. faults' \in 0..MaxFaults
        BY DEF GpuTyped
      <4> QED
        BY <4>1, InpainterTyped
    <3>6. FlagsTyped'
      <4>1. faults' \in 0..MaxFaults
        BY DEF GpuTyped
      <4>2. stuck' \in BOOLEAN
        BY <4>1, InpainterTyped
      <4> QED
        BY <4>2 DEF FlagsTyped
    <3>7. RetryInPage' /\ AwaitsInStage'
      BY DEF RetryInPage, AwaitsInStage, ControlTyped
    <3> QED
      BY <3>1, <3>2, <3>3, <3>4, <3>5, <3>6, <3>7
  <2>19. CASE DrainTail
    BY <2>19 DEF DrainTail, Collect, PageAfter, OutputAfter, RenderAfter, Finished, Outputs
  <2>20. CASE DrainEnds
    BY <2>20 DEF DrainEnds, Drained
  <2>21. CASE Reconcile
    <3> USE <2>21 DEF Reconcile, Leave
    <3> HIDE DEF ControlTyped, WorkTyped, RenderTyped, PrewarmTyped, CallTyped, GpuTyped,
        FlagsTyped,
                 RetryInPage, AwaitsInStage, Places, Failures
    <3>1. ControlTyped'
      BY DEF ControlTyped, Places
    <3>2. WorkTyped'
      BY DEF WorkTyped, Failures, Outputs
    <3>3. RenderTyped' /\ PrewarmTyped'
      BY DEF RenderTyped, PrewarmTyped
    <3>4. CallTyped'
      BY DEF CallTyped
    <3>5. GpuTyped'
      BY DEF GpuTyped
    <3>6. FlagsTyped'
      BY DEF FlagsTyped
    <3>7. RetryInPage' /\ AwaitsInStage'
      BY DEF RetryInPage, AwaitsInStage, ControlTyped
    <3> QED
      BY <3>1, <3>2, <3>3, <3>4, <3>5, <3>6, <3>7
  <2>22. CASE NoticeCancel
    <3> USE <2>22 DEF NoticeCancel, Cancelled, Leave, Unwind, Checked
    <3> HIDE DEF ControlTyped, WorkTyped, RenderTyped, PrewarmTyped, CallTyped, GpuTyped,
        FlagsTyped,
                 RetryInPage, AwaitsInStage, Places, Failures
    <3>1. ControlTyped'
      BY DEF ControlTyped, Places
    <3>2. WorkTyped'
      BY DEF WorkTyped, Failures
    <3>3. RenderTyped' /\ PrewarmTyped'
      BY DEF RenderTyped, PrewarmTyped
    <3>4. CallTyped'
      BY DEF CallTyped
    <3>5. GpuTyped'
      <4>1. faults' \in 0..MaxFaults
        BY DEF GpuTyped
      <4> QED
        BY <4>1, InpainterTyped
    <3>6. FlagsTyped'
      <4>1. faults' \in 0..MaxFaults
        BY DEF GpuTyped
      <4>2. stuck' \in BOOLEAN
        BY <4>1, InpainterTyped
      <4> QED
        BY <4>2 DEF FlagsTyped
    <3>7. RetryInPage' /\ AwaitsInStage'
      BY DEF RetryInPage, AwaitsInStage, ControlTyped
    <3> QED
      BY <3>1, <3>2, <3>3, <3>4, <3>5, <3>6, <3>7
  <2>23. CASE Raises
    BY <2>23 DEF Raises, Leave, InpainterReleased
  <2>24. CASE StopRender
    BY <2>24 DEF StopRender
  <2>25. CASE AwaitRender
    <3> USE <2>25 DEF AwaitRender
    <3> HIDE DEF ControlTyped, WorkTyped, RenderTyped, PrewarmTyped, CallTyped, GpuTyped,
        FlagsTyped,
                 RetryInPage, AwaitsInStage, Places, Failures
    <3>1. ControlTyped'
      BY DEF ControlTyped, Places
    <3>2. WorkTyped'
      BY DEF WorkTyped, Failures
    <3>3. RenderTyped' /\ PrewarmTyped'
      BY DEF RenderTyped, PrewarmTyped
    <3>4. CallTyped'
      BY DEF CallTyped
    <3>5. GpuTyped'
      BY DEF GpuTyped
    <3>6. FlagsTyped'
      BY DEF FlagsTyped
    <3>7. RetryInPage' /\ AwaitsInStage'
      BY DEF RetryInPage, AwaitsInStage, ControlTyped
    <3> QED
      BY <3>1, <3>2, <3>3, <3>4, <3>5, <3>6, <3>7
  <2>26. CASE AwaitWorker
    BY <2>26, BeginTyped DEF AwaitWorker, WorkerIdle, Unfinished
  <2>27. CASE StopSecond
    BY <2>27, BeginTyped DEF StopSecond, Returns
  <2>28. CASE BatchReturns
    BY <2>28 DEF BatchReturns, Returns, GoOn
  <2>29. ASSUME NEW p \in Page, DetectPage(p) PROVE Typed'
    BY <2>29 DEF DetectPage
  <2>30. ASSUME NEW p \in Page, OcrPage(p) PROVE Typed'
    <3> USE <2>30 DEF OcrPage
    <3> HIDE DEF ControlTyped, WorkTyped, RenderTyped, PrewarmTyped, CallTyped, GpuTyped,
        FlagsTyped,
                 RetryInPage, AwaitsInStage, Places, Failures
    <3>1. ControlTyped'
      BY DEF ControlTyped, Places
    <3>2. WorkTyped'
      BY DEF WorkTyped, Failures
    <3>3. RenderTyped' /\ PrewarmTyped'
      BY DEF RenderTyped, PrewarmTyped
    <3>4. CallTyped'
      BY DEF CallTyped
    <3>5. GpuTyped'
      BY DEF GpuTyped
    <3>6. FlagsTyped'
      BY DEF FlagsTyped
    <3>7. RetryInPage' /\ AwaitsInStage'
      BY DEF RetryInPage, AwaitsInStage, ControlTyped
    <3> QED
      BY <3>1, <3>2, <3>3, <3>4, <3>5, <3>6, <3>7
  <2>31. ASSUME NEW p \in Page, RetryOcrPage(p) PROVE Typed'
    BY <2>31 DEF RetryOcrPage
  <2>32. ASSUME NEW p \in Page, TranslatePage(p) PROVE Typed'
    <3> USE <2>32 DEF TranslatePage
    <3> HIDE DEF ControlTyped, WorkTyped, RenderTyped, PrewarmTyped, CallTyped, GpuTyped,
        FlagsTyped,
                 RetryInPage, AwaitsInStage, Places, Failures
    <3>1. ControlTyped'
      BY DEF ControlTyped, Places
    <3>2. WorkTyped'
      BY DEF WorkTyped, Failures
    <3>3. RenderTyped' /\ PrewarmTyped'
      BY DEF RenderTyped, PrewarmTyped
    <3>4. CallTyped'
      BY DEF CallTyped
    <3>5. GpuTyped'
      BY DEF GpuTyped
    <3>6. FlagsTyped'
      BY DEF FlagsTyped
    <3>7. RetryInPage' /\ AwaitsInStage'
      BY DEF RetryInPage, AwaitsInStage, ControlTyped
    <3> QED
      BY <3>1, <3>2, <3>3, <3>4, <3>5, <3>6, <3>7
  <2>33. ASSUME NEW p \in Page, LateGemma(p) PROVE Typed'
    BY <2>33 DEF LateGemma, StartGemma
  <2>34. ASSUME NEW p \in Page, PlanInpaintPage(p) PROVE Typed'
    <3> USE <2>34 DEF PlanInpaintPage, PlanBlankPage, InpaintUnchanged
    <3> HIDE DEF ControlTyped, WorkTyped, RenderTyped, PrewarmTyped, CallTyped, GpuTyped,
        FlagsTyped,
                 RetryInPage, AwaitsInStage, Places, Failures
    <3>1. ControlTyped'
      BY DEF ControlTyped, Places
    <3>2. WorkTyped'
      BY CollectTyped, CollectAndRenderTyped DEF WorkTyped
    <3>3. RenderTyped' /\ PrewarmTyped'
      BY CollectTyped, CollectAndRenderTyped DEF RenderTyped, PrewarmTyped
    <3>4. CallTyped'
      BY DEF CallTyped
    <3>5. GpuTyped'
      BY DEF GpuTyped
    <3>6. FlagsTyped'
      BY DEF FlagsTyped
    <3>7. RetryInPage' /\ AwaitsInStage'
      BY DEF RetryInPage, AwaitsInStage, ControlTyped
    <3> QED
      BY <3>1, <3>2, <3>3, <3>4, <3>5, <3>6, <3>7
  <2>35. ASSUME NEW p \in Page, InpaintPage(p) PROVE Typed'
    <3> USE <2>35 DEF InpaintPage, InpaintUnchanged
    <3> HIDE DEF ControlTyped, WorkTyped, RenderTyped, PrewarmTyped, CallTyped, GpuTyped,
        FlagsTyped,
                 RetryInPage, AwaitsInStage, Places, Failures
    <3>1. ControlTyped'
      BY DEF ControlTyped, Places
    <3>2. WorkTyped'
      BY CollectAndFailTyped, CollectAndRenderTyped, CollectionFailsTyped DEF WorkTyped
    <3>3. RenderTyped' /\ PrewarmTyped'
      BY CollectAndFailTyped, CollectAndRenderTyped, CollectionFailsTyped
         DEF RenderTyped, PrewarmTyped
    <3>4. CallTyped'
      BY DEF CallTyped
    <3>5. GpuTyped'
      BY DEF GpuTyped
    <3>6. FlagsTyped'
      BY DEF FlagsTyped
    <3>7. RetryInPage' /\ AwaitsInStage'
      BY DEF RetryInPage, AwaitsInStage, ControlTyped
    <3> QED
      BY <3>1, <3>2, <3>3, <3>4, <3>5, <3>6, <3>7
  <2> QED
    BY <2>1, <2>2, <2>3, <2>4, <2>5, <2>6, <2>7, <2>8, <2>9, <2>10, <2>11, <2>12,
       <2>13, <2>14, <2>15, <2>16, <2>17, <2>18, <2>19, <2>20, <2>21, <2>22, <2>23,
       <2>24, <2>25, <2>26, <2>27, <2>28, <2>29, <2>30, <2>31, <2>32, <2>33, <2>34,
       <2>35 DEF PipelineMove
<1>2. CASE StopPrewarm /\ stopping' = TRUE /\ UNCHANGED cancelled
  BY <1>2 DEF StopPrewarm
<1>3. ASSUME NEW t \in Thread, CallStep(t) PROVE Typed'
  BY <1>3, CallStepTyped
<1>4. ASSUME NEW k \in Key, TakeJob(k) PROVE Typed'
  <2> USE <1>4 DEF TakeJob
  <2>1. CallTyped'
    BY BeginTyped DEF RunnerCall
  <2>2. PrewarmTyped'
    BY DEF PrewarmTyped
  <2>3. call'["pipeline"] = call["pipeline"]
    BY DEF RunnerCall, Begin
  <2> HIDE DEF CallTyped, PrewarmTyped
  <2> QED
    BY <2>1, <2>2, <2>3
<1>5. ASSUME NEW k \in Key, FinishJob(k) PROVE Typed'
  BY <1>5 DEF FinishJob
<1>6. CASE TakeRender
  BY <1>6 DEF TakeRender
<1>7. ASSUME NEW p \in Page, FinishRender(p) PROVE Typed'
  BY <1>7 DEF FinishRender
<1>8. CASE Cancel
  BY <1>8 DEF Cancel
<1>9. CASE UNCHANGED vars
  BY <1>9 DEF vars
<1>10. ASSUME NEW p \in Page, Damage(p) PROVE Typed'
  BY <1>10 DEF Damage, Outputs
<1> QED
  BY <1>1, <1>2, <1>3, <1>4, <1>5, <1>6, <1>7, <1>8, <1>9, <1>10
     DEF Next, PipelineStep, WorkerStep, RenderStep, Returned


-----------------------------------------------------------------------------
(* The order of the locks.                                                  *)

\* A step of a call keeps its locks and its kind in step, and touches no other call.
LEMMA CallStepOrdered ==
  ASSUME NEW t \in Thread, Typed, Ordered, CallStep(t)
  PROVE  Ordered'
<1>1. /\ call[t] \in Call /\ call[t] # None
      /\ UNCHANGED job /\ UNCHANGED at
  BY CallMoves DEF Typed, CallStep, prewarm, control
<1>2. ASSUME NEW place \in {"bracket", "manager", "body"} \cup Results, Move(t, place)
      PROVE  /\ call'[t] # None /\ call'[t].op = call[t].op /\ call'[t].at = place
             /\ \A u \in Thread : u # t => call'[u] = call[u]
  BY <1>1, <1>2, MoveType DEF Typed, TypeOK, CallTyped
<1>3. PICK place \in {"bracket", "manager", "body"} \cup Results : Move(t, place)
  BY CallMoves DEF Typed
<1>4. Preparing(t)' /\ PipelineKeepsOut' /\ PipelineQuiet'
  BY <1>1, <1>2, <1>3 DEF Ordered, Preparing, PipelineKeepsOut, PipelineQuiet, Unfinished
<1> DEFINE Kept == LockHeld(t)' /\ manager' \in {None, t, manager}
<1>5. Kept
  <2> USE <1>1, <1>2 DEF Ordered, LockHeld, InCall, Ending, End
  <2>1. CASE EnterBracket(t)
    BY <2>1 DEF EnterBracket
  <2>2. CASE RefuseBracket(t)
    BY <2>2, NoneAssumption DEF RefuseBracket
  <2>3. CASE EnterManager(t)
    BY <2>3 DEF EnterManager
  <2>4. ASSUME NEW result \in Results, End(t, result) PROVE Kept
    BY <2>4, NoneAssumption
  <2> QED
    <3>1. ASSUME ~EnterBracket(t), ~RefuseBracket(t), ~EnterManager(t)
          PROVE  \E result \in Results : End(t, result)
      <4> HIDE DEF End
      <4> QED
        BY <3>1 DEF CallStep, StartSucceeds, StartFails, StartAndCleanupFail, ReleaseSucceeds,
                    ReleaseFails, PrepareEnds
    <3> HIDE DEF Kept
    <3> QED
      BY <2>1, <2>2, <2>3, <2>4, <3>1
<1> QED
  BY <1>1, <1>2, <1>3, <1>4, <1>5, NoneAssumption DEF Ordered, LockHeld, Preparing
\* Every step keeps the order of the locks.
LEMMA StepOrdered ==
  ASSUME Typed, Ordered, [Next]_vars
  PROVE  Ordered'
<1> USE DEF Typed, TypeOK, AwaitsInStage, LoopOver, Ordered, LockHeld, Preparing,
    PipelineKeepsOut, ContainerPlaces, PipelineQuiet, QuietPlaces, Unfinished, Begin, CallTyped,
           PrewarmTyped, Places, Checked, control, work, renders, prewarm, gpu
<1>1. ASSUME PipelineMove, UNCHANGED <<cancelled, stopping>> PROVE Ordered'
  <2> USE <1>1
  <2>1. CASE Preflight
    BY <2>1 DEF Preflight
  <2>2. CASE DetectEnds
    BY <2>2 DEF DetectEnds
  <2>3. CASE StartOcrPrewarm
    BY <2>3 DEF StartOcrPrewarm, ContainerAwaited, Unfinished
  <2>4. CASE PlanOcr
    BY <2>4 DEF PlanOcr
  <2>5. CASE OcrLoaded
    BY <2>5 DEF OcrLoaded
  <2>6. CASE OcrEnds
    BY <2>6 DEF OcrEnds, ReleaseAfter
  <2>7. CASE PlanTranslation
    BY <2>7 DEF PlanTranslation, StartGemma
  <2>8. CASE TranslateEnds
    BY <2>8 DEF TranslateEnds, ReleaseAfter
  <2>9. CASE StopGemma
    BY <2>9 DEF StopGemma, ReleaseAfter
  <2>10. CASE AwaitPrewarm
    <3>1. CASE Leave("cancelled")
      BY <2>10, <3>1 DEF AwaitPrewarm, Leave
    <3>2. CASE ~Leave("cancelled")
      <4>1. /\ UNCHANGED <<at, job, manager>> /\ call["pipeline"] = None
            /\ awaiting # None
            /\ call' = call \/ FallbackStart(awaiting)
        BY <2>10, <3>2 DEF AwaitPrewarm
      <4>2. ~Unfinished("container") /\ at \notin QuietPlaces
        BY <4>1
      <4> QED
        BY <4>1, <4>2 DEF FallbackStart
    <3> QED
      BY <3>1, <3>2
  <2>11. CASE CallWorked
    BY <2>11 DEF CallWorked, Returns, GoOn
  <2>12. CASE CallFailed
    BY <2>12 DEF CallFailed, Returns, Leave
  <2>13. CASE RetryFailed
    BY <2>13 DEF RetryFailed, Returns, GoOn
  <2>14. CASE GemmaStopped
    BY <2>14 DEF GemmaStopped, Returns, GoOn
  <2>15. CASE PlanInpaintEnds
    <3>1. at = "inpaint" /\ at' \in {"loadInpainter", "drain"} /\ call["pipeline"] = None
      BY <2>15 DEF PlanInpaintEnds, LoopOver
    <3> QED
      BY <2>15, <3>1 DEF PlanInpaintEnds, InpaintUnchanged
  <2>16. CASE LoadInpainter
    BY <2>16 DEF LoadInpainter, InpaintUnchanged, Collect, PageAfter, OutputAfter, RenderAfter,
        Finished
  <2>17. CASE InpainterRefused
    BY <2>17 DEF InpainterRefused, Leave
  <2>18. CASE InpaintEnds
    BY <2>18 DEF InpaintEnds, Leave, InpainterReleased, InpainterKept
  <2>19. CASE DrainTail
    BY <2>19 DEF DrainTail, Collect, PageAfter, OutputAfter, RenderAfter, Finished
  <2>20. CASE DrainEnds
    BY <2>20 DEF DrainEnds, Drained
  <2>21. CASE Reconcile
    BY <2>21 DEF Reconcile, Leave
  <2>22. CASE NoticeCancel
    BY <2>22 DEF NoticeCancel, Cancelled, Leave, Unwind, InpainterReleased, InpainterKept
  <2>23. CASE Raises
    BY <2>23 DEF Raises, Leave, InpainterReleased
  <2>24. CASE StopRender
    BY <2>24 DEF StopRender
  <2>25. CASE AwaitRender
    BY <2>25 DEF AwaitRender
  <2>26. CASE AwaitWorker
    BY <2>26 DEF AwaitWorker, WorkerIdle, Unfinished
  <2>27. CASE StopSecond
    BY <2>27 DEF StopSecond, Returns
  <2>28. CASE BatchReturns
    BY <2>28 DEF BatchReturns, Returns, GoOn
  <2>29. ASSUME NEW p \in Page, DetectPage(p) PROVE Ordered'
    BY <2>29 DEF DetectPage
  <2>30. ASSUME NEW p \in Page, OcrPage(p) PROVE Ordered'
    BY <2>30 DEF OcrPage
  <2>31. ASSUME NEW p \in Page, RetryOcrPage(p) PROVE Ordered'
    BY <2>31 DEF RetryOcrPage
  <2>32. ASSUME NEW p \in Page, TranslatePage(p) PROVE Ordered'
    BY <2>32 DEF TranslatePage
  <2>33. ASSUME NEW p \in Page, LateGemma(p) PROVE Ordered'
    BY <2>33 DEF LateGemma, StartGemma
  <2>34. ASSUME NEW p \in Page, PlanInpaintPage(p) PROVE Ordered'
    BY <2>34 DEF PlanInpaintPage, PlanBlankPage, InpaintUnchanged, CollectAndRender,
        CollectAndFail, Collect, PageAfter, OutputAfter, RenderAfter, Finished
  <2>35. ASSUME NEW p \in Page, InpaintPage(p) PROVE Ordered'
    BY <2>35 DEF InpaintPage, InpaintUnchanged, CollectAndRender, CollectAndFail, Collect,
        CollectionFails, CollectedUpTo, PageAfter, OutputAfter, RenderAfter, Finished
  <2> QED
    BY <2>1, <2>2, <2>3, <2>4, <2>5, <2>6, <2>7, <2>8, <2>9, <2>10, <2>11, <2>12,
       <2>13, <2>14, <2>15, <2>16, <2>17, <2>18, <2>19, <2>20, <2>21, <2>22, <2>23,
       <2>24, <2>25, <2>26, <2>27, <2>28, <2>29, <2>30, <2>31, <2>32, <2>33, <2>34,
       <2>35 DEF PipelineMove
<1>2. CASE StopPrewarm /\ stopping' = TRUE /\ UNCHANGED cancelled
  BY <1>2 DEF StopPrewarm
<1>3. ASSUME NEW t \in Thread, CallStep(t) PROVE Ordered'
  BY <1>3, CallStepOrdered
<1>4. ASSUME NEW k \in Key, TakeJob(k) PROVE Ordered'
  BY <1>4, NoneAssumption DEF TakeJob, RunnerCall
<1>5. ASSUME NEW k \in Key, FinishJob(k) PROVE Ordered'
  BY <1>5 DEF FinishJob
<1>6. CASE TakeRender
  BY <1>6 DEF TakeRender
<1>7. ASSUME NEW p \in Page, FinishRender(p) PROVE Ordered'
  BY <1>7 DEF FinishRender
<1>8. CASE Cancel
  BY <1>8 DEF Cancel
<1>9. CASE UNCHANGED vars
  BY <1>9 DEF vars
<1>10. ASSUME NEW p \in Page, Damage(p) PROVE Ordered'
  BY <1>10 DEF Damage
<1> QED
  BY <1>1, <1>2, <1>3, <1>4, <1>5, <1>6, <1>7, <1>8, <1>9, <1>10
     DEF Next, PipelineStep, WorkerStep, RenderStep, Returned


-----------------------------------------------------------------------------
(* What becomes of the pages.                                               *)

\* Collecting renders loses no page, and makes up no file.
LEMMA CollectKeeps ==
  ASSUME Typed, NEW p \in Page,
         Collect \/ \E q \in Page : CollectAndRender(q) \/ CollectAndFail(q) \/ CollectionFails(q)
  PROVE  /\ Accounted(p) => Accounted(p)'
         /\ output'[p] \in {"fallback", "replaced"} => output'[p] = output[p]
<1> USE DEF Accounted, Rendered, Failures
<1> DEFINE Seen == /\ page'[p] = PageAfter(p) \/ page'[p] = "failed"
                   /\ output'[p] = OutputAfter(p) \/ output'[p] \in {"rendered", "lost"}
           Unseen == /\ page'[p] = page[p] \/ page'[p] = "failed"
                     /\ output'[p] = output[p]
           Kept == Seen /\ (p \in pending \ Finished => p \in pending')
<1>1. Kept \/ (Unseen /\ (p \in pending => p \in pending'))
  <2>1. CASE Collect
    BY <2>1 DEF Collect
  <2>2. ASSUME NEW q \in Page, CollectAndFail(q) PROVE Kept
    BY <2>2 DEF CollectAndFail
  <2>3. ASSUME NEW q \in Page, CollectAndRender(q) PROVE Kept
    BY <2>2, <2>3 DEF CollectAndRender
  <2>4. ASSUME NEW q \in Page, CollectionFails(q)
        PROVE  Kept \/ (Unseen /\ (p \in pending => p \in pending'))
    <3>1. PICK r \in Finished, before \in SUBSET Finished, kept \in {"rendered", "lost"} :
            CollectedUpTo(q, r, before \cup {r}, kept)
      BY <2>4 DEF CollectionFails
    <3> USE DEF CollectedUpTo
    <3>2. CASE p \in before \cup {r}
      BY <3>1, <3>2
    <3>3. CASE p \notin before \cup {r}
      BY <3>1, <3>3
    <3> QED
      BY <3>2, <3>3
  <2> QED
    BY <2>1, <2>2, <2>3, <2>4
<1>2. /\ PageAfter(p) = page[p] \/ PageAfter(p) = "failed"
      /\ OutputAfter(p) = output[p] \/ OutputAfter(p) = "rendered"
      /\ p \in Finished => PageAfter(p) = "failed" \/ OutputAfter(p) = "rendered"
  BY DEF PageAfter, OutputAfter, Finished
<1> QED
  BY <1>1, <1>2

\* The page itself is accounted for.
LEMMA CollectAccounts ==
  ASSUME NEW p \in Page, CollectAndRender(p) \/ CollectAndFail(p) \/ CollectionFails(p)
  PROVE  Accounted(p)'
  BY DEF CollectAndRender, CollectAndFail, CollectionFails, CollectedUpTo, Accounted, Rendered,
         Failures

\* Every step keeps account of the pages.
LEMMA StepOutputs ==
  ASSUME Typed, OutputsKept, [Next]_vars
  PROVE  OutputsKept'
<1> USE DEF OutputsKept, AllAccounted, NoEarlyFallback, FallbackHasCause, Accounted, Rendered,
    EndingPlaces,
           Typed, TypeOK, ControlTyped, WorkTyped, Places, Checked, AtPage, LoopOver, Text,
           control, work, renders, prewarm, gpu
<1>1. ASSUME PipelineMove, UNCHANGED <<cancelled, stopping>> PROVE OutputsKept'
  <2> USE <1>1
  <2>1. CASE Preflight
    BY <2>1 DEF Preflight
  <2>2. CASE DetectEnds
    BY <2>2 DEF DetectEnds
  <2>3. CASE StartOcrPrewarm
    BY <2>3 DEF StartOcrPrewarm, ContainerAwaited, Unfinished
  <2>4. CASE PlanOcr
    BY <2>4 DEF PlanOcr
  <2>5. CASE OcrLoaded
    BY <2>5 DEF OcrLoaded
  <2>6. CASE OcrEnds
    BY <2>6 DEF OcrEnds, ReleaseAfter
  <2>7. CASE PlanTranslation
    BY <2>7 DEF PlanTranslation, StartGemma
  <2>8. CASE TranslateEnds
    BY <2>8 DEF TranslateEnds, ReleaseAfter
  <2>9. CASE StopGemma
    BY <2>9 DEF StopGemma, ReleaseAfter
  <2>10. CASE AwaitPrewarm
    <3>1. CASE Leave("cancelled")
      <4>1. at \in {"loadOcr", "ocr", "translate"}
        BY <2>10 DEF AwaitPrewarm, AwaitsInStage
      <4> QED
        BY <3>1, <4>1 DEF Leave
    <3>2. CASE ~Leave("cancelled")
      BY <2>10, <3>2 DEF AwaitPrewarm
    <3> QED
      BY <3>1, <3>2
  <2>11. CASE CallWorked
    BY <2>11 DEF CallWorked, Returns, GoOn
  <2>12. CASE CallFailed
    BY <2>12 DEF CallFailed, Returns, Leave
  <2>13. CASE RetryFailed
    BY <2>13 DEF RetryFailed, Returns, GoOn
  <2>14. CASE GemmaStopped
    BY <2>14 DEF GemmaStopped, Returns, GoOn
  <2>15. CASE PlanInpaintEnds
    BY <2>15 DEF PlanInpaintEnds, InpaintUnchanged
  <2>16. CASE LoadInpainter
    <3> HIDE DEF Accounted, Typed
    <3>1. /\ at = "loadInpainter" /\ at' = "infer" /\ nextPage' = 1
          /\ UNCHANGED <<todo, outcome>> /\ Collect
      BY <2>16 DEF LoadInpainter, InpaintUnchanged
    <3>2. AllAccounted'
      BY <3>1, CollectKeeps DEF AllAccounted, Typed, TypeOK, WorkTyped
    <3> QED
      BY <3>1, <3>2, CollectKeeps
  <2>17. CASE InpainterRefused
    BY <2>17 DEF InpainterRefused, Leave
  <2>18. CASE InpaintEnds
    BY <2>18 DEF InpaintEnds, Leave, InpainterReleased, InpainterKept
  <2>19. CASE DrainTail
    <3> HIDE DEF Accounted, Typed
    <3>1. /\ at = "drain" /\ UNCHANGED <<at, outcome>> /\ Collect
      BY <2>19 DEF DrainTail
    <3> QED
      BY <3>1, CollectKeeps
  <2>20. CASE DrainEnds
    BY <2>20 DEF DrainEnds, Drained
  <2>21. CASE Reconcile
    <3>1. CASE Leave("failed")
      BY <2>21, <3>1 DEF Reconcile, Leave
    <3>2. CASE ~Leave("failed")
      <4>1. /\ at = "reconcile" /\ at' = "stopRender" /\ outcome' = "completed" /\ UNCHANGED page
            /\ output' = [p \in Page |-> IF output[p] \notin {None, "lost"} THEN output[p]
                                        ELSE IF output[p] = None THEN "fallback" ELSE "replaced"]
        BY <2>21, <3>2 DEF Reconcile
      <4>2. ASSUME NEW p \in Page
            PROVE  \/ output'[p] \in {"rendered", "replaced"}
                   \/ output'[p] = "fallback" /\ page'[p] \in Failures
        BY <4>1, NoneAssumption DEF WorkTyped, Outputs
      <4> QED
        BY <4>1, <4>2
    <3> QED
      BY <3>1, <3>2
  <2>22. CASE NoticeCancel
    BY <2>22 DEF NoticeCancel, Cancelled, Leave, Unwind, InpainterReleased, InpainterKept
  <2>23. CASE Raises
    BY <2>23 DEF Raises, Leave, InpainterReleased
  <2>24. CASE StopRender
    BY <2>24 DEF StopRender
  <2>25. CASE AwaitRender
    BY <2>25 DEF AwaitRender
  <2>26. CASE AwaitWorker
    BY <2>26 DEF AwaitWorker, WorkerIdle, Unfinished
  <2>27. CASE StopSecond
    BY <2>27 DEF StopSecond, Returns
  <2>28. CASE BatchReturns
    BY <2>28 DEF BatchReturns, Returns, GoOn
  <2>29. ASSUME NEW p \in Page, DetectPage(p) PROVE OutputsKept'
    BY <2>29 DEF DetectPage
  <2>30. ASSUME NEW p \in Page, OcrPage(p) PROVE OutputsKept'
    BY <2>30 DEF OcrPage
  <2>31. ASSUME NEW p \in Page, RetryOcrPage(p) PROVE OutputsKept'
    BY <2>31 DEF RetryOcrPage
  <2>32. ASSUME NEW p \in Page, TranslatePage(p) PROVE OutputsKept'
    BY <2>32 DEF TranslatePage
  <2>33. ASSUME NEW p \in Page, LateGemma(p) PROVE OutputsKept'
    BY <2>33 DEF LateGemma, StartGemma
  <2>34. ASSUME NEW p \in Page, PlanInpaintPage(p) PROVE OutputsKept'
    <3> HIDE DEF Accounted, Typed
    <3>1. /\ at = "inpaint" /\ UNCHANGED <<at, outcome>>
          /\ nextPage = p /\ nextPage' = nextPage + 1
          /\ todo' = todo \/ todo' = todo \cup {p}
      BY <2>34 DEF PlanInpaintPage, InpaintUnchanged
    <3>2. /\ \A q \in Page : Accounted(q) => Accounted(q)'
          /\ \A q \in Page : output'[q] \in {"fallback", "replaced"} => output'[q] = output[q]
      BY <2>34, CollectKeeps DEF PlanInpaintPage, PlanBlankPage
    <3>3. Accounted(p)' \/ p \in todo'
      <4>1. CASE page[p] \in Failures /\ Collect
        BY <4>1, <3>2 DEF Accounted, Rendered
      <4>2. CASE CollectAndRender(p)
        BY <4>2, CollectAccounts
      <4>3. CASE todo' = todo \cup {p}
        BY <4>3
      <4> QED
        BY <2>34, <4>1, <4>2, <4>3 DEF PlanInpaintPage, PlanBlankPage
    <3>4. AllAccounted'
      <4> SUFFICES ASSUME NEW q \in Page, q < nextPage' PROVE Accounted(q)' \/ q \in todo'
        BY <3>1 DEF AllAccounted
      <4> QED
        BY <3>1, <3>2, <3>3 DEF AllAccounted
    <3> QED
      BY <3>1, <3>2, <3>4
  <2>35. ASSUME NEW p \in Page, InpaintPage(p) PROVE OutputsKept'
    <3> HIDE DEF Accounted, Typed
    <3>1. /\ at = "infer" /\ UNCHANGED <<at, outcome>>
          /\ nextPage = p /\ nextPage' = nextPage + 1
          /\ todo' = todo \ {p}
      BY <2>35 DEF InpaintPage, InpaintUnchanged
    <3>2. /\ \A q \in Page : Accounted(q) => Accounted(q)'
          /\ \A q \in Page : output'[q] \in {"fallback", "replaced"} => output'[q] = output[q]
          /\ p \in todo => Accounted(p)'
      <4>1. CASE p \in todo
        BY <2>35, <4>1, CollectKeeps, CollectAccounts DEF InpaintPage
      <4>2. CASE p \notin todo
        BY <2>35, <4>2 DEF InpaintPage, Accounted
      <4> QED
        BY <4>1, <4>2
    <3>3. AllAccounted'
      BY <3>1, <3>2 DEF AllAccounted, Typed, TypeOK, WorkTyped
    <3> QED
      BY <3>1, <3>2, <3>3
  <2> QED
    BY <2>1, <2>2, <2>3, <2>4, <2>5, <2>6, <2>7, <2>8, <2>9, <2>10, <2>11, <2>12,
       <2>13, <2>14, <2>15, <2>16, <2>17, <2>18, <2>19, <2>20, <2>21, <2>22, <2>23,
       <2>24, <2>25, <2>26, <2>27, <2>28, <2>29, <2>30, <2>31, <2>32, <2>33, <2>34,
       <2>35 DEF PipelineMove
<1>2. CASE StopPrewarm /\ stopping' = TRUE /\ UNCHANGED cancelled
  BY <1>2 DEF StopPrewarm
<1>3. ASSUME NEW t \in Thread, CallStep(t) PROVE OutputsKept'
  BY <1>3 DEF CallStep
<1>4. ASSUME NEW k \in Key, TakeJob(k) PROVE OutputsKept'
  BY <1>4 DEF TakeJob
<1>5. ASSUME NEW k \in Key, FinishJob(k) PROVE OutputsKept'
  BY <1>5 DEF FinishJob
<1>6. CASE TakeRender
  BY <1>6 DEF TakeRender
<1>7. ASSUME NEW p \in Page, FinishRender(p) PROVE OutputsKept'
  BY <1>7 DEF FinishRender
<1>8. CASE Cancel
  BY <1>8 DEF Cancel
<1>9. CASE UNCHANGED vars
  BY <1>9 DEF vars
<1>10. ASSUME NEW p \in Page, Damage(p) PROVE OutputsKept'
  BY <1>10, NoneAssumption DEF Damage, WorkTyped, Outputs
<1> QED
  BY <1>1, <1>2, <1>3, <1>4, <1>5, <1>6, <1>7, <1>8, <1>9, <1>10
     DEF Next, PipelineStep, WorkerStep, RenderStep, Returned


-----------------------------------------------------------------------------
(* The theorems.                                                            *)

LEMMA InitInv == Init => Inv
<1> SUFFICES ASSUME Init PROVE Inv
  OBVIOUS
<1>1. Ordered
  BY NoneAssumption DEF Init, Ordered, LockHeld, Preparing, PipelineKeepsOut, PipelineQuiet,
      QuietPlaces,
                        Unfinished
<1>2. OutputsKept
  BY NoneAssumption DEF Init, OutputsKept, AllAccounted, NoEarlyFallback, FallbackHasCause
<1> QED
  BY <1>1, <1>2, InitTyped DEF Inv

LEMMA Invariance == Spec => []Inv
<1>1. Inv /\ [Next]_vars => Inv'
  BY StepTyped, StepOrdered, StepOutputs DEF Inv
<1> QED
  BY <1>1, InitInv, PTL DEF Spec

\* The state of the pipeline, its worker, its render pool and the GPU stays well
\* formed, whatever fails (TypeOK).
THEOREM TypeCorrect == Spec => []TypeOK
<1>1. Inv => TypeOK
  BY DEF Inv, Typed
<1> QED
  BY <1>1, Invariance, PTL

\* The pipeline and the prewarm worker take the arbiter's and the OCR manager's lock in
\* opposite orders, and never hold one each while they wait for the other (NoLockCycle).
THEOREM NoLockCycleHolds == Spec => []NoLockCycle
<1>1. Inv => NoLockCycle
  <2> SUFFICES ASSUME Ordered, NEW t \in Thread, NEW u \in Thread, t # u,
                      InCall(t, "manager"), manager = u, InCall(u, "bracket")
               PROVE  FALSE
    BY DEF Inv, NoLockCycle
  <2>1. call[u] # None /\ call[u].op = "prepare"
    BY DEF Ordered, LockHeld, InCall
  <2>2. u = "worker" /\ t = "pipeline" /\ Unfinished("container")
    BY <2>1 DEF Ordered, Preparing, Unfinished
  <2> QED
    BY <2>2 DEF Ordered, PipelineKeepsOut, InCall
<1> QED
  BY <1>1, Invariance, PTL

\* When a batch completes, each page has its own render, or the fallback picture because
\* its file was lost or one of its stages failed: no page is passed over
\* (FallbackHasCause).
THEOREM FallbacksHaveCause == Spec => []FallbackHasCause
<1>1. Inv => FallbackHasCause
  BY DEF Inv, OutputsKept
<1> QED
  BY <1>1, Invariance, PTL

-----------------------------------------------------------------------------
(* The prewarm jobs, the calls and the GPU.                                 *)

\* The jobs of the prewarm thread and their order.  What runs is what the thread
\* is called for, and nothing before it is left.
JobCalled(k) ==
  job[k] = "running" =>
    /\ call["worker"] # None
    /\ call["worker"].op = IF k = "container" THEN "prepare" ELSE "start"
    /\ call["worker"].service = IF k = "gemma" THEN "gemma" ELSE "ocr"
JobOrdered(k) ==
  job[k] = "running" \/ (job[k] \in Results /\ ~stopping) =>
    \A b \in Before(k) : ~Unfinished(b)
WorkerCalled == call["worker"] # None => \E k \in Key : job[k] = "running"

\* Where which jobs have been submitted, and which may still be unfinished.
BeforeOcr == {"preflight", "detect", "prewarmOcr"}
OcrPlaces == {"planOcr", "loadOcr", "ocr"}
BeforeGemma == BeforeOcr \cup OcrPlaces \cup {"ocrRelease", "planTranslation"}
Dismissed == {"stopOcr", "stopGemma", "stopGemmaForeign", "returned"}
Finally == {"stopRender", "awaitRender", "stopPrewarm", "awaitWorker"}

JobsSubmitted ==
  /\ at = "preflight" => job["container"] = "none"
  /\ at \in BeforeOcr => job["ocr"] = "none"
  /\ at \in BeforeGemma => ~gemmaStarted
  /\ gemmaStarted <=> job["gemma"] # "none"
  /\ Unfinished("ocr") /\ ~stopping => "ocr" \in known
  /\ Unfinished("gemma") => (at = "translate" /\ awaiting = "gemma") \/ at \in Finally
  /\ awaiting = "gemma" => "gemma" \in known /\ gemmaStarted
JobsEnded ==
  /\ stopping <=> at \in {"awaitWorker"} \cup Dismissed
  /\ stopping => \A k \in Key : job[k] # "queued"
  /\ at \in Dismissed => WorkerIdle

JobsKept == (\A k \in Key : JobCalled(k) /\ JobOrdered(k)) /\ WorkerCalled /\ JobsSubmitted /\ JobsEnded

\* Which call the pipeline makes where.
PipelineCall ==
  call["pipeline"] # None =>
    \/ at \in {"loadOcr",
         "ocr"} /\ call["pipeline"].op = "start" /\ call["pipeline"].service = "ocr"
    \/ at \in {"ocrRelease",
         "stopOcr"} /\ call["pipeline"].op = "release" /\ call["pipeline"].service = "ocr"
    \/ /\ at = "translate" /\ gemmaStarted
       /\ call["pipeline"].op = "start" /\ call["pipeline"].service = "gemma"
    \/ /\ at \in {"gemmaRelease", "gemmaStop", "stopGemma", "stopGemmaForeign"}
       /\ call["pipeline"].op = "release" /\ call["pipeline"].service = "gemma"
AwaitPlace ==
  /\ awaiting = "ocr" => at \in {"loadOcr", "ocr"}
  /\ awaiting = "gemma" => at = "translate"
StartAlone == call["pipeline"] # None /\ call["pipeline"].op = "start" => WorkerIdle

\* Who has the command lock.
InBracket(t) == InCall(t, "body") \/ (InCall(t, "manager") /\ call[t].op # "prepare")
CommandKept ==
  /\ \A t \in Thread : InBracket(t) => command = t
  /\ command = "worker" => InBracket("worker")
  /\ command = "pipeline" =>
       \/ InBracket("pipeline")
       \/ at = "infer" /\ holder = "inpainter" /\ call["pipeline"] = None
ManagerForOcr == \A t \in Thread : InCall(t, "manager") => call[t].service = "ocr"
LeaseOf(t) == InBracket(t) => holder = call[t].service \/ (t = "pipeline" /\ at = "stopGemmaForeign")

CallsKept ==
  /\ PipelineCall /\ AwaitPlace /\ StartAlone /\ CommandKept /\ ManagerForOcr
  /\ \A t \in Thread : LeaseOf(t)

DeferralPlaces == {"inpaint", "loadInpainter", "infer", "drain", "reconcile", "stopRender",
    "awaitRender"}
DeferralKept == deferred => at \in DeferralPlaces

\* Without a fault.
Clean ==
  /\ resident \subseteq {holder}
  /\ holder = "inpainter" => at = "infer" /\ command = "pipeline"
  /\ stuck => cancelled

Arrived(end) == InCall("pipeline", end)
UnloadCancelled == cancelled /\ at = "ocrRelease"
LeaseByStage ==
  /\ at \in BeforeOcr \cup OcrPlaces => holder \in {None, "ocr"}
  /\ "ocr" \notin known =>
       /\ at = "ocrRelease" => holder \in {None, "ocr"} /\ (Arrived("done") => holder = None)
       /\ at = "planTranslation" => holder = None
       /\ at \in {"translate", "gemmaRelease", "gemmaStop"} => holder \in {None, "gemma"}
       /\ at = "gemmaStop" => (Arrived("done") => holder = None) /\ (Arrived("cancelled") => cancelled)
       /\ at \in {"inpaint", "loadInpainter"} => holder = None \/ cancelled
       /\ Arrived("failed") => stopping \/ UnloadCancelled
LeaseAtEnd ==
  /\ at \in Dismissed => ~Arrived("cancelled")
  /\ at = "stopOcr" /\ Arrived("done") => holder = None
  /\ at = "stopOcr" /\ Arrived("failed") => holder = "gemma"
  /\ at = "stopGemma" => ~Arrived("failed") /\ (Arrived("bracket") \/ Arrived("done") => holder = None)
  /\ at = "stopGemmaForeign" =>
       ~Arrived("failed") /\ holder = IF Arrived("done") THEN None ELSE "gemma"
  /\ at = "returned" => holder = None

Faultless == faults = 0 => Clean /\ LeaseByStage /\ LeaseAtEnd

Up(s) == s \in resident /\ holder = s
Loaded(k) == job[k] = "done" \/ (job[k] = "running" /\ InCall("worker", "done"))
Unserved == \E p \in Page : page[p] = "unserved"

OcrPrewarmed ==
  at \in OcrPlaces /\ "ocr" \in known => call["pipeline"] = None /\ (Loaded("ocr") => Up("ocr"))
GemmaPrewarmed == awaiting = "gemma" /\ Loaded("gemma") => Up("gemma")
StartLoaded == Arrived("done") /\ call["pipeline"].op = "start" => Up(call["pipeline"].service)
OcrServed ==
  at \in {"loadOcr", "ocr"} /\ Free /\ todo # {} => "ocr" \notin known /\ (Up("ocr") \/ Unserved)
GemmaServed == at = "translate" /\ Free /\ todo # {} => gemmaStarted /\ Up("gemma")
Served == OcrPrewarmed /\ GemmaPrewarmed /\ StartLoaded /\ OcrServed /\ GemmaServed

GpuInv == JobsKept /\ CallsKept /\ DeferralKept /\ Faultless /\ Served

USE NoneAssumption DEF UnloadCancelled

-----------------------------------------------------------------------------
(* The jobs.                                                                *)

LEMMA Order ==
  Before("container") = {} /\ Before("ocr") = {"container"} /\ Before("gemma") = {"container",
      "ocr"}
  BY DEF Before

LEMMA LeavesWorker ==
  ASSUME CallTyped, NEW end, Leave(end)
  PROVE  call'["worker"] = call["worker"] /\ call'["pipeline"] = None
  BY DEF Leave, CallTyped

\* What concerns the worker alone.
LEMMA WorkerSame ==
  ASSUME JobsKept, UNCHANGED <<job, stopping>>, call'["worker"] = call["worker"]
  PROVE  (\A k \in Key : JobCalled(k)' /\ JobOrdered(k)') /\ WorkerCalled'
  BY DEF JobsKept, JobCalled, JobOrdered, WorkerCalled, Unfinished

LEMMA LeaveKeepsJobs ==
  ASSUME JobsKept, CallTyped, NEW end, Leave(end),
      at \in Places \ ({"preflight"} \cup Finally \cup Dismissed),
         UNCHANGED stopping
  PROVE  JobsKept'
<1>1. /\ at' = "stopRender" /\ awaiting' = None /\ UNCHANGED <<job, known, gemmaStarted>>
      /\ call'["worker"] = call["worker"]
  BY LeavesWorker DEF Leave, prewarm
<1>2. (\A k \in Key : JobCalled(k)' /\ JobOrdered(k)') /\ WorkerCalled'
  BY <1>1, WorkerSame
<1>3. JobsSubmitted'
  BY <1>1 DEF JobsKept, JobsSubmitted, BeforeOcr, OcrPlaces, BeforeGemma, Unfinished, Finally
<1>4. JobsEnded'
  BY <1>1 DEF JobsKept, JobsEnded, Dismissed, Finally, WorkerIdle
<1> QED
  BY <1>2, <1>3, <1>4 DEF JobsKept

\* The pipeline submits and awaits the jobs in their order.
LEMMA MoveKeepsJobs ==
  ASSUME Typed, Ordered, JobsKept, CallsKept, PipelineMove, UNCHANGED <<cancelled, stopping>>
  PROVE  JobsKept'
<1> USE Order DEF Typed, TypeOK, CallTyped, PrewarmTyped, PipelineKeepsOut, ContainerPlaces,
    JobsKept, JobCalled, JobOrdered, WorkerCalled, JobsSubmitted, JobsEnded, BeforeOcr,
    OcrPlaces, BeforeGemma, Dismissed, Finally, Unfinished, WorkerIdle, AtPage, LoopOver,
    Checked, Begin, control, work, renders, prewarm, gpu, CallsKept, AwaitPlace, PipelineCall
<1>1. CASE Preflight
  BY <1>1 DEF Preflight
<1>2. CASE DetectEnds
  BY <1>2 DEF DetectEnds
<1>3. CASE StartOcrPrewarm
  BY <1>3 DEF StartOcrPrewarm, ContainerAwaited
<1>4. CASE PlanOcr
  BY <1>4 DEF PlanOcr
<1>5. CASE OcrLoaded
  BY <1>5 DEF OcrLoaded
<1>6. CASE OcrEnds
  BY <1>6 DEF OcrEnds, ReleaseAfter
<1>7. CASE PlanTranslation
  BY <1>7 DEF PlanTranslation, StartGemma
<1>8. CASE TranslateEnds
  <2>1. call'["worker"] = call["worker"] /\ at' \in {"gemmaRelease",
      "gemmaStop"} /\ at = "translate" /\ awaiting = None
        /\ UNCHANGED <<job, known, gemmaStarted, awaiting>>
    BY <1>8 DEF TranslateEnds, ReleaseAfter
  <2>2. (\A k \in Key : JobCalled(k)' /\ JobOrdered(k)') /\ WorkerCalled'
    BY <2>1, WorkerSame
  <2> QED
    BY <2>1, <2>2
<1>9. CASE StopGemma
  BY <1>9 DEF StopGemma, ReleaseAfter
<1>10. CASE AwaitPrewarm
  <2>1. CASE Leave("cancelled")
    <3>1. at \in {"loadOcr", "ocr", "translate"} /\ call["pipeline"] = None
          /\ UNCHANGED gpu /\ UNCHANGED faults
      BY <1>10 DEF AwaitPrewarm, AwaitsInStage
    <3> QED
      BY <2>1, <3>1, LeaveKeepsJobs DEF Places
  <2>2. CASE ~Leave("cancelled")
    <3>1. /\ awaiting \in {"ocr", "gemma"} /\ call["pipeline"] = None /\ at \in {"loadOcr",
               "ocr", "translate"}
          /\ awaiting \in known => ~Unfinished(awaiting)
          /\ awaiting' = None /\ known' = known \ {awaiting}
          /\ UNCHANGED <<at, gemmaStarted, job, faults, gpu, deferred, todo, page, outcome>>
          /\ \/ UNCHANGED call /\ awaiting \in known /\ job[awaiting] = "done"
             \/ FallbackStart(awaiting)
      BY <1>10, <2>2 DEF AwaitPrewarm, ControlTyped, AwaitsInStage
    <3>2. call'["worker"] = call["worker"]
      BY <3>1 DEF FallbackStart
    <3>3. (\A k \in Key : JobCalled(k)' /\ JobOrdered(k)') /\ WorkerCalled'
      BY <3>1, <3>2, WorkerSame
    <3>4. JobsSubmitted'
      BY <3>1, <3>3
    <3> QED
      BY <3>1, <3>3, <3>4
  <2> QED
    BY <2>1, <2>2
<1>11. CASE CallWorked
  BY <1>11 DEF CallWorked, Returns, GoOn
<1>12. CASE CallFailed
  <2>1. /\ at \in {"loadOcr", "ocr", "ocrRelease", "translate", "gemmaRelease"}
        /\ call["pipeline"] # None /\ call["pipeline"].at \in {"failed", "cancelled"}
        /\ Leave(call["pipeline"].at) /\ UNCHANGED gpu /\ UNCHANGED faults
    BY <1>12 DEF CallFailed, Returns
  <2> QED
    BY <2>1, LeaveKeepsJobs DEF Places
<1>13. CASE RetryFailed
  BY <1>13 DEF RetryFailed, Returns, GoOn
<1>14. CASE GemmaStopped
  BY <1>14 DEF GemmaStopped, Returns, GoOn
<1>15. CASE PlanInpaintEnds
  BY <1>15 DEF PlanInpaintEnds, InpaintUnchanged
<1>16. CASE LoadInpainter
  BY <1>16 DEF LoadInpainter, InpaintUnchanged
<1>17. CASE InpainterRefused
  BY <1>17 DEF InpainterRefused, Leave
<1>18. CASE InpaintEnds
  BY <1>18 DEF InpaintEnds, Leave, InpainterReleased, InpainterKept
<1>19. CASE DrainTail
  BY <1>19 DEF DrainTail
<1>20. CASE DrainEnds
  BY <1>20 DEF DrainEnds, Drained
<1>21. CASE Reconcile
  <2>1. at = "reconcile" /\ (Leave("failed") \/ (Goto("stopRender") /\ UNCHANGED <<awaiting,
      gemmaStarted, prewarm, call>>))
    BY <1>21 DEF Reconcile
  <2>2. UNCHANGED gpu
    BY <1>21 DEF Reconcile
  <2>3. CASE Leave("failed")
    BY <2>1, <2>2, <2>3, LeaveKeepsJobs DEF Places
  <2>4. CASE ~Leave("failed")
    BY <2>1, <2>2, <2>4
  <2> QED
    BY <2>3, <2>4
<1>22. CASE NoticeCancel
  BY <1>22 DEF NoticeCancel, Cancelled, Leave, Unwind, InpainterReleased, InpainterKept
<1>23. CASE Raises
  BY <1>23 DEF Raises, Leave, InpainterReleased
<1>24. CASE StopRender
  BY <1>24 DEF StopRender
<1>25. CASE AwaitRender
  BY <1>25 DEF AwaitRender
<1>26. CASE AwaitWorker
  BY <1>26 DEF AwaitWorker, WorkerIdle
<1>27. CASE StopSecond
  BY <1>27 DEF StopSecond, Returns
<1>28. CASE BatchReturns
  BY <1>28 DEF BatchReturns, Returns, GoOn
<1>29. ASSUME NEW p \in Page, DetectPage(p) PROVE JobsKept'
  BY <1>29 DEF DetectPage
<1>30. ASSUME NEW p \in Page, OcrPage(p) PROVE JobsKept'
  BY <1>30 DEF OcrPage
<1>31. ASSUME NEW p \in Page, RetryOcrPage(p) PROVE JobsKept'
  BY <1>31 DEF RetryOcrPage
<1>32. ASSUME NEW p \in Page, TranslatePage(p) PROVE JobsKept'
  BY <1>32 DEF TranslatePage
<1>33. ASSUME NEW p \in Page, LateGemma(p) PROVE JobsKept'
  BY <1>33 DEF LateGemma, StartGemma
<1>34. ASSUME NEW p \in Page, PlanInpaintPage(p) PROVE JobsKept'
  BY <1>34 DEF PlanInpaintPage, InpaintUnchanged
<1>35. ASSUME NEW p \in Page, InpaintPage(p) PROVE JobsKept'
  BY <1>35 DEF InpaintPage, InpaintUnchanged
<1> QED
  BY <1>1, <1>2, <1>3, <1>4, <1>5, <1>6, <1>7, <1>8, <1>9, <1>10, <1>11, <1>12, <1>13, <1>14,
      <1>15, <1>16, <1>17, <1>18, <1>19, <1>20, <1>21, <1>22, <1>23, <1>24, <1>25, <1>26, <1>27,
      <1>28, <1>29, <1>30, <1>31, <1>32, <1>33, <1>34, <1>35 DEF PipelineMove

\* A step of a call keeps what is called, and touches no other call.
LEMMA CallGoesOn ==
  ASSUME NEW t \in Thread, TypeOK, CallStep(t)
  PROVE  /\ call[t] \in Call /\ call[t] # None /\ call'[t] # None
         /\ call'[t].op = call[t].op /\ call'[t].service = call[t].service
         /\ \A u \in Thread : u # t => call'[u] = call[u]
         /\ UNCHANGED <<at, nextPage, awaiting, gemmaStarted, deferred, outcome, page, todo, output,
                        cancelled, stopping, job, known>>
<1>1. call[t] \in Call /\ call[t] # None
  BY CallMoves
<1>2. PICK place \in {"bracket", "manager", "body"} \cup Results : Move(t, place)
  BY CallMoves
<1>3. call'[t] # None /\ call'[t].op = call[t].op /\ \A u \in Thread : u # t => call'[u] = call[u]
  BY <1>1, <1>2, MoveType DEF TypeOK, CallTyped
<1>4. call' = [call EXCEPT ![t] = [call[t] EXCEPT !.at = place]]
  BY <1>2 DEF Move
<1>5. call'[t].service = call[t].service
  BY <1>1, <1>4 DEF TypeOK, CallTyped, Call
<1> QED
  BY <1>1, <1>3, <1>5 DEF CallStep, control, work, renders, prewarm

LEMMA CallKeepsJobs ==
  ASSUME NEW t \in Thread, TypeOK, JobsKept, CallStep(t)
  PROVE  JobsKept'
<1> USE CallGoesOn
<1>1. (\A k \in Key : JobCalled(k)' /\ JobOrdered(k)') /\ WorkerCalled'
  BY DEF JobsKept, JobCalled, JobOrdered, WorkerCalled, Unfinished
<1>2. JobsSubmitted' /\ JobsEnded'
  BY DEF JobsKept, JobsSubmitted, JobsEnded, Unfinished, WorkerIdle
<1> QED
  BY <1>1, <1>2 DEF JobsKept

\* The worker takes the jobs in their order and is done with one after the other.
LEMMA TakeKeepsJobs ==
  ASSUME NEW k \in Key, Typed, JobsKept, TakeJob(k)
  PROVE  JobsKept'
<1> USE Order
<1>1. job[k] = "queued" /\ call["worker"] = None /\ \A b \in Before(k) : ~Unfinished(b)
  BY DEF TakeJob
<1>2. UNCHANGED <<at, awaiting, known, gemmaStarted, stopping, cancelled>>
  BY DEF TakeJob, control, work, prewarm
<1>3. \A j \in Key : job[j] # "running"
  BY <1>1 DEF JobsKept, JobCalled
<1>4. job \in [Key -> {"none", "queued", "running"} \cup Results]
  BY DEF Typed, TypeOK, PrewarmTyped
<1>5. ~stopping
  BY <1>1 DEF JobsKept, JobsEnded
<1>6. ASSUME CancelSeen PROVE JobsKept'
  <2>1. /\ UNCHANGED call
        /\ \E end \in {"done", "cancelled"} : job' = [job EXCEPT ![k] = end]
    BY <1>6 DEF TakeJob
  <2>2. \A j \in Key : Unfinished(j)' => Unfinished(j)
    BY <2>1, <1>4 DEF Unfinished
  <2>3. \A j \in Key : (job'[j] # "none" <=> job[j] # "none") /\ (j # k => job'[j] = job[j])
    BY <2>1, <1>4, <1>1
  <2>4. job'[k] \in Results
    BY <2>1, <1>4
  <2>5. \A j \in Key : JobCalled(j)' /\ JobOrdered(j)'
    <3> TAKE j \in Key
    <3>1. job'[j] # "running"
      BY <2>3, <2>4, <1>3
    <3>2. \A b \in Before(j) : b \in Key
      OBVIOUS
    <3> QED
      BY <1>1, <1>2, <2>2, <2>3, <2>4, <3>1, <3>2 DEF JobsKept, JobCalled, JobOrdered
  <2>6. WorkerCalled'
    BY <1>1, <2>1 DEF WorkerCalled
  <2>7. JobsSubmitted' /\ JobsEnded'
    BY <1>1, <1>2, <1>5, <2>2, <2>3 DEF JobsKept, JobsSubmitted, JobsEnded, BeforeOcr, WorkerIdle
  <2> QED
    BY <2>5, <2>6, <2>7 DEF JobsKept
<1>7. ASSUME ~CancelSeen PROVE JobsKept'
  <2>1. job' = [job EXCEPT ![k] = "running"] /\ RunnerCall(k)
    BY <1>7 DEF TakeJob
  <2>2. /\ call'["worker"] # None
        /\ call'["worker"].op = (IF k = "container" THEN "prepare" ELSE "start")
        /\ call'["worker"].service = (IF k = "gemma" THEN "gemma" ELSE "ocr")
    BY <2>1 DEF RunnerCall, Begin, Typed, TypeOK, CallTyped, Call
  <2>3. \A j \in Key : (Unfinished(j)' <=> Unfinished(j)) /\ (j # k => job'[j] = job[j])
    BY <2>1, <1>1, <1>4 DEF Unfinished
  <2>4. job'[k] = "running"
    BY <2>1, <1>4
  <2>5. \A j \in Key : JobCalled(j)' /\ JobOrdered(j)'
    <3> TAKE j \in Key
    <3>1. \A b \in Before(j) : b \in Key
      OBVIOUS
    <3> QED
      BY <1>1, <1>2, <1>3, <2>2, <2>3, <3>1 DEF JobsKept, JobCalled, JobOrdered
  <2>6. WorkerCalled'
    BY <2>4 DEF WorkerCalled
  <2>7. JobsSubmitted' /\ JobsEnded'
    BY <1>1, <1>2, <1>5, <2>3, <2>4 DEF JobsKept, JobsSubmitted, JobsEnded, BeforeOcr, WorkerIdle
  <2> QED
    BY <2>5, <2>6, <2>7 DEF JobsKept
<1> QED
  BY <1>6, <1>7

LEMMA FinishKeepsJobs ==
  ASSUME NEW k \in Key, Typed, JobsKept, FinishJob(k)
  PROVE  JobsKept'
<1> USE Order
<1>1. job[k] = "running" /\ call["worker"].at \in Results
  BY DEF FinishJob
<1>2. UNCHANGED <<at, awaiting, known, gemmaStarted, stopping, cancelled>>
  BY DEF FinishJob, control, work, prewarm
<1>3. job \in [Key -> {"none", "queued", "running"} \cup Results]
  BY DEF Typed, TypeOK, PrewarmTyped
<1>4. job' = [job EXCEPT ![k] = call["worker"].at] /\ call'["worker"] = None
  BY DEF FinishJob, Typed, TypeOK, CallTyped
<1>5. job'[k] \in Results /\ \A j \in Key : j # k => job'[j] = job[j]
  BY <1>1, <1>3, <1>4
<1>6. \A j \in Key : Unfinished(j)' => Unfinished(j) /\ j # k
  BY <1>5 DEF Unfinished
<1>7. \A j \in Key : job[j] = "running" => j = k
  <2>1. \A j \in Key : job[j] = "running" => \A b \in Before(j) : job[b] # "running"
    BY DEF JobsKept, JobOrdered, Unfinished
  <2> QED
    BY <1>1, <2>1
<1>8. \A j \in Key : JobCalled(j)' /\ JobOrdered(j)'
  <2> TAKE j \in Key
  <2>1. \A b \in Before(j) : b \in Key
    OBVIOUS
  <2> QED
    BY <1>1, <1>2, <1>5, <1>6, <1>7, <2>1 DEF JobsKept, JobCalled, JobOrdered
<1>9. WorkerCalled'
  BY <1>4 DEF WorkerCalled
<1>10. JobsSubmitted' /\ JobsEnded'
  BY <1>1, <1>2, <1>5, <1>6 DEF JobsKept, JobsSubmitted, JobsEnded, BeforeOcr, WorkerIdle
<1> QED
  BY <1>8, <1>9, <1>10 DEF JobsKept

\* The pipeline dismisses the worker.
LEMMA StopKeepsJobs ==
  ASSUME Typed, JobsKept, CallsKept, StopPrewarm, stopping' = TRUE
  PROVE  JobsKept'
<1> USE Order
<1>1. job \in [Key -> {"none", "queued", "running"} \cup Results]
  BY DEF Typed, TypeOK, PrewarmTyped
<1>2. /\ at = "stopPrewarm" /\ at' = "awaitWorker" /\ UNCHANGED <<awaiting, gemmaStarted, call>>
      /\ job' = [k \in Key |-> IF job[k] = "queued" THEN "cancelled" ELSE job[k]]
  BY DEF StopPrewarm
<1>3. \A k \in Key : /\ job'[k] = "running" <=> job[k] = "running"
                     /\ job'[k] # "queued" /\ (job'[k] # "none" <=> job[k] # "none")
  BY <1>1, <1>2
<1>4. awaiting = None
  BY <1>2 DEF CallsKept, AwaitPlace, Typed, TypeOK, ControlTyped
<1>5. \A k \in Key : JobCalled(k)' /\ JobOrdered(k)'
  <2> TAKE k \in Key
  <2>1. \A b \in Before(k) : b \in Key
    OBVIOUS
  <2> QED
    BY <1>2, <1>3, <2>1 DEF JobsKept, JobCalled, JobOrdered, Unfinished
<1>6. WorkerCalled'
  BY <1>2, <1>3 DEF JobsKept, WorkerCalled
<1>7. JobsSubmitted'
  BY <1>2, <1>3, <1>4 DEF JobsKept, JobsSubmitted, BeforeOcr, OcrPlaces, BeforeGemma, Unfinished,
      Finally
<1>8. JobsEnded'
  BY <1>2, <1>3 DEF JobsEnded, Dismissed
<1> QED
  BY <1>5, <1>6, <1>7, <1>8 DEF JobsKept

-----------------------------------------------------------------------------
(* The calls and their locks.                                               *)

\* An exception gives up the pipeline's call, and the inpainter's lease at most.
LEMMA LeaveKeepsCalls ==
  ASSUME Typed, CallsKept, NEW end, Leave(end),
         call["pipeline"] = None \/ call["pipeline"].at \in Results,
         (UNCHANGED gpu /\ at # "infer") \/ InpainterReleased \/ InpainterKept
  PROVE  CallsKept'
<1>1. /\ at' = "stopRender" /\ awaiting' = None /\ UNCHANGED job
      /\ call'["worker"] = call["worker"] /\ call'["pipeline"] = None
  BY LeavesWorker DEF Leave, prewarm, Typed, TypeOK
<1>2. call["worker"] # None => call["worker"].service # "inpainter"
  BY DEF Typed, TypeOK, CallTyped, Call
<1>3. ~InBracket("pipeline")
  BY DEF InBracket, InCall
<1>4. command' \in {command, None} /\ command' # "pipeline"
  BY <1>3 DEF InpainterReleased, InpainterKept, gpu, CallsKept, CommandKept
<1>5. holder' = holder \/ holder = "inpainter"
  BY DEF InpainterReleased, InpainterKept, gpu
<1>6. command = "worker" => command' = "worker"
  BY DEF InpainterReleased, InpainterKept, gpu
<1>7. CommandKept' /\ ManagerForOcr'
  BY <1>1, <1>4, <1>6 DEF CallsKept, CommandKept, ManagerForOcr, InBracket, InCall
<1>8. \A t \in Thread : LeaseOf(t)'
  <2>1. LeaseOf("pipeline")'
    BY <1>1 DEF LeaseOf, InBracket, InCall
  <2>2. InBracket("worker")' => InBracket("worker") /\ call["worker"] # None
    BY <1>1 DEF InBracket, InCall
  <2>3. LeaseOf("worker")'
    BY <1>1, <1>2, <1>5, <2>2 DEF CallsKept, LeaseOf
  <2> QED
    BY <2>1, <2>3
<1>9. PipelineCall' /\ AwaitPlace' /\ StartAlone'
  BY <1>1 DEF PipelineCall, AwaitPlace, StartAlone
<1> QED
  BY <1>7, <1>8, <1>9 DEF CallsKept

\* The pipeline calls each manager at its place, and starts a model only when the worker is
\* done.
LEMMA MoveKeepsCalls ==
  ASSUME Typed, Ordered, JobsKept, CallsKept, PipelineMove, UNCHANGED <<cancelled, stopping>>
  PROVE  CallsKept'
<1> USE Order DEF Typed, TypeOK, CallTyped, PrewarmTyped, AwaitsInStage, PipelineQuiet,
    QuietPlaces, InCall, InBracket, CallsKept, PipelineCall, AwaitPlace, StartAlone, CommandKept,
    ManagerForOcr, LeaseOf, AtPage, LoopOver, Checked, Begin, WorkerIdle, Unfinished, control,
    work, renders, prewarm, gpu
<1>1. CASE Preflight
  BY <1>1 DEF Preflight
<1>2. CASE DetectEnds
  BY <1>2 DEF DetectEnds
<1>3. CASE StartOcrPrewarm
  BY <1>3 DEF StartOcrPrewarm, ContainerAwaited
<1>4. CASE PlanOcr
  BY <1>4 DEF PlanOcr
<1>5. CASE OcrLoaded
  BY <1>5 DEF OcrLoaded
<1>6. CASE OcrEnds
  BY <1>6 DEF OcrEnds, ReleaseAfter
<1>7. CASE PlanTranslation
  BY <1>7 DEF PlanTranslation, StartGemma
<1>8. CASE TranslateEnds
  BY <1>8 DEF TranslateEnds, ReleaseAfter
<1>9. CASE StopGemma
  BY <1>9 DEF StopGemma, ReleaseAfter
<1>10. CASE AwaitPrewarm
  <2>1. CASE Leave("cancelled")
    <3>1. at \in {"loadOcr", "ocr", "translate"} /\ call["pipeline"] = None
          /\ UNCHANGED gpu /\ UNCHANGED faults
      BY <1>10 DEF AwaitPrewarm, AwaitsInStage
    <3> QED
      BY <2>1, <3>1, LeaveKeepsCalls
  <2>2. CASE ~Leave("cancelled")
    <3>1. /\ awaiting \in {"ocr", "gemma"} /\ call["pipeline"] = None /\ at \in {"loadOcr",
               "ocr", "translate"}
          /\ awaiting \in known => ~Unfinished(awaiting)
          /\ awaiting' = None /\ known' = known \ {awaiting}
          /\ UNCHANGED <<at, gemmaStarted, job, faults, gpu, deferred, todo, page, outcome>>
          /\ \/ UNCHANGED call /\ awaiting \in known /\ job[awaiting] = "done"
             \/ FallbackStart(awaiting)
      BY <1>10, <2>2 DEF AwaitPrewarm, ControlTyped, AwaitsInStage
    <3>2. call'["worker"] = call["worker"]
      BY <3>1 DEF FallbackStart
    <3>3. awaiting = "ocr" => "ocr" \notin known \/ ~Unfinished("ocr")
      BY <3>1
    <3>4. FallbackStart(awaiting) => WorkerIdle
      BY <3>1, <3>3 DEF JobsKept, JobOrdered, JobsSubmitted, JobsEnded, Unfinished, OcrPlaces,
          BeforeGemma, Ordered, PipelineKeepsOut, ContainerPlaces
    <3>5. awaiting = "gemma" => gemmaStarted
      BY DEF JobsKept, JobsSubmitted
    <3> QED
      BY <3>1, <3>2, <3>4, <3>5 DEF FallbackStart, Unfinished
  <2> QED
    BY <2>1, <2>2
<1>11. CASE CallWorked
  BY <1>11 DEF CallWorked, Returns, GoOn
<1>12. CASE CallFailed
  <2>1. /\ at \in {"loadOcr", "ocr", "ocrRelease", "translate", "gemmaRelease"}
        /\ call["pipeline"] # None /\ call["pipeline"].at \in {"failed", "cancelled"}
        /\ Leave(call["pipeline"].at) /\ UNCHANGED gpu /\ UNCHANGED faults
    BY <1>12 DEF CallFailed, Returns
  <2> QED
    BY <2>1, LeaveKeepsCalls
<1>13. CASE RetryFailed
  BY <1>13 DEF RetryFailed, Returns, GoOn
<1>14. CASE GemmaStopped
  BY <1>14 DEF GemmaStopped, Returns, GoOn
<1>15. CASE PlanInpaintEnds
  BY <1>15 DEF PlanInpaintEnds, InpaintUnchanged
<1>16. CASE LoadInpainter
  BY <1>16 DEF LoadInpainter, InpaintUnchanged
<1>17. CASE InpainterRefused
  BY <1>17, LeaveKeepsCalls DEF InpainterRefused
<1>18. CASE InpaintEnds
  <2>1. CASE Leave("failed")
    BY <1>18, <2>1, LeaveKeepsCalls DEF InpaintEnds
  <2>2. CASE ~Leave("failed")
    <3>1. at' = "drain" /\ InpainterReleased /\ call' = call /\ UNCHANGED <<awaiting, job>>
      BY <1>18, <2>2 DEF InpaintEnds
    <3>2. call["worker"] # None => call["worker"].service # "inpainter"
      BY DEF Call
    <3> QED
      BY <1>18, <3>1, <3>2 DEF InpaintEnds, InpainterReleased
  <2> QED
    BY <2>1, <2>2
<1>19. CASE DrainTail
  BY <1>19 DEF DrainTail
<1>20. CASE DrainEnds
  BY <1>20 DEF DrainEnds, Drained
<1>21. CASE Reconcile
  <2>1. at = "reconcile" /\ (Leave("failed") \/ (Goto("stopRender") /\ UNCHANGED <<awaiting,
      gemmaStarted, prewarm, call>>))
    BY <1>21 DEF Reconcile
  <2>2. UNCHANGED gpu
    BY <1>21 DEF Reconcile
  <2>3. CASE Leave("failed")
    BY <2>1, <2>2, <2>3, LeaveKeepsCalls
  <2>4. CASE ~Leave("failed")
    BY <2>1, <2>2, <2>4
  <2> QED
    BY <2>3, <2>4
<1>22. CASE NoticeCancel
  BY <1>22, LeaveKeepsCalls DEF NoticeCancel, Cancelled, Unwind
<1>23. CASE Raises
  BY <1>23, LeaveKeepsCalls DEF Raises
<1>24. CASE StopRender
  BY <1>24 DEF StopRender
<1>25. CASE AwaitRender
  BY <1>25 DEF AwaitRender
<1>26. CASE AwaitWorker
  BY <1>26 DEF AwaitWorker, WorkerIdle
<1>27. CASE StopSecond
  BY <1>27 DEF StopSecond, Returns
<1>28. CASE BatchReturns
  BY <1>28 DEF BatchReturns, Returns, GoOn
<1>29. ASSUME NEW p \in Page, DetectPage(p) PROVE CallsKept'
  BY <1>29 DEF DetectPage
<1>30. ASSUME NEW p \in Page, OcrPage(p) PROVE CallsKept'
  BY <1>30 DEF OcrPage
<1>31. ASSUME NEW p \in Page, RetryOcrPage(p) PROVE CallsKept'
  BY <1>31 DEF RetryOcrPage
<1>32. ASSUME NEW p \in Page, TranslatePage(p) PROVE CallsKept'
  BY <1>32 DEF TranslatePage
<1>33. ASSUME NEW p \in Page, LateGemma(p) PROVE CallsKept'
  BY <1>33 DEF LateGemma, StartGemma
<1>34. ASSUME NEW p \in Page, PlanInpaintPage(p) PROVE CallsKept'
  BY <1>34 DEF PlanInpaintPage, InpaintUnchanged
<1>35. ASSUME NEW p \in Page, InpaintPage(p) PROVE CallsKept'
  BY <1>35 DEF InpaintPage, InpaintUnchanged
<1> QED
  BY <1>1, <1>2, <1>3, <1>4, <1>5, <1>6, <1>7, <1>8, <1>9, <1>10, <1>11, <1>12, <1>13, <1>14,
      <1>15, <1>16, <1>17, <1>18, <1>19, <1>20, <1>21, <1>22, <1>23, <1>24, <1>25, <1>26, <1>27,
      <1>28, <1>29, <1>30, <1>31, <1>32, <1>33, <1>34, <1>35 DEF PipelineMove

\* A call takes and gives back the command lock, and the lease is its service's meanwhile.
LEMMA CallKeepsCalls ==
  ASSUME NEW t \in Thread, Typed, JobsKept, CallsKept, CallStep(t)
  PROVE  CallsKept'
<1>1. /\ call[t] \in Call /\ call[t] # None /\ call'[t] # None
      /\ call'[t].op = call[t].op /\ call'[t].service = call[t].service
      /\ \A u \in Thread : u # t => call'[u] = call[u]
      /\ UNCHANGED <<at, awaiting, job, gemmaStarted>>
  BY CallGoesOn DEF Typed
<1>2. ASSUME NEW place \in {"bracket", "manager", "body"} \cup Results, Move(t, place)
      PROVE  call'[t].at = place
  BY <1>1, <1>2, MoveType DEF Typed, TypeOK, CallTyped
<1>3. PipelineCall' /\ AwaitPlace' /\ StartAlone'
  <2>1. call'["pipeline"] # None => /\ call["pipeline"] # None
                                    /\ call'["pipeline"].op = call["pipeline"].op
                                    /\ call'["pipeline"].service = call["pipeline"].service
    BY <1>1
  <2> QED
    BY <1>1, <2>1 DEF CallsKept, PipelineCall, AwaitPlace, StartAlone, WorkerIdle, Unfinished
<1>4. t = "worker" => call[t].op # "release"
  BY <1>1 DEF JobsKept, WorkerCalled, JobCalled
<1> DEFINE Kept == /\ InBracket(t)' => /\ command' = t
                                       /\ holder' = call[t].service \/ (t = "pipeline" /\ Foreign)
                   /\ command' = t => InBracket(t)'
                   /\ command' \in {command, None, t}
                   /\ command' # command => command \in {None, t}
                   /\ (holder' # holder => command = None \/ command = t)
                   /\ command = t => InBracket(t)
                   /\ InCall(t, "manager")' => call[t].service = "ocr"
<1>5. Kept
  <2> USE <1>1, <1>2 DEF CallsKept, CommandKept, ManagerForOcr, LeaseOf, InBracket, InCall,
      Ending, Foreign
  <2>0. command = t => InBracket(t)
    BY <1>1 DEF PipelineCall
  <2>1. CASE EnterBracket(t)
    <3>1. command = None /\ command' = t /\ call[t].at = "bracket"
      BY <2>1 DEF EnterBracket
    <3>2. holder' = call[t].service \/ (t = "pipeline" /\ Foreign)
      BY <2>1, <1>4 DEF EnterBracket, Refused
    <3>3. call'[t].at = IF call[t].op # "prepare" /\ call[t].service = "ocr" THEN "manager" ELSE "body"
      BY <2>1 DEF EnterBracket
    <3> QED
      BY <2>0, <3>1, <3>2, <3>3
  <2>2. CASE RefuseBracket(t)
    <3>1. command' = command /\ holder' = holder /\ call[t].at = "bracket" /\ call'[t].at \in Results
      BY <2>2 DEF RefuseBracket
    <3> QED
      BY <2>0, <3>1
  <2>3. CASE EnterManager(t)
    <3>1. command' = command /\ holder' = holder /\ call[t].at = "manager"
          /\ call'[t].at = IF call[t].op = "prepare" THEN "bracket" ELSE "body"
      BY <2>3 DEF EnterManager
    <3> QED
      BY <2>0, <3>1
  <2>4. ASSUME NEW result \in Results, call[t].at = "body", End(t, result) PROVE Kept
    <3>1. command' = None /\ call'[t].at = result /\ command = t
      BY <2>4 DEF End
    <3> QED
      BY <2>0, <2>4, <3>1
  <2>5. ASSUME ~EnterBracket(t), ~RefuseBracket(t), ~EnterManager(t)
        PROVE  call[t].at = "body" /\ \E result \in Results : End(t, result)
    BY <2>5 DEF CallStep, StartSucceeds, StartFails, StartAndCleanupFail, ReleaseSucceeds,
                  ReleaseFails, PrepareEnds
  <2> HIDE DEF Kept
  <2> QED
    BY <2>1, <2>2, <2>3, <2>4, <2>5
<1>6. ASSUME NEW u \in Thread, u # t
      PROVE  /\ InBracket(u)' <=> InBracket(u)
             /\ InCall(u, "manager")' <=> InCall(u, "manager")
             /\ call'[u] = call[u]
  BY <1>1, <1>6 DEF InBracket, InCall
<1>7. ManagerForOcr'
  <2> SUFFICES ASSUME NEW u \in Thread, InCall(u, "manager")' PROVE call'[u].service = "ocr"
    BY DEF ManagerForOcr
  <2> QED
    BY <1>1, <1>5, <1>6 DEF CallsKept, ManagerForOcr
<1>8. \A u \in Thread : LeaseOf(u)' /\ (InBracket(u)' => command' = u)
  <2> TAKE u \in Thread
  <2>1. CASE u = t
    BY <1>1, <1>5, <2>1 DEF LeaseOf, Foreign
  <2>2. CASE u # t
    BY <1>1, <1>5, <1>6, <2>2 DEF CallsKept, LeaseOf, CommandKept
  <2> QED
    BY <2>1, <2>2
<1>9. command' = "worker" => InBracket("worker")'
  BY <1>5, <1>6 DEF CallsKept, CommandKept
<1>10. command' = "pipeline" =>
         InBracket("pipeline")' \/ (at' = "infer" /\ holder' = "inpainter" /\ call'["pipeline"] = None)
  BY <1>1, <1>5, <1>6, NoneAssumption DEF CallsKept, CommandKept
<1> QED
  BY <1>3, <1>7, <1>8, <1>9, <1>10 DEF CallsKept, CommandKept

\* The worker begins and ends its calls without any lock.
LEMMA TakeKeepsCalls ==
  ASSUME NEW k \in Key, Typed, JobsKept, CallsKept, TakeJob(k)
  PROVE  CallsKept'
<1>1. job[k] = "queued" /\ call["worker"] = None /\ UNCHANGED <<at, awaiting, gemmaStarted, gpu>>
  BY DEF TakeJob, control
<1>2. call'["pipeline"] = call["pipeline"] /\ \A b \in Key : Unfinished(b)' => Unfinished(b)
  BY <1>1 DEF TakeJob, RunnerCall, Begin, Typed, TypeOK, CallTyped, PrewarmTyped, Unfinished
<1>3. call'["worker"] # None =>
        \/ call'["worker"].at = "bracket"
        \/ /\ call'["worker"].at = "manager" /\ call'["worker"].op = "prepare"
           /\ call'["worker"].service = "ocr"
  BY <1>1 DEF TakeJob, RunnerCall, Begin, Typed, TypeOK, CallTyped
<1>4. (InBracket("pipeline")' <=> InBracket("pipeline")) /\ ~InBracket("worker")' /\ command # "worker"
  BY <1>1, <1>2, <1>3 DEF InBracket, InCall, CallsKept, CommandKept
<1>5. CommandKept' /\ \A t \in Thread : LeaseOf(t)'
  BY <1>1, <1>2, <1>4 DEF CallsKept, CommandKept, LeaseOf, gpu
<1>6. ManagerForOcr'
  BY <1>2, <1>3 DEF CallsKept, ManagerForOcr, InCall
<1>7. PipelineCall' /\ AwaitPlace' /\ StartAlone'
  BY <1>1, <1>2 DEF CallsKept, PipelineCall, AwaitPlace, StartAlone, WorkerIdle
<1> QED
  BY <1>5, <1>6, <1>7 DEF CallsKept

LEMMA FinishKeepsCalls ==
  ASSUME NEW k \in Key, Typed, JobsKept, CallsKept, FinishJob(k)
  PROVE  CallsKept'
<1>1. /\ call["worker"].at \in Results /\ UNCHANGED <<at, awaiting, gemmaStarted, gpu>>
      /\ call'["pipeline"] = call["pipeline"] /\ call'["worker"] = None
  BY DEF FinishJob, control, Typed, TypeOK, CallTyped
<1>2. \A b \in Key : Unfinished(b)' => Unfinished(b)
  BY DEF FinishJob, Typed, TypeOK, PrewarmTyped, Unfinished
<1>3. (InBracket("pipeline")' <=> InBracket("pipeline")) /\ ~InBracket("worker")' /\ command # "worker"
  BY <1>1 DEF InBracket, InCall, CallsKept, CommandKept
<1>4. CommandKept' /\ \A t \in Thread : LeaseOf(t)'
  BY <1>1, <1>3 DEF CallsKept, CommandKept, LeaseOf, gpu
<1>5. ManagerForOcr'
  BY <1>1 DEF CallsKept, ManagerForOcr, InCall
<1>6. PipelineCall' /\ AwaitPlace' /\ StartAlone'
  BY <1>1, <1>2 DEF CallsKept, PipelineCall, AwaitPlace, StartAlone, WorkerIdle
<1> QED
  BY <1>4, <1>5, <1>6 DEF CallsKept

LEMMA StopKeepsCalls ==
  ASSUME Typed, Ordered, JobsKept, CallsKept, StopPrewarm
  PROVE  CallsKept'
<1>1. /\ at = "stopPrewarm" /\ at' = "awaitWorker" /\ UNCHANGED <<awaiting, gemmaStarted, call,
           gpu>>
      /\ call["pipeline"] = None
  BY DEF StopPrewarm, Ordered, PipelineQuiet, QuietPlaces
<1>2. command # "pipeline"
  BY <1>1 DEF CallsKept, CommandKept, InBracket, InCall
<1>3. awaiting = None
  BY <1>1 DEF CallsKept, AwaitPlace, Typed, TypeOK, ControlTyped
<1>4. PipelineCall' /\ AwaitPlace' /\ StartAlone'
  BY <1>1, <1>3 DEF PipelineCall, AwaitPlace, StartAlone
<1>5. CommandKept' /\ ManagerForOcr' /\ \A t \in Thread : LeaseOf(t)'
  BY <1>1, <1>2 DEF CallsKept, CommandKept, ManagerForOcr, LeaseOf, InBracket, InCall, gpu
<1> QED
  BY <1>4, <1>5 DEF CallsKept

-----------------------------------------------------------------------------
(* The lease, while nothing fails.                                          *)

\* An exception without a fault leaves no lease to the inpainter.
LEMMA LeaveKeepsFaultless ==
  ASSUME Typed, CallsKept, Faultless, NEW end, Leave(end), UNCHANGED <<cancelled, stopping>>,
         call["pipeline"] = None \/ call["pipeline"].at \in Results,
         \/ UNCHANGED gpu /\ at # "infer" /\ UNCHANGED faults
         \/ InpainterReleased /\ (UNCHANGED faults \/ faults' = faults + 1)
         \/ InpainterKept /\ faults' = faults + 1
  PROVE  Faultless'
<1> SUFFICES ASSUME faults' = 0 PROVE (Clean /\ LeaseByStage /\ LeaseAtEnd)'
  BY DEF Faultless
<1>1. faults \in Nat
  BY DEF Typed, TypeOK, GpuTyped
<1>2. faults = 0 /\ ((UNCHANGED gpu /\ at # "infer") \/ InpainterReleased)
  BY <1>1
<1>3. at' = "stopRender" /\ call'["pipeline"] = None
  BY LeavesWorker DEF Leave, Typed, TypeOK
<1>4. Clean'
  BY <1>2 DEF Faultless, Clean, InpainterReleased, gpu
<1>5. LeaseByStage' /\ LeaseAtEnd'
  BY <1>3 DEF LeaseByStage, LeaseAtEnd, Arrived, InCall, BeforeOcr, OcrPlaces, Dismissed
<1> QED
  BY <1>4, <1>5

LEMMA LeaveKeepsDeferral ==
  ASSUME NEW end, Leave(end)
  PROVE  DeferralKept'
  BY DEF Leave, DeferralKept, DeferralPlaces

\* While nothing fails the lease goes from stage to stage.
LEMMA MoveKeepsFaultless ==
  ASSUME Typed, Ordered, JobsKept, CallsKept, Faultless, PipelineMove, UNCHANGED <<cancelled,
      stopping>>
  PROVE  Faultless'
<1> USE DEF Typed, TypeOK, CallTyped, GpuTyped, PrewarmTyped, AwaitsInStage, PipelineQuiet,
    QuietPlaces, Places, Dismissed, BeforeOcr, OcrPlaces, InCall, InBracket, CallsKept,
    PipelineCall, CommandKept, LeaseOf, AtPage, LoopOver, Checked, Begin, Unfinished, control,
    work, renders, prewarm, gpu, Faultless, Clean, LeaseByStage, LeaseAtEnd, Arrived
<1>1. CASE Preflight
  BY <1>1 DEF Preflight
<1>2. CASE DetectEnds
  BY <1>2 DEF DetectEnds
<1>3. CASE StartOcrPrewarm
  BY <1>3 DEF StartOcrPrewarm, ContainerAwaited
<1>4. CASE PlanOcr
  BY <1>4 DEF PlanOcr
<1>5. CASE OcrLoaded
  BY <1>5 DEF OcrLoaded
<1>6. CASE OcrEnds
  BY <1>6 DEF OcrEnds, ReleaseAfter
<1>7. CASE PlanTranslation
  BY <1>7 DEF PlanTranslation, StartGemma
<1>8. CASE TranslateEnds
  BY <1>8 DEF TranslateEnds, ReleaseAfter
<1>9. CASE StopGemma
  BY <1>9 DEF StopGemma, ReleaseAfter
<1>10. CASE AwaitPrewarm
  <2>1. CASE Leave("cancelled")
    <3>1. at \in {"loadOcr", "ocr", "translate"} /\ call["pipeline"] = None
          /\ UNCHANGED gpu /\ UNCHANGED faults
      BY <1>10 DEF AwaitPrewarm, AwaitsInStage
    <3> QED
      BY <2>1, <3>1, LeaveKeepsFaultless
  <2>2. CASE ~Leave("cancelled")
    <3>1. /\ awaiting \in {"ocr", "gemma"} /\ call["pipeline"] = None /\ at \in {"loadOcr",
               "ocr", "translate"}
          /\ awaiting \in known => ~Unfinished(awaiting)
          /\ awaiting' = None /\ known' = known \ {awaiting}
          /\ UNCHANGED <<at, gemmaStarted, job, faults, gpu, deferred, todo, page, outcome>>
          /\ \/ UNCHANGED call /\ awaiting \in known /\ job[awaiting] = "done"
             \/ FallbackStart(awaiting)
      BY <1>10, <2>2 DEF AwaitPrewarm, ControlTyped, AwaitsInStage
    <3>2. call'["worker"] = call["worker"]
      BY <3>1 DEF FallbackStart
    <3>3. call'["pipeline"] = None \/ call'["pipeline"].at = "bracket"
      BY <3>1 DEF FallbackStart
    <3>4. ~Arrived("done")' /\ ~Arrived("failed")' /\ ~Arrived("cancelled")'
      BY <3>3
    <3>5. "ocr" \notin known' => "ocr" \notin known \/ at \in {"loadOcr", "ocr"}
      BY <3>1 DEF AwaitPlace
    <3> HIDE DEF Arrived
    <3> QED
      BY <3>1, <3>4, <3>5
  <2> QED
    BY <2>1, <2>2
<1>11. CASE CallWorked
  BY <1>11 DEF CallWorked, Returns, GoOn
<1>12. CASE CallFailed
  <2>1. /\ at \in {"loadOcr", "ocr", "ocrRelease", "translate", "gemmaRelease"}
        /\ call["pipeline"] # None /\ call["pipeline"].at \in {"failed", "cancelled"}
        /\ Leave(call["pipeline"].at) /\ UNCHANGED gpu /\ UNCHANGED faults
    BY <1>12 DEF CallFailed, Returns
  <2> QED
    BY <2>1, LeaveKeepsFaultless
<1>13. CASE RetryFailed
  BY <1>13 DEF RetryFailed, Returns, GoOn
<1>14. CASE GemmaStopped
  <2>1. /\ at = "gemmaStop" /\ at' = "inpaint"
        /\ call["pipeline"] # None /\ call["pipeline"].at \in Results
        /\ call'["pipeline"] = None /\ UNCHANGED <<known, gpu, faults>>
    BY <1>14 DEF GemmaStopped, Returns, GoOn
  <2>2. ~stopping
    BY <2>1 DEF JobsKept, JobsEnded, Dismissed
  <2> QED
    BY <2>1, <2>2
<1>15. CASE PlanInpaintEnds
  BY <1>15 DEF PlanInpaintEnds, InpaintUnchanged
<1>16. CASE LoadInpainter
  BY <1>16 DEF LoadInpainter, InpaintUnchanged
<1>17. CASE InpainterRefused
  BY <1>17, LeaveKeepsFaultless DEF InpainterRefused
<1>18. CASE InpaintEnds
  <2>1. CASE Leave("failed")
    BY <1>18, <2>1, LeaveKeepsFaultless DEF InpaintEnds
  <2>2. CASE ~Leave("failed")
    <3>1. at' = "drain" /\ InpainterReleased /\ call' = call /\ UNCHANGED <<awaiting, job, faults>>
      BY <1>18, <2>2 DEF InpaintEnds
    <3> QED
      BY <1>18, <3>1 DEF InpaintEnds, InpainterReleased
  <2> QED
    BY <2>1, <2>2
<1>19. CASE DrainTail
  BY <1>19 DEF DrainTail
<1>20. CASE DrainEnds
  BY <1>20 DEF DrainEnds, Drained
<1>21. CASE Reconcile
  <2>1. /\ at = "reconcile" /\ UNCHANGED gpu
        /\ \/ Leave("failed") /\ faults' = faults + 1
           \/ Goto("stopRender") /\ UNCHANGED <<awaiting, gemmaStarted, prewarm, call, faults>>
    BY <1>21 DEF Reconcile
  <2>2. CASE Leave("failed") /\ faults' = faults + 1
    BY <2>1, <2>2 DEF Leave
  <2>3. CASE ~(Leave("failed") /\ faults' = faults + 1)
    BY <2>1, <2>3
  <2> QED
    BY <2>2, <2>3
<1>22. CASE NoticeCancel
  BY <1>22, LeaveKeepsFaultless DEF NoticeCancel, Cancelled, Unwind
<1>23. CASE Raises
  BY <1>23, LeaveKeepsFaultless DEF Raises
<1>24. CASE StopRender
  BY <1>24 DEF StopRender
<1>25. CASE AwaitRender
  BY <1>25 DEF AwaitRender
<1>26. CASE AwaitWorker
  BY <1>26 DEF AwaitWorker, WorkerIdle
<1>27. CASE StopSecond
  BY <1>27 DEF StopSecond, Returns
<1>28. CASE BatchReturns
  BY <1>28 DEF BatchReturns, Returns, GoOn
<1>29. ASSUME NEW p \in Page, DetectPage(p) PROVE Faultless'
  BY <1>29 DEF DetectPage
<1>30. ASSUME NEW p \in Page, OcrPage(p) PROVE Faultless'
  BY <1>30 DEF OcrPage
<1>31. ASSUME NEW p \in Page, RetryOcrPage(p) PROVE Faultless'
  BY <1>31 DEF RetryOcrPage
<1>32. ASSUME NEW p \in Page, TranslatePage(p) PROVE Faultless'
  BY <1>32 DEF TranslatePage
<1>33. ASSUME NEW p \in Page, LateGemma(p) PROVE Faultless'
  BY <1>33 DEF LateGemma, StartGemma
<1>34. ASSUME NEW p \in Page, PlanInpaintPage(p) PROVE Faultless'
  BY <1>34 DEF PlanInpaintPage, InpaintUnchanged
<1>35. ASSUME NEW p \in Page, InpaintPage(p) PROVE Faultless'
  BY <1>35 DEF InpaintPage, InpaintUnchanged
<1> QED
  BY <1>1, <1>2, <1>3, <1>4, <1>5, <1>6, <1>7, <1>8, <1>9, <1>10, <1>11, <1>12, <1>13, <1>14,
      <1>15, <1>16, <1>17, <1>18, <1>19, <1>20, <1>21, <1>22, <1>23, <1>24, <1>25, <1>26, <1>27,
      <1>28, <1>29, <1>30, <1>31, <1>32, <1>33, <1>34, <1>35 DEF PipelineMove

\* What a step of a call does to the lease while nothing fails.
Taken(t) == /\ call[t].at = "bracket" /\ call'[t].at \in {"manager", "body"}
            /\ holder \in {None, call[t].service} \/ (call[t].op = "release" /\ Foreign)
            /\ holder' = IF holder = None THEN call[t].service ELSE holder
Denied(t) == /\ call[t].at = "bracket" /\ call'[t].at \in Results /\ holder' = holder
             /\ call'[t].at = "failed" =>
                  holder \notin {None, call[t].service} /\ ~(call[t].op = "release" /\ Foreign)
             /\ call[t].op = "release" => call'[t].at = "failed"
Passed(t) == /\ call[t].at = "manager" /\ holder' = holder
             /\ call'[t].at = IF call[t].op = "prepare" THEN "bracket" ELSE "body"
Ended(t) == /\ call[t].at = "body"
            /\ \/ call'[t].at \in {"done", "cancelled"}
               \/ call'[t].at = "failed" /\ call[t].op = "release" /\ UnloadCancelled
            /\ holder' \in {holder, None}
            /\ call[t].op = "release" /\ call'[t].at = "done" =>
                 holder' = IF holder = call[t].service THEN None ELSE holder
            /\ call[t].op = "release" => call'[t].at # "cancelled"
            /\ call[t].op = "start" /\ call'[t].at = "done" => Up(call[t].service)'

LEMMA FaultlessStep ==
  ASSUME NEW t \in Thread, Typed, JobsKept, CallsKept, faults = 0, Clean, CallStep(t), faults' = 0
  PROVE  Clean' /\ (Taken(t) \/ Denied(t) \/ Passed(t) \/ Ended(t))
<1>1. /\ call[t] \in Call /\ call[t] # None /\ UNCHANGED <<at, cancelled, stopping>>
      /\ call'[t].service = call[t].service
  BY CallGoesOn DEF Typed
<1>2. ASSUME NEW place \in {"bracket", "manager", "body"} \cup Results, Move(t, place)
      PROVE  call'[t].at = place
  BY <1>1, <1>2, MoveType DEF Typed, TypeOK, CallTyped
<1>3. call[t].service \in {"ocr", "gemma"} /\ call[t].op \in {"start", "release", "prepare"}
  BY <1>1 DEF Call
<1>4. resident \subseteq {holder} /\ (stuck => cancelled)
  BY DEF Clean
<1>5. holder \in Service \cup {None} /\ resident \subseteq Service
  BY DEF Typed, TypeOK, GpuTyped
<1>6. call[t].at = "body" => command = t /\ (holder = call[t].service \/ (t = "pipeline" /\ Foreign))
  BY <1>1 DEF CallsKept, CommandKept, LeaseOf, InBracket, InCall, Foreign
<1>7. holder = "inpainter" => at = "infer" /\ command = "pipeline"
  BY DEF Clean
<1>8. call[t].at = "body" => holder # "inpainter"
  BY <1>1, <1>6, <1>7 DEF CallsKept, PipelineCall
<1>14. t = "pipeline" /\ Foreign => call[t].op = "release"
  BY <1>1 DEF CallsKept, PipelineCall, Foreign
<1> USE <1>1, <1>2, <1>3, <1>4, <1>5
<1>10. CASE EnterBracket(t)
  <2>1. Taken(t)
    BY <1>10 DEF EnterBracket, Refused, Taken, InCall
  <2>2. Clean'
    BY <1>7, <1>10 DEF EnterBracket, Clean
  <2> QED
    BY <2>1, <2>2
<1>11. CASE RefuseBracket(t)
  <2>1. Denied(t)
    BY <1>11 DEF RefuseBracket, Refused, Denied, InCall, CancelSeen
  <2>2. Clean'
    BY <1>7, <1>11 DEF RefuseBracket, Clean
  <2> QED
    BY <2>1, <2>2
<1>12. CASE EnterManager(t)
  <2>1. Passed(t)
    BY <1>12 DEF EnterManager, Passed, InCall
  <2>2. Clean'
    BY <1>7, <1>12 DEF EnterManager, Clean
  <2> QED
    BY <2>1, <2>2
<1>13. CASE ~EnterBracket(t) /\ ~RefuseBracket(t) /\ ~EnterManager(t)
  <2>1. \/ /\ StartSucceeds(t)
        \/ /\ StartFails(t) /\ CancelSeen /\ Vacated(call[t].service) /\ End(t, "cancelled")
        \/ /\ ReleaseSucceeds(t)
        \/ /\ ReleaseFails(t) /\ UnloadCancelled /\ Retained(call[t].service) /\ End(t, "failed")
        \/ /\ PrepareEnds(t) /\ Vacated("ocr") /\ End(t, "done")
    BY <1>13 DEF CallStep, StartFails, StartAndCleanupFail, ReleaseFails, PrepareEnds,
        ReleaseCancelled, UnloadCancelled
  <2>2. call[t].at = "body" /\ \E result \in Results : End(t, result)
    BY <2>1 DEF StartSucceeds, StartFails, ReleaseSucceeds, ReleaseFails, PrepareEnds, Ending,
        InCall
  <2>3. command' = None /\ call'[t].at \in Results
    BY <2>2 DEF End
  <2>4. CASE StartSucceeds(t)
    <3>1. call[t].op = "start" /\ holder' = holder /\ UNCHANGED stuck
          /\ resident' = resident \cup {call[t].service} /\ call'[t].at = "done"
      BY <2>4 DEF StartSucceeds, Ending, End
    <3>2. holder = call[t].service
      BY <1>6, <1>14, <2>2, <3>1
    <3> QED
      BY <1>8, <2>2, <2>3, <3>1, <3>2 DEF Clean, Ended, Up
  <2>5. ASSUME NEW s \in {"ocr", "gemma"}, Vacated(s),
      call[t].op = "release" => s = call[t].service,
               call'[t].at \in {"done", "cancelled"},
               call'[t].at = "done" => call[t].op # "start",
                   call'[t].at = "cancelled" => call[t].op # "release"
        PROVE  Clean' /\ Ended(t)
    BY <1>8, <2>2, <2>3, <2>5 DEF Clean, Ended, Vacated
  <2>6. CASE /\ Retained(call[t].service) /\ UnloadCancelled
                /\ call[t].op = "release" /\ End(t, "failed")
    BY <1>8, <2>2, <2>3, <2>6 DEF Clean, Ended, Retained, End, UnloadCancelled
  <2>7. CASE StartFails(t) /\ Vacated(call[t].service) /\ End(t, "cancelled")
    <3>1. call[t].op = "start" /\ call'[t].at = "cancelled"
      BY <2>7 DEF StartFails, Ending, End
    <3> QED
      BY <2>5, <2>7, <3>1
  <2>8. CASE ReleaseSucceeds(t)
    <3>1. call[t].op = "release" /\ call'[t].at = "done" /\ Vacated(call[t].service)
      BY <2>8 DEF ReleaseSucceeds, Ending, End
    <3> QED
      BY <2>5, <3>1
  <2>9. CASE PrepareEnds(t) /\ Vacated("ocr") /\ End(t, "done")
    <3>1. call[t].op = "prepare" /\ call'[t].at = "done"
      BY <2>9 DEF PrepareEnds, Ending, End
    <3> QED
      BY <2>5, <2>9, <3>1
  <2>10. ReleaseFails(t) => call[t].op = "release"
    BY DEF ReleaseFails, Ending
  <2> QED
    BY <2>1, <2>4, <2>6, <2>7, <2>8, <2>9, <2>10
<1> QED
  BY <1>10, <1>11, <1>12, <1>13

LEMMA CallKeepsFaultless ==
  ASSUME NEW t \in Thread, Typed, Ordered, JobsKept, CallsKept, Faultless, CallStep(t)
  PROVE  Faultless'
<1> SUFFICES ASSUME faults' = 0 PROVE (Clean /\ LeaseByStage /\ LeaseAtEnd)'
  BY DEF Faultless
<1>1. faults = 0
  BY DEF Typed, TypeOK, GpuTyped, CallStep, EnterBracket, RefuseBracket, EnterManager,
      StartSucceeds, StartFails,
         StartAndCleanupFail, ReleaseSucceeds, ReleaseFails, PrepareEnds
<1>2. Clean /\ LeaseByStage /\ LeaseAtEnd
  BY <1>1 DEF Faultless
<1>3. Clean' /\ (Taken(t) \/ Denied(t) \/ Passed(t) \/ Ended(t))
  BY <1>1, <1>2, FaultlessStep
<1>4. /\ call[t] \in Call /\ call[t] # None /\ call'[t] # None
      /\ \A u \in Thread : u # t => call'[u] = call[u]
      /\ UNCHANGED <<at, known, cancelled, stopping>>
  BY CallGoesOn DEF Typed
<1>5. holder \in Service \cup {None} /\ (holder = "inpainter" => at = "infer")
  BY <1>2 DEF Typed, TypeOK, GpuTyped, Clean
<1>6. call[t].at \in {"manager", "body"} /\ call[t].op # "prepare" =>
        holder = call[t].service \/ (t = "pipeline" /\ at = "stopGemmaForeign")
  BY <1>4 DEF CallsKept, LeaseOf, InBracket, InCall
<1>7. CASE t = "worker"
  <2>1. \A end : Arrived(end)' <=> Arrived(end)
    BY <1>4, <1>7 DEF Arrived, InCall
  <2>2. PICK k \in Key : job[k] = "running"
    BY <1>4, <1>7 DEF JobsKept, WorkerCalled
  <2>3. /\ call[t].service = IF k = "gemma" THEN "gemma" ELSE "ocr"
        /\ call[t].op # "release"
        /\ (at \notin Dismissed /\ ~stopping) \/ at = "awaitWorker"
    BY <1>7, <2>2 DEF JobsKept, JobCalled, JobsEnded, WorkerIdle, Unfinished
  <2>4. /\ k = "container" => at \in ContainerPlaces
        /\ k = "ocr" => "ocr" \in known \/ at = "awaitWorker"
        /\ k = "gemma" => at = "translate" \/ at \in Finally
    BY <2>2, <2>3 DEF JobsKept, JobsSubmitted, Unfinished, Ordered, PipelineKeepsOut
  <2>5. holder' \in {holder, None, call[t].service}
    BY <1>3 DEF Taken, Denied, Passed, Ended
  <2>6. LeaseByStage'
    BY <1>2, <1>4, <2>1, <2>3, <2>4, <2>5
       DEF LeaseByStage, BeforeOcr, OcrPlaces, ContainerPlaces, Finally
  <2>7. LeaseAtEnd'
    BY <1>4, <2>3 DEF LeaseAtEnd, Dismissed
  <2> QED
    BY <1>3, <2>6, <2>7
<1>8. CASE t = "pipeline"
  <2> USE <1>4, <1>8 DEF Arrived, InCall
  <2>1. \A end : Arrived(end)' <=> call'[t].at = end
    OBVIOUS
  <2>2. \A end : Arrived(end) <=> call[t].at = end
    OBVIOUS
  <2>3. PipelineCall
    BY DEF CallsKept
  <2>4. stopping <=> at \in {"awaitWorker"} \cup Dismissed
    BY DEF JobsKept, JobsEnded
  <2> HIDE DEF Arrived
  <2>5. call[t].op # "prepare" /\ at # "awaitWorker"
    BY <2>3 DEF PipelineCall
  <2>6. LeaseByStage'
    <3> USE <1>2, <1>5, <1>6, <2>1, <2>2, <2>3, <2>4, <2>5
        DEF LeaseByStage, BeforeOcr, OcrPlaces, PipelineCall, Dismissed, Foreign, UnloadCancelled
    <3>1. CASE Taken(t)
      BY <3>1 DEF Taken
    <3>2. CASE Denied(t)
      BY <3>2 DEF Denied
    <3>3. CASE Passed(t)
      BY <3>3 DEF Passed
    <3>4. CASE Ended(t)
      BY <3>4 DEF Ended
    <3> QED
      BY <1>3, <3>1, <3>2, <3>3, <3>4
  <2>7. LeaseAtEnd'
    <3> USE <1>2, <1>5, <1>6, <2>1, <2>2, <2>3, <2>4, <2>5
        DEF LeaseAtEnd, PipelineCall, Dismissed, Foreign, UnloadCancelled
    <3>1. CASE Taken(t)
      BY <3>1 DEF Taken
    <3>2. CASE Denied(t)
      BY <3>2 DEF Denied
    <3>3. CASE Passed(t)
      BY <3>3 DEF Passed
    <3>4. CASE Ended(t)
      BY <3>4 DEF Ended
    <3> QED
      BY <1>3, <3>1, <3>2, <3>3, <3>4
  <2> QED
    BY <1>3, <2>6, <2>7
<1> QED
  BY <1>7, <1>8

-----------------------------------------------------------------------------
(* The models that pages are sent to.                                       *)

LEMMA LeaveKeepsServed ==
  ASSUME CallTyped, NEW end, Leave(end)
  PROVE  Served'
<1>1. at' = "stopRender" /\ awaiting' = None /\ call'["pipeline"] = None
  BY LeavesWorker DEF Leave
<1> QED
  BY <1>1 DEF Served, OcrPrewarmed, GemmaPrewarmed, StartLoaded, OcrServed, GemmaServed,
      OcrPlaces, Arrived, InCall

LEMMA FallbackCalls ==
  ASSUME CallTyped, NEW s \in {"ocr", "gemma"}, FallbackStart(s)
  PROVE  call'["pipeline"] # None /\ call'["pipeline"].at = "bracket"
<1>1. call'["pipeline"] = [op |-> "start", service |-> s, at |-> "bracket"]
  BY DEF FallbackStart, Begin, CallTyped
<1>2. [op |-> "start", service |-> s, at |-> "bracket"] \in Call
  BY DEF Call
<1> QED
  BY <1>1, <1>2

\* No page waits for a model that is not there.
LEMMA MoveKeepsServed ==
  ASSUME Typed, Ordered, JobsKept, CallsKept, Served, PipelineMove, UNCHANGED <<cancelled,
      stopping>>
  PROVE  Served'
<1> USE DEF Typed, TypeOK, CallTyped, PrewarmTyped, AwaitsInStage, Places, BeforeOcr, OcrPlaces,
    InCall, CallsKept, PipelineCall, AwaitPlace, AtPage, LoopOver, Checked, Begin, Unfinished,
    control, work, renders, prewarm, gpu, Arrived, Served, OcrPrewarmed, GemmaPrewarmed,
    StartLoaded, OcrServed, GemmaServed, Up, Loaded, Unserved
<1>1. CASE Preflight
  BY <1>1 DEF Preflight
<1>2. CASE DetectEnds
  BY <1>2 DEF DetectEnds
<1>3. CASE StartOcrPrewarm
  BY <1>3 DEF StartOcrPrewarm, ContainerAwaited
<1>4. CASE PlanOcr
  BY <1>4 DEF PlanOcr
<1>5. CASE OcrLoaded
  BY <1>5 DEF OcrLoaded
<1>6. CASE OcrEnds
  BY <1>6 DEF OcrEnds, ReleaseAfter
<1>7. CASE PlanTranslation
  BY <1>7 DEF PlanTranslation, StartGemma
<1>8. CASE TranslateEnds
  BY <1>8 DEF TranslateEnds, ReleaseAfter
<1>9. CASE StopGemma
  BY <1>9 DEF StopGemma, ReleaseAfter
<1>10. CASE AwaitPrewarm
  <2>1. CASE Leave("cancelled")
    <3>1. at \in {"loadOcr", "ocr", "translate"} /\ call["pipeline"] = None
          /\ UNCHANGED gpu /\ UNCHANGED faults
      BY <1>10 DEF AwaitPrewarm, AwaitsInStage
    <3> QED
      BY <2>1, <3>1, LeaveKeepsServed
  <2>2. CASE ~Leave("cancelled")
    <3>1. /\ awaiting \in {"ocr", "gemma"} /\ call["pipeline"] = None /\ at \in {"loadOcr",
               "ocr", "translate"}
          /\ awaiting \in known => ~Unfinished(awaiting)
          /\ awaiting' = None /\ known' = known \ {awaiting}
          /\ UNCHANGED <<at, gemmaStarted, job, faults, gpu, deferred, todo, page, outcome>>
          /\ \/ UNCHANGED call /\ awaiting \in known /\ job[awaiting] = "done"
             \/ FallbackStart(awaiting)
      BY <1>10, <2>2 DEF AwaitPrewarm, ControlTyped, AwaitsInStage
    <3>2. call'["worker"] = call["worker"]
      BY <3>1 DEF FallbackStart
    <3>3. job[awaiting] = "done" => Loaded(awaiting)
      BY DEF Loaded
    <3>4. FallbackStart(awaiting) => call'["pipeline"] # None /\ call'["pipeline"].at = "bracket"
      BY <3>1, FallbackCalls
    <3>5. /\ awaiting = "ocr" => at \in {"loadOcr", "ocr"}
          /\ awaiting = "gemma" => at = "translate" /\ gemmaStarted
      BY <3>1 DEF AwaitPlace, JobsKept, JobsSubmitted
    <3> QED
      BY <3>1, <3>2, <3>3, <3>4, <3>5
  <2> QED
    BY <2>1, <2>2
<1>11. CASE CallWorked
  BY <1>11 DEF CallWorked, Returns, GoOn
<1>12. CASE CallFailed
  <2>1. /\ at \in {"loadOcr", "ocr", "ocrRelease", "translate", "gemmaRelease"}
        /\ call["pipeline"] # None /\ call["pipeline"].at \in {"failed", "cancelled"}
        /\ Leave(call["pipeline"].at) /\ UNCHANGED gpu /\ UNCHANGED faults
    BY <1>12 DEF CallFailed, Returns
  <2> QED
    BY <2>1, LeaveKeepsServed
<1>13. CASE RetryFailed
  <2>1. nextPage \in Page
    BY <1>13 DEF RetryFailed, Returns, RetryInPage
  <2>2. page'[nextPage] = "unserved" /\ at = "ocr" /\ at' = "ocr" /\ call'["pipeline"] = None
        /\ call'["worker"] = call["worker"] /\ call["pipeline"] # None
        /\ UNCHANGED <<awaiting, job, known, gemmaStarted, gpu>>
    BY <1>13, <2>1 DEF RetryFailed, Returns, GoOn, WorkTyped
  <2>3. Unserved'
    BY <2>1, <2>2
  <2> HIDE DEF Unserved
  <2> QED
    BY <2>2, <2>3
<1>14. CASE GemmaStopped
  BY <1>14 DEF GemmaStopped, Returns, GoOn
<1>15. CASE PlanInpaintEnds
  BY <1>15 DEF PlanInpaintEnds, InpaintUnchanged
<1>16. CASE LoadInpainter
  BY <1>16 DEF LoadInpainter, InpaintUnchanged
<1>17. CASE InpainterRefused
  BY <1>17, LeaveKeepsServed DEF InpainterRefused
<1>18. CASE InpaintEnds
  <2>1. CASE Leave("failed")
    BY <1>18, <2>1, LeaveKeepsServed DEF InpaintEnds
  <2>2. CASE ~Leave("failed")
    <3>1. at' = "drain" /\ InpainterReleased /\ call' = call /\ UNCHANGED <<awaiting, job, faults>>
      BY <1>18, <2>2 DEF InpaintEnds
    <3> QED
      BY <1>18, <3>1 DEF InpaintEnds, InpainterReleased
  <2> QED
    BY <2>1, <2>2
<1>19. CASE DrainTail
  BY <1>19 DEF DrainTail
<1>20. CASE DrainEnds
  BY <1>20 DEF DrainEnds, Drained
<1>21. CASE Reconcile
  <2>1. at = "reconcile" /\ (Leave("failed") \/ (Goto("stopRender") /\ UNCHANGED <<awaiting,
      gemmaStarted, prewarm, call>>))
    BY <1>21 DEF Reconcile
  <2>2. UNCHANGED gpu
    BY <1>21 DEF Reconcile
  <2>3. CASE Leave("failed")
    BY <2>1, <2>2, <2>3, LeaveKeepsServed
  <2>4. CASE ~Leave("failed")
    BY <2>1, <2>2, <2>4
  <2> QED
    BY <2>3, <2>4
<1>22. CASE NoticeCancel
  BY <1>22, LeaveKeepsServed DEF NoticeCancel, Cancelled, Unwind
<1>23. CASE Raises
  BY <1>23, LeaveKeepsServed DEF Raises
<1>24. CASE StopRender
  BY <1>24 DEF StopRender
<1>25. CASE AwaitRender
  BY <1>25 DEF AwaitRender
<1>26. CASE AwaitWorker
  BY <1>26 DEF AwaitWorker, WorkerIdle
<1>27. CASE StopSecond
  BY <1>27 DEF StopSecond, Returns
<1>28. CASE BatchReturns
  BY <1>28 DEF BatchReturns, Returns, GoOn
<1>29. ASSUME NEW p \in Page, DetectPage(p) PROVE Served'
  BY <1>29 DEF DetectPage
<1>30. ASSUME NEW p \in Page, OcrPage(p) PROVE Served'
  <2>1. Unserved => Unserved'
    BY <1>30 DEF OcrPage, WorkTyped, Text
  <2> HIDE DEF Unserved
  <2> QED
    BY <1>30, <2>1 DEF OcrPage
<1>31. ASSUME NEW p \in Page, RetryOcrPage(p) PROVE Served'
  BY <1>31 DEF RetryOcrPage
<1>32. ASSUME NEW p \in Page, TranslatePage(p) PROVE Served'
  BY <1>32 DEF TranslatePage
<1>33. ASSUME NEW p \in Page, LateGemma(p) PROVE Served'
  BY <1>33 DEF LateGemma, StartGemma
<1>34. ASSUME NEW p \in Page, PlanInpaintPage(p) PROVE Served'
  BY <1>34 DEF PlanInpaintPage, InpaintUnchanged
<1>35. ASSUME NEW p \in Page, InpaintPage(p) PROVE Served'
  BY <1>35 DEF InpaintPage, InpaintUnchanged
<1> QED
  BY <1>1, <1>2, <1>3, <1>4, <1>5, <1>6, <1>7, <1>8, <1>9, <1>10, <1>11, <1>12, <1>13, <1>14,
      <1>15, <1>16, <1>17, <1>18, <1>19, <1>20, <1>21, <1>22, <1>23, <1>24, <1>25, <1>26, <1>27,
      <1>28, <1>29, <1>30, <1>31, <1>32, <1>33, <1>34, <1>35 DEF PipelineMove

\* A start that has worked leaves its model loaded, with the lease.
LEMMA StartLoads ==
  ASSUME NEW t \in Thread, Typed, JobsKept, CallsKept, CallStep(t),
         call[t].op = "start", call'[t].at = "done"
  PROVE  Up(call[t].service)' /\ call'[t].service = call[t].service
<1>1. /\ call[t] \in Call /\ call[t] # None /\ UNCHANGED <<at, cancelled, stopping>>
      /\ call'[t].service = call[t].service
  BY CallGoesOn DEF Typed
<1>2. ASSUME NEW place \in {"bracket", "manager", "body"} \cup Results, Move(t, place)
      PROVE  call'[t].at = place
  BY <1>1, <1>2, MoveType DEF Typed, TypeOK, CallTyped
<1>3. StartSucceeds(t)
  BY <1>2 DEF CallStep, EnterBracket, RefuseBracket, EnterManager, StartFails, StartAndCleanupFail,
              ReleaseSucceeds, ReleaseFails, PrepareEnds, Ending, End
<1>4. t = "pipeline" => ~Foreign
  BY <1>1 DEF CallsKept, PipelineCall, Foreign
<1>5. holder = call[t].service
  BY <1>1, <1>3, <1>4 DEF StartSucceeds, Ending, CallsKept, LeaseOf, InBracket, InCall, Foreign
<1> QED
  BY <1>1, <1>3, <1>5 DEF StartSucceeds, Up

\* A worker that is in a call is not needed by the pipeline any more, or awaited.
LEMMA CallKeepsServed ==
  ASSUME NEW t \in Thread, Typed, Ordered, JobsKept, CallsKept, Served, CallStep(t)
  PROVE  Served'
<1>1. /\ call[t] \in Call /\ call[t] # None /\ call'[t] # None
      /\ call'[t].op = call[t].op /\ call'[t].service = call[t].service
      /\ \A u \in Thread : u # t => call'[u] = call[u]
      /\ UNCHANGED <<at, awaiting, gemmaStarted, page, todo, job, known>>
  BY CallGoesOn DEF Typed
<1>2. CASE t = "worker"
  <2>1. PICK k \in Key : job[k] = "running"
    BY <1>1, <1>2 DEF JobsKept, WorkerCalled
  <2>2. \A j \in Key : job[j] = "running" \/ (job[j] \in Results /\ ~stopping) =>
          \A b \in Before(j) : ~Unfinished(b)
    BY DEF JobsKept, JobOrdered
  <2>3. ~WorkerIdle
    BY <2>1 DEF WorkerIdle, Unfinished
  <2>4. call'["pipeline"] = call["pipeline"]
    BY <1>1, <1>2
  <2>5. at \in OcrPlaces => k = "ocr"
    BY <2>1 DEF JobsKept, JobsSubmitted, BeforeGemma, OcrPlaces, Ordered, PipelineKeepsOut,
        ContainerPlaces, Unfinished
  <2>6. at = "translate" => ~stopping
    BY DEF JobsKept, JobsEnded, Dismissed
  <2>7. at = "translate" /\ gemmaStarted => k = "gemma" \/ job["gemma"] = "queued"
    <3> SUFFICES ASSUME at = "translate", gemmaStarted PROVE k = "gemma" \/ job["gemma"] = "queued"
      OBVIOUS
    <3>1. job["gemma"] \in {"queued", "running"} \cup Results
      BY DEF JobsKept, JobsSubmitted, Typed, TypeOK, PrewarmTyped
    <3>2. job["gemma"] \in Results =>
            ~Unfinished("container") /\ ~Unfinished("ocr") /\ ~Unfinished("gemma")
      BY <2>2, <2>6, Order DEF Unfinished
    <3>3. k = "container" => FALSE
      BY <2>1 DEF Ordered, PipelineKeepsOut, ContainerPlaces, Unfinished
    <3>4. k = "ocr" => job["gemma"] = "queued"
      BY <2>1, <2>2, <3>1, <3>2, Order DEF Unfinished
    <3> QED
      BY <2>1, <3>3, <3>4
  <2>8. ASSUME NEW s \in {"ocr", "gemma"}, job[s] = "running", InCall("worker", "done")'
        PROVE  Up(s)'
    <3>1. call["worker"].op = "start" /\ call["worker"].service = s
      BY <2>8 DEF JobsKept, JobCalled
    <3> QED
      BY <1>1, <1>2, <2>8, <3>1, StartLoads DEF InCall, Up
  <2>9. OcrPrewarmed'
    BY <1>1, <2>1, <2>4, <2>5, <2>8 DEF Served, OcrPrewarmed, Loaded
  <2>10. GemmaPrewarmed'
    <3> SUFFICES ASSUME awaiting = "gemma", Loaded("gemma")' PROVE Up("gemma")'
      BY <1>1 DEF GemmaPrewarmed
    <3>1. at = "translate" /\ gemmaStarted
      BY DEF CallsKept, AwaitPlace, JobsKept, JobsSubmitted
    <3>2. job["gemma"] = "running"
      BY <1>1, <2>1, <2>7, <3>1 DEF Loaded
    <3> QED
      BY <1>1, <2>8, <3>2 DEF Loaded
  <2>11. StartLoaded'
    BY <1>1, <2>3, <2>4 DEF StartLoaded, Arrived, InCall, CallsKept, StartAlone
  <2>12. OcrServed'
    <3> SUFFICES ASSUME at \in {"loadOcr", "ocr"}, Free, todo # {} PROVE FALSE
      BY <1>1, <2>4 DEF OcrServed
    <3>1. "ocr" \notin known /\ k = "ocr"
      BY <2>5 DEF Served, OcrServed, OcrPlaces
    <3> QED
      BY <2>1, <3>1 DEF JobsKept, JobsSubmitted, JobsEnded, Dismissed, Unfinished
  <2>13. GemmaServed'
    <3> SUFFICES ASSUME at = "translate", Free, todo # {} PROVE FALSE
      BY <1>1, <2>4 DEF GemmaServed
    <3>1. gemmaStarted /\ job["gemma"] \in {"queued", "running"}
      BY <2>1, <2>7 DEF Served, GemmaServed
    <3> QED
      BY <3>1 DEF JobsKept, JobsSubmitted, Unfinished, Finally
  <2> QED
    BY <2>9, <2>10, <2>11, <2>12, <2>13 DEF Served
<1>3. CASE t = "pipeline"
  <2>1. awaiting = None
    BY <1>1, <1>3 DEF Typed, AwaitsInStage
  <2>2. OcrPrewarmed'
    BY <1>1, <1>3 DEF Served, OcrPrewarmed
  <2>3. GemmaPrewarmed' /\ OcrServed' /\ GemmaServed'
    BY <1>1, <1>3, <2>1 DEF GemmaPrewarmed, OcrServed, GemmaServed
  <2>4. StartLoaded'
    BY <1>1, <1>3, StartLoads DEF StartLoaded, Arrived, InCall, Up
  <2> QED
    BY <2>2, <2>3, <2>4 DEF Served
<1> QED
  BY <1>2, <1>3

\* The worker's jobs begin and end without touching the GPU.
LEMMA TakeKeepsServed ==
  ASSUME NEW k \in Key, Typed, JobsKept, Served, TakeJob(k)
  PROVE  Served'
<1>1. /\ job[k] = "queued" /\ call["worker"] = None
      /\ UNCHANGED <<at, awaiting, gemmaStarted, page, todo, known, gpu>>
  BY DEF TakeJob, control, work
<1>2. call'["pipeline"] = call["pipeline"] /\ ~InCall("worker", "done")'
  BY <1>1 DEF TakeJob, RunnerCall, Begin, Typed, TypeOK, CallTyped, InCall
<1>3. \A j \in {"ocr", "gemma"} : job'[j] = "done" => job[j] = "done"
  BY <1>1 DEF TakeJob, Typed, TypeOK, PrewarmTyped
<1>4. \A j \in {"ocr", "gemma"} : Loaded(j)' => Loaded(j)
  BY <1>2, <1>3 DEF Loaded
<1> QED
  BY <1>1, <1>2, <1>4 DEF Served, OcrPrewarmed, GemmaPrewarmed, StartLoaded, OcrServed, GemmaServed,
                          Arrived, InCall, Up, Unserved, gpu

LEMMA FinishKeepsServed ==
  ASSUME NEW k \in Key, Typed, JobsKept, Served, FinishJob(k)
  PROVE  Served'
<1>1. /\ job[k] = "running" /\ call["worker"] # None
      /\ UNCHANGED <<at, awaiting, gemmaStarted, page, todo, known, gpu>>
  BY DEF FinishJob, control, work, JobsKept, JobCalled
<1>2. call'["pipeline"] = call["pipeline"] /\ ~InCall("worker", "done")'
  BY <1>1 DEF FinishJob, Typed, TypeOK, CallTyped, InCall
<1>3. \A j \in {"ocr", "gemma"} : job'[j] = "done" =>
        job[j] = "done" \/ (job[j] = "running" /\ call["worker"].at = "done")
  BY <1>1 DEF FinishJob, Typed, TypeOK, PrewarmTyped
<1>4. \A j \in {"ocr", "gemma"} : Loaded(j)' => Loaded(j)
  BY <1>1, <1>2, <1>3 DEF Loaded, InCall
<1> QED
  BY <1>1, <1>2, <1>4 DEF Served, OcrPrewarmed, GemmaPrewarmed, StartLoaded, OcrServed, GemmaServed,
                          Arrived, InCall, Up, Unserved, gpu

LEMMA WorkerKeepsFaultless ==
  ASSUME NEW k \in Key, Typed, Faultless, TakeJob(k) \/ FinishJob(k)
  PROVE  Faultless'
<1>1. UNCHANGED <<at, known, cancelled, stopping, gpu, faults>>
  BY DEF TakeJob, FinishJob, control
<1>2. call'["pipeline"] = call["pipeline"]
  BY DEF TakeJob, FinishJob, RunnerCall, Begin, Typed, TypeOK, CallTyped
<1> QED
  BY <1>1, <1>2 DEF Faultless, Clean, LeaseByStage, LeaseAtEnd, Arrived, InCall, gpu

LEMMA StopKeepsRest ==
  ASSUME Typed, Ordered, CallsKept, Faultless, StopPrewarm, UNCHANGED cancelled
  PROVE  Faultless' /\ Served'
<1>1. /\ at = "stopPrewarm" /\ at' = "awaitWorker" /\ UNCHANGED <<awaiting, call, gpu, faults>>
      /\ call["pipeline"] = None
  BY DEF StopPrewarm, Ordered, PipelineQuiet, QuietPlaces
<1>2. awaiting = None
  BY <1>1 DEF CallsKept, AwaitPlace, Typed, TypeOK, ControlTyped
<1>3. Faultless'
  BY <1>1 DEF Faultless, Clean, LeaseByStage, LeaseAtEnd, Arrived, InCall, BeforeOcr, OcrPlaces,
      Dismissed, gpu
<1>4. Served'
  BY <1>1, <1>2 DEF Served, OcrPrewarmed, GemmaPrewarmed, StartLoaded, OcrServed, GemmaServed,
      OcrPlaces,
                    Arrived, InCall
<1> QED
  BY <1>3, <1>4

-----------------------------------------------------------------------------
(* The autosave's deferral.                                                 *)

\* The autosave is put off while pages are inpainted, and no longer.
LEMMA MoveKeepsDeferral ==
  ASSUME Typed, Ordered, DeferralKept, PipelineMove, UNCHANGED <<cancelled, stopping>>
  PROVE  DeferralKept'
<1> USE DEF DeferralKept, DeferralPlaces, AtPage, LoopOver, control
<1>1. CASE Preflight
  BY <1>1 DEF Preflight
<1>2. CASE DetectEnds
  BY <1>2 DEF DetectEnds
<1>3. CASE StartOcrPrewarm
  BY <1>3 DEF StartOcrPrewarm, ContainerAwaited
<1>4. CASE PlanOcr
  BY <1>4 DEF PlanOcr
<1>5. CASE OcrLoaded
  BY <1>5 DEF OcrLoaded
<1>6. CASE OcrEnds
  BY <1>6 DEF OcrEnds, ReleaseAfter
<1>7. CASE PlanTranslation
  BY <1>7 DEF PlanTranslation, StartGemma
<1>8. CASE TranslateEnds
  BY <1>8 DEF TranslateEnds
<1>9. CASE StopGemma
  BY <1>9 DEF StopGemma, ReleaseAfter
<1>10. CASE AwaitPrewarm
  BY <1>10, LeaveKeepsDeferral DEF AwaitPrewarm
<1>11. CASE CallWorked
  BY <1>11 DEF CallWorked
<1>12. CASE CallFailed
  BY <1>12, LeaveKeepsDeferral DEF CallFailed
<1>13. CASE RetryFailed
  BY <1>13 DEF RetryFailed, Returns, GoOn
<1>14. CASE GemmaStopped
  BY <1>14 DEF GemmaStopped, Returns, GoOn
<1>15. CASE PlanInpaintEnds
  BY <1>15 DEF PlanInpaintEnds, InpaintUnchanged
<1>16. CASE LoadInpainter
  BY <1>16 DEF LoadInpainter, InpaintUnchanged
<1>17. CASE InpainterRefused
  BY <1>17, LeaveKeepsDeferral DEF InpainterRefused
<1>18. CASE InpaintEnds
  BY <1>18, LeaveKeepsDeferral DEF InpaintEnds
<1>19. CASE DrainTail
  BY <1>19 DEF DrainTail
<1>20. CASE DrainEnds
  BY <1>20 DEF DrainEnds, Drained
<1>21. CASE Reconcile
  BY <1>21, LeaveKeepsDeferral DEF Reconcile
<1>22. CASE NoticeCancel
  BY <1>22, LeaveKeepsDeferral DEF NoticeCancel, Cancelled
<1>23. CASE Raises
  BY <1>23, LeaveKeepsDeferral DEF Raises
<1>24. CASE StopRender
  BY <1>24 DEF StopRender
<1>25. CASE AwaitRender
  BY <1>25 DEF AwaitRender
<1>26. CASE AwaitWorker
  BY <1>26 DEF AwaitWorker, WorkerIdle
<1>27. CASE StopSecond
  BY <1>27 DEF StopSecond, Returns
<1>28. CASE BatchReturns
  BY <1>28 DEF BatchReturns, Returns, GoOn
<1>29. ASSUME NEW p \in Page, DetectPage(p) PROVE DeferralKept'
  BY <1>29 DEF DetectPage
<1>30. ASSUME NEW p \in Page, OcrPage(p) PROVE DeferralKept'
  BY <1>30 DEF OcrPage
<1>31. ASSUME NEW p \in Page, RetryOcrPage(p) PROVE DeferralKept'
  BY <1>31 DEF RetryOcrPage
<1>32. ASSUME NEW p \in Page, TranslatePage(p) PROVE DeferralKept'
  BY <1>32 DEF TranslatePage
<1>33. ASSUME NEW p \in Page, LateGemma(p) PROVE DeferralKept'
  BY <1>33 DEF LateGemma, StartGemma
<1>34. ASSUME NEW p \in Page, PlanInpaintPage(p) PROVE DeferralKept'
  BY <1>34 DEF PlanInpaintPage, InpaintUnchanged
<1>35. ASSUME NEW p \in Page, InpaintPage(p) PROVE DeferralKept'
  BY <1>35 DEF InpaintPage, InpaintUnchanged
<1> QED
  BY <1>1, <1>2, <1>3, <1>4, <1>5, <1>6, <1>7, <1>8, <1>9, <1>10, <1>11, <1>12, <1>13, <1>14,
      <1>15, <1>16, <1>17, <1>18, <1>19, <1>20, <1>21, <1>22, <1>23, <1>24, <1>25, <1>26, <1>27,
      <1>28, <1>29, <1>30, <1>31, <1>32, <1>33, <1>34, <1>35 DEF PipelineMove

-----------------------------------------------------------------------------
(* The invariant and the theorems.                                          *)

LEMMA InitGpu == Init => GpuInv
<1> SUFFICES ASSUME Init PROVE GpuInv
  OBVIOUS
<1> USE DEF Init
<1>1. JobsKept
  BY Order DEF JobsKept, JobCalled, JobOrdered, WorkerCalled, JobsSubmitted, JobsEnded,
      Unfinished, Dismissed
<1>2. CallsKept
  BY DEF CallsKept, PipelineCall, AwaitPlace, StartAlone, CommandKept, ManagerForOcr, LeaseOf,
      InBracket, InCall
<1>3. DeferralKept /\ Faultless
  BY DEF DeferralKept, Faultless, Clean, LeaseByStage, LeaseAtEnd, Arrived, InCall, Dismissed
<1>4. Served
  BY DEF Served, OcrPrewarmed, GemmaPrewarmed, StartLoaded, OcrServed, GemmaServed, OcrPlaces,
      Arrived, InCall
<1> QED
  BY <1>1, <1>2, <1>3, <1>4 DEF GpuInv

LEMMA StepGpu ==
  ASSUME Typed, Ordered, GpuInv, [Next]_vars
  PROVE  GpuInv'
<1> USE DEF GpuInv
<1>1. ASSUME PipelineMove, UNCHANGED <<cancelled, stopping>> PROVE GpuInv'
  BY <1>1, MoveKeepsJobs, MoveKeepsCalls, MoveKeepsDeferral, MoveKeepsFaultless, MoveKeepsServed
<1>2. CASE StopPrewarm /\ stopping' = TRUE /\ UNCHANGED cancelled
  <2>1. DeferralKept'
    BY <1>2 DEF StopPrewarm, DeferralKept, DeferralPlaces
  <2> QED
    BY <1>2, <2>1, StopKeepsJobs, StopKeepsCalls, StopKeepsRest
<1>3. ASSUME NEW t \in Thread, CallStep(t) PROVE GpuInv'
  <2>1. TypeOK /\ UNCHANGED <<at, deferred>>
    BY <1>3, CallGoesOn DEF Typed
  <2>2. DeferralKept'
    BY <2>1 DEF DeferralKept
  <2> QED
    BY <1>3, <2>1, <2>2, CallKeepsJobs, CallKeepsCalls, CallKeepsFaultless, CallKeepsServed
<1>4. ASSUME NEW k \in Key, TakeJob(k) PROVE GpuInv'
  <2>1. DeferralKept'
    BY <1>4 DEF TakeJob, DeferralKept, control
  <2> QED
    BY <1>4, <2>1, TakeKeepsJobs, TakeKeepsCalls, TakeKeepsServed, WorkerKeepsFaultless
<1>5. ASSUME NEW k \in Key, FinishJob(k) PROVE GpuInv'
  <2>1. DeferralKept'
    BY <1>5 DEF FinishJob, DeferralKept, control
  <2> QED
    BY <1>5, <2>1, FinishKeepsJobs, FinishKeepsCalls, FinishKeepsServed, WorkerKeepsFaultless
<1>6. ASSUME UNCHANGED <<control, page, todo, cancelled, stopping, prewarm, call, gpu>>,
             faults' = 0 => faults = 0
      PROVE  GpuInv'
  <2> USE <1>6 DEF control, prewarm, gpu
  <2>1. JobsKept'
    BY DEF JobsKept, JobCalled, JobOrdered, WorkerCalled, JobsSubmitted, JobsEnded, Unfinished,
        WorkerIdle
  <2>2. CallsKept'
    BY DEF CallsKept, PipelineCall, AwaitPlace, StartAlone, CommandKept, ManagerForOcr, LeaseOf,
        InBracket,
           InCall, WorkerIdle, Unfinished
  <2>3. DeferralKept' /\ Faultless'
    BY DEF DeferralKept, Faultless, Clean, LeaseByStage, LeaseAtEnd, Arrived, InCall
  <2>4. Served'
    BY DEF Served, OcrPrewarmed, GemmaPrewarmed, StartLoaded, OcrServed, GemmaServed, Arrived,
        InCall, Loaded,
           Up, Unserved
  <2> QED
    BY <2>1, <2>2, <2>3, <2>4
<1>7. ASSUME Cancel PROVE GpuInv'
  <2> USE <1>7 DEF Cancel, control, work, prewarm, gpu
  <2>1. JobsKept'
    BY DEF JobsKept, JobCalled, JobOrdered, WorkerCalled, JobsSubmitted, JobsEnded, Unfinished,
        WorkerIdle
  <2>2. CallsKept'
    BY DEF CallsKept, PipelineCall, AwaitPlace, StartAlone, CommandKept, ManagerForOcr, LeaseOf,
        InBracket,
           InCall, WorkerIdle, Unfinished
  <2>3. DeferralKept' /\ Faultless'
    BY DEF DeferralKept, Faultless, Clean, LeaseByStage, LeaseAtEnd, Arrived, InCall
  <2>4. Served'
    BY DEF Served, OcrPrewarmed, GemmaPrewarmed, StartLoaded, OcrServed, GemmaServed, Arrived,
        InCall, Loaded,
           Up, Unserved
  <2> QED
    BY <2>1, <2>2, <2>3, <2>4
<1>8. ASSUME TakeRender \/ \E p \in Page : FinishRender(p) PROVE GpuInv'
  <2>1. UNCHANGED <<control, page, todo, cancelled, stopping, prewarm, call, gpu, faults>>
    BY <1>8 DEF TakeRender, FinishRender, work
  <2> QED
    BY <1>6, <2>1
<1>9. ASSUME UNCHANGED vars PROVE GpuInv'
  <2>1. UNCHANGED <<control, page, todo, cancelled, stopping, prewarm, call, gpu, faults>>
    BY <1>9 DEF vars, work
  <2> QED
    BY <1>6, <2>1
<1>10. ASSUME NEW p \in Page, Damage(p) PROVE GpuInv'
  <2>1. UNCHANGED <<control, page, todo, cancelled, stopping, prewarm, call, gpu>>
        /\ faults' = faults + 1 /\ faults \in Nat
    BY <1>10 DEF Damage, Typed, TypeOK, GpuTyped
  <2> QED
    BY <1>6, <2>1
<1> QED
  BY <1>1, <1>2, <1>3, <1>4, <1>5, <1>7, <1>8, <1>9, <1>10
     DEF Next, PipelineStep, WorkerStep, RenderStep, Returned

\* For every number of pages, render workers and faults.
LEMMA GpuInvariance == Spec => [](Inv /\ GpuInv)
<1>1. Init => GpuInv
  BY InitGpu
<1>2. Inv /\ GpuInv /\ [Next]_vars => GpuInv'
  BY StepGpu DEF Inv
<1> QED
  BY <1>1, <1>2, Invariance, PTL DEF Spec

\* When batch_process has returned, nothing of it is left: no job, no lock, no
\* deferral, and without a fault no model and no lease.
THEOREM NothingIsLeft == Spec => []LeavesNothing
<1>1. Inv /\ GpuInv => LeavesNothing
  <2> SUFFICES ASSUME Inv, GpuInv, at = "returned" PROVE LeavesNothing
    BY DEF LeavesNothing
  <2> USE DEF GpuInv, Dismissed
  <2>1. \A k \in Key : ~Unfinished(k)
    BY DEF JobsKept, JobsEnded, WorkerIdle
  <2>2. call["worker"] = None
    BY <2>1 DEF JobsKept, WorkerCalled, Unfinished
  <2>3. call["pipeline"] = None
    BY DEF CallsKept, PipelineCall
  <2>4. command = None
    BY <2>2, <2>3 DEF CallsKept, CommandKept, InBracket, InCall, Inv, Typed, TypeOK, GpuTyped
  <2>5. manager = None
    BY <2>2, <2>3 DEF Inv, Ordered, LockHeld, Typed, TypeOK, GpuTyped
  <2>6. ~deferred
    BY DEF DeferralKept, DeferralPlaces
  <2>7. faults = 0 => resident = {} /\ holder = None
    <3> SUFFICES ASSUME faults = 0 PROVE resident = {} /\ holder = None
      OBVIOUS
    <3>1. holder = None /\ resident \subseteq {holder}
      BY DEF Faultless, LeaseAtEnd, Clean
    <3> QED
      BY <3>1 DEF Inv, Typed, TypeOK, GpuTyped
  <2> QED
    BY <2>1, <2>4, <2>5, <2>6, <2>7 DEF LeavesNothing
<1> QED
  BY <1>1, GpuInvariance, PTL

\* A page is sent to its model only while that model is loaded and has the lease.
THEOREM ModelIsUp == Spec => []ModelUp
<1>1. GpuInv => ModelUp
  <2> SUFFICES ASSUME GpuInv, at \in {"ocr", "translate"}, Free, nextPage \in todo,
                      ~(\E p \in Page : page[p] = "unserved")
               PROVE  LET s == IF at = "ocr" THEN "ocr" ELSE "gemma" IN s \in resident /\ holder = s
    BY DEF ModelUp
  <2>1. CASE at = "ocr"
    BY <2>1 DEF GpuInv, Served, OcrServed, Unserved, Up
  <2>2. CASE at = "translate"
    BY <2>2 DEF GpuInv, Served, GemmaServed, Up
  <2> QED
    BY <2>1, <2>2
<1> QED
  BY <1>1, GpuInvariance, PTL

\* A batch fails only for a fault, for the OCR job that nobody awaited, or because it was
\* cancelled while the OCR model was unloaded (FailsForCause).
THEOREM FailuresHaveCause == Spec => FailsForCause
<1> DEFINE Step == outcome = None /\ outcome' = "failed" =>
                     faults' > 0 \/ "ocr" \in known \/ (cancelled /\ at = "ocrRelease")
<1>1. Inv /\ GpuInv /\ [Next]_vars => [Step]_vars
  <2> SUFFICES ASSUME Inv, GpuInv, [Next]_vars, outcome = None, outcome' = "failed",
      "ocr" \notin known, ~UnloadCancelled
               PROVE  faults' > 0
    BY DEF UnloadCancelled
  <2>1. faults \in Nat
    BY DEF Inv, Typed, TypeOK, GpuTyped
  <2>2. outcome' # outcome
    OBVIOUS
  <2>3. PipelineMove
    <3>1. outcome' = outcome \/ PipelineMove
      BY CallGoesOn DEF Next, PipelineStep, WorkerStep, RenderStep, Returned, StopPrewarm,
          Steady, CallStep,
         TakeJob, FinishJob, TakeRender, FinishRender, Cancel, Damage, control, vars
    <3> QED
      BY <2>2, <3>1
  <2>4. \/ faults' = faults + 1
        \/ CallFailed \/ InpainterRefused \/ AwaitPrewarm
    <3> USE <2>2 DEF control, InpaintUnchanged
    <3>1. UNCHANGED outcome \/ Preflight \/ DetectEnds \/ CallFailed \/ InpainterRefused \/ AwaitPrewarm
          \/ InpaintEnds \/ Reconcile \/ NoticeCancel \/ Raises
      BY <2>3 DEF PipelineMove, StartOcrPrewarm, PlanOcr, OcrLoaded, OcrEnds, PlanTranslation,
          TranslateEnds,
         StopGemma, CallWorked, RetryFailed, GemmaStopped, PlanInpaintEnds, LoadInpainter,
             DrainTail, DrainEnds,
         StopRender, AwaitRender, AwaitWorker, StopSecond, BatchReturns, DetectPage, OcrPage,
             RetryOcrPage,
         TranslatePage, LateGemma, PlanInpaintPage, InpaintPage
    <3>2. Preflight \/ DetectEnds => UNCHANGED outcome
      BY DEF Preflight, DetectEnds
    <3>3. NoticeCancel => outcome' = "cancelled"
      BY DEF NoticeCancel, Cancelled, Leave
    <3>4. InpaintEnds \/ Raises => faults' = faults + 1
      BY DEF InpaintEnds, Raises
    <3>5. Reconcile => faults' = faults + 1
      BY DEF Reconcile
    <3> QED
      BY <3>1, <3>2, <3>3, <3>4, <3>5
  <2>5. AwaitPrewarm => outcome' \in {"cancelled", outcome}
    BY DEF AwaitPrewarm, Leave
  <2>6. CallFailed => faults' = faults /\ faults # 0
    <3> SUFFICES ASSUME CallFailed PROVE faults' = faults /\ faults # 0
      OBVIOUS
    <3>1. /\ at \in {"loadOcr", "ocr", "ocrRelease", "translate", "gemmaRelease"}
          /\ call["pipeline"] # None /\ Leave(call["pipeline"].at) /\ UNCHANGED faults
      BY DEF CallFailed, Returns
    <3>2. Arrived("failed")
      BY <3>1 DEF Leave, Arrived, InCall
    <3>3. ~stopping
      BY <3>1 DEF GpuInv, JobsKept, JobsEnded, Dismissed
    <3> QED
      BY <3>1, <3>2, <3>3 DEF GpuInv, Faultless, LeaseByStage
  <2>7. InpainterRefused => faults' = faults /\ faults # 0
    BY DEF InpainterRefused, GpuInv, Faultless, LeaseByStage
  <2> QED
    BY <2>1, <2>2, <2>4, <2>5, <2>6, <2>7
<1> QED
  BY <1>1, GpuInvariance, PTL DEF Spec, FailsForCause
=============================================================================
