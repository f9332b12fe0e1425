------------------------- MODULE LlamaRouterOpenProofs -------------------------
(***************************************************************************)
(* What is proved of the shared Router while the window is open: no thread *)
(* closes the application, and the manual jobs run one at a time, as the   *)
(* task runner serves them.  Then there is at most one call at any moment, *)
(* and what a call read of the coordinator before it took its locks is     *)
(* still true once it holds them.                                          *)
(***************************************************************************)
EXTENDS LlamaRouterProofs

OneManual == \A t, u \in Manual : t = u
Open == OneManual /\ Closing = {}

\* What a call that stops something knows: from its snapshot, until it acts on it.
Sees(t) ==
  /\ At(t, "force") => state = "RELEASE_FAILED"
  /\ At(t, "stopEmpty") => loaded = None
  /\ At(t, "stopping") => state = "RELEASE_FAILED" \/ loaded = None
  /\ At(t, "unload") \/ At(t, "force") \/ At(t, "stopEmpty") \/ At(t, "stopping") \/ At(t, "mark")
       \/ At(t, "lateMarking") => contract # None
  /\ At(t, "stopOld") \/ At(t, "create") \/ At(t, "loading") \/ At(t, "aborting")
       \/ At(t, "drain") \/ At(t, "stopping") => ~accepting

FailureNamed == state = "RELEASE_FAILED" => contract # None
OpenInv == AcceptImpliesResident /\ FailureNamed /\ \A t \in Thread : Sees(t)

USE NamesAssumption, ThreadAssumption, TimeOutAssumption, RequestAssumption, NoneAssumption

-----------------------------------------------------------------------------
(* One call at a time.                                                      *)

\* The calls of a job exclude each other: those of a batch by the stage arbiter's lock,
\* its prewarm by coming before them, and the two kinds of jobs by the application's mode.
OneCall == \A t, u \in Batch \cup Manual : job[t] # None /\ job[u] # None => t = u

LEMMA CallsExclude == OneManual /\ Calls => OneCall
<1> SUFFICES ASSUME OneManual, Calls,
                    NEW t \in Batch \cup Manual, job[t] # None,
                    NEW u \in Batch \cup Manual, job[u] # None
             PROVE  t = u
  BY DEF OneCall
<1> USE DEF Calls
<1>1. CASE t \in Manual \/ u \in Manual
  <2>1. t \in Manual /\ u \in Manual
    BY <1>1 DEF Modes, Rounds
  <2> QED
    BY <2>1 DEF OneManual
<1>2. CASE t \in Batch /\ u \in Batch
  <2>1. CASE job[t].op = "prepare" \/ job[u].op = "prepare"
    BY <1>2, <2>1 DEF Modes
  <2>2. CASE job[t].op # "prepare" /\ job[u].op # "prepare"
    BY <1>2, <2>2 DEF Locks, HoldsArbiter, ArbiterOf, Bracketed, Thread
  <2> QED
    BY <2>1, <2>2
<1> QED
  BY <1>1, <1>2

LEMMA CallsExcludeNext ==
  ASSUME OneManual
  PROVE  Calls' => OneCall'
<1>1. Calls => OneCall
  BY CallsExclude
<1> QED
  BY <1>1, PTL

\* So that a step of one call leaves no other whose knowledge it could disturb.
LEMMA SeesFrame ==
  ASSUME Open, Calls, Calls', NEW t \in Thread, Others(t), job[t] # None \/ job'[t] # None,
         Sees(t)'
  PROVE  \A u \in Thread : Sees(u)'
<1> SUFFICES ASSUME NEW u \in Thread, u # t
             PROVE  Sees(u)'
  OBVIOUS
<1>1. t \in Batch \cup Manual /\ u \in Batch \cup Manual /\ OneManual
  BY DEF Open, Thread
<1>2. job'[u] = job[u]
  BY DEF Others
<1>3. CASE job'[t] # None
  <2>1. job'[u] = None
    BY <1>1, <1>3, CallsExcludeNext DEF OneCall
  <2> QED
    BY <2>1 DEF Sees, At
<1>4. CASE job[t] # None
  <2>1. job'[u] = None
    BY <1>1, <1>2, <1>4, CallsExclude DEF OneCall
  <2> QED
    BY <2>1 DEF Sees, At
<1> QED
  BY <1>3, <1>4

\* Nothing is accepted for a model that there is not.
LEMMA NotAccepting ==
  ASSUME WorldTyped, AcceptImpliesResident, loaded = None \/ state \notin Loaded
  PROVE  ~accepting
<1>1. None \notin Alias
  BY DEF Service
<1> QED
  BY <1>1 DEF WorldTyped, AcceptImpliesResident, Loaded

\* A step of a call that leaves the coordinator and the container alone.
LEMMA OpenFrame ==
  ASSUME Open, Calls, Calls', OpenInv, UNCHANGED <<coordinator, world>>,
         NEW t \in Thread, Others(t), job[t] # None \/ job'[t] # None, Sees(t)'
  PROVE  OpenInv'
<1>1. AcceptImpliesResident' /\ FailureNamed'
  BY DEF OpenInv, AcceptImpliesResident, FailureNamed, coordinator, world
<1> QED
  BY <1>1, SeesFrame DEF OpenInv

\* A step of no call, by which no more is accepted than before.
LEMMA OpenSame ==
  ASSUME OpenInv, UNCHANGED <<state, contract, loaded, accepting, container, resident, job>>
  PROVE  OpenInv'
  BY DEF OpenInv, AcceptImpliesResident, FailureNamed, Sees, At

\* What a finish knows as it begins.
LEMMA FinishSees ==
  ASSUME Shared, UNCHANGED coordinator, NEW t \in Thread, NEW stop \in BOOLEAN,
         job'[t] # None => job'[t].at = FinishPoint(stop)
  PROVE  Sees(t)'
<1>1. /\ FinishPoint(stop) \in {"unload", "force", "stopEmpty", "raise", "return"}
      /\ FinishPoint(stop) = "force" => state = "RELEASE_FAILED" /\ contract # None
      /\ FinishPoint(stop) = "stopEmpty" => contract # None /\ loaded = None
      /\ FinishPoint(stop) = "unload" => loaded # None
  BY DEF FinishPoint, Loaded
<1>2. loaded # None => contract # None
  BY DEF Shared, Ownership
<1> QED
  BY <1>1, <1>2 DEF Sees, At, coordinator

-----------------------------------------------------------------------------
(* The steps, one by one.                                                   *)

Both == Inv /\ Inv' /\ OpenInv

\* A release that worked leaves its call without knowledge of the coordinator.
LEMMA EndsNowhere ==
  ASSUME Arbiters, Calls, NEW t \in Thread, job[t] # None, ReleaseEnds(t)
  PROVE  \A point \in {"unload", "force", "stopEmpty", "mark", "stopping", "stopOld", "create",
                       "loading", "aborting", "drain", "lateMarking"} : ~At(t, point)'
<1>1. CASE job[t].op = "change"
  BY <1>1, ContinueEffect DEF ReleaseEnds, Began, At
<1>2. CASE job[t].op # "change"
  BY <1>2, EndEffect DEF ReleaseEnds, Calls, Ended, At
<1> QED
  BY <1>1, <1>2


\* A start begins with no knowledge of the coordinator.
LEMMA EnsureOCROpen ==
  ASSUME Open, Both, NEW t \in Thread, NEW p \in Pair, EnsureOCR(t, p)
  PROVE  OpenInv'
<1>1. Others(t) /\ job'[t] # None /\ job'[t].at = "prepare"
  <2>1. Began(t, "load", "prepare", "ocr", p, p, p, FALSE)
    BY BeginEffect DEF Both, Inv, Calls, Owners, ManagersTyped, EnsureOCR, BeginStart, Points,
       Managers, Alias, Service
  <2> QED
    BY <2>1 DEF Began
<1>2. Sees(t)'
  BY <1>1 DEF Sees, At
<1> QED
  BY <1>1, <1>2, OpenFrame DEF Both, Inv, EnsureOCR, BeginStart

LEMMA EnsureGemmaOpen ==
  ASSUME Open, Both, NEW t \in Thread, EnsureGemma(t)
  PROVE  OpenInv'
<1>1. Others(t) /\ job'[t] # None /\ job'[t].at = "prepare"
  <2>1. Began(t, "load", "prepare", "gemma", Gemma, Gemma, spec, FALSE)
    BY BeginEffect DEF Both, Inv, Calls, Owners, ManagersTyped, EnsureGemma, BeginStart,
       Points, Managers, Alias, Service, GemmaOnRouter
  <2> QED
    BY <2>1 DEF Began
<1>2. Sees(t)'
  BY <1>1 DEF Sees, At
<1> QED
  BY <1>1, <1>2, OpenFrame DEF Both, Inv, EnsureGemma, BeginStart

LEMMA PrepareContainerOpen ==
  ASSUME Open, Both, NEW t \in Thread, NEW p \in Pair, PrepareContainer(t, p)
  PROVE  OpenInv'
<1>1. Others(t) /\ job'[t] # None /\ job'[t].at = "prepare"
  <2>1. Began(t, "prepare", "prepare", "ocr", p, None, p, FALSE)
    BY BeginEffect DEF Both, Inv, Calls, Owners, ManagersTyped, PrepareContainer, BeginStart,
       Points, Managers, Alias, Service
  <2> QED
    BY <2>1 DEF Began
<1>2. Sees(t)'
  BY <1>1 DEF Sees, At
<1> QED
  BY <1>1, <1>2, OpenFrame DEF Both, Inv, PrepareContainer, BeginStart

\* Nor does a match,
LEMMA EnsureMatchingOpen ==
  ASSUME Open, Both, NEW t \in Thread, NEW m \in Managers, NEW p \in Pair, EnsureMatching(t, m, p)
  PROVE  OpenInv'
<1> DEFINE alias == IF m = "ocr" THEN p ELSE Gemma
<1>1. alias \in Alias /\ alias \in Service
  BY DEF Alias, Service
<1>2. job' = [job EXCEPT ![t] = NewJob("load", "matched", m, alias, alias, p, FALSE)]
  BY DEF EnsureMatching
<1> HIDE DEF alias
<1>3. Began(t, "load", "matched", m, alias, alias, p, FALSE)
  BY <1>1, <1>2, BeginEffect DEF Both, Inv, Calls, Points
<1>4. Sees(t)'
  BY <1>3 DEF Began, Sees, At
<1> QED
  BY <1>3, <1>4, OpenFrame DEF Both, Inv, EnsureMatching, Began

\* or the adoption that ends it.
LEMMA AdoptMatchingOpen ==
  ASSUME Open, Both, NEW t \in Thread, AdoptMatching(t)
  PROVE  OpenInv'
<1>1. job[t] # None /\ Ended(t)
  BY EndEffect DEF Both, Inv, Calls, AdoptMatching, At
<1>2. Sees(t)'
  BY <1>1 DEF Sees, At, Ended
<1> QED
  BY <1>1, <1>2, OpenFrame DEF Both, Inv, AdoptMatching, Ended

\* Past the checks no model is loaded.
LEMMA PrepareOpen ==
  ASSUME Open, Both, NEW t \in Thread, Prepare(t)
  PROVE  OpenInv'
<1>1. job[t] # None /\ Moved(t) /\ job'[t].at \in {"abort", "confirm", "load", "stopOld",
          "create"}
  BY GotoEffect DEF Both, Inv, Calls, Prepare, At, Points
<1>2. Sees(t)'
  <2>1. job'[t].at \in {"stopOld", "create"} => loaded = None
    BY GotoEffect DEF Both, Inv, Calls, Prepare, At, Points
  <2>2. job'[t].at \in {"stopOld", "create"} => ~accepting
    BY <2>1, NotAccepting DEF Both, Inv, Shared, OpenInv
  <2> QED
    BY <1>1, <2>2 DEF Sees, At, Moved, Prepare, coordinator
<1> QED
  BY <1>1, <1>2, OpenFrame DEF Both, Inv, Prepare, Moved

\* A load goes on from a ready container.
LEMMA LoadOpen ==
  ASSUME Open, Both, NEW t \in Thread, Load(t)
  PROVE  OpenInv'
<1>1. job[t] # None /\ Moved(t) /\ job'[t].at \in {"abort", "confirm", "loading"}
  BY GotoEffect DEF Both, Inv, Calls, Load, At, Points
<1>2. Sees(t)'
  <2>1. job'[t].at = "loading" => state = "CONTAINER_READY"
    BY GotoEffect DEF Both, Inv, Calls, Load, At, Points
  <2>2. job'[t].at = "loading" => ~accepting
    BY <2>1, NotAccepting DEF Both, Inv, Shared, OpenInv, Loaded
  <2> QED
    BY <1>1, <2>2 DEF Sees, At, Moved, Load, coordinator
<1> QED
  BY <1>1, <1>2, OpenFrame DEF Both, Inv, Load, Moved

\* A call that ends knows nothing any more.
LEMMA StartSucceedsOpen ==
  ASSUME Open, Both, NEW t \in Thread, StartSucceeds(t)
  PROVE  OpenInv'
<1>1. job[t] # None /\ Ended(t)
  BY EndEffect DEF Both, Inv, Calls, StartSucceeds, At
<1>2. Sees(t)'
  BY <1>1 DEF Sees, At, Ended
<1> QED
  BY <1>1, <1>2, OpenFrame DEF Both, Inv, StartSucceeds, Ended

\* Nor does one that aborts.
LEMMA StartCancelledOpen ==
  ASSUME Open, Both, NEW t \in Thread, StartCancelled(t)
  PROVE  OpenInv'
<1>1. job[t] # None /\ Moved(t) /\ job'[t].at = "abort"
  BY GotoEffect DEF Both, Inv, Calls, StartCancelled, At, Points
<1>2. Sees(t)'
  BY <1>1 DEF Sees, At, Moved
<1> QED
  BY <1>1, <1>2, OpenFrame DEF Both, Inv, StartCancelled, Moved

\* Nothing is owned.
LEMMA AbortNothingOpen ==
  ASSUME Open, Both, NEW t \in Thread, AbortNothing(t)
  PROVE  OpenInv'
<1>1. job[t] # None /\ Moved(t) /\ job'[t].at = "lateMark"
  BY GotoEffect DEF Both, Inv, Calls, AbortNothing, At, Points, LeaveStart
<1>2. Sees(t)'
  BY <1>1 DEF Sees, At, Moved
<1> QED
  BY <1>1, <1>2, OpenFrame DEF Both, Inv, AbortNothing, Moved, LeaveStart

\* The drain that timed out is left.
LEMMA AbortTimesOutOpen ==
  ASSUME Open, Both, NEW t \in Thread, AbortTimesOut(t)
  PROVE  OpenInv'
<1>1. job[t] # None /\ Moved(t) /\ job'[t].at = "outer"
  BY GotoEffect DEF Both, Inv, Calls, AbortTimesOut, At, Points, LeaveStart
<1>2. Sees(t)'
  BY <1>1 DEF Sees, At, Moved
<1> QED
  BY <1>1, <1>2, OpenFrame DEF Both, Inv, AbortTimesOut, Moved, LeaveStart

\* The old container is stopped and disowned.
LEMMA StopOldOpen ==
  ASSUME Open, Both, NEW t \in Thread, StopOld(t)
  PROVE  OpenInv'
<1>1. job[t] # None /\ Moved(t) /\ job'[t].at = "create"
  BY GotoEffect DEF Both, Inv, Calls, StopOld, At, Points
<1>2. Sees(t) /\ Knows(t)
  BY DEF Both, Inv, Between, AtPoints, OpenInv
<1>3. AcceptImpliesResident'
  BY <1>2 DEF AcceptImpliesResident, StopOld, Sees, At, StoppedAndCleared, Clear, Mark, coordinator
<1>4. FailureNamed'
  BY DEF Both, OpenInv, FailureNamed, StopOld, StoppedAndCleared, Clear, Mark, coordinator
<1>5. Sees(t)'
  BY <1>1 DEF Sees, At, Moved, StopOld, StoppedAndCleared, Clear
<1> QED
  BY <1>1, <1>3, <1>4, <1>5, SeesFrame DEF Both, Inv, OpenInv, Moved

\* A stop of it that failed leaves nothing accepted.
LEMMA StopOldFailsOpen ==
  ASSUME Open, Both, NEW t \in Thread, NEW quiet \in BOOLEAN, StopOldFails(t, quiet)
  PROVE  OpenInv'
<1>1. job[t] # None /\ Moved(t) /\ job'[t].at = "abort"
  BY RaiseEffect DEF Both, Inv, Calls, StopOldFails, At, Points
<1>2. Sees(t) /\ Knows(t)
  BY DEF Both, Inv, Between, AtPoints, OpenInv
<1>3. AcceptImpliesResident'
  BY <1>2 DEF AcceptImpliesResident, StopOldFails, Sees, At, Stopped, Clear, Mark, coordinator
<1>4. FailureNamed'
  BY DEF Both, OpenInv, FailureNamed, StopOldFails, Clear, Mark, coordinator
<1>5. Sees(t)'
  BY <1>1 DEF Sees, At, Moved
<1> QED
  BY <1>1, <1>3, <1>4, <1>5, SeesFrame DEF Both, Inv, OpenInv, Moved

\* The new container has no model to accept for.
LEMMA CreateOpen ==
  ASSUME Open, Both, NEW t \in Thread, NEW probed \in BOOLEAN, Create(t, probed)
  PROVE  OpenInv'
<1>1. job[t] # None /\ Moved(t) /\ job'[t].at \in {"abort", "confirm", "load"}
  BY GotoEffect DEF Both, Inv, Calls, Create, At, Points
<1>2. Sees(t) /\ Knows(t)
  BY DEF Both, Inv, Between, AtPoints, OpenInv
<1>3. AcceptImpliesResident'
  BY DEF AcceptImpliesResident, Create
<1>4. FailureNamed'
  BY DEF FailureNamed, Create
<1>5. Sees(t)'
  BY <1>1 DEF Sees, At, Moved
<1> QED
  BY <1>1, <1>3, <1>4, <1>5, SeesFrame DEF Both, Inv, OpenInv, Moved

\* Neither has one that was not published.
LEMMA CreateFailsOpen ==
  ASSUME Open, Both, NEW t \in Thread, NEW quiet \in BOOLEAN, CreateFails(t, quiet)
  PROVE  OpenInv'
<1>1. job[t] # None /\ Moved(t) /\ job'[t].at = "abort"
  BY RaiseEffect DEF Both, Inv, Calls, CreateFails, At, Points
<1>2. Sees(t) /\ Knows(t)
  BY DEF Both, Inv, Between, AtPoints, OpenInv
<1>3. AcceptImpliesResident'
  BY <1>2 DEF AcceptImpliesResident, CreateFails, Sees, At, Stopped, Clear, Mark, coordinator
<1>4. FailureNamed'
  BY DEF Both, OpenInv, FailureNamed, CreateFails, Clear, Mark, coordinator
<1>5. Sees(t)'
  BY <1>1 DEF Sees, At, Moved
<1> QED
  BY <1>1, <1>3, <1>4, <1>5, SeesFrame DEF Both, Inv, OpenInv, Moved

\* The model that is published is the one resident in the own container.
LEMMA LoadPublishOpen ==
  ASSUME Open, Both, NEW t \in Thread, LoadPublish(t)
  PROVE  OpenInv'
<1>1. job[t] # None /\ Moved(t) /\ job'[t].at = "confirm"
  BY GotoEffect DEF Both, Inv, Calls, LoadPublish, At, Points
<1>2. Sees(t) /\ Knows(t)
  BY DEF Both, Inv, Between, AtPoints, OpenInv
<1>3. AcceptImpliesResident'
  <2>1. /\ job[t] # None /\ job[t].pair \in Pair /\ contract = job[t].pair
    BY <1>1, <1>2, StartFacts DEF Both, Inv, LoadPublish, At, Knows, StartPoints
  <2>2. None \notin Pair
    BY DEF Alias, Service
  <2> QED
    BY <2>1, <2>2 DEF AcceptImpliesResident, LoadPublish
<1>4. FailureNamed'
  BY DEF FailureNamed, LoadPublish
<1>5. Sees(t)'
  BY <1>1 DEF Sees, At, Moved
<1> QED
  BY <1>1, <1>3, <1>4, <1>5, SeesFrame DEF Both, Inv, OpenInv, Moved

\* A load that failed may leave its model, which nobody accepts for.
LEMMA LoadFailsOpen ==
  ASSUME Open, Both, NEW t \in Thread, NEW quiet \in BOOLEAN, LoadFails(t, quiet)
  PROVE  OpenInv'
<1>1. job[t] # None /\ Moved(t) /\ job'[t].at = "abort"
  BY RaiseEffect DEF Both, Inv, Calls, LoadFails, At, Points
<1>2. Sees(t) /\ Knows(t)
  BY DEF Both, Inv, Between, AtPoints, OpenInv
<1>3. AcceptImpliesResident'
  BY <1>2 DEF AcceptImpliesResident, LoadFails, Sees, At, Stopped, Clear, Mark, coordinator
<1>4. FailureNamed'
  BY DEF Both, OpenInv, FailureNamed, LoadFails, Clear, Mark, coordinator
<1>5. Sees(t)'
  BY <1>1 DEF Sees, At, Moved
<1> QED
  BY <1>1, <1>3, <1>4, <1>5, SeesFrame DEF Both, Inv, OpenInv, Moved

\* The drain of a failed start no longer accepts.
LEMMA AbortOpen ==
  ASSUME Open, Both, NEW t \in Thread, Abort(t)
  PROVE  OpenInv'
<1>1. job[t] # None /\ Moved(t) /\ job'[t].at = "aborting"
  BY GotoEffect DEF Both, Inv, Calls, Abort, At, Points
<1>2. AcceptImpliesResident'
  BY DEF AcceptImpliesResident, Abort
<1>3. FailureNamed'
  BY DEF FailureNamed, Abort
<1>4. Sees(t)'
  BY <1>1 DEF Sees, At, Moved, Abort
<1> QED
  BY <1>1, <1>2, <1>3, <1>4, SeesFrame DEF Both, Inv, OpenInv, Moved

\* It ends with nothing owned,
LEMMA AbortStopsOpen ==
  ASSUME Open, Both, NEW t \in Thread, AbortStops(t)
  PROVE  OpenInv'
<1>1. job[t] # None /\ Moved(t) /\ job'[t].at = "lateMark"
  BY GotoEffect DEF Both, Inv, Calls, AbortStops, At, Points, LeaveStart
<1>2. AcceptImpliesResident'
  BY DEF AcceptImpliesResident, AbortStops, StoppedAndCleared, Clear, Mark
<1>3. FailureNamed'
  BY DEF Both, OpenInv, FailureNamed, AbortStops, StoppedAndCleared, Clear, Mark, coordinator
<1>4. Sees(t)'
  BY <1>1 DEF Sees, At, Moved
<1> QED
  BY <1>1, <1>2, <1>3, <1>4, SeesFrame DEF Both, Inv, OpenInv, Moved

\* or with a failure that names what is owned.
LEMMA AbortStopFailsOpen ==
  ASSUME Open, Both, NEW t \in Thread, AbortStopFails(t)
  PROVE  OpenInv'
<1>1. job[t] # None /\ Moved(t) /\ job'[t].at = "lateMark"
  BY GotoEffect DEF Both, Inv, Calls, AbortStopFails, At, Points, LeaveStart
<1>2. Sees(t) /\ Knows(t)
  BY DEF Both, Inv, Between, AtPoints, OpenInv
<1>3. AcceptImpliesResident'
  BY DEF AcceptImpliesResident, AbortStopFails, Clear, Mark
<1>4. FailureNamed'
  BY <1>2 DEF FailureNamed, Knows, AbortStopFails, Mark
<1>5. Sees(t)'
  BY <1>1 DEF Sees, At, Moved
<1> QED
  BY <1>1, <1>3, <1>4, <1>5, SeesFrame DEF Both, Inv, OpenInv, Moved

\* The late look goes on to the mark only if a container is still owned.
LEMMA LateLookOpen ==
  ASSUME Open, Both, NEW t \in Thread, LateLook(t)
  PROVE  OpenInv'
<1>1. /\ job[t] # None /\ Moved(t) /\ job'[t].at \in {"lateMarking", "outer"}
      /\ job'[t].at = "lateMarking" => contract # None \/ state # "IDLE"
  BY GotoEffect DEF Both, Inv, Calls, LateLook, At, Points
<1>2. Sees(t)'
  <2>1. state \in RouterState /\ (state # "IDLE" => contract # None)
    BY DEF Both, Inv, Shared, CoordinatorTyped, Ownership, OpenInv, FailureNamed, RouterState,
       Loaded
  <2> QED
    BY <1>1, <2>1 DEF Sees, At, Moved, LateLook, coordinator
<1> QED
  BY <1>1, <1>2, OpenFrame DEF Both, Inv, LateLook, Moved

\* Nobody has taken it away since.
LEMMA LateMarkOpen ==
  ASSUME Open, Both, NEW t \in Thread, LateMark(t)
  PROVE  OpenInv'
<1>1. job[t] # None /\ Moved(t) /\ job'[t].at = "outer"
  BY GotoEffect DEF Both, Inv, Calls, LateMark, At, Points
<1>2. AcceptImpliesResident'
  BY DEF AcceptImpliesResident, LateMark, Mark
<1>3. FailureNamed'
  <2>1. Sees(t)
    BY DEF Both, OpenInv
  <2> QED
    BY <2>1 DEF FailureNamed, Sees, LateMark, Mark
<1>4. Sees(t)'
  BY <1>1 DEF Sees, At, Moved
<1> QED
  BY <1>1, <1>2, <1>3, <1>4, SeesFrame DEF Both, Inv, OpenInv, Moved

\* A finish begins with its snapshot.
LEMMA ShutdownOpen ==
  ASSUME Open, Both, NEW t \in Thread, NEW m \in Managers, NEW s \in Service, NEW stop \in
         BOOLEAN, NEW foreign \in BOOLEAN, Shutdown(t, m, s, stop, foreign)
  PROVE  OpenInv'
<1>1. Others(t) /\ job'[t] # None /\ job'[t].at = FinishPoint(stop)
  BY FinishEffect DEF Both, Inv, Calls, Shared, Owners, ManagersTyped, Shutdown, Began,
     Managers, Alias, Service
<1>2. Sees(t)'
  BY <1>1, FinishSees DEF Both, Inv, Shutdown
<1> QED
  BY <1>1, <1>2, OpenFrame DEF Both, Inv, Shutdown

\* So does a change of pair, of a manual job
LEMMA ChangePairOpen ==
  ASSUME Open, Both, NEW t \in Thread, NEW p \in Pair, ChangePair(t, p)
  PROVE  OpenInv'
<1>1. Others(t) /\ job'[t] # None /\ job'[t].at = FinishPoint(TRUE)
  BY FinishEffect DEF Both, Inv, Calls, Shared, Owners, ManagersTyped, ChangePair, Began,
     Managers, Alias, Service
<1>2. Sees(t)'
  BY <1>1, FinishSees DEF Both, Inv, ChangePair
<1> QED
  BY <1>1, <1>2, OpenFrame DEF Both, Inv, ChangePair

\* or inside a start of a batch.
LEMMA ChangePairInStartOpen ==
  ASSUME Open, Both, NEW t \in Thread, NEW p \in Pair, ChangePairInStart(t, p)
  PROVE  OpenInv'
<1>1. Others(t) /\ job'[t] # None /\ job'[t].at = FinishPoint(TRUE)
  <2>1. FinishPoint(TRUE) \in Points /\ contract \in Pair \cup {None} /\ p \in Service /\ JobTyped
    BY FinishPointType DEF Both, Inv, Points, Shared, CoordinatorTyped, Service, Alias, Calls
  <2> QED
    BY <2>1, BeginEffect DEF ChangePairInStart, Began, Managers
<1>2. Sees(t)'
  BY <1>1, FinishSees DEF Both, Inv, ChangePairInStart
<1> QED
  BY <1>1, <1>2, OpenFrame DEF Both, Inv, ChangePairInStart

\* An attempt without a finish is no step of a call.
LEMMA ShutdownInactiveOpen ==
  ASSUME Open, Both, NEW t \in Thread, NEW m \in Managers, NEW s \in Service, NEW stop \in
         BOOLEAN, NEW foreign \in BOOLEAN, ShutdownInactive(t, m, s, stop, foreign)
  PROVE  OpenInv'
<1> QED
  BY OpenSame DEF Both, ShutdownInactive, coordinator, world

LEMMA ShutdownConflictOpen ==
  ASSUME Open, Both, NEW t \in Thread, NEW m \in Managers, NEW s \in Service, NEW stop \in
         BOOLEAN, ShutdownConflict(t, m, s, stop)
  PROVE  OpenInv'
<1> QED
  BY OpenSame DEF Both, ShutdownConflict, coordinator, world

\* The drain no longer accepts.
LEMMA UnloadOpen ==
  ASSUME Open, Both, NEW t \in Thread, Unload(t)
  PROVE  OpenInv'
<1>1. job[t] # None /\ Moved(t) /\ job'[t].at = "drain"
  BY GotoEffect DEF Both, Inv, Calls, Unload, At, Points
<1>2. AcceptImpliesResident'
  BY DEF AcceptImpliesResident, Unload
<1>3. FailureNamed'
  BY DEF FailureNamed, Unload
<1>4. Sees(t)'
  BY <1>1 DEF Sees, At, Moved, Unload
<1> QED
  BY <1>1, <1>2, <1>3, <1>4, SeesFrame DEF Both, Inv, OpenInv, Moved

\* What is refused still names its container.
LEMMA RefusedOpen ==
  ASSUME Open, Both, NEW t \in Thread, Refused(t)
  PROVE  OpenInv'
<1>1. job[t] # None /\ Moved(t) /\ job'[t].at = "mark"
  BY GotoEffect DEF Both, Inv, Calls, Refused, At, Points
<1>2. Sees(t)'
  BY <1>1 DEF Both, OpenInv, Sees, At, Moved, Refused, coordinator
<1> QED
  BY <1>1, <1>2, OpenFrame DEF Both, Inv, Refused, Moved

\* And what meets another's lease.
LEMMA ConflictOpen ==
  ASSUME Open, Both, NEW t \in Thread, Conflict(t)
  PROVE  OpenInv'
<1>1. job[t] # None /\ Moved(t) /\ job'[t].at = "mark"
  BY GotoEffect DEF Both, Inv, Calls, Conflict, At, Points
<1>2. Sees(t)'
  BY <1>1 DEF Both, OpenInv, Sees, At, Moved, Conflict, coordinator
<1> QED
  BY <1>1, <1>2, OpenFrame DEF Both, Inv, Conflict, Moved

\* A forced stop is of a failed release or of an empty container.
LEMMA ForceStopOpen ==
  ASSUME Open, Both, NEW t \in Thread, ForceStop(t)
  PROVE  OpenInv'
<1>1. job[t] # None /\ Moved(t) /\ job'[t].at = "stopping"
  BY GotoEffect DEF Both, Inv, Calls, ForceStop, At, Points
<1>2. Sees(t)'
  <2>1. Sees(t) /\ (state = "RELEASE_FAILED" \/ loaded = None) /\ contract # None
    BY DEF Both, OpenInv, Sees, ForceStop
  <2>2. ~accepting
    BY <2>1, NotAccepting DEF Both, Inv, Shared, OpenInv, Loaded
  <2> QED
    BY <1>1, <2>1, <2>2 DEF Sees, At, Moved, ForceStop, coordinator
<1> QED
  BY <1>1, <1>2, OpenFrame DEF Both, Inv, ForceStop, Moved

\* The mark names the container that the failed call knew.
LEMMA MarkFailedOpen ==
  ASSUME Open, Both, NEW t \in Thread, MarkFailed(t)
  PROVE  OpenInv'
<1>1. job[t] # None /\ Moved(t) /\ job'[t].at = "raise"
  BY GotoEffect DEF Both, Inv, Calls, MarkFailed, At, Points
<1>2. Sees(t) /\ Knows(t)
  BY DEF Both, Inv, Between, AtPoints, OpenInv
<1>3. AcceptImpliesResident'
  BY DEF AcceptImpliesResident, MarkFailed, Clear, Mark
<1>4. FailureNamed'
  BY <1>2 DEF FailureNamed, Sees, MarkFailed, Mark
<1>5. Sees(t)'
  BY <1>1 DEF Sees, At, Moved
<1> QED
  BY <1>1, <1>3, <1>4, <1>5, SeesFrame DEF Both, Inv, OpenInv, Moved

\* The model is gone, and nothing is accepted until the next is loaded.
LEMMA UnloadedOpen ==
  ASSUME Open, Both, NEW t \in Thread, Unloaded(t)
  PROVE  OpenInv'
<1>1. Releases(t) /\ job[t] # None
  BY ReleaseEndsEffect DEF Both, Inv, Unloaded, At
<1>2. AcceptImpliesResident'
  BY DEF AcceptImpliesResident, Unloaded, StoppedAndCleared, Clear
<1>3. FailureNamed'
  BY DEF FailureNamed, Unloaded, StoppedAndCleared, Clear
<1>4. Sees(t)'
  <2>1. \A point \in {"unload", "force", "stopEmpty", "mark", "stopping", "stopOld", "create",
            "loading", "aborting", "drain", "lateMarking"} : ~At(t, point)'
    BY <1>1, EndsNowhere DEF Unloaded, Both, Inv
  <2> QED
    BY <2>1 DEF Sees
<1> QED
  BY <1>1, <1>2, <1>3, <1>4, SeesFrame DEF Both, Inv, OpenInv, Releases

\* A failed unload goes on to its mark.
LEMMA UnloadFailsOpen ==
  ASSUME Open, Both, NEW t \in Thread, UnloadFails(t)
  PROVE  OpenInv'
<1>1. Releases(t) /\ job[t] # None
  BY ReleaseFailsEffect DEF Both, Inv, UnloadFails, At
<1>2. Sees(t) /\ Knows(t)
  BY DEF Both, Inv, Between, AtPoints, OpenInv
<1>3. AcceptImpliesResident'
  BY <1>2 DEF AcceptImpliesResident, UnloadFails, Sees, At, Stopped, Clear, Mark, coordinator
<1>4. FailureNamed'
  BY DEF Both, OpenInv, FailureNamed, UnloadFails, Clear, Mark, coordinator
<1>5. Sees(t)'
  <2>1. contract # None /\ UNCHANGED contract /\ job'[t] # None /\ job'[t].at = "mark"
    BY <1>1, <1>2, GotoEffect DEF Both, Inv, Calls, Knows, UnloadFails, ReleaseFails,
       coordinator, Points, Moved
  <2> QED
    BY <2>1 DEF Sees, At
<1> QED
  BY <1>1, <1>3, <1>4, <1>5, SeesFrame DEF Both, Inv, OpenInv, Releases

\* A forced stop leaves nothing owned,
LEMMA ForceStoppedOpen ==
  ASSUME Open, Both, NEW t \in Thread, ForceStopped(t)
  PROVE  OpenInv'
<1>1. Releases(t) /\ job[t] # None
  BY ReleaseEndsEffect DEF Both, Inv, ForceStopped, At
<1>2. AcceptImpliesResident'
  BY DEF AcceptImpliesResident, ForceStopped, StoppedAndCleared, Clear
<1>3. FailureNamed'
  BY DEF FailureNamed, ForceStopped, StoppedAndCleared, Clear
<1>4. Sees(t)'
  <2>1. \A point \in {"unload", "force", "stopEmpty", "mark", "stopping", "stopOld", "create",
            "loading", "aborting", "drain", "lateMarking"} : ~At(t, point)'
    BY <1>1, EndsNowhere DEF ForceStopped, Both, Inv
  <2> QED
    BY <2>1 DEF Sees
<1> QED
  BY <1>1, <1>2, <1>3, <1>4, SeesFrame DEF Both, Inv, OpenInv, Releases

\* or goes on to its mark.
LEMMA ForceStopFailsOpen ==
  ASSUME Open, Both, NEW t \in Thread, ForceStopFails(t)
  PROVE  OpenInv'
<1>1. Releases(t) /\ job[t] # None
  BY ReleaseFailsEffect DEF Both, Inv, ForceStopFails, At
<1>2. Sees(t) /\ Knows(t)
  BY DEF Both, Inv, Between, AtPoints, OpenInv
<1>3. AcceptImpliesResident'
  BY <1>2 DEF AcceptImpliesResident, ForceStopFails, Sees, At, Stopped, Clear, Mark, coordinator
<1>4. FailureNamed'
  BY DEF Both, OpenInv, FailureNamed, ForceStopFails, Clear, Mark, coordinator
<1>5. Sees(t)'
  <2>1. contract # None /\ UNCHANGED contract /\ job'[t] # None /\ job'[t].at = "mark"
    BY <1>1, <1>2, GotoEffect DEF Both, Inv, Calls, Sees, ForceStopFails, ReleaseFails,
       coordinator, Points, Moved
  <2> QED
    BY <2>1 DEF Sees, At
<1> QED
  BY <1>1, <1>3, <1>4, <1>5, SeesFrame DEF Both, Inv, OpenInv, Releases

\* A finish that raised ends,
LEMMA FinishRaisesEndsOpen ==
  ASSUME Open, Both, NEW t \in Thread, FinishRaises(t), ~InOuterStart(t)
  PROVE  OpenInv'
<1>1. job[t] # None /\ Ended(t)
  BY EndEffect DEF Both, Inv, Calls, FinishRaises, At, InOuterStart, Bracketed
<1>2. Sees(t)'
  BY <1>1 DEF Sees, At, Ended
<1> QED
  BY <1>1, <1>2, OpenFrame DEF Both, Inv, FinishRaises, Ended, InOuterStart, Bracketed

\* or leaves the start around it.
LEMMA FinishRaisesOutOpen ==
  ASSUME Open, Both, NEW t \in Thread, FinishRaises(t), InOuterStart(t)
  PROVE  OpenInv'
<1>1. job[t] # None /\ Moved(t) /\ job'[t].at = "outer"
  BY GotoEffect DEF Both, Inv, Calls, FinishRaises, At, Points
<1>2. Sees(t)'
  BY <1>1 DEF Sees, At, Moved
<1> QED
  BY <1>1, <1>2, OpenFrame DEF Both, Inv, FinishRaises, Moved

\* So does one that had nothing to do,
LEMMA FinishReturnsEndsOpen ==
  ASSUME Open, Both, NEW t \in Thread, FinishReturns(t), job[t].op # "change"
  PROVE  OpenInv'
<1>1. job[t] # None /\ Ended(t)
  BY EndEffect DEF Both, Inv, Calls, FinishReturns, At
<1>2. Sees(t)'
  BY <1>1 DEF Sees, At, Ended
<1> QED
  BY <1>1, <1>2, OpenFrame DEF Both, Inv, FinishReturns, Ended

\* or goes on to its load.
LEMMA FinishReturnsOnOpen ==
  ASSUME Open, Both, NEW t \in Thread, FinishReturns(t), job[t].op = "change"
  PROVE  OpenInv'
<1>1. Others(t) /\ job'[t] # None /\ job'[t].at = "prepare"
  BY ContinueEffect DEF Both, Inv, FinishReturns, At, Began
<1>2. Sees(t)'
  BY <1>1 DEF Sees, At
<1> QED
  BY <1>1, <1>2, OpenFrame DEF Both, Inv, FinishReturns

\* The cleanup around a failed start is a finish of its own,
LEMMA OuterCleanupFinishesOpen ==
  ASSUME Open, Both, NEW t \in Thread, OuterCleanup(t), InOuterStart(t), Active(job[t].owner)
  PROVE  OpenInv'
<1>1. job[t] # None /\ job[t].owner \in Managers \cup {"app"} /\ job[t].service \in Service
  BY RoundFacts DEF Both, Inv, OuterCleanup, At
<1>2. Others(t) /\ job'[t] # None /\ job'[t].at = FinishPoint(TRUE)
  BY <1>1, FinishEffect DEF Both, Inv, Calls, Shared, OuterCleanup, Began
<1>3. Sees(t)'
  BY <1>2, FinishSees DEF Both, Inv, OuterCleanup
<1> QED
  BY <1>2, <1>3, OpenFrame DEF Both, Inv, OuterCleanup

\* or the end of the call.
LEMMA OuterCleanupEndsOpen ==
  ASSUME Open, Both, NEW t \in Thread, OuterCleanup(t), ~InOuterStart(t) \/ ~Active(job[t].owner)
  PROVE  OpenInv'
<1>1. job[t] # None /\ Ended(t)
  BY EndEffect DEF Both, Inv, Calls, OuterCleanup, At
<1>2. Sees(t)'
  BY <1>1 DEF Sees, At, Ended
<1> QED
  BY <1>1, <1>2, OpenFrame DEF Both, Inv, OuterCleanup, Ended

\* A request is let in or ends without a step of any call.
LEMMA RequestStartOpen ==
  ASSUME Open, Both, NEW r \in Request, RequestStart(r)
  PROVE  OpenInv'
<1> QED
  BY OpenSame DEF Both, RequestStart

LEMMA RequestEndOpen ==
  ASSUME Open, Both, NEW r \in Request, RequestEnd(r)
  PROVE  OpenInv'
<1> QED
  BY OpenSame DEF Both, RequestEnd

-----------------------------------------------------------------------------
(* The invariant.                                                           *)

\* The steps of the starts, taken together.
LEMMA StartStepOpen ==
  ASSUME Open, Both, NEW t \in Thread, StartStep(t)
  PROVE  OpenInv'
<1>1. CASE \E p \in Pair : EnsureOCR(t, p) \/ PrepareContainer(t, p)
  BY <1>1, EnsureOCROpen, PrepareContainerOpen
<1>2. CASE EnsureGemma(t)
  BY <1>2, EnsureGemmaOpen
<1>3. CASE \E m \in Managers, p \in Pair : EnsureMatching(t, m, p)
  BY <1>3, EnsureMatchingOpen
<1>4. CASE Prepare(t) \/ StopOld(t) \/ Load(t) \/ LoadPublish(t)
  BY <1>4, PrepareOpen, StopOldOpen, LoadOpen, LoadPublishOpen
<1>5. CASE \E probed \in BOOLEAN : Create(t, probed)
  BY <1>5, CreateOpen
<1>6. CASE \E quiet \in BOOLEAN :
             StopOldFails(t, quiet) \/ CreateFails(t, quiet) \/ LoadFails(t, quiet)
  BY <1>6, StopOldFailsOpen, CreateFailsOpen, LoadFailsOpen
<1>7. CASE AdoptMatching(t) \/ StartSucceeds(t) \/ StartCancelled(t)
  BY <1>7, AdoptMatchingOpen, StartSucceedsOpen, StartCancelledOpen
<1>8. CASE AbortNothing(t) \/ Abort(t) \/ AbortStops(t) \/ AbortStopFails(t) \/ AbortTimesOut(t)
  BY <1>8, AbortNothingOpen, AbortOpen, AbortStopsOpen, AbortStopFailsOpen, AbortTimesOutOpen
<1>9. CASE LateLook(t) \/ LateMark(t) \/ OuterCleanup(t)
  BY <1>9, LateLookOpen, LateMarkOpen, OuterCleanupFinishesOpen, OuterCleanupEndsOpen
<1> QED
  BY <1>1, <1>2, <1>3, <1>4, <1>5, <1>6, <1>7, <1>8, <1>9 DEF StartStep

\* And those of the finishes; the closing window takes none.
LEMMA FinishStepOpen ==
  ASSUME Open, Both, NEW t \in Thread, FinishStep(t)
  PROVE  OpenInv'
<1>1. CASE \E m \in Managers, s \in Service, foreign \in BOOLEAN : \E stop \in BOOLEAN :
             Shutdown(t, m, s, stop, foreign) \/ ShutdownInactive(t, m, s, stop, foreign)
  BY <1>1, ShutdownOpen, ShutdownInactiveOpen
<1>2. CASE \E m \in Managers, s \in Service, stop \in BOOLEAN : ShutdownConflict(t, m, s, stop)
  BY <1>2, ShutdownConflictOpen
<1>3. CASE \E p \in Pair : ChangePair(t, p) \/ ChangePairInStart(t, p)
  BY <1>3, ChangePairOpen, ChangePairInStartOpen
<1>4. CASE CloseApp(t) \/ \E m \in Managers : CloseManager(t, m)
  BY <1>4 DEF Open, CloseApp, CloseManager
<1>5. CASE Unload(t) \/ Refused(t) \/ Conflict(t) \/ Unloaded(t) \/ UnloadFails(t)
  BY <1>5, UnloadOpen, RefusedOpen, ConflictOpen, UnloadedOpen, UnloadFailsOpen
<1>6. CASE ForceStop(t) \/ ForceStopped(t) \/ ForceStopFails(t) \/ MarkFailed(t)
  BY <1>6, ForceStopOpen, ForceStoppedOpen, ForceStopFailsOpen, MarkFailedOpen
<1>7. CASE FinishRaises(t)
  BY <1>7, FinishRaisesEndsOpen, FinishRaisesOutOpen
<1>8. CASE FinishReturns(t)
  BY <1>8, FinishReturnsEndsOpen, FinishReturnsOnOpen
<1> QED
  BY <1>1, <1>2, <1>3, <1>4, <1>5, <1>6, <1>7, <1>8 DEF FinishStep

\* Every step keeps what an open window adds to the invariant.
LEMMA NextOpen ==
  ASSUME Open
  PROVE  Inv /\ OpenInv /\ [Next]_vars => OpenInv'
<1> SUFFICES ASSUME Inv, OpenInv, [Next]_vars
             PROVE  OpenInv'
  OBVIOUS
<1>1. Both
  BY NextInv DEF Both
<1>2. CASE Application \/ UNCHANGED vars
  BY <1>2, OpenSame DEF Application, StartManual, EndManual, StartBatch, PreflightPasses,
     StartTeardown, StartRound, EndBatch, Closed, vars, coordinator, world
<1>3. CASE Requests
  BY <1>1, <1>3, RequestStartOpen, RequestEndOpen DEF Requests
<1>4. CASE \E t \in Thread : StartStep(t) \/ FinishStep(t)
  BY <1>1, <1>4, StartStepOpen, FinishStepOpen
<1> QED
  BY <1>2, <1>3, <1>4 DEF Next

\* It holds at first.
LEMMA InitOpen == Init => OpenInv
  BY DEF Init, OpenInv, AcceptImpliesResident, FailureNamed, Sees, At

LEMMA OpenSpec ==
  ASSUME Open
  PROVE  Spec => [](Inv /\ OpenInv)
<1>1. Init => Inv /\ OpenInv
  BY InitInv, InitOpen
<1>2. Inv /\ OpenInv /\ [Next]_vars => Inv' /\ OpenInv'
  BY NextInv, NextOpen
<1> QED
  BY <1>1, <1>2, PTL DEF Spec

\* While the window is open a request is let through only to the one model that is
\* resident, in the coordinator's own container.
THEOREM AcceptsOnlyResident ==
  ASSUME Open
  PROVE  Spec => []AcceptImpliesResident
<1>1. OpenInv => AcceptImpliesResident
  BY DEF OpenInv
<1> QED
  BY <1>1, OpenSpec, PTL

\* And between calls the coordinator is in no dead end: a failed release names the
\* container to stop, an interrupted drain the model to unload.
THEOREM NeverStuck ==
  ASSUME Open
  PROVE  Spec => []Recoverable
<1>1. Inv /\ OpenInv => Recoverable
  BY DEF Inv, Between, Drains, OpenInv, FailureNamed, Recoverable, Idle, At
<1> QED
  BY <1>1, OpenSpec, PTL

-----------------------------------------------------------------------------
(* The requests.  As long as none has ended in another's place, the count   *)
(* is that of the requests whose container the coordinator has not disowned. *)

Attached == {r \in Request : serving[r] \in {"live", "cut"}}
Counted == ~miscounted => active = Cardinality(Attached)

Live == \E r \in Request : serving[r] = "live"

\* A step keeps the count when it leaves it and them alone, or ends with neither.
KeepsCount ==
  \/ Attached' = Attached /\ UNCHANGED <<active, miscounted>>
  \/ Attached' = {} /\ active' = 0

\* A step disturbs a live request when it takes away its model.
Disturbs ==
  /\ Live /\ ~miscounted /\ resident' # resident
  /\ ~(state = "RELEASE_FAILED" /\ container' = None)
Serves == KeepsCount /\ ~Disturbs

LEMMA AttachedFinite == IsFiniteSet(Attached)
  BY FS_Subset DEF Attached

LEMMA KeepsCounted ==
  ASSUME Counted, KeepsCount
  PROVE  Counted'
  BY FS_EmptySet DEF Counted, KeepsCount

\* Where none is counted, and so where no model is known of, none is live.
LEMMA NoneLive ==
  ASSUME Shared, Counted, active = 0 \/ loaded = None, ~miscounted
  PROVE  ~Live
<1>1. active = 0
  BY DEF Shared, Ownership, CountTyped
<1>2. Attached = {}
  BY <1>1, AttachedFinite, FS_EmptySet DEF Counted
<1> QED
  BY <1>2 DEF Attached, Live

LEMMA StoppedCount ==
  ASSUME Stopped
  PROVE  Attached' = Attached /\ container' = None
  BY DEF Stopped, Attached

LEMMA ClearedCount ==
  ASSUME StoppedAndCleared
  PROVE  Attached' = {} /\ active' = 0 /\ container' = None
  BY DEF StoppedAndCleared, Clear, Attached

\* A step that leaves the requests and what is resident alone.
LEMMA ServesFrame ==
  ASSUME UNCHANGED <<active, miscounted, serving, resident>>
  PROVE  Serves
  BY DEF Serves, KeepsCount, Disturbs, Attached

\* No step of a start disturbs one,
LEMMA StartStepServes ==
  ASSUME Inv, OpenInv, Counted, NEW t \in Thread, StartStep(t)
  PROVE  Serves
<1>1. /\ At(t, "stopOld") \/ At(t, "create") \/ At(t, "loading") => ~Live \/ miscounted
      /\ active = 0 => ~Live \/ miscounted
  BY NoneLive DEF Inv, Shared, Between, AtPoints, Knows
<1>2. CASE \E p \in Pair : EnsureOCR(t, p) \/ PrepareContainer(t, p)
  BY <1>2, ServesFrame DEF EnsureOCR, PrepareContainer, BeginStart, coordinator, world
<1>3. CASE EnsureGemma(t)
  BY <1>3, ServesFrame DEF EnsureGemma, BeginStart, coordinator, world
<1>4. CASE (\E m \in Managers, p \in Pair : EnsureMatching(t, m, p)) \/ AdoptMatching(t)
  BY <1>4, ServesFrame DEF EnsureMatching, AdoptMatching, coordinator, world
<1>5. CASE Prepare(t) \/ Load(t) \/ StartSucceeds(t) \/ StartCancelled(t) \/ AbortNothing(t)
           \/ Abort(t) \/ AbortTimesOut(t) \/ LateLook(t) \/ LateMark(t) \/ OuterCleanup(t)
  BY <1>5, ServesFrame DEF Prepare, Load, StartSucceeds, StartCancelled, AbortNothing, Abort,
     AbortTimesOut, LateLook, LateMark, OuterCleanup, Mark, coordinator, world
<1>6. CASE StopOld(t)
  BY <1>1, <1>6, ClearedCount DEF StopOld, Serves, KeepsCount, Disturbs
<1>7. CASE LoadPublish(t)
  BY <1>1, <1>7 DEF LoadPublish, Serves, KeepsCount, Disturbs, Attached
<1>8. CASE \E probed \in BOOLEAN : Create(t, probed)
  <2>1. Attached' = Attached /\ UNCHANGED <<active, miscounted>> /\ At(t, "create")
    BY <1>8 DEF Create, Attached
  <2> QED
    BY <1>1, <2>1 DEF Serves, KeepsCount, Disturbs
<1>9. CASE \E quiet \in BOOLEAN :
             StopOldFails(t, quiet) \/ CreateFails(t, quiet) \/ LoadFails(t, quiet)
  <2>1. Attached' = Attached /\ UNCHANGED <<active, miscounted>>
    BY <1>9, StoppedCount DEF StopOldFails, CreateFails, LoadFails, StoppedOrNot, Attached,
       coordinator, world
  <2>2. At(t, "stopOld") \/ At(t, "create") \/ At(t, "loading")
    BY <1>9 DEF StopOldFails, CreateFails, LoadFails
  <2> QED
    BY <1>1, <2>1, <2>2 DEF Serves, KeepsCount, Disturbs
<1>10. CASE AbortStops(t)
  BY <1>1, <1>10, ClearedCount DEF AbortStops, Serves, KeepsCount, Disturbs
<1>11. CASE AbortStopFails(t)
  <2>1. Attached' = Attached /\ UNCHANGED <<active, miscounted>> /\ active = 0
    BY <1>11, StoppedCount DEF AbortStopFails, StoppedOrNot, Mark, Attached, world
  <2> QED
    BY <1>1, <2>1 DEF Serves, KeepsCount, Disturbs
<1> QED
  BY <1>2, <1>3, <1>4, <1>5, <1>6, <1>7, <1>8, <1>9, <1>10, <1>11 DEF StartStep

\* and no step of a finish.
LEMMA FinishStepServes ==
  ASSUME Inv, OpenInv, Counted, NEW t \in Thread, FinishStep(t)
  PROVE  Serves
<1>1. /\ active = 0 => ~Live \/ miscounted
      /\ At(t, "stopping") => state = "RELEASE_FAILED" \/ ~Live \/ miscounted
  BY NoneLive DEF Inv, OpenInv, Sees
<1>2. CASE \E m \in Managers, s \in Service, foreign \in BOOLEAN : \E stop \in BOOLEAN :
             Shutdown(t, m, s, stop, foreign) \/ ShutdownInactive(t, m, s, stop, foreign)
  <2>1. ASSUME NEW m \in Managers, NEW s \in Service, NEW foreign \in BOOLEAN, NEW stop \in BOOLEAN,
               Shutdown(t, m, s, stop, foreign) \/ ShutdownInactive(t, m, s, stop, foreign)
        PROVE  Serves
    BY <2>1, ServesFrame DEF Shutdown, ShutdownInactive, coordinator, world
  <2> QED
    BY <1>2, <2>1
<1>3. CASE \E m \in Managers, s \in Service, stop \in BOOLEAN : ShutdownConflict(t, m, s, stop)
  BY <1>3, ServesFrame DEF ShutdownConflict, coordinator, world
<1>4. CASE \E p \in Pair : ChangePair(t, p) \/ ChangePairInStart(t, p)
  BY <1>4, ServesFrame DEF ChangePair, ChangePairInStart, coordinator, world
<1>5. CASE CloseApp(t) \/ \E m \in Managers : CloseManager(t, m)
  BY <1>5, ServesFrame DEF CloseApp, CloseManager, coordinator, world
<1>6. CASE Unload(t) \/ Refused(t) \/ Conflict(t) \/ ForceStop(t) \/ MarkFailed(t)
           \/ FinishRaises(t) \/ FinishReturns(t)
  BY <1>6, ServesFrame DEF Unload, Refused, Conflict, ForceStop, MarkFailed, FinishRaises,
     FinishReturns, Mark, coordinator, world
<1>7. CASE Unloaded(t)
  <2>1. KeepsCount /\ active = 0
    BY <1>7, ClearedCount DEF Unloaded, KeepsCount, Attached
  <2> QED
    BY <1>1, <2>1 DEF Serves, Disturbs
<1>8. CASE UnloadFails(t)
  <2>1. Attached' = Attached /\ UNCHANGED <<active, miscounted>>
    BY <1>8, StoppedCount DEF UnloadFails, Attached, coordinator, world
  <2>2. active = 0 \/ UNCHANGED resident
    BY <1>8 DEF UnloadFails, world
  <2> QED
    BY <1>1, <2>1, <2>2 DEF Serves, KeepsCount, Disturbs
<1>9. CASE ForceStopped(t)
  BY <1>1, <1>9, ClearedCount DEF ForceStopped, Serves, KeepsCount, Disturbs
<1>10. CASE ForceStopFails(t)
  <2>1. Attached' = Attached /\ UNCHANGED <<active, miscounted>>
    BY <1>10, StoppedCount DEF ForceStopFails, StoppedOrNot, Attached, coordinator, world
  <2>2. At(t, "stopping") /\ (container' = None \/ UNCHANGED resident)
    BY <1>10, StoppedCount DEF ForceStopFails, StoppedOrNot, world
  <2> QED
    BY <1>1, <2>1, <2>2 DEF Serves, KeepsCount, Disturbs
<1> QED
  BY <1>2, <1>3, <1>4, <1>5, <1>6, <1>7, <1>8, <1>9, <1>10 DEF FinishStep

\* A request that starts is counted,
LEMMA RequestStartCounts ==
  ASSUME Inv, Counted, NEW r \in Request, RequestStart(r)
  PROVE  Counted'
<1>1. r \notin Attached /\ Attached' = Attached \cup {r}
  BY DEF RequestStart, Attached, Inv, Shared, WorldTyped
<1>2. Cardinality(Attached') = Cardinality(Attached) + 1
  BY <1>1, AttachedFinite, FS_AddElement
<1> QED
  BY <1>2 DEF Counted, RequestStart

\* and one that ends no longer, unless it had been forgotten.
LEMMA RequestEndCounts ==
  ASSUME Inv, Counted, NEW r \in Request, RequestEnd(r)
  PROVE  Counted'
<1>1. active \in Nat /\ serving \in [Request -> {"none", "live", "cut", "forgotten"}]
  BY DEF Inv, Shared, CountTyped, WorldTyped
<1>2. CASE serving[r] = "forgotten"
  <2>1. Attached' = Attached
    BY <1>1, <1>2 DEF RequestEnd, Attached
  <2>2. ~miscounted' => ~miscounted /\ ~(active > 0)
    <3>1. miscounted' = (miscounted \/ (serving[r] = "forgotten" /\ active > 0))
      BY DEF RequestEnd
    <3> QED
      BY <1>2, <3>1, Zenon
  <2>3. ~(active > 0) => active = 0 /\ active' = 0
    BY <1>1 DEF RequestEnd
  <2> QED
    BY <2>1, <2>2, <2>3 DEF Counted
<1>3. CASE serving[r] # "forgotten"
  <2>1. r \in Attached /\ Attached' = Attached \ {r}
    BY <1>1, <1>3 DEF RequestEnd, Attached
  <2>2. /\ Cardinality(Attached') = Cardinality(Attached) - 1
        /\ Cardinality(Attached) \in Nat /\ Cardinality(Attached) # 0
    BY <2>1, AttachedFinite, FS_RemoveElement, FS_CardinalityType, FS_EmptySet
  <2>3. ~miscounted' => ~miscounted
    BY DEF RequestEnd
  <2> QED
    BY <1>1, <2>2, <2>3 DEF Counted, RequestEnd
<1> QED
  BY <1>2, <1>3

\* So do all steps, and only those of the calls change what is resident.
LEMMA NextServes == Inv /\ OpenInv /\ Counted /\ [Next]_vars => Counted' /\ ~Disturbs
<1> SUFFICES ASSUME Inv, OpenInv, Counted, [Next]_vars
             PROVE  Counted' /\ ~Disturbs
  OBVIOUS
<1>1. CASE Application \/ UNCHANGED vars
  <2>1. Serves
    BY <1>1, ServesFrame DEF Application, StartManual, EndManual, StartBatch, PreflightPasses,
       StartTeardown, StartRound, EndBatch, Closed, vars, coordinator, world
  <2> QED
    BY <2>1, KeepsCounted DEF Serves
<1>2. CASE Requests
  <2>1. Counted'
    BY <1>2, RequestStartCounts, RequestEndCounts DEF Requests
  <2>2. UNCHANGED resident
    BY <1>2 DEF Requests, RequestStart, RequestEnd
  <2> QED
    BY <2>1, <2>2 DEF Disturbs
<1>3. CASE \E t \in Thread : StartStep(t) \/ FinishStep(t)
  <2>1. Serves
    BY <1>3, StartStepServes, FinishStepServes
  <2> QED
    BY <2>1, KeepsCounted DEF Serves
<1> QED
  BY <1>1, <1>2, <1>3 DEF Next

\* Draining protects the requests, however many are in flight together: the model under a
\* live one goes away only by the terminal stop of a release that has failed, or once the
\* end of a request that such a stop forgot has taken the place of another's.
THEOREM RequestsProtected ==
  ASSUME Open
  PROVE  Spec => DrainProtects
<1>1. Init => Counted
  <2>1. Init => Attached = {} /\ active = 0
    BY DEF Init, Attached
  <2> QED
    BY <2>1, FS_EmptySet DEF Counted
<1>2. Inv /\ OpenInv /\ Counted /\ [Next]_vars => Counted'
  BY NextServes
<1>3. Inv /\ OpenInv /\ Counted /\ [Next]_vars =>
        [(\E r \in Request : serving[r] = "live") /\ resident' # resident
           => (state = "RELEASE_FAILED" /\ container' = None) \/ miscounted]_vars
  BY NextServes DEF Disturbs, Live
<1> QED
  BY <1>1, <1>2, <1>3, OpenSpec, PTL DEF Spec, DrainProtects
=============================================================================
