-------------------------- MODULE LlamaRouterProofs --------------------------
(***************************************************************************)
(* What is proved of the shared Router (LlamaRouter), for any number of    *)
(* pairs, threads and requests.                                            *)
(***************************************************************************)
EXTENDS LlamaRouter, FiniteSetTheorems, TLAPS

-----------------------------------------------------------------------------
(* The inductive invariant.                                                 *)

CoordinatorTyped ==
  /\ state \in RouterState /\ contract \in Pair \cup {None} /\ loaded \in Alias \cup {None}
  /\ accepting \in BOOLEAN
WorldTyped ==
  /\ container \in Pair \cup {None} /\ resident \subseteq Alias
  /\ serving \in [Request -> {"none", "live", "cut", "forgotten"}]

\* A request is in flight until it has ended, whether or not a stop has cut it;
\* no more are counted than there are.
InFlight == {r \in Request : serving[r] # "none"}
CountTyped == active \in Nat /\ active <= Cardinality(InFlight)

LeaseTyped == lease \in [Arbiter -> Service \cup {None}]
LockTyped == lock \in [Arbiter -> Thread \cup {None}]
FailedTyped == failed \in [Arbiter -> BOOLEAN]
CommandTyped == cmd \in Thread \cup {None}
ManagersTyped == {ocrPair, spec, gemmaPair} \subseteq Pair \cup {None}
JobTyped == job \in [Thread -> Job \cup {None}]
ApplicationTyped ==
  /\ mode \in {"idle", "manual", "batch"} \cup Rounds
  /\ todo \in [Managers -> 0..2] /\ closing \in 0..3
UnreleasedTyped == unreleased \in BOOLEAN

\* The points of a start, of a finish, and those with the command lock.
StartPoints == {"prepare", "stopOld", "create", "load", "loading", "confirm", "abort", "aborting"}
FinishPoints == {"unload", "drain", "force", "stopEmpty", "stopping", "mark", "raise", "return"}
CommandPoints == {"stopOld", "create", "load", "loading", "aborting", "drain", "stopping"}

OwnerOf(s) == IF s = Gemma THEN "gemma" ELSE "ocr"

\* What each call is about, and at which points it can be.
WellFormed(j) ==
  /\ j.op \in {"load", "prepare"} => j.at \in StartPoints \cup {"matched", "lateMark", "lateMarking", "outer"}
            /\ j.pair # None
  /\ j.op = "load" => j.alias = j.service /\ j.alias # None /\ j.owner = OwnerOf(j.service)
  /\ j.op = "prepare" => j.at \notin {"load", "loading", "matched"} /\ j.alias = None
  /\ j.op \in {"prepare", "change"} => j.service \in Pair /\ j.owner = "ocr"
  /\ j.op = "change" => j.at \in FinishPoints \cup {"outer"} /\ j.stop
  /\ j.op = "finish" => j.at \in FinishPoints
  /\ j.owner = "gemma" /\ j.op = "finish" => j.stop

\* Who makes it.
Callers(t) ==
  /\ t \in Batch => job[t].owner \in Managers
  /\ t \in Manual => job[t].op \in {"load", "finish"} /\ job[t].owner \in Managers
  /\ t \in Closing => job[t].op = "finish" /\ job[t].stop
  /\ t \in Closing /\ job[t].at = "return" => job[t].owner = "app"
Formed(t) == job[t] # None => WellFormed(job[t]) /\ Callers(t)
JobsFormed == \A t \in Thread : Formed(t)

\* The locks that a call holds.
HoldsCommand(t) == job[t] # None /\ job[t].at \in CommandPoints => cmd = t
HoldsArbiter(t) ==
  job[t] # None /\ (\/ job[t].at \in StartPoints \cup {"drain", "stopping"}
                    \/ t \in Batch /\ job[t].op # "prepare")
    => lock[ArbiterOf(t)] = t
Locks == \A t \in Thread : HoldsCommand(t) /\ HoldsArbiter(t)

\* Batch and manual jobs exclude each other; so do a prewarm and the other calls of
\* a batch, and the shutdowns of a round, each of which is one of its attempts.
Modes ==
  /\ \A t \in Manual : job[t] # None => mode = "manual"
  /\ \A t \in Batch : job[t] # None => mode \in {"batch"} \cup Rounds
  /\ \A t \in Batch : job[t] # None /\ (job[t].op = "prepare" \/ mode \in Rounds) =>
       \A u \in Batch : u # t => job[u] = None
RoundCall(t) ==
  job[t] # None /\ mode \in Rounds =>
    job[t].op = "finish" /\ job[t].owner \in Managers /\ todo[job[t].owner] > 0
RoundCalls == \A t \in Batch : RoundCall(t)

\* What the coordinator's fields say of each other and of the container.
Ownership ==
  /\ resident # {} => contract = container /\ contract # None
  /\ loaded # None \/ state \in Loaded \cup {"CONTAINER_READY", "DRAINING"} => contract # None
  /\ state = "IDLE" => contract = None
  /\ state \in Loaded => loaded # None
  /\ state \in {"IDLE", "CONTAINER_READY"} => loaded = None
  /\ active > 0 => loaded # None
AtMostOne == \A x, y \in resident : x = y

\* What a call knows of them.
Knows(t) ==
  /\ At(t, "stopOld") \/ At(t, "create") \/ At(t, "loading") => loaded = None
  /\ At(t, "loading") => resident = {} /\ contract = job[t].pair
  /\ At(t, "aborting") \/ At(t, "drain") => contract # None
  /\ job[t] # None /\ job[t].op = "prepare" => loaded = None
AtPoints == \A t \in Thread : Knows(t)

\* A model that nobody admits to having loaded is about to be stopped by the start
\* that failed to load it.
Strays ==
  state = "CONTAINER_READY" /\ resident # {} => \E t \in Thread : At(t, "abort")

\* A drain of no model is still in the hands of the start that began it.
Drains ==
  state = "DRAINING" /\ loaded = None => \E t \in Thread : At(t, "aborting")

Shared == CoordinatorTyped /\ WorldTyped /\ CountTyped /\ Ownership /\ AtMostOne
Arbiters == LeaseTyped /\ LockTyped /\ FailedTyped
Owners == CommandTyped /\ ManagersTyped
ApplicationState == ApplicationTyped /\ UnreleasedTyped
Calls == JobTyped /\ JobsFormed /\ Locks /\ Modes /\ RoundCalls
Between == AtPoints /\ Strays /\ Drains

Inv == Shared /\ Arbiters /\ Owners /\ ApplicationState /\ Calls /\ Between

-----------------------------------------------------------------------------
(* What the operators of the model do.                                      *)

USE NamesAssumption, ThreadAssumption, TimeOutAssumption, RequestAssumption, NoneAssumption

\* The other threads' calls stay as they are.
Others(t) == JobTyped' /\ \A u \in Thread \ {t} : job'[u] = job[u]
Moved(t) ==
  /\ Others(t) /\ job'[t] \in Job /\ job'[t] # None
  /\ job'[t].op = job[t].op /\ job'[t].owner = job[t].owner
  /\ job'[t].service = job[t].service /\ job'[t].alias = job[t].alias
  /\ job'[t].pair = job[t].pair /\ job'[t].stop = job[t].stop
Began(t, op, at, owner, s, alias, p, stop) ==
  /\ Others(t) /\ job'[t] \in Job /\ job'[t] # None
  /\ job'[t].op = op /\ job'[t].at = at /\ job'[t].owner = owner
  /\ job'[t].service = s /\ job'[t].alias = alias
  /\ job'[t].pair = p /\ job'[t].stop = stop
Ended(t) == Others(t) /\ job'[t] = None

\* A call that moves on stays the same call.
LEMMA GotoEffect ==
  ASSUME JobTyped, NEW t \in Thread, job[t] # None, NEW point \in Points, Goto(t, point)
  PROVE  Moved(t) /\ job'[t].at = point
<1>1. job[t] \in Job
  BY DEF JobTyped
<1>2. job'[t] = [job[t] EXCEPT !.at = point]
  BY DEF Goto, JobTyped
<1>3. /\ job'[t] \in Job /\ job'[t].at = point
      /\ job'[t].op = job[t].op /\ job'[t].owner = job[t].owner
      /\ job'[t].service = job[t].service /\ job'[t].alias = job[t].alias
      /\ job'[t].pair = job[t].pair /\ job'[t].stop = job[t].stop
  BY <1>1, <1>2 DEF Job
<1>4. Others(t)
  BY <1>2, <1>3 DEF Goto, JobTyped, Others
<1> QED
  BY <1>3, <1>4 DEF Moved

\* Nor one whose body raises.
LEMMA RaiseEffect ==
  ASSUME JobTyped, NEW t \in Thread, job[t] # None, NEW quiet \in BOOLEAN, Raise(t, quiet)
  PROVE  Moved(t) /\ job'[t].at = "abort"
<1>1. job[t] \in Job
  BY DEF JobTyped
<1>2. job'[t] = [job[t] EXCEPT !.at = "abort", !.quiet = quiet]
  BY DEF Raise, JobTyped
<1>3. /\ job'[t] \in Job /\ job'[t].at = "abort"
      /\ job'[t].op = job[t].op /\ job'[t].owner = job[t].owner
      /\ job'[t].service = job[t].service /\ job'[t].alias = job[t].alias
      /\ job'[t].pair = job[t].pair /\ job'[t].stop = job[t].stop
  BY <1>1, <1>2 DEF Job, Points
<1>4. Others(t)
  BY <1>2, <1>3 DEF Raise, JobTyped, Others
<1> QED
  BY <1>3, <1>4 DEF Moved

\* A call that begins is the one described.
LEMMA BeginEffect ==
  ASSUME JobTyped, NEW t \in Thread,
         NEW op \in {"load", "prepare", "finish", "change"}, NEW at \in Points,
         NEW owner \in Managers \cup {"app"}, NEW s \in Service,
         NEW alias \in Alias \cup {None}, NEW p \in Pair \cup {None}, NEW stop \in BOOLEAN,
         job' = [job EXCEPT ![t] = NewJob(op, at, owner, s, alias, p, stop)]
  PROVE  Began(t, op, at, owner, s, alias, p, stop)
<1>1. NewJob(op, at, owner, s, alias, p, stop) \in Job
  BY DEF NewJob, Job
<1>2. job'[t] = NewJob(op, at, owner, s, alias, p, stop)
  BY DEF JobTyped
<1>3. Others(t)
  BY <1>1, <1>2 DEF JobTyped, Others
<1>4. job'[t] \in Job /\ job'[t] # None
  BY <1>1, <1>2
<1>5. /\ job'[t].op = op /\ job'[t].at = at /\ job'[t].owner = owner
      /\ job'[t].service = s /\ job'[t].alias = alias
      /\ job'[t].pair = p
  BY <1>2 DEF NewJob
<1>6. job'[t].stop = stop
  <2> DEFINE r == NewJob(op, at, owner, s, alias, p, stop)
  <2>1. r.stop = stop
    BY DEF NewJob
  <2> HIDE DEF r
  <2> QED
    BY <1>2, <2>1 DEF r
<1> QED
  BY <1>3, <1>4, <1>5, <1>6, Zenon DEF Began

\* A call that ends leaves its thread without one.
LEMMA EndEffect ==
  ASSUME JobTyped, NEW t \in Thread, EndJob(t)
  PROVE  Ended(t)
  BY DEF EndJob, JobTyped, Others, Ended

\* Every thread goes through one of the two arbiters.
LEMMA ArbiterType ==
  ASSUME NEW t
  PROVE  ArbiterOf(t) \in Arbiter
  BY DEF ArbiterOf, Arbiter

\* What the arbiter's operations do to the lock and the lease of their arbiter, and
\* leave of the other's.
LEMMA TakeLeaseEffect ==
  ASSUME Arbiters, NEW t \in Thread, NEW s \in Service, TakeLease(t, s)
  PROVE  /\ Arbiters'
         /\ lock[ArbiterOf(t)] \in {None, t} /\ lock'[ArbiterOf(t)] = t
         /\ \A a \in Arbiter \ {ArbiterOf(t)} : lock'[a] = lock[a] /\ lease'[a] = lease[a]
         /\ lease'[ArbiterOf(t)] = IF lease[ArbiterOf(t)] = None THEN s ELSE lease[ArbiterOf(t)]
<1> DEFINE a == ArbiterOf(t)
<1>1. a \in Arbiter
  BY ArbiterType
<1>2. /\ lock[a] \in {None, t}
      /\ lock' = [lock EXCEPT ![a] = t]
      /\ lease' = [lease EXCEPT ![a] = IF @ = None THEN s ELSE @]
  BY DEF TakeLease
<1>3. failed' = [failed EXCEPT ![a] = @ /\ lease[a] # s]
  BY DEF TakeLease
<1> HIDE DEF a
<1>4. FailedTyped'
  <2>1. failed \in [Arbiter -> BOOLEAN]
    BY DEF Arbiters, FailedTyped
  <2> QED
    BY <1>3, <2>1, Zenon DEF FailedTyped
<1>5. LeaseTyped' /\ LockTyped'
  BY <1>1, <1>2 DEF Arbiters, LeaseTyped, LockTyped
<1>6. /\ lock'[a] = t
      /\ \A b \in Arbiter \ {a} : lock'[b] = lock[b] /\ lease'[b] = lease[b]
      /\ lease'[a] = IF lease[a] = None THEN s ELSE lease[a]
  BY <1>1, <1>2 DEF Arbiters, LeaseTyped, LockTyped
<1> QED
  BY <1>2, <1>4, <1>5, <1>6 DEF Arbiters, a

\* Giving the lease up, as its holder.
LEMMA VacateEffect ==
  ASSUME LeaseTyped, FailedTyped, NEW a \in Arbiter, NEW s \in Service, Vacate(a, s)
  PROVE  /\ LeaseTyped' /\ FailedTyped'
         /\ \A b \in Arbiter \ {a} : lease'[b] = lease[b]
         /\ lease'[a] = IF lease[a] = s THEN None ELSE lease[a]
<1>1. lease' = [lease EXCEPT ![a] = IF @ = s THEN None ELSE @]
  BY DEF Vacate
<1>2. failed' = [failed EXCEPT ![a] = @ /\ lease[a] # s]
  BY DEF Vacate
<1>3. FailedTyped'
  BY <1>2, Zenon DEF FailedTyped
<1> QED
  BY <1>1, <1>3 DEF LeaseTyped

\* Keeping it after a failure.
LEMMA RetainEffect ==
  ASSUME FailedTyped, NEW a \in Arbiter, NEW s, Retain(a, s)
  PROVE  FailedTyped' /\ UNCHANGED lease
<1>1. failed' = [failed EXCEPT ![a] = @ \/ lease[a] = s]
  BY DEF Retain
<1>2. FailedTyped'
  BY <1>1, Zenon DEF FailedTyped
<1> QED
  BY <1>2 DEF Retain

\* Giving the lock back.
LEMMA UnlockEffect ==
  ASSUME LockTyped, NEW a \in Arbiter, Unlock(a)
  PROVE  LockTyped' /\ lock'[a] = None /\ \A b \in Arbiter \ {a} : lock'[b] = lock[b]
  BY DEF Unlock, LockTyped

\* A stop cuts the requests off, but they have not ended yet.
LEMMA StoppedEffect ==
  ASSUME WorldTyped, Stopped
  PROVE  WorldTyped' /\ InFlight' = InFlight /\ container' = None /\ resident' = {}
  BY DEF WorldTyped, Stopped, InFlight

\* One after which the container is disowned forgets them.
LEMMA ClearedEffect ==
  ASSUME WorldTyped, StoppedAndCleared
  PROVE  Clear /\ WorldTyped' /\ InFlight' = InFlight /\ container' = None /\ resident' = {}
  BY DEF WorldTyped, StoppedAndCleared, InFlight

\* There are finitely many requests in flight.
LEMMA InFlightCount == Cardinality(InFlight) \in Nat
  BY FS_Subset, FS_CardinalityType DEF InFlight

\* Steps that leave the coordinator and the container alone.
LEMMA SharedFrame ==
  ASSUME Shared, UNCHANGED <<coordinator, world>>
  PROVE  Shared'
  BY DEF Shared, CoordinatorTyped, WorldTyped, CountTyped, InFlight, Ownership, AtMostOne,
         coordinator, world

\* Or the arbiters, the managers or the application.
LEMMA ArbitersFrame ==
  ASSUME Arbiters, UNCHANGED arbiters
  PROVE  Arbiters'
  BY DEF Arbiters, LeaseTyped, LockTyped, FailedTyped, arbiters

LEMMA ManagersFrame ==
  ASSUME ManagersTyped, UNCHANGED managers
  PROVE  ManagersTyped'
  BY DEF ManagersTyped, managers

LEMMA ApplicationFrame ==
  ASSUME ApplicationState, UNCHANGED application
  PROVE  ApplicationState'
  BY DEF ApplicationState, ApplicationTyped, UnreleasedTyped, application

\* The threads' kinds exclude each other; two that start something are the same.
LEMMA OneStarter ==
  ASSUME Calls, LockTyped,
         NEW t \in Thread, job[t] # None, job[t].at \in StartPoints,
         NEW u \in Thread, job[u] # None, job[u].at \in StartPoints
  PROVE  t = u
<1>1. \A x \in {t, u} : x \notin Closing
  BY DEF Calls, JobsFormed, Formed, WellFormed, Callers, StartPoints, FinishPoints
<1>2. lock[ArbiterOf(t)] = t /\ lock[ArbiterOf(u)] = u
  BY DEF Calls, Locks, HoldsArbiter
<1>3. t \in Batch <=> u \in Batch
  BY <1>1 DEF Calls, Modes, Thread, Rounds
<1> QED
  BY <1>2, <1>3 DEF ArbiterOf, Bracketed

\* What a step of one thread leaves of the other threads' calls.
LEMMA FormedFrame ==
  ASSUME JobsFormed, NEW t \in Thread, Others(t), Formed(t)'
  PROVE  JobsFormed'
<1> SUFFICES ASSUME NEW u \in Thread
             PROVE  Formed(u)'
  BY DEF JobsFormed
<1>1. CASE u = t
  BY <1>1
<1>2. CASE u # t
  <2>1. job'[u] = job[u]
    BY <1>2 DEF Others
  <2> QED
    BY <2>1 DEF JobsFormed, Formed, WellFormed, Callers
<1> QED
  BY <1>1, <1>2

\* The locks that a step of t may change are free or its own.
KeepsLocks(t) ==
  /\ cmd' = cmd \/ cmd \in {None, t}
  /\ \A a \in Arbiter : lock'[a] = lock[a] \/ lock[a] \in {None, t}

\* No other call loses a lock that it needs.
LEMMA LocksFrame ==
  ASSUME Locks, NEW t \in Thread, Others(t), KeepsLocks(t), HoldsCommand(t)', HoldsArbiter(t)'
  PROVE  Locks'
<1> SUFFICES ASSUME NEW u \in Thread, u # t
             PROVE  HoldsCommand(u)' /\ HoldsArbiter(u)'
  BY DEF Locks
<1>1. job'[u] = job[u]
  BY DEF Others
<1>2. HoldsCommand(u)'
  BY <1>1 DEF Locks, HoldsCommand, KeepsLocks
<1>3. HoldsArbiter(u)'
  BY <1>1, ArbiterType DEF Locks, HoldsArbiter, KeepsLocks, ArbiterOf, Bracketed
<1> QED
  BY <1>2, <1>3

\* A call that goes on, or ends, in the same mode.
Goes(t) ==
  /\ job[t] # None /\ mode' = mode
  /\ job'[t] # None /\ job'[t].op = "prepare" => job[t].op = "prepare"

\* So that it excludes the others as before.
LEMMA ModesFrame ==
  ASSUME Modes, NEW t \in Thread, Others(t), Goes(t)
  PROVE  Modes'
  BY DEF Modes, Others, Goes, Thread

\* Of a call of a batch that begins in one of its modes.
Starts(t) ==
  /\ mode' = mode
  /\ t \in Manual => mode = "manual"
  /\ t \in Batch => mode \in {"batch"} \cup Rounds /\ NoPrewarm
  /\ t \in Batch /\ (job'[t].op = "prepare" \/ mode \in Rounds) => Idle(Batch)

\* It finds no other call that excludes it, and none that it excludes.
LEMMA ModesBegin ==
  ASSUME Modes, NEW t \in Thread, Others(t), Starts(t)
  PROVE  Modes'
<1>1. \A u \in Thread : u = t \/ job'[u] = job[u]
  BY DEF Others
<1>2. \A u \in Manual : job'[u] # None => mode' = "manual"
  BY <1>1 DEF Modes, Starts, Thread
<1>3. \A u \in Batch : job'[u] # None => mode' \in {"batch"} \cup Rounds
  BY <1>1 DEF Modes, Starts, Thread
<1>4. ASSUME NEW u \in Batch, job'[u] # None, job'[u].op = "prepare" \/ mode' \in Rounds,
             NEW v \in Batch, v # u
      PROVE  job'[v] = None
  <2>1. CASE u = t
    BY <1>1, <1>4, <2>1 DEF Starts, Idle, Thread
  <2>2. CASE v = t
    <3>1. job[u] # None /\ (job[u].op = "prepare" \/ mode \in Rounds)
      BY <1>1, <1>4, <2>2 DEF Starts, Thread
    <3> QED
      BY <3>1, <2>2 DEF Starts, Idle, NoPrewarm
  <2>3. CASE u # t /\ v # t
    BY <1>1, <1>4, <2>3 DEF Modes, Starts, Thread
  <2> QED
    BY <2>1, <2>2, <2>3
<1> QED
  BY <1>2, <1>3, <1>4 DEF Modes

\* A step of one call of a round leaves the others, as there are none.
LEMMA RoundsFrame ==
  ASSUME RoundCalls, NEW t \in Thread, Others(t), t \in Batch => RoundCall(t)', UNCHANGED
         <<mode, todo>>
  PROVE  RoundCalls'
  BY DEF RoundCalls, RoundCall, Others, Thread

\* A call that goes on, with what has to be shown of its own thread.
LEMMA CallsGo ==
  ASSUME Calls, NEW t \in Thread, Others(t), Formed(t)', HoldsCommand(t)', HoldsArbiter(t)',
         KeepsLocks(t), Goes(t), t \in Batch => RoundCall(t)', UNCHANGED <<mode, todo>>
  PROVE  Calls'
<1> USE DEF Calls
<1>1. JobTyped' /\ JobsFormed'
  BY FormedFrame DEF Others
<1>2. Locks'
  BY LocksFrame
<1>3. Modes'
  BY ModesFrame
<1>4. RoundCalls'
  BY RoundsFrame
<1> QED
  BY <1>1, <1>2, <1>3, <1>4

\* And one that begins.
LEMMA CallsBegin ==
  ASSUME Calls, NEW t \in Thread, Others(t), Formed(t)', HoldsCommand(t)', HoldsArbiter(t)',
         KeepsLocks(t), Starts(t), t \in Batch => RoundCall(t)', UNCHANGED <<mode, todo>>
  PROVE  Calls'
<1> USE DEF Calls
<1>1. JobTyped' /\ JobsFormed'
  BY FormedFrame DEF Others
<1>2. Locks'
  BY LocksFrame
<1>3. Modes'
  BY ModesBegin
<1>4. RoundCalls'
  BY RoundsFrame
<1> QED
  BY <1>1, <1>2, <1>3, <1>4

\* What the other calls know stays true as long as the coordinator's fields do,
LEMMA KnowsFrame ==
  ASSUME Calls, AtPoints, NEW t \in Thread, Others(t),
         UNCHANGED <<loaded, contract, resident>>, Knows(t)'
  PROVE  AtPoints'
<1> SUFFICES ASSUME NEW u \in Thread, u # t
             PROVE  Knows(u)'
  BY DEF AtPoints
<1> QED
  BY DEF Others, AtPoints, Knows, At

\* or the step holds the command lock and at most disowns the model.
LEMMA KnowsInCommand ==
  ASSUME Locks, AtPoints, NEW t \in Thread, Others(t), cmd = t, loaded' \in {loaded, None},
         Knows(t)'
  PROVE  AtPoints'
<1> SUFFICES ASSUME NEW u \in Thread, u # t
             PROVE  Knows(u)'
  BY DEF AtPoints
<1>1. job'[u] = job[u]
  BY DEF Others
<1>2. \A point \in CommandPoints : ~At(u, point)
  BY DEF Locks, HoldsCommand, At
<1> QED
  BY <1>1, <1>2 DEF AtPoints, Knows, At, CommandPoints

\* What a start is known to be, and to hold.
LEMMA StartFacts ==
  ASSUME Calls, NEW t \in Thread, job[t] # None, job[t].at \in StartPoints
  PROVE  /\ job[t] \in Job /\ job[t].op \in {"load", "prepare"} /\ job[t].pair \in Pair
         /\ lock[ArbiterOf(t)] = t /\ t \notin Closing
         /\ job[t].at \in CommandPoints => cmd = t
         /\ job[t].op = "load" => job[t].alias \in Alias
<1>1. job[t] \in Job
  BY DEF Calls, JobTyped
<1>2. job[t].op \in {"load", "prepare"} /\ t \notin Closing
  BY <1>1 DEF Calls, JobsFormed, Formed, WellFormed, Callers, StartPoints, FinishPoints, Job
<1>3. job[t].pair \in Pair
  BY <1>1, <1>2 DEF Calls, JobsFormed, Formed, WellFormed, Job
<1>4. job[t].op = "load" => job[t].alias \in Alias
  BY <1>1 DEF Calls, JobsFormed, Formed, WellFormed, Job
<1> QED
  BY <1>1, <1>2, <1>3, <1>4 DEF Calls, Locks, HoldsCommand, HoldsArbiter

\* And a finish.
LEMMA FinishFacts ==
  ASSUME Calls, NEW t \in Thread, job[t] # None, job[t].at \in FinishPoints
  PROVE  /\ job[t] \in Job /\ job[t].op \in {"finish", "change"}
         /\ job[t].op = "change" => job[t].service \in Pair /\ job[t].owner = "ocr" /\ job[t].stop
         /\ job[t].at \in {"drain", "stopping"} \/ t \in Batch => lock[ArbiterOf(t)] = t
         /\ job[t].at \in CommandPoints => cmd = t
<1>1. job[t] \in Job
  BY DEF Calls, JobTyped
<1>2. job[t].op \in {"finish", "change"}
  BY <1>1 DEF Calls, JobsFormed, Formed, WellFormed, StartPoints, FinishPoints, Job
<1> QED
  BY <1>1, <1>2 DEF Calls, JobsFormed, Formed, WellFormed, Locks, HoldsCommand, HoldsArbiter

\* Where no model is known of, none is resident once a start has come to its load: only
\* another start could have left one.
LEMMA ResidentOnLoad ==
  ASSUME Calls, LockTyped, Strays, state = "CONTAINER_READY",
         NEW t \in Thread, job[t] # None, job[t].at = "load"
  PROVE  resident = {}
<1> SUFFICES ASSUME NEW u \in Thread, At(u, "abort")
             PROVE  FALSE
  BY DEF Strays
<1> QED
  BY OneStarter DEF At, StartPoints

\* A model that is published is one that no other call relies on the absence of.
LEMMA KnowsOfLoad ==
  ASSUME Locks, AtPoints, NEW t \in Thread, Others(t), cmd = t, Knows(t)',
         \A u \in Thread : job[u] # None => job[u].op # "prepare"
  PROVE  AtPoints'
<1> SUFFICES ASSUME NEW u \in Thread, u # t
             PROVE  Knows(u)'
  BY DEF AtPoints
<1>1. job'[u] = job[u]
  BY DEF Others
<1>2. \A point \in CommandPoints : ~At(u, point)
  BY DEF Locks, HoldsCommand, At
<1> QED
  BY <1>1, <1>2 DEF AtPoints, Knows, At, CommandPoints

\* Where a finish begins.
LEMMA FinishPointType ==
  ASSUME NEW stop \in BOOLEAN
  PROVE  /\ FinishPoint(stop) \in {"unload", "force", "stopEmpty", "raise", "return"}
         /\ FinishPoint(stop) = "return" /\ stop => contract = None
  BY DEF FinishPoint, Loaded

\* What a finish is given is what it has read of the coordinator.
LEMMA FinishEffect ==
  ASSUME JobTyped, CoordinatorTyped, NEW t \in Thread, NEW owner \in Managers \cup {"app"},
         NEW s \in Service, NEW stop \in BOOLEAN, BeginFinish(t, owner, s, stop)
  PROVE  Began(t, "finish", FinishPoint(stop), owner, s, loaded, contract, stop)
<1>1. FinishPoint(stop) \in Points
  BY FinishPointType DEF Points
<1>2. loaded \in Alias \cup {None} /\ contract \in Pair \cup {None}
  BY DEF CoordinatorTyped
<1>3. job' = [job EXCEPT ![t] = NewJob("finish", FinishPoint(stop), owner, s, loaded, contract,
          stop)]
  BY DEF BeginFinish, FinishJob
<1>4. "finish" \in {"load", "prepare", "finish", "change"}
  OBVIOUS
<1> QED
  <2>1. CASE stop = TRUE
    BY <2>1, <1>1, <1>2, <1>3, <1>4, BeginEffect
  <2>2. CASE stop = FALSE
    BY <2>2, <1>1, <1>2, <1>3, <1>4, BeginEffect
  <2> QED
    BY <2>1, <2>2

\* Which calls there are has nothing to do with the attempts, except in a round, whose
\* only call ends as one is used.
LEMMA TriedEffect ==
  ASSUME ApplicationState, NEW t \in Thread, NEW owner \in Managers \cup {"app"},
         NEW succeeded \in BOOLEAN, Tried(t, owner, succeeded),
         t \in Batch /\ mode \in Rounds => owner \in Managers /\ todo[owner] > 0
  PROVE  /\ ApplicationState' /\ UNCHANGED <<mode, closing>>
         /\ (t \in Batch /\ mode \in Rounds) \/ UNCHANGED todo
<1>1. UNCHANGED <<mode, closing>>
  BY DEF Tried
<1>2. UnreleasedTyped'
  <2>1. CASE t \in Batch /\ mode \in Rounds
    <3>1. unreleased' = (unreleased \/ (~succeeded /\ todo[owner] = 1))
      BY <2>1 DEF Tried, Bracketed
    <3> QED
      BY <3>1, Zenon DEF UnreleasedTyped
  <2>2. CASE ~(t \in Batch /\ mode \in Rounds)
    BY <2>2 DEF Tried, Bracketed, ApplicationState, UnreleasedTyped
  <2> QED
    BY <2>1, <2>2
<1>3. todo' \in [Managers -> 0..2]
  <2>1. CASE t \in Batch /\ mode \in Rounds
    <3>1. todo' = [todo EXCEPT ![owner] = IF succeeded THEN 0 ELSE @ - 1]
      BY <2>1 DEF Tried, Bracketed
    <3> QED
      BY <2>1, <3>1 DEF ApplicationState, ApplicationTyped
  <2>2. CASE ~(t \in Batch /\ mode \in Rounds)
    BY <2>2 DEF Tried, Bracketed, ApplicationState, ApplicationTyped
  <2> QED
    BY <2>1, <2>2
<1>4. (t \in Batch /\ mode \in Rounds) \/ UNCHANGED todo
  BY DEF Tried, Bracketed
<1> QED
  BY <1>1, <1>2, <1>3, <1>4 DEF ApplicationState, ApplicationTyped

\* The attempt of a round that is used up is the one whose call ends.
LEMMA RoundsTried ==
  ASSUME Modes, RoundCalls, NEW t \in Thread, Others(t), job[t] # None, mode' = mode,
         t \in Batch /\ mode \in Rounds => job'[t] = None,
         (t \in Batch /\ mode \in Rounds) \/ UNCHANGED todo
  PROVE  RoundCalls'
<1>1. CASE t \in Batch /\ mode \in Rounds
  <2>1. \A u \in Batch : job'[u] = None
    BY <1>1 DEF Modes, Others, Thread
  <2> QED
    BY <2>1 DEF RoundCalls, RoundCall
<1>2. CASE mode \notin Rounds
  BY <1>2 DEF RoundCalls, RoundCall
<1>3. CASE t \notin Batch /\ mode \in Rounds
  BY <1>3 DEF RoundCalls, RoundCall, Others, Thread
<1> QED
  BY <1>1, <1>2, <1>3

\* How a release ends, well or with an exception; a change of pair goes on to its load.
Releases(t) ==
  /\ Others(t) /\ Arbiters' /\ Owners' /\ ApplicationState' /\ Calls'
  /\ \A point \in StartPoints \cup FinishPoints :
       At(t, point)' => (job[t].op = "change" /\ point = "prepare") \/ point = "mark"
  /\ job'[t] # None => job'[t].op # "prepare"

\* A manager only ever forgets its pair.
LEMMA ReleasedType ==
  ASSUME ManagersTyped, NEW owner, NEW stop, Released(owner, stop)
  PROVE  ManagersTyped'
<1>1. CASE owner = "ocr" /\ stop
  BY <1>1 DEF Released, ManagersTyped
<1>2. CASE owner = "gemma"
  BY <1>2 DEF Released, ManagersTyped
<1>3. CASE ~(owner = "ocr" /\ stop) /\ owner # "gemma"
  BY <1>3 DEF Released, ManagersTyped, managers
<1> QED
  BY <1>1, <1>2, <1>3

\* A call of a batch in a round is an attempt, so that it is never a change of pair.
LEMMA RoundFacts ==
  ASSUME Calls, NEW t \in Thread, job[t] # None
  PROVE  /\ t \in Batch /\ mode \in Rounds =>
              job[t].op = "finish" /\ job[t].owner \in Managers /\ todo[job[t].owner] > 0
         /\ job[t].op = "change" => t \in Batch
         /\ job[t].owner \in Managers \cup {"app"} /\ job[t].service \in Service
<1>1. job[t] \in Job
  BY DEF Calls, JobTyped
<1>2. job[t].op = "change" => t \in Batch
  BY DEF Calls, JobsFormed, Formed, Callers, Thread
<1> QED
  BY <1>1, <1>2 DEF Calls, RoundCalls, RoundCall, Job

\* The load after a change of pair.
LEMMA ContinueEffect ==
  ASSUME Arbiters, Calls, NEW t \in Thread, job[t] # None, job[t].op = "change",
         ContinueStart(t)
  PROVE  /\ Began(t, "load", "prepare", "ocr", job[t].service, job[t].service, job[t].service,
            FALSE)
         /\ Arbiters' /\ lock'[ArbiterOf(t)] = t /\ lock[ArbiterOf(t)] \in {None, t}
         /\ \A a \in Arbiter \ {ArbiterOf(t)} : lock'[a] = lock[a]
         /\ Formed(t)'
<1> DEFINE p == job[t].service
<1>1. p \in Pair
  BY DEF Calls, JobsFormed, Formed, WellFormed
<1>2. p \in Service /\ p \in Alias
  BY <1>1 DEF Alias, Service
<1>3. job' = [job EXCEPT ![t] = NewJob("load", "prepare", "ocr", p, p, p, FALSE)]
          /\ TakeLease(t, p)
  BY DEF ContinueStart
<1> HIDE DEF p
<1>4. Began(t, "load", "prepare", "ocr", p, p, p, FALSE)
  BY <1>1, <1>2, <1>3, BeginEffect DEF Calls, Points, Managers
<1>5. /\ Arbiters' /\ lock'[ArbiterOf(t)] = t /\ lock[ArbiterOf(t)] \in {None, t}
      /\ \A a \in Arbiter \ {ArbiterOf(t)} : lock'[a] = lock[a]
  BY <1>2, <1>3, TakeLeaseEffect
<1>6. Formed(t)'
  BY <1>1, <1>2, <1>4, RoundFacts DEF Began, Calls, JobsFormed, Formed, WellFormed, Callers,
     OwnerOf,
     Managers, StartPoints, FinishPoints, Thread, Alias, Service
<1> QED
  BY <1>4, <1>5, <1>6 DEF p

\* A release that worked ends its call, or goes on to the load of the new pair.
LEMMA ReleaseEndsEffect ==
  ASSUME Arbiters, Owners, ApplicationState, Calls, NEW t \in Thread, job[t] # None,
         job[t].at \in {"drain", "stopping"}, ReleaseEnds(t)
  PROVE  Releases(t)
<1>1. /\ job[t] \in Job /\ job[t].op \in {"finish", "change"}
      /\ lock[ArbiterOf(t)] = t /\ cmd = t
  BY FinishFacts DEF FinishPoints, CommandPoints
<1>2. cmd' = None /\ Owners'
  BY ReleasedType DEF ReleaseEnds, Owners, CommandTyped
<1>3. ApplicationState' /\ mode' = mode /\ ((t \in Batch /\ mode \in Rounds) \/ UNCHANGED todo)
  BY RoundFacts, TriedEffect DEF ReleaseEnds
<1>4. CASE job[t].op = "change"
  <2>1. ContinueStart(t)
    BY <1>4 DEF ReleaseEnds
  <2>2. /\ Began(t, "load", "prepare", "ocr", job[t].service, job[t].service, job[t].service,
            FALSE)
        /\ Arbiters' /\ lock'[ArbiterOf(t)] = t /\ lock[ArbiterOf(t)] \in {None, t}
        /\ \A a \in Arbiter \ {ArbiterOf(t)} : lock'[a] = lock[a]
        /\ Formed(t)'
    BY <2>1, <1>4, ContinueEffect
  <2>3. HoldsCommand(t)' /\ HoldsArbiter(t)' /\ KeepsLocks(t)
    BY <1>1, <1>2, <2>2 DEF HoldsCommand, HoldsArbiter, KeepsLocks, Began, CommandPoints,
       ArbiterOf, Bracketed
  <2>4. Goes(t)
    BY <1>3, <2>2 DEF Goes, Began
  <2>5. RoundCalls'
    BY <1>3, <1>4, <2>2, RoundFacts, RoundsTried DEF Calls, Began
  <2>6. Calls'
    BY <2>2, <2>3, <2>4, <2>5, FormedFrame, LocksFrame, ModesFrame DEF Calls, Began, Others
  <2> QED
    BY <1>2, <1>3, <1>4, <2>2, <2>6 DEF Releases, Began, At
<1>5. CASE job[t].op # "change"
  <2>1. Vacate(ArbiterOf(t), job[t].service) /\ Unlock(ArbiterOf(t)) /\ EndJob(t)
    BY <1>5 DEF ReleaseEnds
  <2>2. Ended(t)
    BY <2>1, EndEffect DEF Calls
  <2>3. Arbiters' /\ lock'[ArbiterOf(t)] = None
            /\ \A a \in Arbiter \ {ArbiterOf(t)} : lock'[a] = lock[a]
    BY <2>1, ArbiterType, RoundFacts, VacateEffect, UnlockEffect DEF Arbiters
  <2>4. Formed(t)' /\ HoldsCommand(t)' /\ HoldsArbiter(t)' /\ KeepsLocks(t)
    BY <1>1, <1>2, <2>2, <2>3 DEF Formed, HoldsCommand, HoldsArbiter, KeepsLocks, Ended
  <2>5. Goes(t)
    BY <1>3, <2>2 DEF Goes, Ended
  <2>6. RoundCalls'
    BY <1>3, <2>2, RoundsTried DEF Calls, Ended
  <2>7. Calls'
    BY <2>2, <2>4, <2>5, <2>6, FormedFrame, LocksFrame, ModesFrame DEF Calls, Ended, Others
  <2> QED
    BY <1>2, <1>3, <2>2, <2>3, <2>7 DEF Releases, Ended, At
<1> QED
  BY <1>4, <1>5

\* One that failed goes on to mark the coordinator.
LEMMA ReleaseFailsEffect ==
  ASSUME Arbiters, Owners, ApplicationState, Calls, NEW t \in Thread, job[t] # None,
         job[t].at \in {"drain", "stopping"}, ReleaseFails(t)
  PROVE  Releases(t)
<1>1. /\ job[t] \in Job /\ job[t].op \in {"finish", "change"}
      /\ lock[ArbiterOf(t)] = t /\ cmd = t
  BY FinishFacts DEF FinishPoints, CommandPoints
<1>2. cmd' = None /\ Owners'
  BY DEF ReleaseFails, Owners, CommandTyped, ManagersTyped, managers
<1>3. ApplicationState' /\ UNCHANGED <<mode, todo>>
  BY DEF ReleaseFails, ApplicationState, ApplicationTyped, UnreleasedTyped, application
<1>4. Moved(t) /\ job'[t].at = "mark"
  BY GotoEffect DEF ReleaseFails, Calls, Points
<1>5. Arbiters' /\ (\A a \in Arbiter \ {ArbiterOf(t)} : lock'[a] = lock[a])
          /\ (t \in Batch => UNCHANGED lock)
  BY ArbiterType, RetainEffect, UnlockEffect DEF Arbiters, LeaseTyped, LockTyped, ReleaseFails,
     Bracketed
<1>6. Formed(t)'
  BY <1>1, <1>4 DEF Calls, JobsFormed, Formed, WellFormed, Callers, FinishPoints, Moved
<1>7. HoldsCommand(t)' /\ HoldsArbiter(t)' /\ KeepsLocks(t)
  BY <1>1, <1>2, <1>4, <1>5 DEF HoldsCommand, HoldsArbiter, KeepsLocks, Moved, CommandPoints,
     StartPoints,
     ArbiterOf, Bracketed
<1>8. Goes(t)
  BY <1>1, <1>3, <1>4 DEF Goes, Moved
<1>9. t \in Batch => RoundCall(t)'
  BY <1>3, <1>4 DEF Calls, RoundCalls, RoundCall, Moved
<1>10. Calls'
  BY <1>3, <1>4, <1>6, <1>7, <1>8, <1>9, FormedFrame, LocksFrame, ModesFrame, RoundsFrame DEF
     Calls, Moved, Others
<1> QED
  BY <1>1, <1>2, <1>3, <1>4, <1>5, <1>10 DEF Releases, Moved, At

\* A round's other attempts.
LEMMA RoundsIdle ==
  ASSUME RoundCalls, UNCHANGED <<job, mode>>, Idle(Batch) \/ UNCHANGED todo
  PROVE  RoundCalls'
  BY DEF RoundCalls, RoundCall, Idle

\* Steps that make no call.
LEMMA SameCalls ==
  ASSUME Calls, UNCHANGED <<job, lock, cmd, mode>>, RoundCalls'
  PROVE  Calls'
  BY DEF Calls, JobTyped, JobsFormed, Formed, WellFormed, Callers, Locks, HoldsCommand,
     HoldsArbiter, Modes

\* And those that leave the coordinator alone as well.
LEMMA BetweenFrame ==
  ASSUME Between, UNCHANGED <<coordinator, world, job>>
  PROVE  Between'
  BY DEF Between, AtPoints, Knows, Strays, Drains, At, coordinator, world

-----------------------------------------------------------------------------
(* The steps, one by one.                                                  *)

\* The calls of a start: each begins with its lease and leaves the coordinator alone.
LEMMA EnsureOCRKeeps ==
  ASSUME Inv, NEW t \in Thread, NEW p \in Pair, EnsureOCR(t, p)
  PROVE  Inv'
<1> USE DEF Inv, Calls, Between, EnsureOCR, MayCall, BeginStart
<1>1. /\ Arbiters' /\ lock[ArbiterOf(t)] \in {None, t} /\ lock'[ArbiterOf(t)] = t
      /\ \A a \in Arbiter \ {ArbiterOf(t)} : lock'[a] = lock[a]
  BY TakeLeaseEffect DEF Alias, Service, Owners, ManagersTyped
<1>2. Began(t, "load", "prepare", "ocr", p, p, p, FALSE)
  BY BeginEffect DEF Points, Managers, Alias, Service, Owners, ManagersTyped
<1>3. Shared' /\ ApplicationState'
  BY SharedFrame, ApplicationFrame
<1>4. Arbiters'
  BY <1>1
<1>5. Owners'
  BY <1>1, <1>2 DEF Owners, CommandTyped, ManagersTyped, managers
<1>6. Calls'
  <2>1. Formed(t)'
    BY <1>1, <1>2 DEF JobsFormed, Formed, WellFormed, Callers, OwnerOf, Managers, StartPoints,
       FinishPoints, Service, Alias, Thread, Began, Others
  <2>2. HoldsCommand(t)' /\ HoldsArbiter(t)' /\ KeepsLocks(t)
    BY <1>1, <1>2 DEF Locks, HoldsCommand, HoldsArbiter, KeepsLocks, CommandPoints,
       StartPoints, Began, Others
  <2>3. Starts(t) /\ (t \in Batch => RoundCall(t)') /\ UNCHANGED <<mode, todo>>
    BY <1>1, <1>2 DEF RoundCalls, RoundCall, Starts, Rounds, Thread, application, Began, Others
  <2> QED
    BY <1>1, <1>2, <2>1, <2>2, <2>3, CallsBegin DEF Began, Others
<1>7. Between'
  <2>1. AtPoints'
    BY <1>1, <1>2, KnowsFrame DEF AtPoints, Knows, At, Formed, JobsFormed, WellFormed,
       coordinator, world, Began, Others
  <2>2. Strays' /\ Drains'
    BY <1>1, <1>2 DEF Strays, Drains, At, coordinator, world, Began, Others
  <2> QED
    BY <2>1, <2>2
<1> QED
  BY <1>1, <1>2, <1>3, <1>4, <1>5, <1>6, <1>7

\* The same of Gemma's, on the pair that the OCR manager has recorded.
LEMMA EnsureGemmaKeeps ==
  ASSUME Inv, NEW t \in Thread, EnsureGemma(t)
  PROVE  Inv'
<1> USE DEF Inv, Calls, Between, EnsureGemma, MayCall, BeginStart, GemmaOnRouter
<1>1. /\ Arbiters' /\ lock[ArbiterOf(t)] \in {None, t} /\ lock'[ArbiterOf(t)] = t
      /\ \A a \in Arbiter \ {ArbiterOf(t)} : lock'[a] = lock[a]
  BY TakeLeaseEffect DEF Alias, Service, Owners, ManagersTyped
<1>2. Began(t, "load", "prepare", "gemma", Gemma, Gemma, spec, FALSE)
  BY BeginEffect DEF Points, Managers, Alias, Service, Owners, ManagersTyped
<1>3. Shared' /\ ApplicationState'
  BY SharedFrame, ApplicationFrame
<1>4. Arbiters'
  BY <1>1
<1>5. Owners'
  BY <1>1, <1>2 DEF Owners, CommandTyped, ManagersTyped, managers
<1>6. Calls'
  <2>1. Formed(t)'
    BY <1>1, <1>2 DEF JobsFormed, Formed, WellFormed, Callers, OwnerOf, Managers, StartPoints,
       FinishPoints, Service, Alias, Thread, Began, Others
  <2>2. HoldsCommand(t)' /\ HoldsArbiter(t)' /\ KeepsLocks(t)
    BY <1>1, <1>2 DEF Locks, HoldsCommand, HoldsArbiter, KeepsLocks, CommandPoints,
       StartPoints, Began, Others
  <2>3. Starts(t) /\ (t \in Batch => RoundCall(t)') /\ UNCHANGED <<mode, todo>>
    BY <1>1, <1>2 DEF RoundCalls, RoundCall, Starts, Rounds, Thread, application, Began, Others
  <2> QED
    BY <1>1, <1>2, <2>1, <2>2, <2>3, CallsBegin DEF Began, Others
<1>7. Between'
  <2>1. AtPoints'
    BY <1>1, <1>2, KnowsFrame DEF AtPoints, Knows, At, Formed, JobsFormed, WellFormed,
       coordinator, world, Began, Others
  <2>2. Strays' /\ Drains'
    BY <1>1, <1>2 DEF Strays, Drains, At, coordinator, world, Began, Others
  <2> QED
    BY <2>1, <2>2
<1> QED
  BY <1>1, <1>2, <1>3, <1>4, <1>5, <1>6, <1>7

\* The prewarm is the only call of its batch and finds no model loaded.
LEMMA PrepareContainerKeeps ==
  ASSUME Inv, NEW t \in Thread, NEW p \in Pair, PrepareContainer(t, p)
  PROVE  Inv'
<1> USE DEF Inv, Calls, Between, PrepareContainer, MayCall, BeginStart
<1>1. /\ Arbiters' /\ lock[ArbiterOf(t)] \in {None, t} /\ lock'[ArbiterOf(t)] = t
      /\ \A a \in Arbiter \ {ArbiterOf(t)} : lock'[a] = lock[a]
  BY TakeLeaseEffect DEF Alias, Service, Owners, ManagersTyped
<1>2. Began(t, "prepare", "prepare", "ocr", p, None, p, FALSE)
  BY BeginEffect DEF Points, Managers, Alias, Service, Owners, ManagersTyped
<1>3. Shared' /\ ApplicationState'
  BY SharedFrame, ApplicationFrame
<1>4. Arbiters'
  BY <1>1
<1>5. Owners'
  BY <1>1, <1>2 DEF Owners, CommandTyped, ManagersTyped, managers
<1>6. Calls'
  <2>1. Formed(t)'
    BY <1>1, <1>2 DEF JobsFormed, Formed, WellFormed, Callers, OwnerOf, Managers, StartPoints,
       FinishPoints, Service, Alias, Thread, Began, Others
  <2>2. HoldsCommand(t)' /\ HoldsArbiter(t)' /\ KeepsLocks(t)
    BY <1>1, <1>2 DEF Locks, HoldsCommand, HoldsArbiter, KeepsLocks, CommandPoints,
       StartPoints, Began, Others
  <2>3. Starts(t) /\ (t \in Batch => RoundCall(t)') /\ UNCHANGED <<mode, todo>>
    BY <1>1, <1>2 DEF RoundCalls, RoundCall, Starts, Rounds, Thread, application, Began, Others
  <2> QED
    BY <1>1, <1>2, <2>1, <2>2, <2>3, CallsBegin DEF Began, Others
<1>7. Between'
  <2>1. AtPoints'
    BY <1>1, <1>2, KnowsFrame DEF AtPoints, Knows, At, Formed, JobsFormed, WellFormed,
       coordinator, world, Began, Others
  <2>2. Strays' /\ Drains'
    BY <1>1, <1>2 DEF Strays, Drains, At, coordinator, world, Began, Others
  <2> QED
    BY <2>1, <2>2
<1> QED
  BY <1>1, <1>2, <1>3, <1>4, <1>5, <1>6, <1>7

\* A match is a call without a lease, which leaves the coordinator alone,
LEMMA EnsureMatchingKeeps ==
  ASSUME Inv, NEW t \in Thread, NEW m \in Managers, NEW p \in Pair, EnsureMatching(t, m, p)
  PROVE  Inv'
<1> USE DEF Inv, Calls, Between, EnsureMatching, MayCall
<1> DEFINE alias == IF m = "ocr" THEN p ELSE Gemma
<1>1. alias \in Alias /\ alias \in Service /\ p \in Pair \cup {None} /\ m \in Managers \cup {"app"}
  BY DEF Alias, Service
<1>2. Began(t, "load", "matched", m, alias, alias, p, FALSE)
  <2>1. job' = [job EXCEPT ![t] = NewJob("load", "matched", m, alias, alias, p, FALSE)]
    OBVIOUS
  <2> HIDE DEF alias
  <2> QED
    BY <1>1, <2>1, BeginEffect DEF Points
<1>3. Shared' /\ Arbiters' /\ ApplicationState'
  BY SharedFrame, ArbitersFrame, ApplicationFrame
<1>4. Owners'
  BY DEF Owners, CommandTyped, ManagersTyped, managers
<1>5. m = OwnerOf(alias)
  BY DEF OwnerOf, Managers, Alias
<1> HIDE DEF alias
<1>6. Calls'
  <2>1. Formed(t)'
    BY <1>1, <1>2, <1>5 DEF JobsFormed, Formed, WellFormed, Callers, Managers, StartPoints,
       FinishPoints, Service, Alias, Thread, Bracketed, Began, Others
  <2>2. HoldsCommand(t)' /\ HoldsArbiter(t)' /\ KeepsLocks(t)
    BY <1>1, <1>2 DEF Locks, HoldsCommand, HoldsArbiter, KeepsLocks, CommandPoints,
       StartPoints, Bracketed, arbiters, Began, Others
  <2>3. Starts(t) /\ (t \in Batch => RoundCall(t)') /\ UNCHANGED <<mode, todo>>
    BY <1>1, <1>2 DEF RoundCalls, RoundCall, Starts, Rounds, Thread, application, Bracketed,
       Began, Others
  <2> QED
    BY <1>1, <1>2, <2>1, <2>2, <2>3, CallsBegin DEF Began, Others
<1>7. Between'
  <2>1. AtPoints'
    BY <1>1, <1>2, KnowsFrame DEF AtPoints, Knows, At, Formed, JobsFormed, WellFormed,
       coordinator, world, Began, Others
  <2>2. Strays' /\ Drains'
    BY <1>1, <1>2 DEF Strays, Drains, At, coordinator, world, Began, Others
  <2> QED
    BY <2>1, <2>2
<1> QED
  BY <1>3, <1>4, <1>6, <1>7

\* and ends as its manager adopts the pair.
LEMMA AdoptMatchingKeeps ==
  ASSUME Inv, NEW t \in Thread, AdoptMatching(t)
  PROVE  Inv'
<1> USE DEF Inv, Calls, Between, AdoptMatching
<1>1. job[t] # None /\ job[t].at = "matched"
  BY DEF At
<1>2. job[t] \in Job /\ job[t].op = "load" /\ job[t].pair \in Pair
  BY <1>1 DEF JobTyped, JobsFormed, Formed, WellFormed, FinishPoints, Job
<1>3. Ended(t)
  BY EndEffect
<1>4. Shared' /\ Arbiters' /\ ApplicationState'
  BY SharedFrame, ArbitersFrame, ApplicationFrame
<1>5. Owners'
  BY <1>2 DEF Adopt, Owners, CommandTyped, ManagersTyped
<1>6. Calls'
  <2>1. Formed(t)'
    BY <1>3 DEF Formed, Ended
  <2>2. HoldsCommand(t)' /\ HoldsArbiter(t)' /\ KeepsLocks(t)
    BY <1>3 DEF HoldsCommand, HoldsArbiter, KeepsLocks, arbiters, Ended
  <2>3. Goes(t) /\ (t \in Batch => RoundCall(t)') /\ UNCHANGED <<mode, todo>>
    BY <1>1, <1>3 DEF RoundCall, Goes, application, Ended
  <2> QED
    BY <1>3, <2>1, <2>2, <2>3, CallsGo DEF Ended, Others
<1>7. Between'
  <2>1. AtPoints'
    BY <1>3, KnowsFrame DEF AtPoints, Knows, At, coordinator, world, Ended, Others
  <2>2. Strays' /\ Drains'
    BY <1>1, <1>3 DEF Strays, Drains, At, coordinator, world, Ended, Others
  <2> QED
    BY <2>1, <2>2
<1> QED
  BY <1>4, <1>5, <1>6, <1>7

\* The checks under the command lock decide where a start goes; those that stop or
\* create a container know that no model is loaded.
LEMMA PrepareKeeps ==
  ASSUME Inv, NEW t \in Thread, Prepare(t)
  PROVE  Inv'
<1> USE DEF Inv, Calls, Between, Prepare
<1>1. job[t] # None /\ job[t].at = "prepare"
  BY DEF At
<1>2. /\ job[t] \in Job /\ job[t].op \in {"load", "prepare"} /\ job[t].pair \in Pair
      /\ lock[ArbiterOf(t)] = t /\ t \notin Closing
      /\ job[t].op = "load" => job[t].alias \in Alias
  BY <1>1, StartFacts DEF StartPoints, CommandPoints
<1>3. Moved(t) /\ job'[t].at \in {"abort", "confirm", "load", "stopOld", "create"}
  BY GotoEffect DEF At, Points
<1>4. /\ job'[t].at = "load" => job[t].op = "load"
      /\ job'[t].at \in {"stopOld", "create"} => loaded = None
      /\ cmd = None /\ cmd' = IF job'[t].at \in {"abort", "confirm"} THEN None ELSE t
  BY <1>1, <1>2, GotoEffect DEF At, Points
<1>5. Shared' /\ Arbiters' /\ ApplicationState'
  BY SharedFrame, ArbitersFrame, ApplicationFrame
<1>6. Owners'
  BY <1>1, <1>2, <1>3, <1>4 DEF Owners, CommandTyped, ManagersTyped, managers
<1>7. Calls'
  <2>1. Formed(t)'
    BY <1>1, <1>2, <1>3, <1>4 DEF JobsFormed, Formed, WellFormed, Callers, OwnerOf, Managers,
       StartPoints, FinishPoints, Service, Alias, Thread, Moved, Others
  <2>2. HoldsCommand(t)' /\ HoldsArbiter(t)' /\ KeepsLocks(t)
    BY <1>1, <1>2, <1>3, <1>4 DEF Locks, HoldsCommand, HoldsArbiter, KeepsLocks,
       CommandPoints, StartPoints, arbiters, Moved, Others
  <2>3. Goes(t) /\ (t \in Batch => RoundCall(t)') /\ UNCHANGED <<mode, todo>>
    BY <1>1, <1>2, <1>3, <1>4 DEF RoundCalls, RoundCall, Goes, Rounds, application, Moved, Others
  <2> QED
    BY <1>1, <1>2, <1>3, <1>4, <2>1, <2>2, <2>3, CallsGo DEF Moved, Others
<1>8. Between'
  <2>1. AtPoints'
    BY <1>1, <1>2, <1>3, <1>4, KnowsFrame DEF AtPoints, Knows, At, Formed, JobsFormed,
       WellFormed, coordinator, world, Moved, Others
  <2>2. Strays' /\ Drains'
    BY <1>1, <1>2, <1>3, <1>4 DEF Strays, Drains, At, coordinator, world, Moved, Others
  <2> QED
    BY <2>1, <2>2
<1> QED
  BY <1>1, <1>2, <1>3, <1>4, <1>5, <1>6, <1>7, <1>8

\* The old container held no model.
LEMMA StopOldKeeps ==
  ASSUME Inv, NEW t \in Thread, StopOld(t)
  PROVE  Inv'
<1> USE DEF Inv, Calls, Between, StopOld
<1>1. job[t] # None /\ job[t].at = "stopOld"
  BY DEF At
<1>2. /\ job[t] \in Job /\ job[t].op \in {"load", "prepare"} /\ job[t].pair \in Pair
      /\ lock[ArbiterOf(t)] = t /\ t \notin Closing /\ cmd = t
      /\ job[t].op = "load" => job[t].alias \in Alias
  BY <1>1, StartFacts DEF StartPoints, CommandPoints
<1>3. Moved(t) /\ job'[t].at = "create"
  BY GotoEffect DEF At, Points
<1>4. Arbiters' /\ ApplicationState'
  BY ArbitersFrame, ApplicationFrame
<1>5. Shared'
  <2>1. CoordinatorTyped'
    BY <1>1, <1>2 DEF Shared, CoordinatorTyped, RouterState, StoppedAndCleared, Clear
  <2>2. WorldTyped' /\ InFlight' = InFlight
    BY <1>2, ClearedEffect DEF Shared, CountTyped, WorldTyped, InFlight
  <2>3. CountTyped'
    BY <2>2, InFlightCount DEF Shared, CountTyped, StoppedAndCleared, Clear
  <2>4. Ownership'
    BY <1>1, <1>2, <1>3, ClearedEffect DEF Shared, Ownership, AtPoints, Knows, At, Alias,
       Service, StoppedAndCleared, Clear, Loaded
  <2>5. AtMostOne'
    BY <1>1, <1>2, <1>3, ClearedEffect DEF Shared, AtMostOne, AtPoints, Knows, At
  <2> QED
    BY <2>1, <2>2, <2>3, <2>4, <2>5 DEF Shared
<1>6. Owners'
  BY <1>1, <1>2, <1>3 DEF Owners, CommandTyped, ManagersTyped, managers
<1>7. Calls'
  <2>1. Formed(t)'
    BY <1>1, <1>2, <1>3 DEF JobsFormed, Formed, WellFormed, Callers, OwnerOf, Managers,
       StartPoints, FinishPoints, Service, Alias, Thread, Moved, Others
  <2>2. HoldsCommand(t)' /\ HoldsArbiter(t)' /\ KeepsLocks(t)
    BY <1>1, <1>2, <1>3 DEF Locks, HoldsCommand, HoldsArbiter, KeepsLocks, CommandPoints,
       StartPoints, arbiters, Moved, Others
  <2>3. Goes(t) /\ (t \in Batch => RoundCall(t)') /\ UNCHANGED <<mode, todo>>
    BY <1>1, <1>2, <1>3 DEF RoundCalls, RoundCall, Goes, Rounds, application, Moved, Others
  <2> QED
    BY <1>1, <1>2, <1>3, <2>1, <2>2, <2>3, CallsGo DEF Moved, Others
<1>8. Between'
  <2>1. AtPoints'
    BY <1>1, <1>2, <1>3, KnowsInCommand DEF StoppedAndCleared, Clear, AtPoints, Knows, At, Formed, JobsFormed,
       WellFormed, Moved, Others
  <2>2. Strays' /\ Drains'
    BY <1>1, <1>2, <1>3 DEF Strays, Drains, At, StoppedAndCleared, Clear, Moved, Others
  <2> QED
    BY <2>1, <2>2
<1> QED
  BY <1>1, <1>2, <1>3, <1>4, <1>5, <1>6, <1>7, <1>8

\* Whether or not Docker stopped it, nothing was resident that the coordinator disowns.
LEMMA StopOldFailsKeeps ==
  ASSUME Inv, NEW t \in Thread, NEW quiet \in BOOLEAN, StopOldFails(t, quiet)
  PROVE  Inv'
<1> USE DEF Inv, Calls, Between, StopOldFails
<1>1. job[t] # None /\ job[t].at = "stopOld"
  BY DEF At
<1>2. /\ job[t] \in Job /\ job[t].op \in {"load", "prepare"} /\ job[t].pair \in Pair
      /\ lock[ArbiterOf(t)] = t /\ t \notin Closing /\ cmd = t
      /\ job[t].op = "load" => job[t].alias \in Alias
  BY <1>1, StartFacts DEF StartPoints, CommandPoints
<1>3. Moved(t) /\ job'[t].at = "abort" /\ cmd' = None
  BY RaiseEffect DEF At, Raise
<1>4. Arbiters' /\ ApplicationState'
  BY ArbitersFrame, ApplicationFrame
<1>5. Shared'
  <2>1. CoordinatorTyped'
    BY <1>1, <1>2 DEF Shared, CoordinatorTyped, RouterState, coordinator
  <2>2. WorldTyped' /\ InFlight' = InFlight
    BY <1>2, StoppedEffect DEF Shared, StoppedOrNot, world, CountTyped, WorldTyped, InFlight
  <2>3. CountTyped'
    BY <2>2, InFlightCount DEF Shared, CountTyped, coordinator
  <2>4. Ownership'
    BY <1>1, <1>2, <1>3, StoppedEffect DEF Shared, Ownership, AtPoints, Knows, At, Alias,
       Service, Loaded, StoppedOrNot, coordinator, world
  <2>5. AtMostOne'
    BY <1>1, <1>2, <1>3, StoppedEffect DEF Shared, AtMostOne, AtPoints, Knows, At,
       StoppedOrNot, world
  <2> QED
    BY <2>1, <2>2, <2>3, <2>4, <2>5 DEF Shared
<1>6. Owners'
  BY <1>1, <1>2, <1>3 DEF Owners, CommandTyped, ManagersTyped, managers
<1>7. Calls'
  <2>1. Formed(t)'
    BY <1>1, <1>2, <1>3 DEF JobsFormed, Formed, WellFormed, Callers, OwnerOf, Managers,
       StartPoints, FinishPoints, Service, Alias, Thread, Moved, Others
  <2>2. HoldsCommand(t)' /\ HoldsArbiter(t)' /\ KeepsLocks(t)
    BY <1>1, <1>2, <1>3 DEF Locks, HoldsCommand, HoldsArbiter, KeepsLocks, CommandPoints,
       StartPoints, arbiters, Moved, Others
  <2>3. Goes(t) /\ (t \in Batch => RoundCall(t)') /\ UNCHANGED <<mode, todo>>
    BY <1>1, <1>2, <1>3 DEF RoundCalls, RoundCall, Goes, Rounds, application, Moved, Others
  <2> QED
    BY <1>1, <1>2, <1>3, <2>1, <2>2, <2>3, CallsGo DEF Moved, Others
<1>8. Between'
  <2>1. AtPoints'
    BY <1>1, <1>2, <1>3, KnowsInCommand DEF AtPoints, Knows, At, Formed, JobsFormed,
       WellFormed, coordinator, Moved, Others
  <2>2. Strays' /\ Drains'
    BY <1>1, <1>2, <1>3 DEF Strays, Drains, At, coordinator, Moved, Others
  <2> QED
    BY <2>1, <2>2
<1> QED
  BY <1>1, <1>2, <1>3, <1>4, <1>5, <1>6, <1>7, <1>8

\* The new container, with no model, becomes the owned one before it is probed.
LEMMA CreateKeeps ==
  ASSUME Inv, NEW t \in Thread, NEW probed \in BOOLEAN, Create(t, probed)
  PROVE  Inv'
<1> USE DEF Inv, Calls, Between, Create
<1>1. job[t] # None /\ job[t].at = "create"
  BY DEF At
<1>2. /\ job[t] \in Job /\ job[t].op \in {"load", "prepare"} /\ job[t].pair \in Pair
      /\ lock[ArbiterOf(t)] = t /\ t \notin Closing /\ cmd = t
      /\ job[t].op = "load" => job[t].alias \in Alias
  BY <1>1, StartFacts DEF StartPoints, CommandPoints
<1>3. Moved(t) /\ job'[t].at \in {"abort", "confirm", "load"}
  BY GotoEffect DEF At, Points
<1>4. /\ job'[t].at = "load" => job[t].op = "load"
      /\ cmd' = IF job'[t].at = "load" THEN cmd ELSE None
  BY <1>1, <1>2, GotoEffect DEF At, Points
<1>5. Arbiters' /\ ApplicationState'
  BY ArbitersFrame, ApplicationFrame
<1>6. Shared'
  <2>1. CoordinatorTyped'
    BY <1>1, <1>2 DEF Shared, CoordinatorTyped, RouterState
  <2>2. WorldTyped' /\ InFlight' = InFlight
    BY <1>2, StoppedEffect DEF Shared, CountTyped, WorldTyped, InFlight
  <2>3. CountTyped'
    BY <2>2, InFlightCount DEF Shared, CountTyped
  <2>4. Ownership'
    BY <1>1, <1>2, <1>3, <1>4, StoppedEffect DEF Shared, Ownership, AtPoints, Knows, At,
       Alias, Service, Loaded
  <2>5. AtMostOne'
    BY <1>1, <1>2, <1>3, <1>4, StoppedEffect DEF Shared, AtMostOne, AtPoints, Knows, At
  <2> QED
    BY <2>1, <2>2, <2>3, <2>4, <2>5 DEF Shared
<1>7. Owners'
  BY <1>1, <1>2, <1>3, <1>4 DEF Owners, CommandTyped, ManagersTyped, managers
<1>8. Calls'
  <2>1. Formed(t)'
    BY <1>1, <1>2, <1>3, <1>4 DEF JobsFormed, Formed, WellFormed, Callers, OwnerOf, Managers,
       StartPoints, FinishPoints, Service, Alias, Thread, Moved, Others
  <2>2. HoldsCommand(t)' /\ HoldsArbiter(t)' /\ KeepsLocks(t)
    BY <1>1, <1>2, <1>3, <1>4 DEF Locks, HoldsCommand, HoldsArbiter, KeepsLocks,
       CommandPoints, StartPoints, arbiters, Moved, Others
  <2>3. Goes(t) /\ (t \in Batch => RoundCall(t)') /\ UNCHANGED <<mode, todo>>
    BY <1>1, <1>2, <1>3, <1>4 DEF RoundCalls, RoundCall, Goes, Rounds, application, Moved, Others
  <2> QED
    BY <1>1, <1>2, <1>3, <1>4, <2>1, <2>2, <2>3, CallsGo DEF Moved, Others
<1>9. Between'
  <2>1. AtPoints'
    BY <1>1, <1>2, <1>3, <1>4, KnowsInCommand DEF AtPoints, Knows, At, Formed, JobsFormed,
       WellFormed, Moved, Others
  <2>2. Strays' /\ Drains'
    BY <1>1, <1>2, <1>3, <1>4 DEF Strays, Drains, At, Moved, Others
  <2> QED
    BY <2>1, <2>2
<1> QED
  BY <1>1, <1>2, <1>3, <1>4, <1>5, <1>6, <1>7, <1>8, <1>9

\* A container that is created and not published holds no model.
LEMMA CreateFailsKeeps ==
  ASSUME Inv, NEW t \in Thread, NEW quiet \in BOOLEAN, CreateFails(t, quiet)
  PROVE  Inv'
<1> USE DEF Inv, Calls, Between, CreateFails
<1>1. job[t] # None /\ job[t].at = "create"
  BY DEF At
<1>2. /\ job[t] \in Job /\ job[t].op \in {"load", "prepare"} /\ job[t].pair \in Pair
      /\ lock[ArbiterOf(t)] = t /\ t \notin Closing /\ cmd = t
      /\ job[t].op = "load" => job[t].alias \in Alias
  BY <1>1, StartFacts DEF StartPoints, CommandPoints
<1>3. Moved(t) /\ job'[t].at = "abort" /\ cmd' = None
  BY RaiseEffect DEF At, Raise
<1>4. Arbiters' /\ ApplicationState'
  BY ArbitersFrame, ApplicationFrame
<1>5. Shared'
  <2>1. CoordinatorTyped'
    BY <1>1, <1>2 DEF Shared, CoordinatorTyped, RouterState, coordinator
  <2>2. WorldTyped' /\ InFlight' = InFlight
    BY <1>2, StoppedEffect DEF Shared, world, CountTyped, WorldTyped, InFlight
  <2>3. CountTyped'
    BY <2>2, InFlightCount DEF Shared, CountTyped, coordinator
  <2>4. Ownership'
    BY <1>1, <1>2, <1>3, StoppedEffect DEF Shared, Ownership, AtPoints, Knows, At, Alias,
       Service, Loaded, coordinator, world
  <2>5. AtMostOne'
    BY <1>1, <1>2, <1>3, StoppedEffect DEF Shared, AtMostOne, AtPoints, Knows, At, world
  <2> QED
    BY <2>1, <2>2, <2>3, <2>4, <2>5 DEF Shared
<1>6. Owners'
  BY <1>1, <1>2, <1>3 DEF Owners, CommandTyped, ManagersTyped, managers
<1>7. Calls'
  <2>1. Formed(t)'
    BY <1>1, <1>2, <1>3 DEF JobsFormed, Formed, WellFormed, Callers, OwnerOf, Managers,
       StartPoints, FinishPoints, Service, Alias, Thread, Moved, Others
  <2>2. HoldsCommand(t)' /\ HoldsArbiter(t)' /\ KeepsLocks(t)
    BY <1>1, <1>2, <1>3 DEF Locks, HoldsCommand, HoldsArbiter, KeepsLocks, CommandPoints,
       StartPoints, arbiters, Moved, Others
  <2>3. Goes(t) /\ (t \in Batch => RoundCall(t)') /\ UNCHANGED <<mode, todo>>
    BY <1>1, <1>2, <1>3 DEF RoundCalls, RoundCall, Goes, Rounds, application, Moved, Others
  <2> QED
    BY <1>1, <1>2, <1>3, <2>1, <2>2, <2>3, CallsGo DEF Moved, Others
<1>8. Between'
  <2>1. AtPoints'
    BY <1>1, <1>2, <1>3, KnowsInCommand DEF AtPoints, Knows, At, Formed, JobsFormed,
       WellFormed, coordinator, world, Moved, Others
  <2>2. Strays' /\ Drains'
    BY <1>1, <1>2, <1>3 DEF Strays, Drains, At, coordinator, world, Moved, Others
  <2> QED
    BY <2>1, <2>2
<1> QED
  BY <1>1, <1>2, <1>3, <1>4, <1>5, <1>6, <1>7, <1>8

\* Whoever goes on to load has found a ready container of its pair and so, as nobody
\* else is aborting a start, no model in it.
LEMMA LoadKeeps ==
  ASSUME Inv, NEW t \in Thread, Load(t)
  PROVE  Inv'
<1> USE DEF Inv, Calls, Between, Load
<1>1. job[t] # None /\ job[t].at = "load"
  BY DEF At
<1>2. /\ job[t] \in Job /\ job[t].op \in {"load", "prepare"} /\ job[t].pair \in Pair
      /\ lock[ArbiterOf(t)] = t /\ t \notin Closing /\ cmd = t
      /\ job[t].op = "load" => job[t].alias \in Alias
  BY <1>1, StartFacts DEF StartPoints, CommandPoints
<1>3. Moved(t) /\ job'[t].at \in {"abort", "confirm", "loading"}
  BY GotoEffect DEF At, Points
<1>4. /\ job'[t].at = "loading" => state = "CONTAINER_READY" /\ contract = job[t].pair
          /\ loaded = None
      /\ cmd' = IF job'[t].at = "loading" THEN cmd ELSE None
  BY GotoEffect DEF At, Points
<1>5. Shared' /\ Arbiters' /\ ApplicationState'
  BY SharedFrame, ArbitersFrame, ApplicationFrame
<1>6. Owners'
  BY <1>1, <1>2, <1>3, <1>4 DEF Owners, CommandTyped, ManagersTyped, managers
<1>7. Calls'
  <2>1. Formed(t)'
    BY <1>1, <1>2, <1>3, <1>4 DEF JobsFormed, Formed, WellFormed, Callers, OwnerOf, Managers,
       StartPoints, FinishPoints, Service, Alias, Thread, Moved, Others
  <2>2. HoldsCommand(t)' /\ HoldsArbiter(t)' /\ KeepsLocks(t)
    BY <1>1, <1>2, <1>3, <1>4 DEF Locks, HoldsCommand, HoldsArbiter, KeepsLocks,
       CommandPoints, StartPoints, arbiters, Moved, Others
  <2>3. Goes(t) /\ (t \in Batch => RoundCall(t)') /\ UNCHANGED <<mode, todo>>
    BY <1>1, <1>2, <1>3, <1>4 DEF RoundCalls, RoundCall, Goes, Rounds, application, Moved, Others
  <2> QED
    BY <1>1, <1>2, <1>3, <1>4, <2>1, <2>2, <2>3, CallsGo DEF Moved, Others
<1>8. Between'
  <2>1. AtPoints'
    BY <1>1, <1>2, <1>3, <1>4, KnowsFrame, ResidentOnLoad DEF Arbiters, AtPoints, Knows, At,
       Formed, JobsFormed, WellFormed, coordinator, world, Moved, Others
  <2>2. Strays' /\ Drains'
    BY <1>1, <1>2, <1>3, <1>4 DEF Strays, Drains, At, coordinator, world, Moved, Others
  <2> QED
    BY <2>1, <2>2
<1> QED
  BY <1>1, <1>2, <1>3, <1>4, <1>5, <1>6, <1>7, <1>8

\* The one model that is resident is the one published.
LEMMA LoadPublishKeeps ==
  ASSUME Inv, NEW t \in Thread, LoadPublish(t)
  PROVE  Inv'
<1> USE DEF Inv, Calls, Between, LoadPublish
<1>1. job[t] # None /\ job[t].at = "loading"
  BY DEF At
<1>2. /\ job[t] \in Job /\ job[t].op \in {"load", "prepare"} /\ job[t].pair \in Pair
      /\ lock[ArbiterOf(t)] = t /\ t \notin Closing /\ cmd = t
      /\ job[t].op = "load" => job[t].alias \in Alias
  BY <1>1, StartFacts DEF StartPoints, CommandPoints
<1>3. Moved(t) /\ job'[t].at = "confirm"
  BY GotoEffect DEF At, Points
<1>4. job[t].op = "load" /\ job[t].alias \in Alias
  BY <1>1, <1>2 DEF JobsFormed, Formed, WellFormed
<1>5. \A u \in Thread : job[u] # None => job[u].op # "prepare"
  BY <1>1, <1>4, StartFacts DEF StartPoints, Modes, JobsFormed, Formed, Callers, Thread, Rounds
<1>6. Arbiters' /\ ApplicationState'
  BY ArbitersFrame, ApplicationFrame
<1>7. Shared'
  <2>1. CoordinatorTyped'
    BY <1>1, <1>2, <1>4 DEF Shared, CoordinatorTyped, RouterState
  <2>2. WorldTyped' /\ InFlight' = InFlight
    BY <1>2, <1>4 DEF Shared, WorldTyped, InFlight
  <2>3. CountTyped'
    BY <2>2, InFlightCount DEF Shared, CountTyped
  <2>4. Ownership'
    BY <1>1, <1>2, <1>3, <1>4, <1>5, StoppedEffect DEF Shared, Ownership, AtPoints, Knows, At,
       Alias, Service, Loaded
  <2>5. AtMostOne'
    BY <1>1, <1>2, <1>3, <1>4, <1>5, StoppedEffect DEF Shared, AtMostOne, AtPoints, Knows, At
  <2> QED
    BY <2>1, <2>2, <2>3, <2>4, <2>5 DEF Shared
<1>8. Owners'
  BY <1>1, <1>2, <1>3, <1>4, <1>5 DEF Owners, CommandTyped, ManagersTyped, managers
<1>9. Calls'
  <2>1. Formed(t)'
    BY <1>1, <1>2, <1>3, <1>4, <1>5 DEF JobsFormed, Formed, WellFormed, Callers, OwnerOf,
       Managers, StartPoints, FinishPoints, Service, Alias, Thread, Moved, Others
  <2>2. HoldsCommand(t)' /\ HoldsArbiter(t)' /\ KeepsLocks(t)
    BY <1>1, <1>2, <1>3, <1>4, <1>5 DEF Locks, HoldsCommand, HoldsArbiter, KeepsLocks,
       CommandPoints, StartPoints, arbiters, Moved, Others
  <2>3. Goes(t) /\ (t \in Batch => RoundCall(t)') /\ UNCHANGED <<mode, todo>>
    BY <1>1, <1>2, <1>3, <1>4, <1>5 DEF RoundCalls, RoundCall, Goes, Rounds, application,
       Moved, Others
  <2> QED
    BY <1>1, <1>2, <1>3, <1>4, <1>5, <2>1, <2>2, <2>3, CallsGo DEF Moved, Others
<1>10. Between'
  <2>1. AtPoints'
    BY <1>1, <1>2, <1>3, <1>4, <1>5, KnowsOfLoad DEF Knows, At, Moved
  <2>2. Strays' /\ Drains'
    BY <1>1, <1>2, <1>3, <1>4, <1>5 DEF Strays, Drains, At, Moved, Others
  <2> QED
    BY <2>1, <2>2
<1> QED
  BY <1>1, <1>2, <1>3, <1>4, <1>5, <1>6, <1>7, <1>8, <1>9, <1>10

\* What a failed load may have left is a stray, in the hands of the call that aborts.
LEMMA LoadFailsKeeps ==
  ASSUME Inv, NEW t \in Thread, NEW quiet \in BOOLEAN, LoadFails(t, quiet)
  PROVE  Inv'
<1> USE DEF Inv, Calls, Between, LoadFails
<1>1. job[t] # None /\ job[t].at = "loading"
  BY DEF At
<1>2. /\ job[t] \in Job /\ job[t].op \in {"load", "prepare"} /\ job[t].pair \in Pair
      /\ lock[ArbiterOf(t)] = t /\ t \notin Closing /\ cmd = t
      /\ job[t].op = "load" => job[t].alias \in Alias
  BY <1>1, StartFacts DEF StartPoints, CommandPoints
<1>3. Moved(t) /\ job'[t].at = "abort" /\ cmd' = None
  BY RaiseEffect DEF At, Raise
<1>4. job[t].op = "load" /\ job[t].alias \in Alias
  BY <1>1, <1>2 DEF JobsFormed, Formed, WellFormed
<1>5. Arbiters' /\ ApplicationState'
  BY ArbitersFrame, ApplicationFrame
<1>6. Shared'
  <2>1. CoordinatorTyped'
    BY <1>1, <1>2 DEF Shared, CoordinatorTyped, RouterState, coordinator
  <2>2. WorldTyped' /\ InFlight' = InFlight
    BY <1>2, <1>4 DEF Shared, WorldTyped, InFlight
  <2>3. CountTyped'
    BY <2>2, InFlightCount DEF Shared, CountTyped, coordinator
  <2>4. Ownership'
    BY <1>1, <1>2, <1>3, <1>4, StoppedEffect DEF Shared, Ownership, AtPoints, Knows, At,
       Alias, Service, Loaded, coordinator
  <2>5. AtMostOne'
    BY <1>1, <1>2, <1>3, <1>4, StoppedEffect DEF Shared, AtMostOne, AtPoints, Knows, At
  <2> QED
    BY <2>1, <2>2, <2>3, <2>4, <2>5 DEF Shared
<1>7. Owners'
  BY <1>1, <1>2, <1>3, <1>4 DEF Owners, CommandTyped, ManagersTyped, managers
<1>8. Calls'
  <2>1. Formed(t)'
    BY <1>1, <1>2, <1>3, <1>4 DEF JobsFormed, Formed, WellFormed, Callers, OwnerOf, Managers,
       StartPoints, FinishPoints, Service, Alias, Thread, Moved, Others
  <2>2. HoldsCommand(t)' /\ HoldsArbiter(t)' /\ KeepsLocks(t)
    BY <1>1, <1>2, <1>3, <1>4 DEF Locks, HoldsCommand, HoldsArbiter, KeepsLocks,
       CommandPoints, StartPoints, arbiters, Moved, Others
  <2>3. Goes(t) /\ (t \in Batch => RoundCall(t)') /\ UNCHANGED <<mode, todo>>
    BY <1>1, <1>2, <1>3, <1>4 DEF RoundCalls, RoundCall, Goes, Rounds, application, Moved, Others
  <2> QED
    BY <1>1, <1>2, <1>3, <1>4, <2>1, <2>2, <2>3, CallsGo DEF Moved, Others
<1>9. Between'
  <2>1. AtPoints'
    BY <1>1, <1>2, <1>3, <1>4, KnowsInCommand DEF AtPoints, Knows, At, Formed, JobsFormed,
       WellFormed, coordinator, Moved, Others
  <2>2. Strays' /\ Drains'
    BY <1>1, <1>2, <1>3, <1>4 DEF Strays, Drains, At, coordinator, Moved, Others
  <2> QED
    BY <2>1, <2>2
<1> QED
  BY <1>1, <1>2, <1>3, <1>4, <1>5, <1>6, <1>7, <1>8, <1>9

\* The end of a start: the lock is given back and the manager adopts the pair.
LEMMA StartSucceedsKeeps ==
  ASSUME Inv, NEW t \in Thread, StartSucceeds(t)
  PROVE  Inv'
<1> USE DEF Inv, Calls, Between, StartSucceeds
<1>1. job[t] # None /\ job[t].at = "confirm"
  BY DEF At
<1>2. /\ job[t] \in Job /\ job[t].op \in {"load", "prepare"} /\ job[t].pair \in Pair
      /\ lock[ArbiterOf(t)] = t /\ t \notin Closing
      /\ job[t].op = "load" => job[t].alias \in Alias
  BY <1>1, StartFacts DEF StartPoints, CommandPoints
<1>3. Ended(t)
  BY EndEffect
<1>4. Arbiters' /\ lock'[ArbiterOf(t)] = None
          /\ \A a \in Arbiter \ {ArbiterOf(t)} : lock'[a] = lock[a]
  BY <1>2, ArbiterType, VacateEffect, UnlockEffect DEF Arbiters, LeaseTyped, FailedTyped, Job
<1>5. Shared' /\ ApplicationState'
  BY SharedFrame, ApplicationFrame
<1>6. Arbiters'
  BY <1>4
<1>7. Owners'
  BY <1>2 DEF Adopt, Owners, CommandTyped, ManagersTyped, managers, Job, JobsFormed, Formed,
     WellFormed, At
<1>8. Calls'
  <2>1. Formed(t)'
    BY <1>1, <1>2, <1>3, <1>4 DEF JobsFormed, Formed, WellFormed, Callers, OwnerOf, Managers,
       StartPoints, FinishPoints, Service, Alias, Thread, Ended, Others
  <2>2. HoldsCommand(t)' /\ HoldsArbiter(t)' /\ KeepsLocks(t)
    BY <1>1, <1>2, <1>3, <1>4 DEF Locks, HoldsCommand, HoldsArbiter, KeepsLocks,
       CommandPoints, StartPoints, Ended, Others
  <2>3. Goes(t) /\ (t \in Batch => RoundCall(t)') /\ UNCHANGED <<mode, todo>>
    BY <1>1, <1>2, <1>3, <1>4 DEF RoundCalls, RoundCall, Goes, Rounds, application, Ended, Others
  <2> QED
    BY <1>1, <1>2, <1>3, <1>4, <2>1, <2>2, <2>3, CallsGo DEF Ended, Others
<1>9. Between'
  <2>1. AtPoints'
    BY <1>1, <1>2, <1>3, <1>4, KnowsFrame DEF AtPoints, Knows, At, Formed, JobsFormed,
       WellFormed, coordinator, world, Ended, Others
  <2>2. Strays' /\ Drains'
    BY <1>1, <1>2, <1>3, <1>4 DEF Strays, Drains, At, coordinator, world, Ended, Others
  <2> QED
    BY <2>1, <2>2
<1> QED
  BY <1>1, <1>2, <1>3, <1>4, <1>5, <1>6, <1>7, <1>8, <1>9

\* A cancelled start aborts; what it had loaded is still published.
LEMMA StartCancelledKeeps ==
  ASSUME Inv, NEW t \in Thread, StartCancelled(t)
  PROVE  Inv'
<1> USE DEF Inv, Calls, Between, StartCancelled
<1>1. job[t] # None /\ job[t].at = "confirm"
  BY DEF At
<1>2. /\ job[t] \in Job /\ job[t].op \in {"load", "prepare"} /\ job[t].pair \in Pair
      /\ lock[ArbiterOf(t)] = t /\ t \notin Closing
      /\ job[t].op = "load" => job[t].alias \in Alias
  BY <1>1, StartFacts DEF StartPoints, CommandPoints
<1>3. Moved(t) /\ job'[t].at = "abort"
  BY GotoEffect DEF At, Points
<1>4. Shared' /\ Arbiters' /\ ApplicationState'
  BY SharedFrame, ArbitersFrame, ApplicationFrame
<1>5. Owners'
  BY <1>1, <1>2, <1>3 DEF Owners, CommandTyped, ManagersTyped, managers
<1>6. Calls'
  <2>1. Formed(t)'
    BY <1>1, <1>2, <1>3 DEF JobsFormed, Formed, WellFormed, Callers, OwnerOf, Managers,
       StartPoints, FinishPoints, Service, Alias, Thread, Moved, Others
  <2>2. HoldsCommand(t)' /\ HoldsArbiter(t)' /\ KeepsLocks(t)
    BY <1>1, <1>2, <1>3 DEF Locks, HoldsCommand, HoldsArbiter, KeepsLocks, CommandPoints,
       StartPoints, arbiters, Moved, Others
  <2>3. Goes(t) /\ (t \in Batch => RoundCall(t)') /\ UNCHANGED <<mode, todo>>
    BY <1>1, <1>2, <1>3 DEF RoundCalls, RoundCall, Goes, Rounds, application, Moved, Others
  <2> QED
    BY <1>1, <1>2, <1>3, <2>1, <2>2, <2>3, CallsGo DEF Moved, Others
<1>7. Between'
  <2>1. AtPoints'
    BY <1>1, <1>2, <1>3, KnowsFrame DEF AtPoints, Knows, At, Formed, JobsFormed, WellFormed,
       coordinator, world, Moved, Others
  <2>2. Strays' /\ Drains'
    BY <1>1, <1>2, <1>3 DEF Strays, Drains, At, coordinator, world, Moved, Others
  <2> QED
    BY <2>1, <2>2
<1> QED
  BY <1>1, <1>2, <1>3, <1>4, <1>5, <1>6, <1>7

\* Nothing is owned, so there is nothing to stop, and no stray.
LEMMA AbortNothingKeeps ==
  ASSUME Inv, NEW t \in Thread, AbortNothing(t)
  PROVE  Inv'
<1> USE DEF Inv, Calls, Between, AbortNothing
<1>1. job[t] # None /\ job[t].at = "abort"
  BY DEF At
<1>2. /\ job[t] \in Job /\ job[t].op \in {"load", "prepare"} /\ job[t].pair \in Pair
      /\ lock[ArbiterOf(t)] = t /\ t \notin Closing
      /\ job[t].op = "load" => job[t].alias \in Alias
  BY <1>1, StartFacts DEF StartPoints, CommandPoints
<1>3. Moved(t) /\ job'[t].at = "lateMark" /\ cmd' = None
  BY GotoEffect DEF At, Points, LeaveStart
<1>4. Arbiters'
  BY <1>1, <1>2, ArbiterType, VacateEffect, RetainEffect, UnlockEffect DEF Arbiters, LeaseTyped,
     LockTyped, LeaveStart, Job
<1>5. /\ \A a \in Arbiter : lock'[a] = lock[a] \/ a = ArbiterOf(t)
      /\ InOuterStart(t) => UNCHANGED lock
  BY ArbiterType, UnlockEffect DEF Arbiters, LeaveStart
<1>6. Shared'
  BY SharedFrame
<1>7. Arbiters'
  BY <1>4
<1>8. ApplicationState'
  BY DEF ApplicationState, ApplicationTyped, UnreleasedTyped, LeaveStart, application
<1>9. Owners'
  BY <1>3 DEF Owners, CommandTyped, ManagersTyped, LeaveStart, managers
<1>10. Calls'
  <2>1. Formed(t)'
    BY <1>1, <1>2, <1>3, <1>4, <1>5 DEF JobsFormed, Formed, WellFormed, Callers, OwnerOf,
       Managers, StartPoints, FinishPoints, Service, Alias, Thread, Moved, Others
  <2>2. HoldsCommand(t)' /\ HoldsArbiter(t)'
    BY <1>1, <1>2, <1>3, <1>4, <1>5 DEF Locks, HoldsCommand, HoldsArbiter, CommandPoints,
       StartPoints, LeaveStart, InOuterStart, Bracketed, Moved, Others
  <2>3. KeepsLocks(t)
    BY <1>1, <1>2, <1>3, <1>4, <1>5 DEF Locks, HoldsCommand, HoldsArbiter, CommandPoints,
       StartPoints, KeepsLocks, Moved, Others
  <2>4. Goes(t)
    BY <1>1, <1>2, <1>3, <1>4, <1>5 DEF Goes, LeaveStart, application, Moved, Others
  <2>5. (t \in Batch => RoundCall(t)') /\ UNCHANGED <<mode, todo>>
    BY <1>1, <1>2, <1>3, <1>4, <1>5 DEF RoundCalls, RoundCall, LeaveStart, application,
       Rounds, Moved, Others
  <2> QED
    BY <1>1, <1>2, <1>3, <1>4, <1>5, <2>1, <2>2, <2>3, <2>4, <2>5, CallsGo DEF Moved, Others
<1>11. Between'
  <2>1. AtPoints'
    BY <1>1, <1>2, <1>3, <1>4, <1>5, KnowsFrame DEF AtPoints, Knows, At, Formed, JobsFormed,
       WellFormed, coordinator, world, Moved, Others
  <2>2. Strays'
    BY <1>1, <1>2, <1>3, <1>4, <1>5 DEF Shared, Ownership, Strays, coordinator, world
  <2>3. Drains'
    BY <1>1, <1>2, <1>3, <1>4, <1>5 DEF Drains, At, coordinator, world, Moved, Others
  <2> QED
    BY <2>1, <2>2, <2>3
<1> QED
  BY <1>1, <1>2, <1>3, <1>4, <1>5, <1>6, <1>7, <1>8, <1>9, <1>10, <1>11

\* The stop leaves no container, and the coordinator none to own.
LEMMA AbortStopsKeeps ==
  ASSUME Inv, NEW t \in Thread, AbortStops(t)
  PROVE  Inv'
<1> USE DEF Inv, Calls, Between, AbortStops
<1>1. job[t] # None /\ job[t].at = "aborting"
  BY DEF At
<1>2. /\ job[t] \in Job /\ job[t].op \in {"load", "prepare"} /\ job[t].pair \in Pair
      /\ lock[ArbiterOf(t)] = t /\ t \notin Closing /\ cmd = t
      /\ job[t].op = "load" => job[t].alias \in Alias
  BY <1>1, StartFacts DEF StartPoints, CommandPoints
<1>3. Moved(t) /\ job'[t].at = "lateMark" /\ cmd' = None
  BY GotoEffect DEF At, Points, LeaveStart
<1>4. Arbiters'
  BY <1>1, <1>2, ArbiterType, VacateEffect, RetainEffect, UnlockEffect DEF Arbiters, LeaseTyped,
     LockTyped, LeaveStart, Job
<1>5. /\ \A a \in Arbiter : lock'[a] = lock[a] \/ a = ArbiterOf(t)
      /\ InOuterStart(t) => UNCHANGED lock
  BY ArbiterType, UnlockEffect DEF Arbiters, LeaveStart
<1>6. Shared'
  <2>1. CoordinatorTyped'
    BY <1>1, <1>2 DEF Shared, CoordinatorTyped, RouterState, StoppedAndCleared, Clear
  <2>2. WorldTyped' /\ InFlight' = InFlight
    BY <1>2, ClearedEffect DEF Shared, CountTyped, WorldTyped, InFlight
  <2>3. CountTyped'
    BY <2>2, InFlightCount DEF Shared, CountTyped, StoppedAndCleared, Clear
  <2>4. Ownership'
    BY <1>1, <1>2, <1>3, <1>4, <1>5, ClearedEffect DEF Shared, Ownership, AtPoints, Knows, At,
       Alias, Service, StoppedAndCleared, Clear, Loaded
  <2>5. AtMostOne'
    BY <1>1, <1>2, <1>3, <1>4, <1>5, ClearedEffect DEF Shared, AtMostOne, AtPoints, Knows, At
  <2> QED
    BY <2>1, <2>2, <2>3, <2>4, <2>5 DEF Shared
<1>7. Arbiters'
  BY <1>4
<1>8. ApplicationState'
  BY DEF ApplicationState, ApplicationTyped, UnreleasedTyped, LeaveStart, application
<1>9. Owners'
  BY <1>3 DEF Owners, CommandTyped, ManagersTyped, LeaveStart, managers
<1>10. Calls'
  <2>1. Formed(t)'
    BY <1>1, <1>2, <1>3, <1>4, <1>5 DEF JobsFormed, Formed, WellFormed, Callers, OwnerOf,
       Managers, StartPoints, FinishPoints, Service, Alias, Thread, Moved, Others
  <2>2. HoldsCommand(t)' /\ HoldsArbiter(t)'
    BY <1>1, <1>2, <1>3, <1>4, <1>5 DEF Locks, HoldsCommand, HoldsArbiter, CommandPoints,
       StartPoints, LeaveStart, InOuterStart, Bracketed, Moved, Others
  <2>3. KeepsLocks(t)
    BY <1>1, <1>2, <1>3, <1>4, <1>5 DEF Locks, HoldsCommand, HoldsArbiter, CommandPoints,
       StartPoints, KeepsLocks, Moved, Others
  <2>4. Goes(t)
    BY <1>1, <1>2, <1>3, <1>4, <1>5 DEF Goes, LeaveStart, application, Moved, Others
  <2>5. (t \in Batch => RoundCall(t)') /\ UNCHANGED <<mode, todo>>
    BY <1>1, <1>2, <1>3, <1>4, <1>5 DEF RoundCalls, RoundCall, LeaveStart, application,
       Rounds, Moved, Others
  <2> QED
    BY <1>1, <1>2, <1>3, <1>4, <1>5, <2>1, <2>2, <2>3, <2>4, <2>5, CallsGo DEF Moved, Others
<1>11. Between'
  <2>1. AtPoints'
    BY <1>1, <1>2, <1>3, <1>4, <1>5, KnowsInCommand DEF StoppedAndCleared, Clear, AtPoints, Knows, At, Formed,
       JobsFormed, WellFormed, Moved, Others
  <2>2. Strays' /\ Drains'
    BY <1>1, <1>2, <1>3, <1>4, <1>5 DEF Strays, Drains, At, StoppedAndCleared, Clear, Moved, Others
  <2> QED
    BY <2>1, <2>2
<1> QED
  BY <1>1, <1>2, <1>3, <1>4, <1>5, <1>6, <1>7, <1>8, <1>9, <1>10, <1>11

\* The coordinator keeps the ownership of what it could not stop.
LEMMA AbortStopFailsKeeps ==
  ASSUME Inv, NEW t \in Thread, AbortStopFails(t)
  PROVE  Inv'
<1> USE DEF Inv, Calls, Between, AbortStopFails
<1>1. job[t] # None /\ job[t].at = "aborting"
  BY DEF At
<1>2. /\ job[t] \in Job /\ job[t].op \in {"load", "prepare"} /\ job[t].pair \in Pair
      /\ lock[ArbiterOf(t)] = t /\ t \notin Closing /\ cmd = t
      /\ job[t].op = "load" => job[t].alias \in Alias
  BY <1>1, StartFacts DEF StartPoints, CommandPoints
<1>3. Moved(t) /\ job'[t].at = "lateMark" /\ cmd' = None
  BY GotoEffect DEF At, Points, LeaveStart
<1>4. Arbiters'
  BY <1>1, <1>2, ArbiterType, VacateEffect, RetainEffect, UnlockEffect DEF Arbiters, LeaseTyped,
     LockTyped, LeaveStart, Job
<1>5. /\ \A a \in Arbiter : lock'[a] = lock[a] \/ a = ArbiterOf(t)
      /\ InOuterStart(t) => UNCHANGED lock
  BY ArbiterType, UnlockEffect DEF Arbiters, LeaveStart
<1>6. Shared'
  <2>1. CoordinatorTyped'
    BY <1>1, <1>2 DEF Shared, CoordinatorTyped, RouterState, Mark
  <2>2. WorldTyped' /\ InFlight' = InFlight
    BY <1>2, StoppedEffect DEF Shared, StoppedOrNot, world, CountTyped, WorldTyped, InFlight
  <2>3. CountTyped'
    BY <2>2, InFlightCount DEF Shared, CountTyped, Mark
  <2>4. Ownership'
    BY <1>1, <1>2, <1>3, <1>4, <1>5, StoppedEffect DEF Shared, Ownership, AtPoints, Knows, At,
       Alias, Service, Mark, Loaded, StoppedOrNot, world
  <2>5. AtMostOne'
    BY <1>1, <1>2, <1>3, <1>4, <1>5, StoppedEffect DEF Shared, AtMostOne, AtPoints, Knows, At,
       StoppedOrNot, world
  <2> QED
    BY <2>1, <2>2, <2>3, <2>4, <2>5 DEF Shared
<1>7. Arbiters'
  BY <1>4
<1>8. ApplicationState'
  BY DEF ApplicationState, ApplicationTyped, UnreleasedTyped, LeaveStart, application
<1>9. Owners'
  BY <1>3 DEF Owners, CommandTyped, ManagersTyped, LeaveStart, managers
<1>10. Calls'
  <2>1. Formed(t)'
    BY <1>1, <1>2, <1>3, <1>4, <1>5 DEF JobsFormed, Formed, WellFormed, Callers, OwnerOf,
       Managers, StartPoints, FinishPoints, Service, Alias, Thread, Moved, Others
  <2>2. HoldsCommand(t)' /\ HoldsArbiter(t)'
    BY <1>1, <1>2, <1>3, <1>4, <1>5 DEF Locks, HoldsCommand, HoldsArbiter, CommandPoints,
       StartPoints, LeaveStart, InOuterStart, Bracketed, Moved, Others
  <2>3. KeepsLocks(t)
    BY <1>1, <1>2, <1>3, <1>4, <1>5 DEF Locks, HoldsCommand, HoldsArbiter, CommandPoints,
       StartPoints, KeepsLocks, Moved, Others
  <2>4. Goes(t)
    BY <1>1, <1>2, <1>3, <1>4, <1>5 DEF Goes, LeaveStart, application, Moved, Others
  <2>5. (t \in Batch => RoundCall(t)') /\ UNCHANGED <<mode, todo>>
    BY <1>1, <1>2, <1>3, <1>4, <1>5 DEF RoundCalls, RoundCall, LeaveStart, application,
       Rounds, Moved, Others
  <2> QED
    BY <1>1, <1>2, <1>3, <1>4, <1>5, <2>1, <2>2, <2>3, <2>4, <2>5, CallsGo DEF Moved, Others
<1>11. Between'
  <2>1. AtPoints'
    BY <1>1, <1>2, <1>3, <1>4, <1>5, KnowsInCommand DEF Mark, AtPoints, Knows, At, Formed,
       JobsFormed, WellFormed, Moved, Others
  <2>2. Strays' /\ Drains'
    BY <1>1, <1>2, <1>3, <1>4, <1>5 DEF Strays, Drains, At, Mark, Moved, Others
  <2> QED
    BY <2>1, <2>2
<1> QED
  BY <1>1, <1>2, <1>3, <1>4, <1>5, <1>6, <1>7, <1>8, <1>9, <1>10, <1>11

\* A drain that times out had requests to wait for and therefore a model to name.
LEMMA AbortTimesOutKeeps ==
  ASSUME Inv, NEW t \in Thread, AbortTimesOut(t)
  PROVE  Inv'
<1> USE DEF Inv, Calls, Between, AbortTimesOut
<1>1. job[t] # None /\ job[t].at = "aborting"
  BY DEF At
<1>2. /\ job[t] \in Job /\ job[t].op \in {"load", "prepare"} /\ job[t].pair \in Pair
      /\ lock[ArbiterOf(t)] = t /\ t \notin Closing /\ cmd = t
      /\ job[t].op = "load" => job[t].alias \in Alias
  BY <1>1, StartFacts DEF StartPoints, CommandPoints
<1>3. Moved(t) /\ job'[t].at = "outer" /\ cmd' = None
  BY GotoEffect DEF At, Points, LeaveStart
<1>4. Arbiters'
  BY <1>1, <1>2, ArbiterType, VacateEffect, RetainEffect, UnlockEffect DEF Arbiters, LeaseTyped,
     LockTyped, LeaveStart, Job
<1>5. /\ \A a \in Arbiter : lock'[a] = lock[a] \/ a = ArbiterOf(t)
      /\ InOuterStart(t) => UNCHANGED lock
  BY ArbiterType, UnlockEffect DEF Arbiters, LeaveStart
<1>6. Shared'
  BY SharedFrame
<1>7. Arbiters'
  BY <1>4
<1>8. ApplicationState'
  BY DEF ApplicationState, ApplicationTyped, UnreleasedTyped, LeaveStart, application
<1>9. Owners'
  BY <1>3 DEF Owners, CommandTyped, ManagersTyped, LeaveStart, managers
<1>10. Calls'
  <2>1. Formed(t)'
    BY <1>1, <1>2, <1>3, <1>4, <1>5 DEF JobsFormed, Formed, WellFormed, Callers, OwnerOf,
       Managers, StartPoints, FinishPoints, Service, Alias, Thread, Moved, Others
  <2>2. HoldsCommand(t)' /\ HoldsArbiter(t)'
    BY <1>1, <1>2, <1>3, <1>4, <1>5 DEF Locks, HoldsCommand, HoldsArbiter, CommandPoints,
       StartPoints, LeaveStart, InOuterStart, Bracketed, Moved, Others
  <2>3. KeepsLocks(t)
    BY <1>1, <1>2, <1>3, <1>4, <1>5 DEF Locks, HoldsCommand, HoldsArbiter, CommandPoints,
       StartPoints, KeepsLocks, Moved, Others
  <2>4. Goes(t)
    BY <1>1, <1>2, <1>3, <1>4, <1>5 DEF Goes, LeaveStart, application, Moved, Others
  <2>5. (t \in Batch => RoundCall(t)') /\ UNCHANGED <<mode, todo>>
    BY <1>1, <1>2, <1>3, <1>4, <1>5 DEF RoundCalls, RoundCall, LeaveStart, application,
       Rounds, Moved, Others
  <2> QED
    BY <1>1, <1>2, <1>3, <1>4, <1>5, <2>1, <2>2, <2>3, <2>4, <2>5, CallsGo DEF Moved, Others
<1>11. Between'
  <2>1. AtPoints'
    BY <1>1, <1>2, <1>3, <1>4, <1>5, KnowsFrame DEF AtPoints, Knows, At, Formed, JobsFormed,
       WellFormed, coordinator, world, Moved, Others
  <2>2. Strays'
    BY <1>1, <1>2, <1>3, <1>4, <1>5 DEF Strays, At, coordinator, world, Moved, Others
  <2>3. Drains'
    BY <1>1, <1>2, <1>3, <1>4, <1>5 DEF Shared, Ownership, Drains, coordinator, world
  <2> QED
    BY <2>1, <2>2, <2>3
<1> QED
  BY <1>1, <1>2, <1>3, <1>4, <1>5, <1>6, <1>7, <1>8, <1>9, <1>10, <1>11

\* The drain of a failed start, of whatever model there is.
LEMMA AbortKeeps ==
  ASSUME Inv, NEW t \in Thread, Abort(t)
  PROVE  Inv'
<1> USE DEF Inv, Calls, Between, Abort
<1>1. job[t] # None /\ job[t].at = "abort"
  BY DEF At
<1>2. /\ job[t] \in Job /\ job[t].op \in {"load", "prepare"} /\ job[t].pair \in Pair
      /\ lock[ArbiterOf(t)] = t /\ t \notin Closing
      /\ job[t].op = "load" => job[t].alias \in Alias
  BY <1>1, StartFacts DEF StartPoints, CommandPoints
<1>3. Moved(t) /\ job'[t].at = "aborting"
  BY GotoEffect DEF At, Points
<1>4. Arbiters' /\ ApplicationState'
  BY ArbitersFrame, ApplicationFrame
<1>5. Shared'
  <2>1. CoordinatorTyped'
    BY <1>1, <1>2 DEF Shared, CoordinatorTyped, RouterState
  <2>2. WorldTyped' /\ InFlight' = InFlight
    BY <1>2, StoppedEffect DEF Shared, world, CountTyped, WorldTyped, InFlight
  <2>3. CountTyped'
    BY <2>2, InFlightCount DEF Shared, CountTyped
  <2>4. Ownership'
    BY <1>1, <1>2, <1>3, StoppedEffect DEF Shared, Ownership, AtPoints, Knows, At, Alias,
       Service, Loaded, world
  <2>5. AtMostOne'
    BY <1>1, <1>2, <1>3, StoppedEffect DEF Shared, AtMostOne, AtPoints, Knows, At, world
  <2> QED
    BY <2>1, <2>2, <2>3, <2>4, <2>5 DEF Shared
<1>6. Owners'
  BY <1>1, <1>2, <1>3 DEF Owners, CommandTyped, ManagersTyped, managers
<1>7. Calls'
  <2>1. Formed(t)'
    BY <1>1, <1>2, <1>3 DEF JobsFormed, Formed, WellFormed, Callers, OwnerOf, Managers,
       StartPoints, FinishPoints, Service, Alias, Thread, Moved, Others
  <2>2. HoldsCommand(t)' /\ HoldsArbiter(t)' /\ KeepsLocks(t)
    BY <1>1, <1>2, <1>3 DEF Locks, HoldsCommand, HoldsArbiter, KeepsLocks, CommandPoints,
       StartPoints, arbiters, Moved, Others
  <2>3. Goes(t) /\ (t \in Batch => RoundCall(t)') /\ UNCHANGED <<mode, todo>>
    BY <1>1, <1>2, <1>3 DEF RoundCalls, RoundCall, Goes, Rounds, application, Moved, Others
  <2> QED
    BY <1>1, <1>2, <1>3, <2>1, <2>2, <2>3, CallsGo DEF Moved, Others
<1>8. Between'
  <2>1. AtPoints'
    BY <1>1, <1>2, <1>3, KnowsFrame DEF AtPoints, Knows, At, Formed, JobsFormed, WellFormed,
       world, Moved, Others
  <2>2. Strays' /\ Drains'
    BY <1>1, <1>2, <1>3 DEF Strays, Drains, At, world, Moved, Others
  <2> QED
    BY <2>1, <2>2
<1> QED
  BY <1>1, <1>2, <1>3, <1>4, <1>5, <1>6, <1>7, <1>8

\* Whether to mark is decided by a look,
LEMMA LateLookKeeps ==
  ASSUME Inv, NEW t \in Thread, LateLook(t)
  PROVE  Inv'
<1> USE DEF Inv, Calls, Between, LateLook
<1>1. job[t] # None /\ job[t].at = "lateMark"
  BY DEF At
<1>2. job[t] \in Job
  BY <1>1 DEF JobTyped
<1>3. Moved(t) /\ job'[t].at \in {"lateMarking", "outer"}
  BY GotoEffect DEF At, Points
<1>4. Shared' /\ Arbiters' /\ ApplicationState'
  BY SharedFrame, ArbitersFrame, ApplicationFrame
<1>5. Owners'
  BY DEF Owners, CommandTyped, ManagersTyped, managers
<1>6. Calls'
  <2>1. Formed(t)'
    BY <1>1, <1>2, <1>3 DEF JobsFormed, Formed, WellFormed, Callers, OwnerOf, Managers,
       StartPoints, FinishPoints, Service, Alias, Thread, Moved, Others
  <2>2. HoldsCommand(t)' /\ HoldsArbiter(t)' /\ KeepsLocks(t)
    BY <1>1, <1>2, <1>3 DEF Locks, HoldsCommand, HoldsArbiter, KeepsLocks, CommandPoints,
       StartPoints, arbiters, Moved, Others
  <2>3. Goes(t) /\ (t \in Batch => RoundCall(t)') /\ UNCHANGED <<mode, todo>>
    BY <1>1, <1>2, <1>3 DEF RoundCalls, RoundCall, Goes, Rounds, application, Moved, Others
  <2> QED
    BY <1>1, <1>2, <1>3, <2>1, <2>2, <2>3, CallsGo DEF Moved, Others
<1>7. Between'
  <2>1. AtPoints'
    BY <1>1, <1>2, <1>3, KnowsFrame DEF AtPoints, Knows, At, Formed, JobsFormed,
       WellFormed, coordinator, world, Moved, Others
  <2>2. Strays' /\ Drains'
    BY <1>1, <1>2, <1>3 DEF Strays, Drains, At, coordinator, world, Moved, Others
  <2> QED
    BY <2>1, <2>2
<1> QED
  BY <1>4, <1>5, <1>6, <1>7

\* which changes nothing; the mark changes the state alone, never what is owned.
LEMMA LateMarkKeeps ==
  ASSUME Inv, NEW t \in Thread, LateMark(t)
  PROVE  Inv'
<1> USE DEF Inv, Calls, Between, LateMark
<1>1. job[t] # None /\ job[t].at = "lateMarking"
  BY DEF At
<1>2. job[t] \in Job
  BY <1>1 DEF JobTyped
<1>3. Moved(t) /\ job'[t].at = "outer"
  BY GotoEffect DEF At, Points
<1>4. Arbiters' /\ ApplicationState'
  BY ArbitersFrame, ApplicationFrame
<1>5. Shared'
  <2>1. CoordinatorTyped'
    BY <1>1, <1>2 DEF Shared, CoordinatorTyped, RouterState, Mark, coordinator
  <2>2. WorldTyped' /\ InFlight' = InFlight
    BY <1>2, StoppedEffect DEF Shared, world, CountTyped, WorldTyped, InFlight
  <2>3. CountTyped'
    BY <2>2, InFlightCount DEF Shared, CountTyped, Mark, coordinator
  <2>4. Ownership'
    BY <1>1, <1>2, <1>3, StoppedEffect DEF Shared, Ownership, AtPoints, Knows, At, Alias,
       Service, Mark, Loaded, coordinator, world
  <2>5. AtMostOne'
    BY <1>1, <1>2, <1>3, StoppedEffect DEF Shared, AtMostOne, AtPoints, Knows, At, world
  <2> QED
    BY <2>1, <2>2, <2>3, <2>4, <2>5 DEF Shared
<1>6. Owners'
  BY <1>1, <1>2, <1>3 DEF Owners, CommandTyped, ManagersTyped, managers
<1>7. Calls'
  <2>1. Formed(t)'
    BY <1>1, <1>2, <1>3 DEF JobsFormed, Formed, WellFormed, Callers, OwnerOf, Managers,
       StartPoints, FinishPoints, Service, Alias, Thread, Moved, Others
  <2>2. HoldsCommand(t)' /\ HoldsArbiter(t)' /\ KeepsLocks(t)
    BY <1>1, <1>2, <1>3 DEF Locks, HoldsCommand, HoldsArbiter, KeepsLocks, CommandPoints,
       StartPoints, arbiters, Moved, Others
  <2>3. Goes(t) /\ (t \in Batch => RoundCall(t)') /\ UNCHANGED <<mode, todo>>
    BY <1>1, <1>2, <1>3 DEF RoundCalls, RoundCall, Goes, Rounds, application, Moved, Others
  <2> QED
    BY <1>1, <1>2, <1>3, <2>1, <2>2, <2>3, CallsGo DEF Moved, Others
<1>8. Between'
  <2>1. AtPoints'
    BY <1>1, <1>2, <1>3, KnowsFrame DEF Mark, AtPoints, Knows, At, Formed, JobsFormed,
       WellFormed, coordinator, world, Moved, Others
  <2>2. Strays' /\ Drains'
    BY <1>1, <1>2, <1>3 DEF Strays, Drains, At, Mark, coordinator, world, Moved, Others
  <2> QED
    BY <2>1, <2>2
<1> QED
  BY <1>1, <1>2, <1>3, <1>4, <1>5, <1>6, <1>7, <1>8

\* A shutdown of the batch, which reads the coordinator before it takes its locks.
LEMMA ShutdownKeeps ==
  ASSUME Inv, NEW t \in Thread, NEW m \in Managers, NEW s \in Service, NEW stop \in BOOLEAN, NEW
         foreign \in BOOLEAN, Shutdown(t, m, s, stop, foreign)
  PROVE  Inv'
<1> USE DEF Inv, Calls, Between, Shutdown, MayShutDown
<1>1. s \in Service /\ m \in Managers \cup {"app"}
  BY DEF Managers, Alias, Service
<1>2. /\ Arbiters' /\ lock[ArbiterOf(t)] \in {None, t} /\ lock'[ArbiterOf(t)] = t
      /\ \A a \in Arbiter \ {ArbiterOf(t)} : lock'[a] = lock[a]
  BY <1>1, TakeLeaseEffect
<1>3. Began(t, "finish", FinishPoint(stop), m, s, loaded, contract, stop)
  BY <1>1, FinishEffect DEF Shared
<1>4. FinishPoint(stop) \in {"unload", "force", "stopEmpty", "raise", "return"}
      /\ (FinishPoint(stop) = "return" /\ stop => contract = None)
  BY FinishPointType
<1>5. Shared' /\ ApplicationState'
  BY SharedFrame, ApplicationFrame
<1>6. Arbiters'
  BY <1>2
<1>7. Owners'
  BY <1>1, <1>2, <1>3, <1>4 DEF Owners, CommandTyped, ManagersTyped, managers
<1>8. Calls'
  <2>1. Formed(t)'
    BY <1>3, <1>4 DEF Formed, WellFormed, Callers, Began, FinishPoints, Rounds, Managers, Thread
  <2>2. HoldsCommand(t)' /\ HoldsArbiter(t)' /\ KeepsLocks(t)
    BY <1>1, <1>2, <1>3, <1>4 DEF Locks, HoldsCommand, HoldsArbiter, KeepsLocks,
       CommandPoints, StartPoints, Began, Others
  <2>3. Starts(t) /\ (t \in Batch => RoundCall(t)') /\ UNCHANGED <<mode, todo>>
    BY <1>1, <1>2, <1>3, <1>4 DEF RoundCalls, RoundCall, Starts, Rounds, Thread, application,
       Began, Others
  <2> QED
    BY <1>1, <1>2, <1>3, <1>4, <2>1, <2>2, <2>3, CallsBegin DEF Began, Others
<1>9. Between'
  <2>1. AtPoints'
    BY <1>1, <1>2, <1>3, <1>4, KnowsFrame DEF AtPoints, Knows, At, Formed, JobsFormed,
       WellFormed, coordinator, world, Began, Others
  <2>2. Strays' /\ Drains'
    BY <1>1, <1>2, <1>3, <1>4 DEF Strays, Drains, At, coordinator, world, Began, Others
  <2> QED
    BY <2>1, <2>2
<1> QED
  BY <1>1, <1>2, <1>3, <1>4, <1>5, <1>6, <1>7, <1>8, <1>9

\* A manual job's change of pair is a finish of the pair it adopted.
LEMMA ChangePairKeeps ==
  ASSUME Inv, NEW t \in Thread, NEW p \in Pair, ChangePair(t, p)
  PROVE  Inv'
<1> USE DEF Inv, Calls, Between, ChangePair, MayCall
<1>1. ocrPair \in Pair /\ (IF loaded = Gemma THEN Gemma ELSE ocrPair) \in Service
  BY DEF Owners, ManagersTyped, Alias, Service
<1>2. Began(t, "finish", FinishPoint(TRUE), "ocr", IF loaded = Gemma THEN Gemma ELSE ocrPair,
          loaded, contract, TRUE)
  BY <1>1, FinishEffect DEF Shared, Managers
<1>3. FinishPoint(TRUE) \in {"unload", "force", "stopEmpty", "raise", "return"}
      /\ (FinishPoint(TRUE) = "return" /\ TRUE => contract = None)
  BY FinishPointType
<1>4. Shared' /\ Arbiters' /\ ApplicationState'
  BY SharedFrame, ArbitersFrame, ApplicationFrame
<1>5. Owners'
  BY <1>1, <1>2, <1>3 DEF Owners, CommandTyped, ManagersTyped, managers
<1>6. Calls'
  <2>1. Formed(t)'
    BY <1>2, <1>3 DEF Formed, WellFormed, Callers, Began, FinishPoints, Managers, Thread
  <2>2. HoldsCommand(t)' /\ HoldsArbiter(t)' /\ KeepsLocks(t)
    BY <1>1, <1>2, <1>3 DEF Locks, HoldsCommand, HoldsArbiter, KeepsLocks, CommandPoints,
       StartPoints, arbiters, Began, Others
  <2>3. Starts(t) /\ (t \in Batch => RoundCall(t)') /\ UNCHANGED <<mode, todo>>
    BY <1>1, <1>2, <1>3 DEF RoundCalls, RoundCall, Starts, Rounds, Thread, application, Began,
       Others
  <2> QED
    BY <1>1, <1>2, <1>3, <2>1, <2>2, <2>3, CallsBegin DEF Began, Others
<1>7. Between'
  <2>1. AtPoints'
    BY <1>1, <1>2, <1>3, KnowsFrame DEF AtPoints, Knows, At, Formed, JobsFormed, WellFormed,
       coordinator, world, Began, Others
  <2>2. Strays' /\ Drains'
    BY <1>1, <1>2, <1>3 DEF Strays, Drains, At, coordinator, world, Began, Others
  <2> QED
    BY <2>1, <2>2
<1> QED
  BY <1>1, <1>2, <1>3, <1>4, <1>5, <1>6, <1>7

\* A batch's is made inside its start of the new pair.
LEMMA ChangePairInStartKeeps ==
  ASSUME Inv, NEW t \in Thread, NEW p \in Pair, ChangePairInStart(t, p)
  PROVE  Inv'
<1> USE DEF Inv, Calls, Between, ChangePairInStart, MayCall
<1>1. /\ Arbiters' /\ lock[ArbiterOf(t)] \in {None, t} /\ lock'[ArbiterOf(t)] = t
      /\ \A a \in Arbiter \ {ArbiterOf(t)} : lock'[a] = lock[a]
  BY TakeLeaseEffect DEF Alias, Service
<1>2. FinishPoint(TRUE) \in {"unload", "force", "stopEmpty", "raise", "return"}
  BY FinishPointType
<1>3. Began(t, "change", FinishPoint(TRUE), "ocr", p, None, contract, TRUE)
  <2>1. FinishPoint(TRUE) \in Points /\ contract \in Pair \cup {None} /\ p \in Service /\ JobTyped
    BY <1>2 DEF Points, Shared, CoordinatorTyped, Service, Alias
  <2>2. job' = [job EXCEPT ![t] = NewJob("change", FinishPoint(TRUE), "ocr", p, None, contract,
            TRUE)]
    OBVIOUS
  <2> QED
    BY <2>1, <2>2, BeginEffect DEF Managers
<1>4. Shared' /\ ApplicationState'
  BY SharedFrame, ApplicationFrame
<1>5. Arbiters'
  BY <1>1
<1>6. Owners'
  BY <1>1, <1>2, <1>3 DEF Owners, CommandTyped, ManagersTyped, managers
<1>7. Calls'
  <2>1. Formed(t)'
    BY <1>2, <1>3 DEF Formed, WellFormed, Callers, Began, FinishPoints, Managers, Thread
  <2>2. HoldsCommand(t)' /\ HoldsArbiter(t)' /\ KeepsLocks(t)
    BY <1>1, <1>2, <1>3 DEF Locks, HoldsCommand, HoldsArbiter, KeepsLocks, CommandPoints,
       StartPoints, Began, Others
  <2>3. Starts(t) /\ (t \in Batch => RoundCall(t)') /\ UNCHANGED <<mode, todo>>
    BY <1>1, <1>2, <1>3 DEF RoundCalls, RoundCall, Starts, Rounds, Thread, application, Began,
       Others
  <2> QED
    BY <1>1, <1>2, <1>3, <2>1, <2>2, <2>3, CallsBegin DEF Began, Others
<1>8. Between'
  <2>1. AtPoints'
    BY <1>1, <1>2, <1>3, KnowsFrame DEF AtPoints, Knows, At, Formed, JobsFormed, WellFormed,
       coordinator, world, Began, Others
  <2>2. Strays'
    BY <1>2, <1>3 DEF Strays, At, coordinator, world, Began, Others
  <2>3. Drains'
    BY <1>2, <1>3 DEF Drains, At, coordinator, world, Began, Others
  <2> QED
    BY <2>1, <2>2, <2>3
<1> QED
  BY <1>1, <1>2, <1>3, <1>4, <1>5, <1>6, <1>7, <1>8

\* The closing window's stop.
LEMMA CloseAppKeeps ==
  ASSUME Inv, NEW t \in Thread, CloseApp(t)
  PROVE  Inv'
<1> USE DEF Inv, Calls, Between, CloseApp
<1>1. Began(t, "finish", FinishPoint(TRUE), "app", App, loaded, contract, TRUE)
  BY FinishEffect DEF Shared, Service
<1>2. FinishPoint(TRUE) \in {"unload", "force", "stopEmpty", "raise", "return"}
      /\ (FinishPoint(TRUE) = "return" /\ TRUE => contract = None)
  BY FinishPointType
<1>3. Shared' /\ Arbiters'
  BY SharedFrame, ArbitersFrame
<1>4. ApplicationState'
  BY DEF ApplicationState, ApplicationTyped, UnreleasedTyped
<1>5. Owners'
  BY <1>1, <1>2 DEF Owners, CommandTyped, ManagersTyped, managers
<1>6. Calls'
  <2>1. Formed(t)'
    BY <1>1, <1>2 DEF Formed, WellFormed, Callers, Began, FinishPoints, Managers, Thread
  <2>2. HoldsCommand(t)' /\ HoldsArbiter(t)' /\ KeepsLocks(t)
    BY <1>1, <1>2 DEF Locks, HoldsCommand, HoldsArbiter, KeepsLocks, CommandPoints,
       StartPoints, arbiters, Began, Others
  <2>3. Starts(t) /\ (t \in Batch => RoundCall(t)') /\ UNCHANGED <<mode, todo>>
    BY <1>1, <1>2 DEF RoundCalls, RoundCall, Starts, Rounds, Thread, Began, Others
  <2> QED
    BY <1>1, <1>2, <2>1, <2>2, <2>3, CallsBegin DEF Began, Others
<1>7. Between'
  <2>1. AtPoints'
    BY <1>1, <1>2, KnowsFrame DEF AtPoints, Knows, At, Formed, JobsFormed, WellFormed,
       coordinator, world, Began, Others
  <2>2. Strays'
    BY <1>1, StartFacts DEF Strays, At, StartPoints, Began, Others, coordinator, world
  <2>3. Drains'
    BY <1>1, StartFacts DEF Drains, At, StartPoints, Began, Others, coordinator, world
  <2> QED
    BY <2>1, <2>2, <2>3
<1> QED
  BY <1>1, <1>2, <1>3, <1>4, <1>5, <1>6, <1>7

\* The drain of a published model begins.
LEMMA UnloadKeeps ==
  ASSUME Inv, NEW t \in Thread, Unload(t)
  PROVE  Inv'
<1> USE DEF Inv, Calls, Between, Unload, EnterRelease
<1>1. job[t] # None /\ job[t].at = "unload"
  BY DEF At
<1>2. /\ job[t] \in Job /\ job[t].op \in {"finish", "change"}
      /\ job[t].op = "change" => job[t].service \in Pair /\ job[t].owner = "ocr" /\ job[t].stop
      /\ t \in Batch => lock[ArbiterOf(t)] = t
  BY <1>1, FinishFacts DEF FinishPoints, CommandPoints
<1>3. /\ Arbiters' /\ lock[ArbiterOf(t)] \in {None, t} /\ lock'[ArbiterOf(t)] = t
      /\ \A a \in Arbiter \ {ArbiterOf(t)} : lock'[a] = lock[a]
  BY <1>2, TakeLeaseEffect DEF Job
<1>4. Moved(t) /\ job'[t].at = "drain"
  BY GotoEffect DEF At, Points
<1>5. ApplicationState'
  BY ApplicationFrame
<1>6. Shared'
  <2>1. CoordinatorTyped'
    BY DEF Shared, CoordinatorTyped, RouterState
  <2>2. WorldTyped' /\ CountTyped' /\ AtMostOne'
    BY DEF Shared, WorldTyped, CountTyped, InFlight, AtMostOne, world
  <2>3. Ownership'
    BY DEF Shared, Ownership, Loaded, world
  <2> QED
    BY <2>1, <2>2, <2>3 DEF Shared
<1>7. Arbiters'
  BY <1>3
<1>8. Owners'
  BY <1>1, <1>2, <1>3, <1>4 DEF Owners, CommandTyped, ManagersTyped, managers
<1>9. Calls'
  <2>1. Formed(t)'
    BY <1>1, <1>2, <1>3, <1>4 DEF JobsFormed, Formed, WellFormed, Callers, OwnerOf, Managers,
       StartPoints, FinishPoints, Service, Alias, Thread, Moved, Others
  <2>2. HoldsCommand(t)' /\ HoldsArbiter(t)' /\ KeepsLocks(t)
    BY <1>1, <1>2, <1>3, <1>4 DEF Locks, HoldsCommand, HoldsArbiter, KeepsLocks,
       CommandPoints, StartPoints, Moved, Others
  <2>3. Goes(t) /\ (t \in Batch => RoundCall(t)') /\ UNCHANGED <<mode, todo>>
    BY <1>1, <1>2, <1>3, <1>4 DEF RoundCalls, RoundCall, Goes, Rounds, application, Moved, Others
  <2> QED
    BY <1>1, <1>2, <1>3, <1>4, <2>1, <2>2, <2>3, CallsGo DEF Moved, Others
<1>10. Between'
  <2>1. AtPoints'
    BY <1>1, <1>2, <1>3, <1>4, KnowsFrame DEF AtPoints, Knows, At, Formed, JobsFormed,
       WellFormed, world, Moved, Others
  <2>2. Strays'
    BY DEF Strays
  <2>3. Drains'
    BY DEF Shared, Ownership, Drains
  <2> QED
    BY <2>1, <2>2, <2>3
<1> QED
  BY <1>1, <1>2, <1>3, <1>4, <1>5, <1>6, <1>7, <1>8, <1>9, <1>10

\* A release that is refused changes no more than the arbiter's lease.
LEMMA RefusedKeeps ==
  ASSUME Inv, NEW t \in Thread, Refused(t)
  PROVE  Inv'
<1> USE DEF Inv, Calls, Between, Refused
<1>1. job[t] # None /\ job[t].at \in {"unload", "force", "stopEmpty"}
  BY DEF At
<1>2. /\ job[t] \in Job /\ job[t].op \in {"finish", "change"}
      /\ job[t].op = "change" => job[t].service \in Pair /\ job[t].owner = "ocr" /\ job[t].stop
      /\ t \in Batch => lock[ArbiterOf(t)] = t
  BY <1>1, FinishFacts DEF FinishPoints, CommandPoints
<1>3. Moved(t) /\ job'[t].at = "mark"
  BY GotoEffect DEF At, Points
<1>4. FailedTyped'
  <2> DEFINE a == ArbiterOf(t)  s == job[t].service
  <2>1. failed' = [failed EXCEPT ![a] = @ \/ (lease[a] \in {None, s})]
    OBVIOUS
  <2>2. failed \in [Arbiter -> BOOLEAN]
    BY DEF Arbiters, FailedTyped
  <2> HIDE DEF a, s
  <2> QED
    BY <2>1, <2>2, Zenon DEF FailedTyped
<1>5. lease' = [lease EXCEPT ![ArbiterOf(t)] = IF @ = None THEN job[t].service ELSE @]
  OBVIOUS
<1>6. Shared' /\ ApplicationState'
  BY SharedFrame, ApplicationFrame
<1>7. Arbiters'
  <2>1. LeaseTyped'
    BY <1>2, <1>5 DEF Arbiters, LeaseTyped, Job
  <2>2. LockTyped' /\ FailedTyped'
    BY <1>4 DEF Arbiters, LockTyped
  <2> QED
    BY <2>1, <2>2 DEF Arbiters
<1>8. Owners'
  BY <1>1, <1>2, <1>3, <1>4, <1>5 DEF Owners, CommandTyped, ManagersTyped, managers
<1>9. Calls'
  <2>1. Formed(t)'
    BY <1>1, <1>2, <1>3, <1>4, <1>5 DEF JobsFormed, Formed, WellFormed, Callers, OwnerOf,
       Managers, StartPoints, FinishPoints, Service, Alias, Thread, Moved, Others
  <2>2. HoldsCommand(t)' /\ HoldsArbiter(t)' /\ KeepsLocks(t)
    BY <1>1, <1>2, <1>3, <1>4, <1>5 DEF Locks, HoldsCommand, HoldsArbiter, KeepsLocks,
       CommandPoints, StartPoints, Moved, Others
  <2>3. Goes(t) /\ (t \in Batch => RoundCall(t)') /\ UNCHANGED <<mode, todo>>
    BY <1>1, <1>2, <1>3, <1>4, <1>5 DEF RoundCalls, RoundCall, Goes, Rounds, application,
       Moved, Others
  <2> QED
    BY <1>1, <1>2, <1>3, <1>4, <1>5, <2>1, <2>2, <2>3, CallsGo DEF Moved, Others
<1>10. Between'
  <2>1. AtPoints'
    BY <1>1, <1>2, <1>3, <1>4, <1>5, KnowsFrame DEF AtPoints, Knows, At, Formed, JobsFormed,
       WellFormed, coordinator, world, Moved, Others
  <2>2. Strays' /\ Drains'
    BY <1>1, <1>2, <1>3, <1>4, <1>5 DEF Strays, Drains, At, coordinator, world, Moved, Others
  <2> QED
    BY <2>1, <2>2
<1> QED
  BY <1>1, <1>2, <1>3, <1>4, <1>5, <1>6, <1>7, <1>8, <1>9, <1>10

\* Nor does one that meets another's lease.
LEMMA ConflictKeeps ==
  ASSUME Inv, NEW t \in Thread, Conflict(t)
  PROVE  Inv'
<1> USE DEF Inv, Calls, Between, Conflict
<1>1. job[t] # None /\ job[t].at \in {"unload", "force", "stopEmpty"}
  BY DEF At
<1>2. /\ job[t] \in Job /\ job[t].op \in {"finish", "change"}
      /\ job[t].op = "change" => job[t].service \in Pair /\ job[t].owner = "ocr" /\ job[t].stop
      /\ t \in Batch => lock[ArbiterOf(t)] = t
  BY <1>1, FinishFacts DEF FinishPoints, CommandPoints
<1>3. Moved(t) /\ job'[t].at = "mark"
  BY GotoEffect DEF At, Points
<1>4. Shared' /\ Arbiters' /\ ApplicationState'
  BY SharedFrame, ArbitersFrame, ApplicationFrame
<1>5. Owners'
  BY <1>1, <1>2, <1>3 DEF Owners, CommandTyped, ManagersTyped, managers
<1>6. Calls'
  <2>1. Formed(t)'
    BY <1>1, <1>2, <1>3 DEF JobsFormed, Formed, WellFormed, Callers, OwnerOf, Managers,
       StartPoints, FinishPoints, Service, Alias, Thread, Moved, Others
  <2>2. HoldsCommand(t)' /\ HoldsArbiter(t)' /\ KeepsLocks(t)
    BY <1>1, <1>2, <1>3 DEF Locks, HoldsCommand, HoldsArbiter, KeepsLocks, CommandPoints,
       StartPoints, arbiters, Moved, Others
  <2>3. Goes(t) /\ (t \in Batch => RoundCall(t)') /\ UNCHANGED <<mode, todo>>
    BY <1>1, <1>2, <1>3 DEF RoundCalls, RoundCall, Goes, Rounds, application, Moved, Others
  <2> QED
    BY <1>1, <1>2, <1>3, <2>1, <2>2, <2>3, CallsGo DEF Moved, Others
<1>7. Between'
  <2>1. AtPoints'
    BY <1>1, <1>2, <1>3, KnowsFrame DEF AtPoints, Knows, At, Formed, JobsFormed, WellFormed,
       coordinator, world, Moved, Others
  <2>2. Strays' /\ Drains'
    BY <1>1, <1>2, <1>3 DEF Strays, Drains, At, coordinator, world, Moved, Others
  <2> QED
    BY <2>1, <2>2
<1> QED
  BY <1>1, <1>2, <1>3, <1>4, <1>5, <1>6, <1>7

\* A forced stop begins with both locks.
LEMMA ForceStopKeeps ==
  ASSUME Inv, NEW t \in Thread, ForceStop(t)
  PROVE  Inv'
<1> USE DEF Inv, Calls, Between, ForceStop, EnterRelease
<1>1. job[t] # None /\ job[t].at \in {"force", "stopEmpty"}
  BY DEF At
<1>2. /\ job[t] \in Job /\ job[t].op \in {"finish", "change"}
      /\ job[t].op = "change" => job[t].service \in Pair /\ job[t].owner = "ocr" /\ job[t].stop
      /\ t \in Batch => lock[ArbiterOf(t)] = t
  BY <1>1, FinishFacts DEF FinishPoints, CommandPoints
<1>3. /\ Arbiters' /\ lock[ArbiterOf(t)] \in {None, t} /\ lock'[ArbiterOf(t)] = t
      /\ \A a \in Arbiter \ {ArbiterOf(t)} : lock'[a] = lock[a]
  BY <1>2, TakeLeaseEffect DEF Job
<1>4. Moved(t) /\ job'[t].at = "stopping"
  BY GotoEffect DEF At, Points
<1>5. Shared' /\ ApplicationState'
  BY SharedFrame, ApplicationFrame
<1>6. Arbiters'
  BY <1>3
<1>7. Owners'
  BY <1>1, <1>2, <1>3, <1>4 DEF Owners, CommandTyped, ManagersTyped, managers
<1>8. Calls'
  <2>1. Formed(t)'
    BY <1>1, <1>2, <1>3, <1>4 DEF JobsFormed, Formed, WellFormed, Callers, OwnerOf, Managers,
       StartPoints, FinishPoints, Service, Alias, Thread, Moved, Others
  <2>2. HoldsCommand(t)' /\ HoldsArbiter(t)' /\ KeepsLocks(t)
    BY <1>1, <1>2, <1>3, <1>4 DEF Locks, HoldsCommand, HoldsArbiter, KeepsLocks,
       CommandPoints, StartPoints, Moved, Others
  <2>3. Goes(t) /\ (t \in Batch => RoundCall(t)') /\ UNCHANGED <<mode, todo>>
    BY <1>1, <1>2, <1>3, <1>4 DEF RoundCalls, RoundCall, Goes, Rounds, application, Moved, Others
  <2> QED
    BY <1>1, <1>2, <1>3, <1>4, <2>1, <2>2, <2>3, CallsGo DEF Moved, Others
<1>9. Between'
  <2>1. AtPoints'
    BY <1>1, <1>2, <1>3, <1>4, KnowsFrame DEF AtPoints, Knows, At, Formed, JobsFormed,
       WellFormed, coordinator, world, Moved, Others
  <2>2. Strays' /\ Drains'
    BY <1>1, <1>2, <1>3, <1>4 DEF Strays, Drains, At, coordinator, world, Moved, Others
  <2> QED
    BY <2>1, <2>2
<1> QED
  BY <1>1, <1>2, <1>3, <1>4, <1>5, <1>6, <1>7, <1>8, <1>9

\* The mark of a failed release changes the state alone.
LEMMA MarkFailedKeeps ==
  ASSUME Inv, NEW t \in Thread, MarkFailed(t)
  PROVE  Inv'
<1> USE DEF Inv, Calls, Between, MarkFailed
<1>1. job[t] # None /\ job[t].at = "mark"
  BY DEF At
<1>2. /\ job[t] \in Job /\ job[t].op \in {"finish", "change"}
      /\ job[t].op = "change" => job[t].service \in Pair /\ job[t].owner = "ocr" /\ job[t].stop
      /\ t \in Batch => lock[ArbiterOf(t)] = t
  BY <1>1, FinishFacts DEF FinishPoints, CommandPoints
<1>3. Moved(t) /\ job'[t].at = "raise"
  BY GotoEffect DEF At, Points
<1>4. Arbiters' /\ ApplicationState'
  BY ArbitersFrame, ApplicationFrame
<1>5. Shared'
  <2>1. CoordinatorTyped'
    BY DEF Shared, CoordinatorTyped, RouterState, Mark
  <2>2. WorldTyped' /\ CountTyped' /\ AtMostOne'
    BY DEF Shared, WorldTyped, CountTyped, InFlight, AtMostOne, world, Mark
  <2>3. Ownership'
    BY DEF Shared, Ownership, Loaded, world, Mark
  <2> QED
    BY <2>1, <2>2, <2>3 DEF Shared
<1>6. Owners'
  BY <1>1, <1>2, <1>3 DEF Owners, CommandTyped, ManagersTyped, managers
<1>7. Calls'
  <2>1. Formed(t)'
    BY <1>1, <1>2, <1>3 DEF JobsFormed, Formed, WellFormed, Callers, OwnerOf, Managers,
       StartPoints, FinishPoints, Service, Alias, Thread, Moved, Others
  <2>2. HoldsCommand(t)' /\ HoldsArbiter(t)' /\ KeepsLocks(t)
    BY <1>1, <1>2, <1>3 DEF Locks, HoldsCommand, HoldsArbiter, KeepsLocks, CommandPoints,
       StartPoints, arbiters, Moved, Others
  <2>3. Goes(t) /\ (t \in Batch => RoundCall(t)') /\ UNCHANGED <<mode, todo>>
    BY <1>1, <1>2, <1>3 DEF RoundCalls, RoundCall, Goes, Rounds, application, Moved, Others
  <2> QED
    BY <1>1, <1>2, <1>3, <2>1, <2>2, <2>3, CallsGo DEF Moved, Others
<1>8. Between'
  <2>1. AtPoints'
    BY <1>1, <1>2, <1>3, KnowsFrame DEF Mark, AtPoints, Knows, At, Formed, JobsFormed,
       WellFormed, world, Moved, Others
  <2>2. Strays' /\ Drains'
    BY <1>1, <1>2, <1>3 DEF Strays, Drains, At, Mark, world, Moved, Others
  <2> QED
    BY <2>1, <2>2
<1> QED
  BY <1>1, <1>2, <1>3, <1>4, <1>5, <1>6, <1>7, <1>8

\* The drained model is unloaded, or its container stopped, and disowned only then.
LEMMA UnloadedKeeps ==
  ASSUME Inv, NEW t \in Thread, Unloaded(t)
  PROVE  Inv'
<1> USE DEF Inv, Calls, Between, Unloaded
<1>1. job[t] # None /\ job[t].at = "drain"
  BY DEF At
<1>2. /\ job[t] \in Job /\ job[t].op \in {"finish", "change"}
      /\ job[t].op = "change" => job[t].service \in Pair /\ job[t].owner = "ocr" /\ job[t].stop
      /\ lock[ArbiterOf(t)] = t /\ cmd = t
  BY <1>1, FinishFacts DEF FinishPoints, CommandPoints
<1>3. Releases(t)
  BY <1>1, ReleaseEndsEffect
<1>4. Shared'
  <2>1. CoordinatorTyped'
    BY <1>1, <1>2 DEF Shared, CoordinatorTyped, RouterState, StoppedAndCleared, Clear
  <2>2. WorldTyped' /\ InFlight' = InFlight
    BY ClearedEffect DEF Shared, WorldTyped, InFlight
  <2>3. CountTyped'
    BY <2>2, InFlightCount DEF Shared, CountTyped, StoppedAndCleared, Clear
  <2>4. Ownership'
    BY <1>1, <1>2, <1>3, ClearedEffect DEF Shared, Ownership, AtPoints, Knows, At, Alias,
       Service, StoppedAndCleared, Clear, Loaded
  <2>5. AtMostOne'
    BY <1>1, <1>2, <1>3, ClearedEffect DEF Shared, AtMostOne, AtPoints, Knows, At
  <2> QED
    BY <2>1, <2>2, <2>3, <2>4, <2>5 DEF Shared
<1>5. Arbiters'
  BY <1>3 DEF Releases
<1>6. ApplicationState'
  BY <1>3 DEF Releases
<1>7. Owners'
  BY <1>3 DEF Releases
<1>8. Calls'
  BY <1>3 DEF Releases
<1>9. Between'
  <2>1. AtPoints'
    BY <1>2, <1>3, KnowsInCommand DEF Knows, Releases, StoppedAndCleared, Clear, StartPoints, FinishPoints
  <2>2. Strays'
    BY <1>1, <1>3 DEF Strays, At, Releases, Others, StoppedAndCleared, Clear
  <2>3. Drains'
    BY <1>1, <1>3 DEF Drains, At, Releases, Others, StoppedAndCleared, Clear
  <2> QED
    BY <2>1, <2>2, <2>3
<1> QED
  BY <1>1, <1>2, <1>3, <1>4, <1>5, <1>6, <1>7, <1>8, <1>9

\* The coordinator keeps the ownership of what it could not unload.
LEMMA UnloadFailsKeeps ==
  ASSUME Inv, NEW t \in Thread, UnloadFails(t)
  PROVE  Inv'
<1> USE DEF Inv, Calls, Between, UnloadFails
<1>1. job[t] # None /\ job[t].at = "drain"
  BY DEF At
<1>2. /\ job[t] \in Job /\ job[t].op \in {"finish", "change"}
      /\ job[t].op = "change" => job[t].service \in Pair /\ job[t].owner = "ocr" /\ job[t].stop
      /\ lock[ArbiterOf(t)] = t /\ cmd = t
  BY <1>1, FinishFacts DEF FinishPoints, CommandPoints
<1>3. Releases(t)
  BY <1>1, ReleaseFailsEffect
<1>4. Shared'
  <2>1. CoordinatorTyped'
    BY <1>1, <1>2 DEF Shared, CoordinatorTyped, RouterState, coordinator
  <2>2. WorldTyped' /\ InFlight' = InFlight
    BY StoppedEffect DEF Shared, WorldTyped, InFlight, world
  <2>3. CountTyped'
    BY <2>2, InFlightCount DEF Shared, CountTyped, coordinator
  <2>4. Ownership'
    BY <1>1, <1>2, <1>3, StoppedEffect DEF Shared, Ownership, AtPoints, Knows, At, Alias,
       Service, Loaded, coordinator, world
  <2>5. AtMostOne'
    BY <1>1, <1>2, <1>3, StoppedEffect DEF Shared, AtMostOne, AtPoints, Knows, At, world
  <2> QED
    BY <2>1, <2>2, <2>3, <2>4, <2>5 DEF Shared
<1>5. Arbiters'
  BY <1>3 DEF Releases
<1>6. ApplicationState'
  BY <1>3 DEF Releases
<1>7. Owners'
  BY <1>3 DEF Releases
<1>8. Calls'
  BY <1>3 DEF Releases
<1>9. Between'
  <2>1. AtPoints'
    BY <1>2, <1>3, KnowsInCommand DEF Knows, Releases, StartPoints, FinishPoints, coordinator
  <2>2. Strays'
    BY <1>1, <1>3 DEF Strays, At, Releases, Others, Stopped, coordinator, world
  <2>3. Drains'
    BY <1>1, <1>3 DEF Drains, At, Releases, Others, coordinator, world
  <2> QED
    BY <2>1, <2>2, <2>3
<1> QED
  BY <1>1, <1>2, <1>3, <1>4, <1>5, <1>6, <1>7, <1>8, <1>9

\* A forced stop leaves no container, and the coordinator none to own.
LEMMA ForceStoppedKeeps ==
  ASSUME Inv, NEW t \in Thread, ForceStopped(t)
  PROVE  Inv'
<1> USE DEF Inv, Calls, Between, ForceStopped
<1>1. job[t] # None /\ job[t].at = "stopping"
  BY DEF At
<1>2. /\ job[t] \in Job /\ job[t].op \in {"finish", "change"}
      /\ job[t].op = "change" => job[t].service \in Pair /\ job[t].owner = "ocr" /\ job[t].stop
      /\ lock[ArbiterOf(t)] = t /\ cmd = t
  BY <1>1, FinishFacts DEF FinishPoints, CommandPoints
<1>3. Releases(t)
  BY <1>1, ReleaseEndsEffect
<1>4. Shared'
  <2>1. CoordinatorTyped'
    BY <1>1, <1>2 DEF Shared, CoordinatorTyped, RouterState, StoppedAndCleared, Clear
  <2>2. WorldTyped' /\ InFlight' = InFlight
    BY <1>2, ClearedEffect DEF Shared, CountTyped, WorldTyped, InFlight
  <2>3. CountTyped'
    BY <2>2, InFlightCount DEF Shared, CountTyped, StoppedAndCleared, Clear
  <2>4. Ownership'
    BY <1>1, <1>2, <1>3, ClearedEffect DEF Shared, Ownership, AtPoints, Knows, At, Alias,
       Service, StoppedAndCleared, Clear, Loaded
  <2>5. AtMostOne'
    BY <1>1, <1>2, <1>3, ClearedEffect DEF Shared, AtMostOne, AtPoints, Knows, At
  <2> QED
    BY <2>1, <2>2, <2>3, <2>4, <2>5 DEF Shared
<1>5. Arbiters'
  BY <1>3 DEF Releases
<1>6. ApplicationState'
  BY <1>3 DEF Releases
<1>7. Owners'
  BY <1>3 DEF Releases
<1>8. Calls'
  BY <1>3 DEF Releases
<1>9. Between'
  <2>1. AtPoints'
    BY <1>2, <1>3, KnowsInCommand DEF Knows, Releases, StoppedAndCleared, Clear, StartPoints, FinishPoints
  <2>2. Strays'
    BY <1>1, <1>3 DEF Strays, At, Releases, Others, StoppedAndCleared, Clear
  <2>3. Drains'
    BY <1>1, <1>3 DEF Drains, At, Releases, Others, StoppedAndCleared, Clear
  <2> QED
    BY <2>1, <2>2, <2>3
<1> QED
  BY <1>1, <1>2, <1>3, <1>4, <1>5, <1>6, <1>7, <1>8, <1>9

\* And one that failed keeps the ownership.
LEMMA ForceStopFailsKeeps ==
  ASSUME Inv, NEW t \in Thread, ForceStopFails(t)
  PROVE  Inv'
<1> USE DEF Inv, Calls, Between, ForceStopFails
<1>1. job[t] # None /\ job[t].at = "stopping"
  BY DEF At
<1>2. /\ job[t] \in Job /\ job[t].op \in {"finish", "change"}
      /\ job[t].op = "change" => job[t].service \in Pair /\ job[t].owner = "ocr" /\ job[t].stop
      /\ lock[ArbiterOf(t)] = t /\ cmd = t
  BY <1>1, FinishFacts DEF FinishPoints, CommandPoints
<1>3. Releases(t)
  BY <1>1, ReleaseFailsEffect
<1>4. Shared'
  <2>1. CoordinatorTyped'
    BY <1>1, <1>2 DEF Shared, CoordinatorTyped, RouterState, coordinator
  <2>2. WorldTyped' /\ InFlight' = InFlight
    BY <1>2, StoppedEffect DEF Shared, StoppedOrNot, world, CountTyped, WorldTyped, InFlight
  <2>3. CountTyped'
    BY <2>2, InFlightCount DEF Shared, CountTyped, coordinator
  <2>4. Ownership'
    BY <1>1, <1>2, <1>3, StoppedEffect DEF Shared, Ownership, AtPoints, Knows, At, Alias,
       Service, Loaded, StoppedOrNot, coordinator, world
  <2>5. AtMostOne'
    BY <1>1, <1>2, <1>3, StoppedEffect DEF Shared, AtMostOne, AtPoints, Knows, At,
       StoppedOrNot, world
  <2> QED
    BY <2>1, <2>2, <2>3, <2>4, <2>5 DEF Shared
<1>5. Arbiters'
  BY <1>3 DEF Releases
<1>6. ApplicationState'
  BY <1>3 DEF Releases
<1>7. Owners'
  BY <1>3 DEF Releases
<1>8. Calls'
  BY <1>3 DEF Releases
<1>9. Between'
  <2>1. AtPoints'
    BY <1>2, <1>3, KnowsInCommand DEF Knows, Releases, StartPoints, FinishPoints, coordinator
  <2>2. Strays'
    BY <1>1, <1>3 DEF Strays, At, Releases, Others, Stopped, StoppedOrNot, coordinator, world
  <2>3. Drains'
    BY <1>1, <1>3 DEF Drains, At, Releases, Others, coordinator
  <2> QED
    BY <2>1, <2>2, <2>3
<1> QED
  BY <1>1, <1>2, <1>3, <1>4, <1>5, <1>6, <1>7, <1>8, <1>9

\* An attempt of a manager that has nothing to finish,
LEMMA ShutdownInactiveKeeps ==
  ASSUME Inv, NEW t \in Thread, NEW m \in Managers, NEW s \in Service, NEW stop \in BOOLEAN, NEW
         foreign \in BOOLEAN, ShutdownInactive(t, m, s, stop, foreign)
  PROVE  Inv'
<1> USE DEF Inv, Calls, Between, ShutdownInactive, MayShutDown
<1>1. s \in Service /\ m \in Managers \cup {"app"} /\ "stage" \in Arbiter
  BY DEF Managers, Alias, Service, Arbiter
<1>2. ApplicationState' /\ mode' = mode /\ (Idle(Batch) \/ UNCHANGED todo)
  BY <1>1, TriedEffect DEF Idle, Rounds
<1>3. Arbiters'
  BY <1>1, VacateEffect DEF Arbiters, LockTyped
<1>4. Shared'
  BY SharedFrame
<1>5. Arbiters'
  BY <1>3
<1>6. ApplicationState'
  BY <1>2
<1>7. Owners'
  BY <1>1, <1>2, <1>3 DEF Owners, CommandTyped, ManagersTyped, managers
<1>8. Between'
  BY BetweenFrame
<1>9. Calls'
  BY <1>2, SameCalls, RoundsIdle
<1> QED
  BY <1>1, <1>2, <1>3, <1>4, <1>5, <1>6, <1>7, <1>8, <1>9

\* and one that met another service's lease: one try less, but never fewer than none.
LEMMA ShutdownConflictKeeps ==
  ASSUME Inv, NEW t \in Thread, NEW m \in Managers, NEW s \in Service, NEW stop \in BOOLEAN,
         ShutdownConflict(t, m, s, stop)
  PROVE  Inv'
<1> USE DEF Inv, Calls, Between, ShutdownConflict, MayShutDown
<1>1. ApplicationState' /\ mode' = mode /\ (Idle(Batch) \/ UNCHANGED todo)
  BY TriedEffect DEF Idle, Rounds, Managers
<1>2. Shared' /\ Arbiters'
  BY SharedFrame, ArbitersFrame
<1>3. ApplicationState'
  BY <1>1
<1>4. Owners'
  BY <1>1 DEF Owners, CommandTyped, ManagersTyped, managers
<1>5. Between'
  BY BetweenFrame
<1>6. Calls'
  BY <1>1, SameCalls, RoundsIdle DEF arbiters
<1> QED
  BY <1>1, <1>2, <1>3, <1>4, <1>5, <1>6

\* And its shutdowns of the managers that have adopted a live pair,
LEMMA CloseManagerFinishesKeeps ==
  ASSUME Inv, NEW t \in Thread, NEW m \in Managers, CloseManager(t, m), Active(m)
  PROVE  Inv'
<1> USE DEF Inv, Calls, Between, CloseManager, Active
<1>1. IF m = "ocr" THEN ocrPair \in Pair ELSE gemmaPair \in Pair
  BY DEF Owners, ManagersTyped, Managers
<1>2. (IF m = "ocr" THEN ocrPair ELSE Gemma) \in Service /\ m \in Managers \cup {"app"}
          /\ contract # None
  BY <1>1 DEF Managers, Alias, Service
<1>3. Began(t, "finish", FinishPoint(TRUE), m, IF m = "ocr" THEN ocrPair ELSE Gemma, loaded,
          contract, TRUE)
  BY <1>2, FinishEffect DEF Shared
<1>4. FinishPoint(TRUE) \in {"unload", "force", "stopEmpty", "raise", "return"}
      /\ (FinishPoint(TRUE) = "return" /\ TRUE => contract = None)
  BY FinishPointType
<1>5. Shared' /\ Arbiters'
  BY SharedFrame, ArbitersFrame
<1>6. ApplicationState'
  BY DEF ApplicationState, ApplicationTyped, UnreleasedTyped
<1>7. Owners'
  BY <1>1, <1>2, <1>3, <1>4 DEF Owners, CommandTyped, ManagersTyped, managers
<1>8. Calls'
  <2>1. Formed(t)'
    BY <1>2, <1>3, <1>4 DEF Formed, WellFormed, Callers, Began, FinishPoints, Managers, Thread
  <2>2. HoldsCommand(t)' /\ HoldsArbiter(t)' /\ KeepsLocks(t)
    BY <1>1, <1>2, <1>3, <1>4 DEF Locks, HoldsCommand, HoldsArbiter, KeepsLocks,
       CommandPoints, StartPoints, arbiters, Began, Others
  <2>3. Starts(t) /\ (t \in Batch => RoundCall(t)') /\ UNCHANGED <<mode, todo>>
    BY <1>1, <1>2, <1>3, <1>4 DEF RoundCalls, RoundCall, Starts, Rounds, Thread, Began, Others
  <2> QED
    BY <1>1, <1>2, <1>3, <1>4, <2>1, <2>2, <2>3, CallsBegin DEF Began, Others
<1>9. Between'
  <2>1. AtPoints'
    BY <1>1, <1>2, <1>3, <1>4, KnowsFrame DEF AtPoints, Knows, At, Formed, JobsFormed,
       WellFormed, coordinator, world, Began, Others
  <2>2. Strays' /\ Drains'
    BY <1>1, <1>2, <1>3, <1>4 DEF Strays, Drains, At, coordinator, world, Began, Others
  <2> QED
    BY <2>1, <2>2
<1> QED
  BY <1>1, <1>2, <1>3, <1>4, <1>5, <1>6, <1>7, <1>8, <1>9

\* or have none.
LEMMA CloseManagerSkipsKeeps ==
  ASSUME Inv, NEW t \in Thread, NEW m \in Managers, CloseManager(t, m), ~Active(m)
  PROVE  Inv'
<1> USE DEF Inv, Calls, Between, CloseManager
<1>1. Shared' /\ Arbiters'
  BY SharedFrame, ArbitersFrame
<1>2. ApplicationState'
  BY DEF ApplicationState, ApplicationTyped, UnreleasedTyped
<1>3. Owners'
  BY DEF Owners, CommandTyped, ManagersTyped, managers
<1>4. Between'
  BY BetweenFrame
<1>5. Calls'
  BY SameCalls, RoundsIdle DEF arbiters
<1> QED
  BY <1>1, <1>2, <1>3, <1>4, <1>5

\* The application's steps change neither the coordinator nor the calls.
LEMMA StartManualKeeps ==
  ASSUME Inv, StartManual
  PROVE  Inv'
<1> USE DEF Inv, Calls, Between, StartManual
<1>1. JobTyped' /\ JobsFormed' /\ Locks'
  BY DEF JobTyped, JobsFormed, Formed, WellFormed, Callers, Locks, HoldsCommand, HoldsArbiter,
     arbiters
<1>2. Modes'
  BY DEF Modes, Rounds
<1>3. RoundCalls'
  BY DEF Modes, RoundCalls, RoundCall, Rounds
<1>4. Shared' /\ Arbiters'
  BY SharedFrame, ArbitersFrame
<1>5. ApplicationState'
  <2>1. mode' \in {"idle", "manual", "batch"} \cup Rounds
    BY DEF ApplicationState, ApplicationTyped, Rounds
  <2>2. todo' \in [Managers -> 0..2] /\ closing' \in 0..3
    BY DEF ApplicationState, ApplicationTyped
  <2>3. UnreleasedTyped'
    BY DEF ApplicationState, UnreleasedTyped
  <2> QED
    BY <2>1, <2>2, <2>3 DEF ApplicationState, ApplicationTyped
<1>6. Owners'
  BY <1>1, <1>2, <1>3 DEF Owners, CommandTyped, ManagersTyped, managers
<1>7. Between'
  BY BetweenFrame
<1>8. Calls'
  BY <1>1, <1>2, <1>3
<1> QED
  BY <1>1, <1>2, <1>3, <1>4, <1>5, <1>6, <1>7, <1>8

\* A manual job is over once none of its calls is left.
LEMMA EndManualKeeps ==
  ASSUME Inv, EndManual
  PROVE  Inv'
<1> USE DEF Inv, Calls, Between, EndManual
<1>1. JobTyped' /\ JobsFormed' /\ Locks'
  BY DEF JobTyped, JobsFormed, Formed, WellFormed, Callers, Locks, HoldsCommand, HoldsArbiter,
     arbiters
<1>2. Modes'
  BY DEF Modes, Idle, Rounds
<1>3. RoundCalls'
  BY DEF Modes, RoundCalls, RoundCall, Idle, Rounds
<1>4. Shared' /\ Arbiters'
  BY SharedFrame, ArbitersFrame
<1>5. ApplicationState'
  <2>1. mode' \in {"idle", "manual", "batch"} \cup Rounds
    BY DEF ApplicationState, ApplicationTyped, Rounds
  <2>2. todo' \in [Managers -> 0..2] /\ closing' \in 0..3
    BY DEF ApplicationState, ApplicationTyped
  <2>3. UnreleasedTyped'
    BY DEF ApplicationState, UnreleasedTyped
  <2> QED
    BY <2>1, <2>2, <2>3 DEF ApplicationState, ApplicationTyped
<1>6. Owners'
  BY <1>1, <1>2, <1>3 DEF Owners, CommandTyped, ManagersTyped, managers
<1>7. Between'
  BY BetweenFrame
<1>8. Calls'
  BY <1>1, <1>2, <1>3
<1> QED
  BY <1>1, <1>2, <1>3, <1>4, <1>5, <1>6, <1>7, <1>8

\* A batch begins with a round,
LEMMA StartBatchKeeps ==
  ASSUME Inv, StartBatch
  PROVE  Inv'
<1> USE DEF Inv, Calls, Between, StartBatch, StartRound
<1>1. JobTyped' /\ JobsFormed' /\ Locks'
  BY DEF JobTyped, JobsFormed, Formed, WellFormed, Callers, Locks, HoldsCommand, HoldsArbiter,
     arbiters
<1>2. Modes'
  BY DEF Modes, Rounds
<1>3. RoundCalls'
  BY DEF Modes, RoundCalls, RoundCall, Rounds
<1>4. Shared' /\ Arbiters'
  BY SharedFrame, ArbitersFrame
<1>5. ApplicationState'
  <2>1. mode' \in {"idle", "manual", "batch"} \cup Rounds
    BY DEF ApplicationState, ApplicationTyped, Rounds
  <2>2. todo' \in [Managers -> 0..2] /\ closing' \in 0..3
    BY DEF ApplicationState, ApplicationTyped
  <2>3. UnreleasedTyped'
    BY DEF ApplicationState, UnreleasedTyped
  <2> QED
    BY <2>1, <2>2, <2>3 DEF ApplicationState, ApplicationTyped
<1>6. Owners'
  BY <1>1, <1>2, <1>3 DEF Owners, CommandTyped, ManagersTyped, managers
<1>7. Between'
  BY BetweenFrame
<1>8. Calls'
  BY <1>1, <1>2, <1>3
<1> QED
  BY <1>1, <1>2, <1>3, <1>4, <1>5, <1>6, <1>7, <1>8

\* goes on to its stages,
LEMMA PreflightPassesKeeps ==
  ASSUME Inv, PreflightPasses
  PROVE  Inv'
<1> USE DEF Inv, Calls, Between, PreflightPasses, RoundOver
<1>1. JobTyped' /\ JobsFormed' /\ Locks'
  BY DEF JobTyped, JobsFormed, Formed, WellFormed, Callers, Locks, HoldsCommand, HoldsArbiter,
     arbiters
<1>2. Modes'
  BY DEF Modes, Idle, Rounds
<1>3. RoundCalls'
  BY DEF Modes, RoundCalls, RoundCall, Idle, Rounds
<1>4. Shared' /\ Arbiters'
  BY SharedFrame, ArbitersFrame
<1>5. ApplicationState'
  <2>1. mode' \in {"idle", "manual", "batch"} \cup Rounds
    BY DEF ApplicationState, ApplicationTyped, Rounds
  <2>2. todo' \in [Managers -> 0..2] /\ closing' \in 0..3
    BY DEF ApplicationState, ApplicationTyped
  <2>3. UnreleasedTyped'
    BY DEF ApplicationState, UnreleasedTyped
  <2> QED
    BY <2>1, <2>2, <2>3 DEF ApplicationState, ApplicationTyped
<1>6. Owners'
  BY <1>1, <1>2, <1>3 DEF Owners, CommandTyped, ManagersTyped, managers
<1>7. Between'
  BY BetweenFrame
<1>8. Calls'
  BY <1>1, <1>2, <1>3
<1> QED
  BY <1>1, <1>2, <1>3, <1>4, <1>5, <1>6, <1>7, <1>8

\* then to another round, when it has no calls left,
LEMMA StartTeardownKeeps ==
  ASSUME Inv, StartTeardown
  PROVE  Inv'
<1> USE DEF Inv, Calls, Between, StartTeardown, StartRound, RoundOver
<1>1. JobTyped' /\ JobsFormed' /\ Locks'
  BY DEF JobTyped, JobsFormed, Formed, WellFormed, Callers, Locks, HoldsCommand, HoldsArbiter,
     arbiters
<1>2. Modes'
  BY DEF Modes, Idle, Rounds
<1>3. RoundCalls'
  BY DEF Modes, RoundCalls, RoundCall, Idle, Rounds
<1>4. Shared' /\ Arbiters'
  BY SharedFrame, ArbitersFrame
<1>5. ApplicationState'
  <2>1. mode' \in {"idle", "manual", "batch"} \cup Rounds
    BY DEF ApplicationState, ApplicationTyped, Rounds
  <2>2. todo' \in [Managers -> 0..2] /\ closing' \in 0..3
    BY DEF ApplicationState, ApplicationTyped
  <2>3. UnreleasedTyped'
    BY DEF ApplicationState, UnreleasedTyped
  <2> QED
    BY <2>1, <2>2, <2>3 DEF ApplicationState, ApplicationTyped
<1>6. Owners'
  BY <1>1, <1>2, <1>3 DEF Owners, CommandTyped, ManagersTyped, managers
<1>7. Between'
  BY BetweenFrame
<1>8. Calls'
  BY <1>1, <1>2, <1>3
<1> QED
  BY <1>1, <1>2, <1>3, <1>4, <1>5, <1>6, <1>7, <1>8

\* and ends.
LEMMA EndBatchKeeps ==
  ASSUME Inv, EndBatch
  PROVE  Inv'
<1> USE DEF Inv, Calls, Between, EndBatch, RoundOver
<1>1. JobTyped' /\ JobsFormed' /\ Locks'
  BY DEF JobTyped, JobsFormed, Formed, WellFormed, Callers, Locks, HoldsCommand, HoldsArbiter,
     arbiters
<1>2. Modes'
  BY DEF Modes, Idle, Rounds
<1>3. RoundCalls'
  BY DEF Modes, RoundCalls, RoundCall, Idle, Rounds
<1>4. Shared' /\ Arbiters'
  BY SharedFrame, ArbitersFrame
<1>5. ApplicationState'
  <2>1. mode' \in {"idle", "manual", "batch"} \cup Rounds
    BY DEF ApplicationState, ApplicationTyped, Rounds
  <2>2. todo' \in [Managers -> 0..2] /\ closing' \in 0..3
    BY DEF ApplicationState, ApplicationTyped
  <2>3. UnreleasedTyped'
    BY DEF ApplicationState, UnreleasedTyped
  <2> QED
    BY <2>1, <2>2, <2>3 DEF ApplicationState, ApplicationTyped
<1>6. Owners'
  BY <1>1, <1>2, <1>3 DEF Owners, CommandTyped, ManagersTyped, managers
<1>7. Between'
  BY BetweenFrame
<1>8. Calls'
  BY <1>1, <1>2, <1>3
<1> QED
  BY <1>1, <1>2, <1>3, <1>4, <1>5, <1>6, <1>7, <1>8

\* A request that is let in is counted,
LEMMA RequestStartKeeps ==
  ASSUME Inv, NEW r \in Request, RequestStart(r)
  PROVE  Inv'
<1> USE DEF Inv, Calls, Between, RequestStart
<1>1. r \in InFlight' /\ r \notin InFlight /\ InFlight' = InFlight \cup {r} /\ WorldTyped'
  BY DEF Shared, WorldTyped, InFlight
<1>2. IsFiniteSet(InFlight) /\ Cardinality(InFlight) \in Nat
  BY FS_Subset, InFlightCount DEF InFlight
<1>3. Cardinality(InFlight') = Cardinality(InFlight) + 1
  BY <1>1, <1>2, FS_AddElement
<1>4. Arbiters' /\ ApplicationState'
  BY ArbitersFrame, ApplicationFrame
<1>5. Shared'
  <2>1. CountTyped'
    BY <1>2, <1>3 DEF Shared, CountTyped
  <2>2. CoordinatorTyped' /\ WorldTyped' /\ AtMostOne'
    BY <1>1 DEF Shared, CoordinatorTyped, AtMostOne
  <2>3. Ownership'
    BY DEF Shared, Ownership
  <2> QED
    BY <2>1, <2>2, <2>3 DEF Shared
<1>6. Owners'
  BY <1>1, <1>2, <1>3 DEF Owners, CommandTyped, ManagersTyped, managers
<1>7. Between'
  BY DEF AtPoints, Knows, Strays, Drains, At
<1>8. Calls'
  BY SameCalls, RoundsIdle DEF application, arbiters
<1> QED
  BY <1>1, <1>2, <1>3, <1>4, <1>5, <1>6, <1>7, <1>8

\* and the one that ends is discounted, if any is: those a stop has cut are not.
LEMMA RequestEndKeeps ==
  ASSUME Inv, NEW r \in Request, RequestEnd(r)
  PROVE  Inv'
<1> USE DEF Inv, Calls, Between, RequestEnd
<1>1. r \in InFlight /\ InFlight' = InFlight \ {r} /\ WorldTyped'
  BY DEF Shared, WorldTyped, InFlight
<1>2. IsFiniteSet(InFlight) /\ Cardinality(InFlight) \in Nat
  BY FS_Subset, InFlightCount DEF InFlight
<1>3. Cardinality(InFlight') = Cardinality(InFlight) - 1 /\ Cardinality(InFlight') \in Nat
  BY <1>1, <1>2, FS_RemoveElement, FS_CardinalityType
<1>4. Arbiters' /\ ApplicationState'
  BY ArbitersFrame, ApplicationFrame
<1>5. Shared'
  <2>1. CountTyped'
    BY <1>2, <1>3, InFlightCount DEF Shared, CountTyped
  <2>2. CoordinatorTyped' /\ WorldTyped' /\ AtMostOne'
    BY <1>1 DEF Shared, CoordinatorTyped, AtMostOne
  <2>3. Ownership'
    BY DEF Shared, Ownership, CountTyped
  <2> QED
    BY <2>1, <2>2, <2>3 DEF Shared
<1>6. Owners'
  BY <1>1, <1>2, <1>3 DEF Owners, CommandTyped, ManagersTyped, managers
<1>7. Between'
  BY DEF AtPoints, Knows, Strays, Drains, At
<1>8. Calls'
  BY SameCalls, RoundsIdle DEF application, arbiters
<1> QED
  BY <1>1, <1>2, <1>3, <1>4, <1>5, <1>6, <1>7, <1>8

\* A finish that failed ends with its exception: outside a bracket,
LEMMA FinishRaisesOutsideKeeps ==
  ASSUME Inv, NEW t \in Thread, FinishRaises(t), ~InOuterStart(t), ~Bracketed(t)
  PROVE  Inv'
<1> USE DEF Inv, Calls, Between, FinishRaises, InOuterStart, Bracketed
<1>1. job[t] # None /\ job[t].at = "raise"
  BY DEF At
<1>2. job[t] \in Job /\ job[t].op \in {"finish", "change"}
          /\ (t \in Batch => lock[ArbiterOf(t)] = t)
  BY <1>1, FinishFacts DEF FinishPoints
<1>3. ApplicationState' /\ mode' = mode /\ ((t \in Batch /\ mode \in Rounds) \/ UNCHANGED todo)
  BY <1>1, RoundFacts, TriedEffect
<1>4. Ended(t)
  BY EndEffect
<1>5. Shared' /\ Arbiters'
  BY SharedFrame, ArbitersFrame
<1>6. ApplicationState'
  BY <1>3
<1>7. Owners'
  BY <1>1, <1>2, <1>3, <1>4 DEF Owners, CommandTyped, ManagersTyped, managers
<1>8. Calls'
  <2>1. Formed(t)'
    BY <1>1, <1>2, <1>3, <1>4 DEF JobsFormed, Formed, WellFormed, Callers, OwnerOf, Managers,
       StartPoints, FinishPoints, Service, Alias, Thread, Ended, Others
  <2>2. HoldsCommand(t)' /\ HoldsArbiter(t)' /\ KeepsLocks(t)
    BY <1>1, <1>2, <1>3, <1>4 DEF Locks, HoldsCommand, HoldsArbiter, KeepsLocks,
       CommandPoints, StartPoints, arbiters, Ended, Others
  <2>3. Goes(t)
    BY <1>1, <1>2, <1>3, <1>4 DEF Goes, Ended, Others
  <2>4. RoundCalls'
    BY <1>1, <1>2, <1>3, <1>4, RoundsTried, RoundFacts DEF Ended
  <2> QED
    BY <1>1, <1>2, <1>3, <1>4, <2>1, <2>2, <2>3, <2>4, FormedFrame, LocksFrame, ModesFrame DEF
       Ended, Others
<1>9. Between'
  <2>1. AtPoints'
    BY <1>1, <1>2, <1>3, <1>4, KnowsFrame DEF AtPoints, Knows, At, Formed, JobsFormed,
       WellFormed, coordinator, world, Ended, Others
  <2>2. Strays' /\ Drains'
    BY <1>1, <1>2, <1>3, <1>4 DEF Strays, Drains, At, coordinator, world, Ended, Others
  <2> QED
    BY <2>1, <2>2
<1> QED
  BY <1>1, <1>2, <1>3, <1>4, <1>5, <1>6, <1>7, <1>8, <1>9

\* in the batch's own bracket,
LEMMA FinishRaisesInBatchKeeps ==
  ASSUME Inv, NEW t \in Thread, FinishRaises(t), ~InOuterStart(t), Bracketed(t)
  PROVE  Inv'
<1> USE DEF Inv, Calls, Between, FinishRaises, InOuterStart, Bracketed
<1>1. job[t] # None /\ job[t].at = "raise"
  BY DEF At
<1>2. job[t] \in Job /\ job[t].op \in {"finish", "change"}
          /\ (t \in Batch => lock[ArbiterOf(t)] = t)
  BY <1>1, FinishFacts DEF FinishPoints
<1>3. ApplicationState' /\ mode' = mode /\ ((t \in Batch /\ mode \in Rounds) \/ UNCHANGED todo)
  BY <1>1, RoundFacts, TriedEffect
<1>4. "stage" \in Arbiter /\ ArbiterOf(t) = "stage" /\ lock["stage"] = t
  BY <1>2 DEF Arbiter, ArbiterOf, Bracketed
<1>5. Ended(t)
  BY EndEffect
<1>6. Arbiters' /\ lock'[ArbiterOf(t)] = None
          /\ \A a \in Arbiter \ {ArbiterOf(t)} : lock'[a] = lock[a]
  BY <1>2, <1>4, VacateEffect, RetainEffect, UnlockEffect DEF Arbiters, LeaseTyped, Job
<1>7. Shared'
  BY SharedFrame
<1>8. Arbiters'
  BY <1>6
<1>9. ApplicationState'
  BY <1>3
<1>10. Owners'
  BY <1>1, <1>2, <1>3, <1>4, <1>5, <1>6 DEF Owners, CommandTyped, ManagersTyped, managers
<1>11. Calls'
  <2>1. Formed(t)'
    BY <1>1, <1>2, <1>3, <1>4, <1>5, <1>6 DEF JobsFormed, Formed, WellFormed, Callers,
       OwnerOf, Managers, StartPoints, FinishPoints, Service, Alias, Thread, Ended, Others
  <2>2. HoldsCommand(t)' /\ HoldsArbiter(t)' /\ KeepsLocks(t)
    BY <1>1, <1>2, <1>3, <1>4, <1>5, <1>6 DEF Locks, HoldsCommand, HoldsArbiter, KeepsLocks,
       CommandPoints, StartPoints, arbiters, Ended, Others
  <2>3. Goes(t)
    BY <1>1, <1>2, <1>3, <1>4, <1>5, <1>6 DEF Goes, Ended, Others
  <2>4. RoundCalls'
    BY <1>1, <1>2, <1>3, <1>4, <1>5, <1>6, RoundsTried, RoundFacts DEF Ended
  <2> QED
    BY <1>1, <1>2, <1>3, <1>4, <1>5, <1>6, <2>1, <2>2, <2>3, <2>4, FormedFrame, LocksFrame,
       ModesFrame DEF Ended, Others
<1>12. Between'
  <2>1. AtPoints'
    BY <1>1, <1>2, <1>3, <1>4, <1>5, <1>6, KnowsFrame DEF AtPoints, Knows, At, Formed,
       JobsFormed, WellFormed, coordinator, world, Ended, Others
  <2>2. Strays' /\ Drains'
    BY <1>1, <1>2, <1>3, <1>4, <1>5, <1>6 DEF Strays, Drains, At, coordinator, world, Ended,
       Others
  <2> QED
    BY <2>1, <2>2
<1> QED
  BY <1>1, <1>2, <1>3, <1>4, <1>5, <1>6, <1>7, <1>8, <1>9, <1>10, <1>11, <1>12

\* or on its way out of a start.
LEMMA FinishRaisesInStartKeeps ==
  ASSUME Inv, NEW t \in Thread, FinishRaises(t), InOuterStart(t)
  PROVE  Inv'
<1> USE DEF Inv, Calls, Between, FinishRaises
<1>1. job[t] # None /\ job[t].at = "raise"
  BY DEF At
<1>2. job[t] \in Job /\ job[t].op \in {"finish", "change"}
          /\ (t \in Batch => lock[ArbiterOf(t)] = t)
  BY <1>1, FinishFacts DEF FinishPoints
<1>3. ApplicationState' /\ mode' = mode /\ ((t \in Batch /\ mode \in Rounds) \/ UNCHANGED todo)
  BY <1>1, RoundFacts, TriedEffect
<1>4. Moved(t) /\ job'[t].at = "outer"
  BY <1>1, GotoEffect DEF Points
<1>5. t \in Batch /\ job[t].op = "change"
  BY <1>2 DEF InOuterStart, Bracketed
<1>6. Shared' /\ Arbiters'
  BY SharedFrame, ArbitersFrame
<1>7. ApplicationState'
  BY <1>3
<1>8. Owners'
  BY <1>1, <1>2, <1>3, <1>4, <1>5 DEF Owners, CommandTyped, ManagersTyped, managers
<1>9. Calls'
  <2>1. Formed(t)'
    BY <1>1, <1>2, <1>3, <1>4, <1>5 DEF JobsFormed, Formed, WellFormed, Callers, OwnerOf,
       Managers, StartPoints, FinishPoints, Service, Alias, Thread, Moved, Others
  <2>2. HoldsCommand(t)' /\ HoldsArbiter(t)' /\ KeepsLocks(t)
    BY <1>1, <1>2, <1>3, <1>4, <1>5 DEF Locks, HoldsCommand, HoldsArbiter, KeepsLocks,
       CommandPoints, StartPoints, arbiters, Moved, Others
  <2>3. Goes(t)
    BY <1>1, <1>2, <1>3, <1>4, <1>5 DEF Goes, Moved, Others
  <2>4. RoundCalls'
    BY <1>1, <1>2, <1>3, <1>4, <1>5, RoundsTried, RoundFacts DEF Moved
  <2> QED
    BY <1>1, <1>2, <1>3, <1>4, <1>5, <2>1, <2>2, <2>3, <2>4, FormedFrame, LocksFrame,
       ModesFrame DEF Moved, Others
<1>10. Between'
  <2>1. AtPoints'
    BY <1>1, <1>2, <1>3, <1>4, <1>5, KnowsFrame DEF AtPoints, Knows, At, Formed, JobsFormed,
       WellFormed, coordinator, world, Moved, Others
  <2>2. Strays' /\ Drains'
    BY <1>1, <1>2, <1>3, <1>4, <1>5 DEF Strays, Drains, At, coordinator, world, Moved, Others
  <2> QED
    BY <2>1, <2>2
<1> QED
  BY <1>1, <1>2, <1>3, <1>4, <1>5, <1>6, <1>7, <1>8, <1>9, <1>10

\* One that had nothing to do returns: outside a bracket,
LEMMA FinishReturnsOutsideKeeps ==
  ASSUME Inv, NEW t \in Thread, FinishReturns(t), job[t].op # "change", ~Bracketed(t)
  PROVE  Inv'
<1> USE DEF Inv, Calls, Between, FinishReturns, InOuterStart, Bracketed
<1>1. job[t] # None /\ job[t].at = "return"
  BY DEF At
<1>2. job[t] \in Job /\ job[t].op \in {"finish", "change"}
          /\ (t \in Batch => lock[ArbiterOf(t)] = t)
  BY <1>1, FinishFacts DEF FinishPoints
<1>3. ApplicationState' /\ mode' = mode /\ ((t \in Batch /\ mode \in Rounds) \/ UNCHANGED todo)
  BY <1>1, RoundFacts, TriedEffect
<1>4. Ended(t)
  BY EndEffect
<1>5. Shared' /\ Arbiters'
  BY SharedFrame, ArbitersFrame
<1>6. ApplicationState'
  BY <1>3
<1>7. Owners'
  BY ReleasedType DEF Owners, CommandTyped
<1>8. Calls'
  <2>1. Formed(t)'
    BY <1>1, <1>2, <1>3, <1>4 DEF JobsFormed, Formed, WellFormed, Callers, OwnerOf, Managers,
       StartPoints, FinishPoints, Service, Alias, Thread, Ended, Others
  <2>2. HoldsCommand(t)' /\ HoldsArbiter(t)' /\ KeepsLocks(t)
    BY <1>1, <1>2, <1>3, <1>4 DEF Locks, HoldsCommand, HoldsArbiter, KeepsLocks,
       CommandPoints, StartPoints, arbiters, Ended, Others
  <2>3. Goes(t)
    BY <1>1, <1>2, <1>3, <1>4 DEF Goes, Ended, Others
  <2>4. RoundCalls'
    BY <1>1, <1>2, <1>3, <1>4, RoundsTried, RoundFacts DEF Ended
  <2> QED
    BY <1>1, <1>2, <1>3, <1>4, <2>1, <2>2, <2>3, <2>4, FormedFrame, LocksFrame, ModesFrame DEF
       Ended, Others
<1>9. Between'
  <2>1. AtPoints'
    BY <1>1, <1>2, <1>3, <1>4, KnowsFrame DEF AtPoints, Knows, At, Formed, JobsFormed,
       WellFormed, coordinator, world, Ended, Others
  <2>2. Strays' /\ Drains'
    BY <1>1, <1>2, <1>3, <1>4 DEF Strays, Drains, At, coordinator, world, Ended, Others
  <2> QED
    BY <2>1, <2>2
<1> QED
  BY <1>1, <1>2, <1>3, <1>4, <1>5, <1>6, <1>7, <1>8, <1>9

\* in the batch's own bracket,
LEMMA FinishReturnsInBatchKeeps ==
  ASSUME Inv, NEW t \in Thread, FinishReturns(t), job[t].op # "change", Bracketed(t)
  PROVE  Inv'
<1> USE DEF Inv, Calls, Between, FinishReturns, InOuterStart, Bracketed
<1>1. job[t] # None /\ job[t].at = "return"
  BY DEF At
<1>2. job[t] \in Job /\ job[t].op \in {"finish", "change"}
          /\ (t \in Batch => lock[ArbiterOf(t)] = t)
  BY <1>1, FinishFacts DEF FinishPoints
<1>3. ApplicationState' /\ mode' = mode /\ ((t \in Batch /\ mode \in Rounds) \/ UNCHANGED todo)
  BY <1>1, RoundFacts, TriedEffect
<1>4. "stage" \in Arbiter /\ ArbiterOf(t) = "stage" /\ lock["stage"] = t
  BY <1>2 DEF Arbiter, ArbiterOf, Bracketed
<1>5. Ended(t)
  BY EndEffect
<1>6. Arbiters' /\ lock'[ArbiterOf(t)] = None
          /\ \A a \in Arbiter \ {ArbiterOf(t)} : lock'[a] = lock[a]
  BY <1>2, <1>4, VacateEffect, RetainEffect, UnlockEffect DEF Arbiters, LeaseTyped, Job
<1>7. Shared'
  BY SharedFrame
<1>8. Arbiters'
  BY <1>6
<1>9. ApplicationState'
  BY <1>3
<1>10. Owners'
  BY ReleasedType DEF Owners, CommandTyped
<1>11. Calls'
  <2>1. Formed(t)'
    BY <1>1, <1>2, <1>3, <1>4, <1>5, <1>6 DEF JobsFormed, Formed, WellFormed, Callers,
       OwnerOf, Managers, StartPoints, FinishPoints, Service, Alias, Thread, Ended, Others
  <2>2. HoldsCommand(t)' /\ HoldsArbiter(t)' /\ KeepsLocks(t)
    BY <1>1, <1>2, <1>3, <1>4, <1>5, <1>6 DEF Locks, HoldsCommand, HoldsArbiter, KeepsLocks,
       CommandPoints, StartPoints, arbiters, Ended, Others
  <2>3. Goes(t)
    BY <1>1, <1>2, <1>3, <1>4, <1>5, <1>6 DEF Goes, Ended, Others
  <2>4. RoundCalls'
    BY <1>1, <1>2, <1>3, <1>4, <1>5, <1>6, RoundsTried, RoundFacts DEF Ended
  <2> QED
    BY <1>1, <1>2, <1>3, <1>4, <1>5, <1>6, <2>1, <2>2, <2>3, <2>4, FormedFrame, LocksFrame,
       ModesFrame DEF Ended, Others
<1>12. Between'
  <2>1. AtPoints'
    BY <1>1, <1>2, <1>3, <1>4, <1>5, <1>6, KnowsFrame DEF AtPoints, Knows, At, Formed,
       JobsFormed, WellFormed, coordinator, world, Ended, Others
  <2>2. Strays' /\ Drains'
    BY <1>1, <1>2, <1>3, <1>4, <1>5, <1>6 DEF Strays, Drains, At, coordinator, world, Ended,
       Others
  <2> QED
    BY <2>1, <2>2
<1> QED
  BY <1>1, <1>2, <1>3, <1>4, <1>5, <1>6, <1>7, <1>8, <1>9, <1>10, <1>11, <1>12

\* or to the load it was to make room for.
LEMMA FinishReturnsInStartKeeps ==
  ASSUME Inv, NEW t \in Thread, FinishReturns(t), job[t].op = "change"
  PROVE  Inv'
<1> USE DEF Inv, Calls, Between, FinishReturns
<1>1. job[t] # None /\ job[t].at = "return"
  BY DEF At
<1>2. job[t] \in Job /\ job[t].op \in {"finish", "change"}
          /\ (t \in Batch => lock[ArbiterOf(t)] = t)
  BY <1>1, FinishFacts DEF FinishPoints
<1>3. ApplicationState' /\ mode' = mode /\ ((t \in Batch /\ mode \in Rounds) \/ UNCHANGED todo)
  BY <1>1, RoundFacts, TriedEffect
<1>4. /\ Began(t, "load", "prepare", "ocr", job[t].service, job[t].service, job[t].service, FALSE)
      /\ Arbiters' /\ lock'[ArbiterOf(t)] = t /\ lock[ArbiterOf(t)] \in {None, t}
      /\ \A a \in Arbiter \ {ArbiterOf(t)} : lock'[a] = lock[a]
  BY <1>1, ContinueEffect
<1>5. Formed(t)'
  BY <1>1, ContinueEffect
<1>6. Shared'
  BY SharedFrame
<1>7. Arbiters'
  BY <1>4
<1>8. ApplicationState'
  BY <1>3
<1>9. Owners'
  BY ReleasedType DEF Owners, CommandTyped
<1>10. Calls'
  <2>1. Formed(t)'
    BY <1>5
  <2>2. HoldsCommand(t)' /\ HoldsArbiter(t)' /\ KeepsLocks(t)
    BY <1>1, <1>2, <1>3, <1>4, <1>5 DEF Locks, HoldsCommand, HoldsArbiter, KeepsLocks,
       CommandPoints, StartPoints, arbiters, Began, Others
  <2>3. Goes(t)
    BY <1>1, <1>2, <1>3, <1>4, <1>5 DEF Goes, Began
  <2>4. RoundCalls'
    BY <1>1, <1>2, <1>3, <1>4, <1>5, RoundsTried, RoundFacts DEF Began
  <2> QED
    BY <1>1, <1>2, <1>3, <1>4, <1>5, <2>1, <2>2, <2>3, <2>4, FormedFrame, LocksFrame,
       ModesFrame DEF Began, Others
<1>11. Between'
  <2>1. AtPoints'
    BY <1>1, <1>2, <1>3, <1>4, <1>5, KnowsFrame DEF AtPoints, Knows, At, Formed, JobsFormed,
       WellFormed, coordinator, world, Began, Others
  <2>2. Strays' /\ Drains'
    BY <1>1, <1>2, <1>3, <1>4, <1>5 DEF Strays, Drains, At, coordinator, world, Began, Others
  <2> QED
    BY <2>1, <2>2
<1> QED
  BY <1>1, <1>2, <1>3, <1>4, <1>5, <1>6, <1>7, <1>8, <1>9, <1>10, <1>11

\* The cleanup around a failed start: none for a call of its own,
LEMMA OuterCleanupOutsideKeeps ==
  ASSUME Inv, NEW t \in Thread, OuterCleanup(t), ~InOuterStart(t)
  PROVE  Inv'
<1> USE DEF Inv, Calls, Between, OuterCleanup
<1>1. job[t] # None /\ job[t].at = "outer"
  BY DEF At
<1>2. job[t] \in Job
  BY <1>1 DEF JobTyped
<1>3. Ended(t)
  BY EndEffect
<1>4. Shared' /\ Arbiters' /\ ApplicationState'
  BY SharedFrame, ArbitersFrame, ApplicationFrame
<1>5. Owners'
  BY <1>1, <1>2, <1>3 DEF Owners, CommandTyped, ManagersTyped, managers
<1>6. Calls'
  <2>1. Formed(t)'
    BY <1>1, <1>2, <1>3 DEF JobsFormed, Formed, WellFormed, Callers, OwnerOf, Managers,
       StartPoints, FinishPoints, Service, Alias, Thread, Ended, Others
  <2>2. HoldsCommand(t)' /\ HoldsArbiter(t)' /\ KeepsLocks(t)
    BY <1>1, <1>2, <1>3 DEF Locks, HoldsCommand, HoldsArbiter, KeepsLocks, CommandPoints,
       StartPoints, arbiters, Ended, Others
  <2>3. Goes(t) /\ (t \in Batch => RoundCall(t)') /\ UNCHANGED <<mode, todo>>
    BY <1>1, <1>2, <1>3 DEF RoundCalls, RoundCall, Goes, Rounds, application, Ended, Others
  <2> QED
    BY <1>1, <1>2, <1>3, <2>1, <2>2, <2>3, CallsGo DEF Ended, Others
<1>7. Between'
  <2>1. AtPoints'
    BY <1>1, <1>2, <1>3, KnowsFrame DEF AtPoints, Knows, At, Formed, JobsFormed, WellFormed,
       coordinator, world, Ended, Others
  <2>2. Strays' /\ Drains'
    BY <1>1, <1>2, <1>3 DEF Strays, Drains, At, coordinator, world, Ended, Others
  <2> QED
    BY <2>1, <2>2
<1> QED
  BY <1>1, <1>2, <1>3, <1>4, <1>5, <1>6, <1>7

\* a finish for a batch's whose manager has adopted a live pair,
LEMMA OuterCleanupFinishesKeeps ==
  ASSUME Inv, NEW t \in Thread, OuterCleanup(t), InOuterStart(t), Active(job[t].owner)
  PROVE  Inv'
<1> USE DEF Inv, Calls, Between, OuterCleanup
<1>1. job[t] # None /\ job[t].at = "outer"
  BY DEF At
<1>2. job[t] \in Job
  BY <1>1 DEF JobTyped
<1>3. /\ t \in Batch /\ job[t].op \in {"load", "change"} /\ lock[ArbiterOf(t)] = t
      /\ job[t].owner \in Managers /\ job[t].service \in Service
  BY <1>1, <1>2 DEF InOuterStart, Bracketed, Locks, HoldsArbiter, JobsFormed, Formed, Callers, Job
<1>4. Began(t, "finish", FinishPoint(TRUE), job[t].owner, job[t].service, loaded, contract, TRUE)
  BY <1>3, FinishEffect DEF Shared
<1>5. FinishPoint(TRUE) \in {"unload", "force", "stopEmpty", "raise", "return"}
      /\ (FinishPoint(TRUE) = "return" /\ TRUE => contract = None)
  BY FinishPointType
<1>6. Shared' /\ Arbiters' /\ ApplicationState'
  BY SharedFrame, ArbitersFrame, ApplicationFrame
<1>7. Owners'
  BY <1>1, <1>2, <1>3, <1>4, <1>5 DEF Owners, CommandTyped, ManagersTyped, managers
<1>8. Calls'
  <2>1. Formed(t)'
    BY <1>3, <1>4, <1>5 DEF Formed, WellFormed, Callers, Began, FinishPoints, Managers, Thread
  <2>2. HoldsCommand(t)' /\ HoldsArbiter(t)' /\ KeepsLocks(t)
    BY <1>1, <1>2, <1>3, <1>4, <1>5 DEF Locks, HoldsCommand, HoldsArbiter, KeepsLocks,
       CommandPoints, StartPoints, arbiters, Began, Others
  <2>3. Goes(t)
    BY <1>1, <1>2, <1>3, <1>4, <1>5 DEF Goes, Began, application
  <2>4. (t \in Batch => RoundCall(t)') /\ UNCHANGED <<mode, todo>>
    BY <1>1, <1>2, <1>3, <1>4, <1>5, RoundFacts DEF RoundCall, Began, application
  <2> QED
    BY <1>1, <1>2, <1>3, <1>4, <1>5, <2>1, <2>2, <2>3, <2>4, CallsGo DEF Began, Others
<1>9. Between'
  <2>1. AtPoints'
    BY <1>1, <1>2, <1>3, <1>4, <1>5, KnowsFrame DEF AtPoints, Knows, At, Formed, JobsFormed,
       WellFormed, coordinator, world, Began, Others
  <2>2. Strays' /\ Drains'
    BY <1>1, <1>2, <1>3, <1>4, <1>5 DEF Strays, Drains, At, coordinator, world, Began, Others
  <2> QED
    BY <2>1, <2>2
<1> QED
  BY <1>1, <1>2, <1>3, <1>4, <1>5, <1>6, <1>7, <1>8, <1>9

\* and the end of the batch's start where it has not.
LEMMA OuterCleanupLeavesKeeps ==
  ASSUME Inv, NEW t \in Thread, OuterCleanup(t), InOuterStart(t), ~Active(job[t].owner)
  PROVE  Inv'
<1> USE DEF Inv, Calls, Between, OuterCleanup
<1>1. job[t] # None /\ job[t].at = "outer"
  BY DEF At
<1>2. job[t] \in Job
  BY <1>1 DEF JobTyped
<1>3. t \in Batch /\ job[t].op \in {"load", "change"} /\ lock[ArbiterOf(t)] = t
  BY <1>1 DEF InOuterStart, Bracketed, Locks, HoldsArbiter
<1>4. "stage" \in Arbiter /\ ArbiterOf(t) = "stage" /\ lock["stage"] = t
  BY <1>3 DEF Arbiter, ArbiterOf, Bracketed
<1>5. Ended(t)
  BY EndEffect
<1>6. Arbiters' /\ lock'[ArbiterOf(t)] = None
          /\ \A a \in Arbiter \ {ArbiterOf(t)} : lock'[a] = lock[a]
  BY <1>2, <1>4, VacateEffect, RetainEffect, UnlockEffect DEF Arbiters, LeaseTyped, Job
<1>7. Shared' /\ ApplicationState'
  BY SharedFrame, ApplicationFrame
<1>8. Arbiters'
  BY <1>6
<1>9. Owners'
  BY <1>1, <1>2, <1>3, <1>4, <1>5, <1>6 DEF Owners, CommandTyped, ManagersTyped, managers
<1>10. Calls'
  <2>1. Formed(t)'
    BY <1>1, <1>2, <1>3, <1>4, <1>5, <1>6 DEF JobsFormed, Formed, WellFormed, Callers,
       OwnerOf, Managers, StartPoints, FinishPoints, Service, Alias, Thread, Ended, Others
  <2>2. HoldsCommand(t)' /\ HoldsArbiter(t)' /\ KeepsLocks(t)
    BY <1>1, <1>2, <1>3, <1>4, <1>5, <1>6 DEF Locks, HoldsCommand, HoldsArbiter, KeepsLocks,
       CommandPoints, StartPoints, arbiters, Ended, Others
  <2>3. Goes(t) /\ (t \in Batch => RoundCall(t)') /\ UNCHANGED <<mode, todo>>
    BY <1>1, <1>2, <1>3, <1>4, <1>5, <1>6 DEF RoundCalls, RoundCall, Goes, Rounds,
       application, Ended, Others
  <2> QED
    BY <1>1, <1>2, <1>3, <1>4, <1>5, <1>6, <2>1, <2>2, <2>3, CallsGo DEF Ended, Others
<1>11. Between'
  <2>1. AtPoints'
    BY <1>1, <1>2, <1>3, <1>4, <1>5, <1>6, KnowsFrame DEF AtPoints, Knows, At, Formed,
       JobsFormed, WellFormed, coordinator, world, Ended, Others
  <2>2. Strays' /\ Drains'
    BY <1>1, <1>2, <1>3, <1>4, <1>5, <1>6 DEF Strays, Drains, At, coordinator, world, Ended,
       Others
  <2> QED
    BY <2>1, <2>2
<1> QED
  BY <1>1, <1>2, <1>3, <1>4, <1>5, <1>6, <1>7, <1>8, <1>9, <1>10, <1>11

-----------------------------------------------------------------------------
(* The invariant.                                                           *)

\* The steps of the starts, taken together.
LEMMA StartStepKeeps ==
  ASSUME Inv, NEW t \in Thread, StartStep(t)
  PROVE  Inv'
<1>1. CASE \E p \in Pair : EnsureOCR(t, p) \/ PrepareContainer(t, p)
  BY <1>1, EnsureOCRKeeps, PrepareContainerKeeps
<1>2. CASE EnsureGemma(t)
  BY <1>2, EnsureGemmaKeeps
<1>3. CASE \E m \in Managers, p \in Pair : EnsureMatching(t, m, p)
  BY <1>3, EnsureMatchingKeeps
<1>4. CASE Prepare(t) \/ StopOld(t) \/ Load(t) \/ LoadPublish(t)
  BY <1>4, PrepareKeeps, StopOldKeeps, LoadKeeps, LoadPublishKeeps
<1>5. CASE \E probed \in BOOLEAN : Create(t, probed)
  BY <1>5, CreateKeeps
<1>6. CASE \E quiet \in BOOLEAN : StopOldFails(t, quiet) \/ CreateFails(t, quiet)
          \/ LoadFails(t, quiet)
  BY <1>6, StopOldFailsKeeps, CreateFailsKeeps, LoadFailsKeeps
<1>7. CASE AdoptMatching(t) \/ StartSucceeds(t) \/ StartCancelled(t)
  BY <1>7, AdoptMatchingKeeps, StartSucceedsKeeps, StartCancelledKeeps
<1>8. CASE AbortNothing(t) \/ Abort(t) \/ AbortStops(t) \/ AbortStopFails(t) \/ AbortTimesOut(t)
  BY <1>8, AbortNothingKeeps, AbortKeeps, AbortStopsKeeps, AbortStopFailsKeeps, AbortTimesOutKeeps
<1>9. CASE LateLook(t) \/ LateMark(t) \/ OuterCleanup(t)
  BY <1>9, LateLookKeeps, LateMarkKeeps, OuterCleanupOutsideKeeps, OuterCleanupFinishesKeeps,
     OuterCleanupLeavesKeeps
<1> QED
  BY <1>1, <1>2, <1>3, <1>4, <1>5, <1>6, <1>7, <1>8, <1>9 DEF StartStep

\* And those of the finishes.
LEMMA FinishStepKeeps ==
  ASSUME Inv, NEW t \in Thread, FinishStep(t)
  PROVE  Inv'
<1>1. CASE \E m \in Managers, s \in Service, foreign \in BOOLEAN : \E stop \in BOOLEAN :
             Shutdown(t, m, s, stop, foreign) \/ ShutdownInactive(t, m, s, stop, foreign)
  BY <1>1, ShutdownKeeps, ShutdownInactiveKeeps
<1>2. CASE \E m \in Managers, s \in Service, stop \in BOOLEAN : ShutdownConflict(t, m, s, stop)
  BY <1>2, ShutdownConflictKeeps
<1>3. CASE \E p \in Pair : ChangePair(t, p) \/ ChangePairInStart(t, p)
  BY <1>3, ChangePairKeeps, ChangePairInStartKeeps
<1>4. CASE CloseApp(t)
  BY <1>4, CloseAppKeeps
<1>5. CASE \E m \in Managers : CloseManager(t, m)
  BY <1>5, CloseManagerFinishesKeeps, CloseManagerSkipsKeeps
<1>6. CASE Unload(t) \/ Refused(t) \/ Conflict(t) \/ Unloaded(t) \/ UnloadFails(t)
  BY <1>6, UnloadKeeps, RefusedKeeps, ConflictKeeps, UnloadedKeeps, UnloadFailsKeeps
<1>7. CASE ForceStop(t) \/ ForceStopped(t) \/ ForceStopFails(t) \/ MarkFailed(t)
  BY <1>7, ForceStopKeeps, ForceStoppedKeeps, ForceStopFailsKeeps, MarkFailedKeeps
<1>8. CASE FinishRaises(t)
  BY <1>8, FinishRaisesOutsideKeeps, FinishRaisesInBatchKeeps, FinishRaisesInStartKeeps
<1>9. CASE FinishReturns(t)
  BY <1>9, FinishReturnsOutsideKeeps, FinishReturnsInBatchKeeps, FinishReturnsInStartKeeps
<1> QED
  BY <1>1, <1>2, <1>3, <1>4, <1>5, <1>6, <1>7, <1>8, <1>9 DEF FinishStep

\* Steps that change nothing.
LEMMA StutterKeeps ==
  ASSUME Inv, UNCHANGED vars
  PROVE  Inv'
<1>1. Shared'
  BY SharedFrame DEF Inv, vars
<1>2. Arbiters' /\ Owners' /\ ApplicationState'
  BY DEF Inv, vars, arbiters, managers, application, Arbiters, Owners, ApplicationState,
     LeaseTyped,
     LockTyped, FailedTyped, CommandTyped, ManagersTyped, ApplicationTyped, UnreleasedTyped
<1>3. Calls'
  BY SameCalls, RoundsIdle DEF Inv, Calls, vars, arbiters, application
<1>4. Between'
  BY BetweenFrame DEF Inv, vars
<1> QED
  BY <1>1, <1>2, <1>3, <1>4 DEF Inv

\* The invariant holds at first,
LEMMA InitInv == Init => Inv
<1> SUFFICES ASSUME Init
             PROVE  Inv
  OBVIOUS
<1> USE DEF Init
<1>1. Shared
  <2>1. InFlight = {}
    BY DEF InFlight
  <2>2. CoordinatorTyped
    BY DEF CoordinatorTyped, RouterState
  <2>3. WorldTyped /\ CountTyped
    BY <2>1, FS_EmptySet DEF WorldTyped, CountTyped
  <2> QED
    BY <2>2, <2>3 DEF Shared, Ownership, AtMostOne, Loaded
<1>2. Arbiters /\ Owners
  BY DEF Arbiters, Owners, LeaseTyped, LockTyped, FailedTyped, CommandTyped, ManagersTyped
<1>3. ApplicationState
  <2>1. ApplicationTyped
    BY DEF ApplicationTyped
  <2>2. UnreleasedTyped
    BY DEF UnreleasedTyped
  <2> QED
    BY <2>1, <2>2 DEF ApplicationState
<1>4. Calls
  BY DEF Calls, JobTyped, JobsFormed, Formed, Locks, HoldsCommand, HoldsArbiter, Modes,
     RoundCalls, RoundCall,
     Thread
<1>5. Between
  BY DEF Between, AtPoints, Knows, Strays, Drains, At
<1> QED
  BY <1>1, <1>2, <1>3, <1>4, <1>5 DEF Inv

\* and every step keeps it.
LEMMA NextInv == Inv /\ [Next]_vars => Inv'
<1> SUFFICES ASSUME Inv, [Next]_vars
             PROVE  Inv'
  OBVIOUS
<1>1. CASE Application
  <2>1. CASE Closed
    BY <2>1, StutterKeeps DEF Closed
  <2> QED
    BY <1>1, <2>1, StartManualKeeps, EndManualKeeps, StartBatchKeeps, PreflightPassesKeeps,
       StartTeardownKeeps, EndBatchKeeps DEF Application
<1>2. CASE Requests
  BY <1>2, RequestStartKeeps, RequestEndKeeps DEF Requests
<1>3. CASE \E t \in Thread : StartStep(t) \/ FinishStep(t)
  BY <1>3, StartStepKeeps, FinishStepKeeps
<1>4. CASE UNCHANGED vars
  BY <1>4, StutterKeeps
<1> QED
  BY <1>1, <1>2, <1>3, <1>4 DEF Next

\* The invariant of the Router, for every number of threads, pairs and requests.
THEOREM SpecInv == Spec => []Inv
  BY InitInv, NextInv, PTL DEF Spec

\* Whether a request has ended in another's place is either so or not.
MiscountTyped == miscounted \in BOOLEAN

LEMMA NextMiscount ==
  ASSUME MiscountTyped, [Next]_vars
  PROVE  MiscountTyped'
<1> USE DEF MiscountTyped
<1>1. CASE Application \/ UNCHANGED vars
  BY <1>1 DEF Application, StartManual, EndManual, StartBatch, PreflightPasses, StartTeardown,
     StartRound, EndBatch, Closed, vars, coordinator
<1>2. CASE Requests
  <2>1. ASSUME NEW r \in Request, RequestStart(r)
        PROVE  MiscountTyped'
    BY <2>1 DEF RequestStart
  <2>2. ASSUME NEW r \in Request, RequestEnd(r)
        PROVE  MiscountTyped'
    <3>1. miscounted' = (miscounted \/ (serving[r] = "forgotten" /\ active > 0))
      BY <2>2 DEF RequestEnd
    <3> QED
      BY <3>1, Zenon
  <2> QED
    BY <1>2, <2>1, <2>2 DEF Requests
<1>3. ASSUME NEW t \in Thread, StartStep(t)
      PROVE  MiscountTyped'
  BY <1>3 DEF StartStep, EnsureOCR, PrepareContainer, EnsureGemma, BeginStart, EnsureMatching,
     AdoptMatching, Prepare, StopOld, StoppedAndCleared, Clear, Load, LoadPublish, Create,
     StopOldFails, CreateFails, LoadFails, StartSucceeds, StartCancelled, AbortNothing, Abort,
     AbortStops, AbortStopFails, AbortTimesOut, LateLook, LateMark, OuterCleanup, Mark, coordinator
<1>4. ASSUME NEW t \in Thread, FinishStep(t)
      PROVE  MiscountTyped'
  BY <1>4 DEF FinishStep, Shutdown, ShutdownInactive, ShutdownConflict, ChangePair,
     ChangePairInStart, CloseApp, CloseManager, Unload, Refused, Conflict, Unloaded, UnloadFails,
     ForceStop, ForceStopped, ForceStopFails, MarkFailed, FinishRaises, FinishReturns,
     StoppedAndCleared, Clear, Mark, coordinator
<1> QED
  BY <1>1, <1>2, <1>3, <1>4 DEF Next

\* What the invariant says of the types,
LEMMA InvTypeOK == Inv /\ MiscountTyped => TypeOK
<1> SUFFICES ASSUME Inv, MiscountTyped
             PROVE  TypeOK
  OBVIOUS
<1>1. active \in 0..Cardinality(Request)
  <2>1. Cardinality(InFlight) <= Cardinality(Request) /\ Cardinality(Request) \in Nat
    BY FS_Subset, FS_CardinalityType DEF InFlight
  <2> QED
    BY <2>1, InFlightCount DEF Inv, Shared, CountTyped
<1>2. /\ failed \in [Arbiter -> BOOLEAN]
      /\ unreleased \in BOOLEAN
  BY DEF Inv, Arbiters, FailedTyped, ApplicationState, UnreleasedTyped
<1>3. job \in [Thread -> Job \cup {None}] /\ miscounted \in BOOLEAN
  BY DEF Inv, Calls, JobTyped, MiscountTyped
<1> QED
  BY <1>1, <1>2, <1>3 DEF Inv, TypeOK, Shared, CoordinatorTyped, WorldTyped, Arbiters,
     LeaseTyped, LockTyped,
     Owners, CommandTyped, ManagersTyped, ApplicationState, ApplicationTyped

\* Every variable keeps its type; in particular no more requests are counted than exist,
\* and no attempt of a round is used twice.
THEOREM TypeCorrect == Spec => []TypeOK
<1>1. Init => MiscountTyped
  BY DEF Init, MiscountTyped
<1>2. MiscountTyped /\ [Next]_vars => MiscountTyped'
  BY NextMiscount
<1> QED
  BY <1>1, <1>2, SpecInv, InvTypeOK, PTL DEF Spec

\* and of the models.
LEMMA InvOneModel == Inv => OneModel
<1> SUFFICES ASSUME Inv
             PROVE  Cardinality(resident) <= 1
  BY DEF OneModel
<1>1. CASE resident = {}
  BY <1>1, FS_EmptySet
<1>2. CASE resident # {}
  <2>1. PICK x : x \in resident
    BY <1>2
  <2>2. resident = {x}
    BY <2>1 DEF Inv, Shared, AtMostOne
  <2> QED
    BY <2>2, FS_Singleton
<1> QED
  BY <1>1, <1>2

\* Two models are never resident together, whatever the threads do and Docker fails to.
THEOREM NeverTwoModels == Spec => []OneModel
  BY SpecInv, InvOneModel, PTL

\* A resident model is always in the container that the coordinator owns.
THEOREM NeverAnOrphan == Spec => []NoOrphanModel
<1>1. Inv => NoOrphanModel
  BY DEF Inv, Shared, Ownership, NoOrphanModel
<1> QED
  BY <1>1, SpecInv, PTL
=============================================================================

