------------------------ MODULE LlamaRouterLeaseProofs ------------------------
(***************************************************************************)
(* What is proved of the leases of the shared Router, with the closing     *)
(* window acting at any moment beside one batch or one manual job: a model *)
(* that is left resident is still leased, or its release is known to be    *)
(* unfinished.  And of its shutdown: nothing is left once the window has   *)
(* closed and the batch is over.                                           *)
(***************************************************************************)
EXTENDS LlamaRouterOpenProofs

Worker == Batch \cup Manual
PairOf(s) == IF s = Gemma THEN gemmaPair ELSE ocrPair

\* A start has the lease of its service, and so has a change of pair, which is made
\* inside one.
LeasedBy(t) ==
  job[t] # None /\ (\/ job[t].op \in {"load", "prepare"} /\ job[t].at \in StartPoints
                    \/ job[t].op = "change" /\ job[t].at # "outer")
    => lease[ArbiterOf(t)] = job[t].service
Leased == \A t \in Worker : LeasedBy(t)

\* The loaded model is leased,
Covered == state \in Loaded /\ resident # {} => \E a \in Arbiter : lease[a] = loaded

\* and its manager has adopted its pair, or the call that loaded it is about to make it
\* do so, or to abort.
Publishing(t) == job[t] # None /\ job[t].op = "load" /\ job[t].at \in {"confirm", "abort"}
Adopted == state \in Loaded => PairOf(loaded) = contract \/ \E t \in Worker : Publishing(t)

\* What a start is to confirm, or has found without one, is what is loaded, if anything
\* still is; a finish that returns has found nothing loaded.
ConfirmedBy(t) ==
  /\ (At(t, "confirm") \/ At(t, "matched")) /\ job[t].op = "load" /\ state \in Loaded =>
       job[t].pair = contract /\ job[t].alias = loaded
  /\ At(t, "return") => state \notin Loaded
Confirmed == \A t \in Worker : ConfirmedBy(t)

Accounts == Leased /\ Covered /\ Adopted /\ Confirmed

USE NamesAssumption, ThreadAssumption, TimeOutAssumption, RequestAssumption, NoneAssumption

-----------------------------------------------------------------------------
(* What a step has to keep.                                                 *)

\* It changes no lease but that of its own arbiter, whose lock no other call holds.
Minds(t) ==
  \A a \in Arbiter : lease'[a] = lease[a] \/ (a = ArbiterOf(t) /\ lock[a] \in {None, t})

\* It leaves what is loaded alone, and leased, and adopted.
Keeps(t) ==
  /\ UNCHANGED <<state, contract, loaded>> /\ resident' \subseteq resident
  /\ state \in Loaded =>
       /\ \A a \in Arbiter : lease[a] = loaded => lease'[a] = loaded
       /\ PairOf(loaded) = contract => PairOf(loaded)' = contract
       /\ Publishing(t) => Publishing(t)' \/ PairOf(loaded)' = contract
       /\ t \in Worker => ConfirmedBy(t)'

LEMMA LeasedFrame ==
  ASSUME Leased, Calls, NEW t \in Thread, Others(t), Minds(t), t \in Worker => LeasedBy(t)'
  PROVE  Leased'
<1> SUFFICES ASSUME NEW u \in Worker, u # t
             PROVE  LeasedBy(u)'
  BY DEF Leased
<1>1. u \in Thread /\ job'[u] = job[u] /\ u # None
  BY DEF Worker, Thread, Others
<1>2. CASE job[u] # None /\ (\/ job[u].op \in {"load", "prepare"} /\ job[u].at \in StartPoints
                             \/ job[u].op = "change" /\ job[u].at # "outer")
  <2>1. lease[ArbiterOf(u)] = job[u].service
    BY <1>2 DEF Leased, LeasedBy
  <2>2. job[u].op = "change" => u \in Batch
    BY <1>1, <1>2, RoundFacts
  <2>3. lock[ArbiterOf(u)] = u
    BY <1>1, <1>2, <2>2 DEF Calls, Locks, HoldsArbiter
  <2>4. lease'[ArbiterOf(u)] = lease[ArbiterOf(u)]
    BY <1>1, <2>3, ArbiterType DEF Minds
  <2> QED
    BY <1>1, <2>1, <2>4 DEF LeasedBy, ArbiterOf, Bracketed
<1> QED
  BY <1>1, <1>2 DEF LeasedBy

\* Where nothing is loaded afterwards, only the leases matter.
LEMMA AccountsDown ==
  ASSUME Accounts, Calls, NEW t \in Thread, Others(t), Minds(t), t \in Worker => LeasedBy(t)',
         state' \notin Loaded
  PROVE  Accounts'
<1>1. Leased'
  BY LeasedFrame DEF Accounts
<1> QED
  BY <1>1 DEF Accounts, Covered, Adopted, Confirmed, ConfirmedBy

\* A step that leaves what is loaded alone.
LEMMA AccountsFrame ==
  ASSUME Accounts, Calls, NEW t \in Thread, Others(t), Minds(t), t \in Worker => LeasedBy(t)',
         Keeps(t)
  PROVE  Accounts'
<1>1. Leased'
  BY LeasedFrame DEF Accounts
<1>2. CASE state' \notin Loaded
  BY <1>1, <1>2 DEF Accounts, Covered, Adopted, Confirmed, ConfirmedBy
<1>3. CASE state \in Loaded /\ state' = state
  <2>1. Covered'
    BY <1>3 DEF Accounts, Covered, Keeps
  <2>2. \A u \in Worker : u # t => job'[u] = job[u]
    BY DEF Others, Worker, Thread
  <2>3. Adopted'
    <3>1. CASE PairOf(loaded) = contract
      BY <1>3, <3>1 DEF Adopted, Keeps, PairOf
    <3>2. CASE \E u \in Worker : Publishing(u)
      <4>1. PICK u \in Worker : Publishing(u)
        BY <3>2
      <4>2. CASE u = t
        BY <1>3, <4>1, <4>2 DEF Adopted, Keeps, PairOf
      <4>3. CASE u # t
        <5>1. Publishing(u)'
          BY <2>2, <4>1, <4>3 DEF Publishing
        <5> QED
          BY <4>1, <5>1 DEF Adopted
      <4> QED
        BY <4>2, <4>3
    <3> QED
      BY <1>3, <3>1, <3>2 DEF Accounts, Adopted
  <2>4. Confirmed'
    BY <1>3, <2>2 DEF Accounts, Confirmed, ConfirmedBy, Keeps, At
  <2> QED
    BY <1>1, <2>1, <2>3, <2>4 DEF Accounts
<1> QED
  BY <1>2, <1>3 DEF Keeps

\* A step of no call.
LEMMA AccountsSame ==
  ASSUME Accounts, UNCHANGED <<state, contract, loaded, resident, lease, ocrPair, gemmaPair, job>>
  PROVE  Accounts'
  BY DEF Accounts, Leased, LeasedBy, Covered, Adopted, Publishing, PairOf, Confirmed, ConfirmedBy,
     At, ArbiterOf, Bracketed

\* A lease that is taken is one's own afterwards if it was free or one's own before;
\* no other is lost.
LEMMA TakeLeaseMinds ==
  ASSUME Arbiters, NEW t \in Thread, NEW s \in Service, TakeLease(t, s)
  PROVE  /\ Minds(t)
         /\ lease[ArbiterOf(t)] \in {None, s} => lease'[ArbiterOf(t)] = s
         /\ \A x \in Alias : \A a \in Arbiter : lease[a] = x => lease'[a] = x
<1>1. /\ lock[ArbiterOf(t)] \in {None, t}
      /\ \A a \in Arbiter \ {ArbiterOf(t)} : lease'[a] = lease[a]
      /\ lease'[ArbiterOf(t)] = IF lease[ArbiterOf(t)] = None THEN s ELSE lease[ArbiterOf(t)]
  BY TakeLeaseEffect
<1> QED
  BY <1>1 DEF Minds, Service

\* One that is given up is given up under the lock.
LEMMA VacateMinds ==
  ASSUME Arbiters, NEW t \in Thread, NEW s \in Service, lock[ArbiterOf(t)] \in {None, t},
         Vacate(ArbiterOf(t), s)
  PROVE  Minds(t) /\ \A x \in Alias \ {s} : \A a \in Arbiter : lease[a] = x => lease'[a] = x
<1>1. /\ \A b \in Arbiter \ {ArbiterOf(t)} : lease'[b] = lease[b]
      /\ lease'[ArbiterOf(t)] = IF lease[ArbiterOf(t)] = s THEN None ELSE lease[ArbiterOf(t)]
  BY ArbiterType, VacateEffect DEF Arbiters
<1> QED
  BY <1>1 DEF Minds

LEMMA LoadedAlias ==
  ASSUME Shared, state \in Loaded
  PROVE  loaded \in Alias /\ contract \in Pair
  BY DEF Shared, CoordinatorTyped, Ownership

LEMMA LeaseSame ==
  ASSUME NEW t \in Thread, UNCHANGED lease
  PROVE  Minds(t)
  BY DEF Minds

\* A finish that returns at once has found nothing loaded.
LEMMA ReturnsEmpty ==
  ASSUME NEW stop \in BOOLEAN, FinishPoint(stop) = "return"
  PROVE  state \notin Loaded
  BY DEF FinishPoint, Loaded

\* A call of the closing window has no lease to keep.
LEMMA ClosingFrame ==
  ASSUME Accounts, Calls, NEW t \in Thread, t \notin Worker, Others(t),
         UNCHANGED <<state, contract, loaded, resident, lease, ocrPair, gemmaPair>>
  PROVE  Accounts'
<1>1. Minds(t)
  BY LeaseSame
<1>2. Publishing(t) => Publishing(t)' \/ t \notin Worker
  OBVIOUS
<1>3. \A u \in Worker : job'[u] = job[u]
  BY DEF Others, Worker, Thread
<1>4. Leased'
  BY <1>1, LeasedFrame DEF Accounts
<1>5. Covered' /\ Adopted' /\ Confirmed'
  BY <1>3 DEF Accounts, Covered, Adopted, Publishing, PairOf, Confirmed, ConfirmedBy, At
<1> QED
  BY <1>4, <1>5 DEF Accounts

\* A finish has no lease of its own to keep, and a change of pair keeps that of its start.
LEMMA ChangeKeeps ==
  ASSUME Accounts, NEW t \in Thread, job[t] # None, job[t].at \in FinishPoints, Moved(t),
         job'[t].at \in FinishPoints, job[t].op \in {"finish", "change"},
         job[t].op = "change" => job[t].service \in Pair,
         \A x \in Alias : \A a \in Arbiter : lease[a] = x => lease'[a] = x
  PROVE  t \in Worker => LeasedBy(t)'
<1> SUFFICES ASSUME t \in Worker, job[t].op = "change"
             PROVE  LeasedBy(t)'
  BY DEF LeasedBy, Moved
<1>1. lease[ArbiterOf(t)] = job[t].service
  BY DEF Accounts, Leased, LeasedBy, FinishPoints
<1> QED
  BY <1>1, ArbiterType DEF LeasedBy, Moved, ArbiterOf, Bracketed, Alias

\* The load after a change of pair has the lease of the change.
LEMMA ContinueLease ==
  ASSUME Arbiters, Calls, NEW t \in Thread, job[t] # None, job[t].op = "change",
         ContinueStart(t), lease[ArbiterOf(t)] = job[t].service
  PROVE  Others(t) /\ Minds(t) /\ LeasedBy(t)'
<1>1. Began(t, "load", "prepare", "ocr", job[t].service, job[t].service, job[t].service, FALSE)
  BY ContinueEffect
<1>2. TakeLease(t, job[t].service) /\ job[t].service \in Service
  BY RoundFacts DEF ContinueStart
<1>3. Minds(t) /\ lease'[ArbiterOf(t)] = job[t].service
  BY <1>2, TakeLeaseMinds
<1> QED
  BY <1>1, <1>3 DEF LeasedBy, Began, ArbiterOf, Bracketed

\* How a release that worked leaves the leases.
LEMMA ReleaseEndsLease ==
  ASSUME Arbiters, Calls, Accounts, NEW t \in Thread, job[t] # None,
         job[t].at \in {"drain", "stopping"}, ReleaseEnds(t)
  PROVE  Others(t) /\ Minds(t) /\ (t \in Worker => LeasedBy(t)')
<1>1. /\ job[t] \in Job /\ job[t].op \in {"finish", "change"} /\ job[t].service \in Service
      /\ lock[ArbiterOf(t)] = t
  BY FinishFacts DEF FinishPoints, Job
<1>2. CASE job[t].op = "change"
  <2>1. t \in Worker
    BY <1>2, RoundFacts DEF Worker
  <2>2. lease[ArbiterOf(t)] = job[t].service
    BY <1>2, <2>1 DEF Accounts, Leased, LeasedBy
  <2> QED
    BY <1>2, <2>2, ContinueLease DEF ReleaseEnds
<1>3. CASE job[t].op # "change"
  <2>1. Vacate(ArbiterOf(t), job[t].service) /\ EndJob(t)
    BY <1>3 DEF ReleaseEnds
  <2>2. Minds(t) /\ Ended(t)
    BY <1>1, <2>1, VacateMinds, EndEffect DEF Calls
  <2> QED
    BY <2>2 DEF LeasedBy, Ended
<1> QED
  BY <1>2, <1>3

-----------------------------------------------------------------------------
(* The steps, one by one.                                                   *)

Before == Inv /\ Inv' /\ Accounts


\* A start begins with the lease of its service.
LEMMA EnsureOCRLeases ==
  ASSUME OneManual, Before, NEW t \in Thread, NEW p \in Pair, EnsureOCR(t, p)
  PROVE  Accounts'
<1>1. TakeLease(t, p) /\ lease[ArbiterOf(t)] \in {None, p} /\ p \in Service
  BY DEF EnsureOCR, BeginStart, CanStart, Alias, Service
<1>2. Began(t, "load", "prepare", "ocr", p, p, p, FALSE)
  BY BeginEffect DEF Before, Inv, Calls, Owners, ManagersTyped, EnsureOCR, BeginStart, Points,
     Managers, Alias, Service
<1>3. job[t] = None
  BY DEF EnsureOCR, MayCall
<1>4. Minds(t)
  BY <1>1, TakeLeaseMinds DEF Before, Inv
<1>5. t \in Worker => LeasedBy(t)'
  BY <1>1, <1>2, TakeLeaseMinds DEF Before, Inv, LeasedBy, Began, ArbiterOf, Bracketed
<1>6. Keeps(t)
  BY <1>1, <1>2, <1>3, TakeLeaseMinds, LoadedAlias DEF Before, Inv, Keeps, Publishing,
     ConfirmedBy, At, PairOf, Began, EnsureOCR, BeginStart, coordinator, world, managers
<1> QED
  BY <1>1, <1>2, <1>3, <1>4, <1>5, <1>6, AccountsFrame DEF Before, Inv, Moved, Began, Ended

LEMMA EnsureGemmaLeases ==
  ASSUME OneManual, Before, NEW t \in Thread, EnsureGemma(t)
  PROVE  Accounts'
<1>1. TakeLease(t, Gemma) /\ lease[ArbiterOf(t)] \in {None, Gemma} /\ Gemma \in Service
  BY DEF EnsureGemma, BeginStart, CanStart, Alias, Service
<1>2. Began(t, "load", "prepare", "gemma", Gemma, Gemma, spec, FALSE)
  BY BeginEffect DEF Before, Inv, Calls, Owners, ManagersTyped, EnsureGemma, BeginStart, Points,
     Managers, Alias, Service, GemmaOnRouter
<1>3. job[t] = None
  BY DEF EnsureGemma, MayCall
<1>4. Minds(t)
  BY <1>1, TakeLeaseMinds DEF Before, Inv
<1>5. t \in Worker => LeasedBy(t)'
  BY <1>1, <1>2, TakeLeaseMinds DEF Before, Inv, LeasedBy, Began, ArbiterOf, Bracketed
<1>6. Keeps(t)
  BY <1>1, <1>2, <1>3, TakeLeaseMinds, LoadedAlias DEF Before, Inv, Keeps, Publishing,
     ConfirmedBy, At, PairOf, Began, EnsureGemma, BeginStart, coordinator, world, managers
<1> QED
  BY <1>1, <1>2, <1>3, <1>4, <1>5, <1>6, AccountsFrame DEF Before, Inv, Moved, Began, Ended

LEMMA PrepareContainerLeases ==
  ASSUME OneManual, Before, NEW t \in Thread, NEW p \in Pair, PrepareContainer(t, p)
  PROVE  Accounts'
<1>1. TakeLease(t, p) /\ lease[ArbiterOf(t)] \in {None, p} /\ p \in Service
  BY DEF PrepareContainer, BeginStart, CanStart, Alias, Service
<1>2. Began(t, "prepare", "prepare", "ocr", p, None, p, FALSE)
  BY BeginEffect DEF Before, Inv, Calls, Owners, ManagersTyped, PrepareContainer, BeginStart,
     Points, Managers, Alias, Service
<1>3. job[t] = None
  BY DEF PrepareContainer, MayCall
<1>4. Minds(t)
  BY <1>1, TakeLeaseMinds DEF Before, Inv
<1>5. t \in Worker => LeasedBy(t)'
  BY <1>1, <1>2, TakeLeaseMinds DEF Before, Inv, LeasedBy, Began, ArbiterOf, Bracketed
<1>6. Keeps(t)
  BY <1>1, <1>2, <1>3, TakeLeaseMinds, LoadedAlias DEF Before, Inv, Keeps, Publishing,
     ConfirmedBy, At, PairOf, Began, PrepareContainer, BeginStart, coordinator, world, managers
<1> QED
  BY <1>1, <1>2, <1>3, <1>4, <1>5, <1>6, AccountsFrame DEF Before, Inv, Moved, Began, Ended

\* The model that is found without an arbiter is the loaded one,
LEMMA EnsureMatchingLeases ==
  ASSUME OneManual, Before, NEW t \in Thread, NEW m \in Managers, NEW p \in Pair,
         EnsureMatching(t, m, p)
  PROVE  Accounts'
<1> DEFINE alias == IF m = "ocr" THEN p ELSE Gemma
<1>1. alias \in Alias /\ alias \in Service
  BY DEF Alias, Service
<1>2. job' = [job EXCEPT ![t] = NewJob("load", "matched", m, alias, alias, p, FALSE)]
  BY DEF EnsureMatching
<1>3. Began(t, "load", "matched", m, alias, alias, p, FALSE)
  BY <1>1, <1>2, BeginEffect DEF Before, Inv, Calls, Points
<1>4. job[t] = None
  BY DEF EnsureMatching, MayCall
<1>5. contract = p /\ loaded = alias
  BY DEF EnsureMatching, Matches, Managers
<1>6. Minds(t)
  BY LeaseSame DEF EnsureMatching, arbiters
<1>7. t \in Worker => LeasedBy(t)'
  BY <1>3 DEF LeasedBy, Began, StartPoints
<1>8. Keeps(t)
  BY <1>3, <1>4, <1>5 DEF Keeps, Publishing, ConfirmedBy, At, PairOf, Began, EnsureMatching,
     coordinator, world, arbiters, managers
<1> QED
  BY <1>3, <1>4, <1>6, <1>7, <1>8, AccountsFrame DEF Before, Inv, Began

\* and still is, or nothing is, when its manager adopts it.
LEMMA AdoptMatchingLeases ==
  ASSUME OneManual, Before, NEW t \in Thread, AdoptMatching(t)
  PROVE  Accounts'
<1>1. job[t] # None /\ Ended(t) /\ job[t].at = "matched" /\ job[t] \in Job
  BY EndEffect DEF Before, Inv, Calls, JobTyped, AdoptMatching, At
<1>2. job[t].op = "load" /\ job[t].owner = OwnerOf(job[t].alias) /\ t \in Worker
  BY <1>1 DEF Before, Inv, Calls, JobsFormed, Formed, WellFormed, Callers, FinishPoints, Job,
     Worker, Thread
<1>3. state \in Loaded => job[t].pair = contract /\ job[t].alias = loaded
  BY <1>1, <1>2 DEF Before, Accounts, Confirmed, ConfirmedBy, At
<1>4. Minds(t)
  BY LeaseSame DEF AdoptMatching, arbiters
<1>5. t \in Worker => LeasedBy(t)'
  BY <1>1 DEF LeasedBy, Ended
<1>6. Keeps(t)
  <2>1. state \in Loaded => PairOf(loaded)' = contract
    BY <1>2, <1>3 DEF AdoptMatching, Adopt, OwnerOf, PairOf, coordinator
  <2> QED
    BY <1>1, <2>1 DEF Keeps, Publishing, ConfirmedBy, At, Ended, AdoptMatching, coordinator,
       world, arbiters
<1> QED
  BY <1>1, <1>4, <1>5, <1>6, AccountsFrame DEF Before, Inv, Ended

\* A start keeps its lease up to its end,
LEMMA PrepareLeases ==
  ASSUME OneManual, Before, NEW t \in Thread, Prepare(t)
  PROVE  Accounts'
<1>1. job[t] # None /\ job[t].at = "prepare" /\ Moved(t)
          /\ job'[t].at \in {"abort", "confirm", "load", "stopOld", "create"}
  BY GotoEffect DEF Before, Inv, Calls, Prepare, At, Points
<1>2. job'[t].at = "confirm" => job[t].op = "prepare"
  BY <1>1, GotoEffect DEF Before, Inv, Calls, Prepare, Points
<1>3. Minds(t)
  BY LeaseSame DEF Prepare, arbiters
<1>4. t \in Worker => LeasedBy(t)'
  BY <1>1 DEF Before, Accounts, Leased, LeasedBy, Moved, StartPoints, ArbiterOf, Bracketed,
     Prepare, arbiters
<1>5. Keeps(t)
  BY <1>1, <1>2 DEF Keeps, Publishing, ConfirmedBy, At, PairOf, Moved, Prepare, coordinator,
     world, arbiters, managers
<1> QED
  BY <1>1, <1>2, <1>3, <1>4, <1>5, AccountsFrame DEF Before, Inv, Moved, Began, Ended

\* whether or not the old container is stopped,
LEMMA StopOldLeases ==
  ASSUME OneManual, Before, NEW t \in Thread, StopOld(t)
  PROVE  Accounts'
<1>1. job[t] # None /\ job[t].at = "stopOld" /\ Moved(t) /\ job'[t].at = "create"
  BY GotoEffect DEF Before, Inv, Calls, StopOld, At, Points
<1>2. Minds(t)
  BY LeaseSame DEF StopOld, arbiters
<1>3. t \in Worker => LeasedBy(t)'
  BY <1>1 DEF Before, Accounts, Leased, LeasedBy, Moved, StartPoints, ArbiterOf, Bracketed,
     StopOld, arbiters
<1>4. state' \notin Loaded
  BY DEF StopOld, StoppedAndCleared, Clear, Loaded
<1> QED
  BY <1>1, <1>2, <1>3, <1>4, AccountsDown DEF Before, Inv, Moved, Began, Ended

LEMMA StopOldFailsLeases ==
  ASSUME OneManual, Before, NEW t \in Thread, NEW quiet \in BOOLEAN, StopOldFails(t, quiet)
  PROVE  Accounts'
<1>1. job[t] # None /\ job[t].at = "stopOld" /\ Moved(t) /\ job'[t].at = "abort"
  BY RaiseEffect DEF Before, Inv, Calls, StopOldFails, At, Points
<1>2. loaded = None /\ state \notin Loaded
  BY <1>1 DEF Before, Inv, Shared, Ownership, Between, AtPoints, Knows, At
<1>3. Minds(t)
  BY LeaseSame DEF StopOldFails, arbiters
<1>4. t \in Worker => LeasedBy(t)'
  BY <1>1 DEF Before, Accounts, Leased, LeasedBy, Moved, StartPoints, ArbiterOf, Bracketed,
     StopOldFails, arbiters
<1>5. state' \notin Loaded
  BY <1>2 DEF StopOldFails, coordinator
<1> QED
  BY <1>1, <1>2, <1>3, <1>4, <1>5, AccountsDown DEF Before, Inv, Moved, Began, Ended

\* the new one is created,
LEMMA CreateLeases ==
  ASSUME OneManual, Before, NEW t \in Thread, NEW probed \in BOOLEAN, Create(t, probed)
  PROVE  Accounts'
<1>1. job[t] # None /\ job[t].at = "create" /\ Moved(t)
          /\ job'[t].at \in {"abort", "confirm", "load"}
  BY GotoEffect DEF Before, Inv, Calls, Create, At, Points
<1>2. Minds(t)
  BY LeaseSame DEF Create, arbiters
<1>3. t \in Worker => LeasedBy(t)'
  BY <1>1 DEF Before, Accounts, Leased, LeasedBy, Moved, StartPoints, ArbiterOf, Bracketed,
     Create, arbiters
<1>4. state' \notin Loaded
  BY DEF Create, Loaded
<1> QED
  BY <1>1, <1>2, <1>3, <1>4, AccountsDown DEF Before, Inv, Moved, Began, Ended

LEMMA CreateFailsLeases ==
  ASSUME OneManual, Before, NEW t \in Thread, NEW quiet \in BOOLEAN, CreateFails(t, quiet)
  PROVE  Accounts'
<1>1. job[t] # None /\ job[t].at = "create" /\ Moved(t) /\ job'[t].at = "abort"
  BY RaiseEffect DEF Before, Inv, Calls, CreateFails, At, Points
<1>2. loaded = None /\ state \notin Loaded
  BY <1>1 DEF Before, Inv, Shared, Ownership, Between, AtPoints, Knows, At
<1>3. Minds(t)
  BY LeaseSame DEF CreateFails, arbiters
<1>4. t \in Worker => LeasedBy(t)'
  BY <1>1 DEF Before, Accounts, Leased, LeasedBy, Moved, StartPoints, ArbiterOf, Bracketed,
     CreateFails, arbiters
<1>5. state' \notin Loaded
  BY <1>2 DEF CreateFails, coordinator
<1> QED
  BY <1>1, <1>2, <1>3, <1>4, <1>5, AccountsDown DEF Before, Inv, Moved, Began, Ended

\* or the model is found loaded.
LEMMA LoadLeases ==
  ASSUME OneManual, Before, NEW t \in Thread, Load(t)
  PROVE  Accounts'
<1>1. job[t] # None /\ job[t].at = "load" /\ Moved(t)
          /\ job'[t].at \in {"abort", "confirm", "loading"}
  BY GotoEffect DEF Before, Inv, Calls, Load, At, Points
<1>2. job'[t].at = "confirm" => contract = job[t].pair /\ loaded = job[t].alias
  BY <1>1, GotoEffect DEF Before, Inv, Calls, Load, At, Points
<1>3. Minds(t)
  BY LeaseSame DEF Load, arbiters
<1>4. t \in Worker => LeasedBy(t)'
  BY <1>1 DEF Before, Accounts, Leased, LeasedBy, Moved, StartPoints, ArbiterOf, Bracketed,
     Load, arbiters
<1>5. Keeps(t)
  BY <1>1, <1>2 DEF Keeps, Publishing, ConfirmedBy, At, PairOf, Moved, Load, coordinator, world,
     arbiters, managers
<1> QED
  BY <1>1, <1>2, <1>3, <1>4, <1>5, AccountsFrame DEF Before, Inv, Moved, Began, Ended

\* What is published is leased by the call that loaded it.
LEMMA LoadPublishLeases ==
  ASSUME OneManual, Before, NEW t \in Thread, LoadPublish(t)
  PROVE  Accounts'
<1>1. job[t] # None /\ job[t].at = "loading" /\ Moved(t) /\ job'[t].at = "confirm"
  BY GotoEffect DEF Before, Inv, Calls, LoadPublish, At, Points
<1>2. /\ job[t].op = "load" /\ t \in Worker /\ contract = job[t].pair
      /\ job[t].alias = job[t].service /\ lease[ArbiterOf(t)] = job[t].service
  <2>1. t \in Worker /\ contract = job[t].pair
    BY <1>1, StartFacts DEF Before, Inv, Between, AtPoints, Knows, At, StartPoints, Worker, Thread
  <2>2. job[t].op = "load" /\ job[t].alias = job[t].service
    BY <1>1, StartFacts DEF Before, Inv, Calls, JobsFormed, Formed, WellFormed, StartPoints
  <2> QED
    BY <1>1, <2>1, <2>2 DEF Before, Accounts, Leased, LeasedBy, StartPoints
<1>3. Leased'
  <2>1. Minds(t) /\ LeasedBy(t)'
    BY <1>1, <1>2, LeaseSame DEF LoadPublish, arbiters, LeasedBy, Moved, ArbiterOf, Bracketed
  <2> QED
    BY <1>1, <2>1, LeasedFrame DEF Before, Inv, Accounts, Moved
<1>4. Covered'
  BY <1>2, ArbiterType DEF Covered, LoadPublish, arbiters
<1>5. Adopted'
  <2>1. Publishing(t)'
    BY <1>1, <1>2 DEF Publishing, Moved
  <2> QED
    BY <1>2, <2>1 DEF Adopted
<1>6. Confirmed'
  <2>1. \A u \in Worker \ {t} : job'[u] = None
    BY <1>1, <1>2, CallsExcludeNext DEF Before, Inv, OneCall, Worker, Moved
  <2>2. ConfirmedBy(t)'
    BY <1>1, <1>2 DEF ConfirmedBy, At, Moved, LoadPublish
  <2> QED
    BY <2>1, <2>2 DEF Confirmed, ConfirmedBy, At
<1> QED
  BY <1>3, <1>4, <1>5, <1>6 DEF Accounts

\* What a failed load leaves is not published.
LEMMA LoadFailsLeases ==
  ASSUME OneManual, Before, NEW t \in Thread, NEW quiet \in BOOLEAN, LoadFails(t, quiet)
  PROVE  Accounts'
<1>1. job[t] # None /\ job[t].at = "loading" /\ Moved(t) /\ job'[t].at = "abort"
  BY RaiseEffect DEF Before, Inv, Calls, LoadFails, At, Points
<1>2. loaded = None /\ state \notin Loaded
  BY <1>1 DEF Before, Inv, Shared, Ownership, Between, AtPoints, Knows, At
<1>3. Minds(t)
  BY LeaseSame DEF LoadFails, arbiters
<1>4. t \in Worker => LeasedBy(t)'
  BY <1>1 DEF Before, Accounts, Leased, LeasedBy, Moved, StartPoints, ArbiterOf, Bracketed,
     LoadFails, arbiters
<1>5. state' \notin Loaded
  BY <1>2 DEF LoadFails, coordinator
<1> QED
  BY <1>1, <1>2, <1>3, <1>4, <1>5, AccountsDown DEF Before, Inv, Moved, Began, Ended

\* The container that is only prepared is given up with its lease,
LEMMA StartSucceedsPreparedLeases ==
  ASSUME OneManual, Before, NEW t \in Thread, StartSucceeds(t), job[t].op = "prepare"
  PROVE  Accounts'
<1>1. job[t] # None /\ Ended(t) /\ job[t] \in Job /\ job[t].service \in Service
  BY EndEffect DEF Before, Inv, Calls, JobTyped, Job, StartSucceeds, At
<1>2. lock[ArbiterOf(t)] = t
  BY <1>1, StartFacts DEF Before, Inv, StartSucceeds, At, StartPoints
<1>3. loaded = None
  BY <1>1 DEF Before, Inv, Between, AtPoints, Knows
<1>4. Minds(t)
  BY <1>1, <1>2, VacateMinds DEF Before, Inv, StartSucceeds
<1>5. t \in Worker => LeasedBy(t)'
  BY <1>1 DEF LeasedBy, Ended
<1>6. state' \notin Loaded
  BY <1>3 DEF Before, Inv, Shared, Ownership, StartSucceeds, coordinator
<1> QED
  BY <1>1, <1>2, <1>3, <1>4, <1>5, <1>6, AccountsDown DEF Before, Inv, Moved, Began, Ended

\* and the one that is loaded is adopted.
LEMMA StartSucceedsLoadedLeases ==
  ASSUME OneManual, Before, NEW t \in Thread, StartSucceeds(t), job[t].op # "prepare"
  PROVE  Accounts'
<1>1. job[t] # None /\ Ended(t) /\ job[t] \in Job /\ job[t].service \in Service
  BY EndEffect DEF Before, Inv, Calls, JobTyped, Job, StartSucceeds, At
<1>2. job[t].owner = OwnerOf(job[t].alias)
  BY <1>1, StartFacts DEF Before, Inv, Calls, JobsFormed, Formed, WellFormed, StartSucceeds, At,
     StartPoints
<1>3. t \in Worker
  BY <1>1, StartFacts DEF Before, Inv, StartSucceeds, At, StartPoints, Worker, Thread
<1>4. state \in Loaded => job[t].pair = contract /\ job[t].alias = loaded
  BY <1>3, <1>1, StartFacts DEF Before, Inv, Accounts, Confirmed, ConfirmedBy, StartSucceeds,
     At, StartPoints
<1>5. Minds(t)
  BY LeaseSame DEF StartSucceeds
<1>6. t \in Worker => LeasedBy(t)'
  BY <1>1 DEF LeasedBy, Ended
<1>7. Keeps(t)
  <2>1. state \in Loaded => PairOf(loaded)' = contract
    BY <1>2, <1>4 DEF StartSucceeds, Adopt, OwnerOf, PairOf, coordinator
  <2> QED
    BY <1>1, <2>1 DEF Keeps, Publishing, ConfirmedBy, At, Ended, StartSucceeds, coordinator, world
<1> QED
  BY <1>1, <1>2, <1>3, <1>4, <1>5, <1>6, <1>7, AccountsFrame DEF Before, Inv, Moved, Began, Ended

\* One that is cancelled goes on to abort.
LEMMA StartCancelledLeases ==
  ASSUME OneManual, Before, NEW t \in Thread, StartCancelled(t)
  PROVE  Accounts'
<1>1. job[t] # None /\ job[t].at = "confirm" /\ Moved(t) /\ job'[t].at = "abort"
  BY GotoEffect DEF Before, Inv, Calls, StartCancelled, At, Points
<1>2. Minds(t)
  BY LeaseSame DEF StartCancelled, arbiters
<1>3. t \in Worker => LeasedBy(t)'
  BY <1>1 DEF Before, Accounts, Leased, LeasedBy, Moved, StartPoints, ArbiterOf, Bracketed,
     StartCancelled, arbiters
<1>4. Keeps(t)
  BY <1>1 DEF Keeps, Publishing, ConfirmedBy, At, PairOf, Moved, StartCancelled, coordinator,
     world, arbiters, managers
<1> QED
  BY <1>1, <1>2, <1>3, <1>4, AccountsFrame DEF Before, Inv, Moved, Began, Ended

\* An aborted start gives its lease up once nothing is owned,
LEMMA AbortNothingLeases ==
  ASSUME OneManual, Before, NEW t \in Thread, AbortNothing(t)
  PROVE  Accounts'
<1>1. job[t] # None /\ job[t].at = "abort" /\ Moved(t) /\ job'[t].at = "lateMark"
  BY GotoEffect DEF Before, Inv, Calls, AbortNothing, At, Points, LeaveStart
<1>2. job[t] \in Job /\ lock[ArbiterOf(t)] = t
  BY <1>1, StartFacts DEF Before, Inv, StartPoints
<1>3. Minds(t)
  BY <1>1, <1>2, VacateMinds DEF Before, Inv, AbortNothing, Job
<1>4. t \in Worker => LeasedBy(t)'
  BY <1>1, StartFacts DEF Before, Inv, LeasedBy, Moved, StartPoints
<1>5. state' \notin Loaded
  BY LoadedAlias DEF Before, Inv, AbortNothing, Shared, Ownership, coordinator
<1> QED
  BY <1>1, <1>2, <1>3, <1>4, <1>5, AccountsDown DEF Before, Inv, Moved, Began, Ended

\* drains what is,
LEMMA AbortLeases ==
  ASSUME OneManual, Before, NEW t \in Thread, Abort(t)
  PROVE  Accounts'
<1>1. job[t] # None /\ job[t].at = "abort" /\ Moved(t) /\ job'[t].at = "aborting"
  BY GotoEffect DEF Before, Inv, Calls, Abort, At, Points
<1>2. Minds(t)
  BY LeaseSame DEF Abort, arbiters
<1>3. t \in Worker => LeasedBy(t)'
  BY <1>1 DEF Before, Accounts, Leased, LeasedBy, Moved, StartPoints, ArbiterOf, Bracketed,
     Abort, arbiters
<1>4. state' \notin Loaded
  BY DEF Abort, Loaded
<1> QED
  BY <1>1, <1>2, <1>3, <1>4, AccountsDown DEF Before, Inv, Moved, Began, Ended

\* and gives it up once that is stopped,
LEMMA AbortStopsLeases ==
  ASSUME OneManual, Before, NEW t \in Thread, AbortStops(t)
  PROVE  Accounts'
<1>1. job[t] # None /\ job[t].at = "aborting" /\ Moved(t) /\ job'[t].at = "lateMark"
  BY GotoEffect DEF Before, Inv, Calls, AbortStops, At, Points, LeaveStart
<1>2. job[t] \in Job /\ lock[ArbiterOf(t)] = t
  BY <1>1, StartFacts DEF Before, Inv, StartPoints
<1>3. Minds(t)
  BY <1>1, <1>2, VacateMinds DEF Before, Inv, AbortStops, Job
<1>4. t \in Worker => LeasedBy(t)'
  BY <1>1, StartFacts DEF Before, Inv, LeasedBy, Moved, StartPoints
<1>5. state' \notin Loaded
  BY DEF AbortStops, StoppedAndCleared, Clear, Loaded
<1> QED
  BY <1>1, <1>2, <1>3, <1>4, <1>5, AccountsDown DEF Before, Inv, Moved, Began, Ended

\* or keeps it where that failed.
LEMMA AbortStopFailsLeases ==
  ASSUME OneManual, Before, NEW t \in Thread, AbortStopFails(t)
  PROVE  Accounts'
<1>1. job[t] # None /\ job[t].at = "aborting" /\ Moved(t) /\ job'[t].at = "lateMark"
  BY GotoEffect DEF Before, Inv, Calls, AbortStopFails, At, Points, LeaveStart
<1>2. Minds(t)
  BY LeaseSame DEF AbortStopFails, Retain
<1>3. t \in Worker => LeasedBy(t)'
  BY <1>1, StartFacts DEF Before, Inv, LeasedBy, Moved, StartPoints
<1>4. state' \notin Loaded
  BY DEF AbortStopFails, Mark, Loaded
<1> QED
  BY <1>1, <1>2, <1>3, <1>4, AccountsDown DEF Before, Inv, Moved, Began, Ended

LEMMA AbortTimesOutLeases ==
  ASSUME OneManual, Before, NEW t \in Thread, AbortTimesOut(t)
  PROVE  Accounts'
<1>1. job[t] # None /\ job[t].at = "aborting" /\ Moved(t) /\ job'[t].at = "outer"
  BY GotoEffect DEF Before, Inv, Calls, AbortTimesOut, At, Points, LeaveStart
<1>2. Minds(t)
  BY LeaseSame DEF AbortTimesOut, Retain
<1>3. t \in Worker => LeasedBy(t)'
  BY <1>1, StartFacts DEF Before, Inv, LeasedBy, Moved, StartPoints
<1>4. Keeps(t)
  BY <1>1 DEF Keeps, Publishing, ConfirmedBy, At, PairOf, Moved, AbortTimesOut, Retain,
     LeaveStart, coordinator, world, managers
<1> QED
  BY <1>1, <1>2, <1>3, <1>4, AccountsFrame DEF Before, Inv, Moved, Began, Ended

\* The late mark leaves the leases alone, and so does the look before it.
LEMMA LateLookLeases ==
  ASSUME OneManual, Before, NEW t \in Thread, LateLook(t)
  PROVE  Accounts'
<1>1. job[t] # None /\ job[t].at = "lateMark" /\ Moved(t) /\ job'[t].at \in {"lateMarking", "outer"}
  BY GotoEffect DEF Before, Inv, Calls, LateLook, At, Points
<1>2. job[t].op \in {"load", "prepare"}
  BY <1>1 DEF Before, Inv, Calls, JobTyped, Job, JobsFormed, Formed, WellFormed, FinishPoints
<1>3. Minds(t)
  BY LeaseSame DEF LateLook, arbiters
<1>4. LeasedBy(t)'
  BY <1>1, <1>2 DEF LeasedBy, Moved, StartPoints
<1>5. Keeps(t)
  BY <1>1 DEF Keeps, Publishing, ConfirmedBy, At, PairOf, Moved, LateLook, coordinator, world,
     arbiters, managers
<1> QED
  BY <1>1, <1>3, <1>4, <1>5, AccountsFrame DEF Before, Inv, Moved

LEMMA LateMarkLeases ==
  ASSUME OneManual, Before, NEW t \in Thread, LateMark(t)
  PROVE  Accounts'
<1>1. job[t] # None /\ job[t].at = "lateMarking" /\ Moved(t) /\ job'[t].at = "outer"
  BY GotoEffect DEF Before, Inv, Calls, LateMark, At, Points
<1>2. job[t].op \in {"load", "prepare"}
  BY <1>1 DEF Before, Inv, Calls, JobTyped, Job, JobsFormed, Formed, WellFormed, FinishPoints
<1>3. Minds(t)
  BY LeaseSame DEF LateMark, arbiters
<1>4. LeasedBy(t)'
  BY <1>1, <1>2 DEF LeasedBy, Moved, StartPoints
<1>5. state' \notin Loaded
  BY DEF LateMark, Mark, Loaded
<1> QED
  BY <1>1, <1>3, <1>4, <1>5, AccountsDown DEF Before, Inv, Moved

\* A finish takes no lease from another's model.
LEMMA ShutdownLeases ==
  ASSUME OneManual, Before, NEW t \in Thread, NEW m \in Managers, NEW s \in Service, NEW stop
         \in BOOLEAN, NEW foreign \in BOOLEAN, Shutdown(t, m, s, stop, foreign)
  PROVE  Accounts'
<1>1. Began(t, "finish", FinishPoint(stop), m, s, loaded, contract, stop)
  BY FinishEffect DEF Before, Inv, Calls, Shared, Owners, ManagersTyped, Shutdown, Managers,
     Alias, Service
<1>2. job[t] = None
  BY DEF Shutdown
<1>3. Minds(t)
  BY TakeLeaseMinds DEF Before, Inv, Shutdown
<1>4. t \in Worker => LeasedBy(t)'
  BY <1>1 DEF LeasedBy, Began
<1>5. Keeps(t)
  BY <1>1, <1>2, ReturnsEmpty, LoadedAlias, TakeLeaseMinds DEF Before, Inv, Keeps, Publishing,
     ConfirmedBy, At, PairOf, Began, Shutdown, coordinator, world, managers
<1> QED
  BY <1>1, <1>2, <1>3, <1>4, <1>5, AccountsFrame DEF Before, Inv, Moved, Began, Ended

LEMMA ChangePairLeases ==
  ASSUME OneManual, Before, NEW t \in Thread, NEW p \in Pair, ChangePair(t, p)
  PROVE  Accounts'
<1>1. Began(t, "finish", FinishPoint(TRUE), "ocr", IF loaded = Gemma THEN Gemma ELSE ocrPair,
          loaded, contract, TRUE)
  BY FinishEffect DEF Before, Inv, Calls, Shared, Owners, ManagersTyped, ChangePair, Managers,
     Alias, Service
<1>2. job[t] = None
  BY DEF ChangePair, MayCall
<1>3. Minds(t)
  BY LeaseSame DEF ChangePair, arbiters
<1>4. t \in Worker => LeasedBy(t)'
  BY <1>1 DEF LeasedBy, Began
<1>5. Keeps(t)
  BY <1>1, <1>2, ReturnsEmpty DEF Keeps, Publishing, ConfirmedBy, At, PairOf, Began, ChangePair,
     coordinator, world, arbiters, managers
<1> QED
  BY <1>1, <1>2, <1>3, <1>4, <1>5, AccountsFrame DEF Before, Inv, Moved, Began, Ended

\* A change of pair in a start has the lease of the new one.
LEMMA ChangePairInStartLeases ==
  ASSUME OneManual, Before, NEW t \in Thread, NEW p \in Pair, ChangePairInStart(t, p)
  PROVE  Accounts'
<1>1. Others(t) /\ job'[t] # None /\ job'[t].op = "change" /\ job'[t].service = p
  <2>1. FinishPoint(TRUE) \in Points /\ contract \in Pair \cup {None} /\ p \in Service /\ JobTyped
    BY FinishPointType DEF Before, Inv, Points, Shared, CoordinatorTyped, Service, Alias, Calls
  <2> QED
    BY <2>1, BeginEffect DEF ChangePairInStart, Began, Managers
<1>2. TakeLease(t, p) /\ lease[ArbiterOf(t)] \in {None, p} /\ p \in Service
  BY DEF ChangePairInStart, CanStart, Alias, Service
<1>3. Minds(t)
  BY <1>2, TakeLeaseMinds DEF Before, Inv
<1>4. t \in Worker => LeasedBy(t)'
  BY <1>1, <1>2, TakeLeaseMinds DEF Before, Inv, LeasedBy, ArbiterOf, Bracketed
<1>5. state' \notin Loaded
  BY DEF ChangePairInStart, Before, Inv, Shared, Ownership, coordinator
<1> QED
  BY <1>1, <1>2, <1>3, <1>4, <1>5, AccountsDown DEF Before, Inv, Moved, Began, Ended

\* The closing window's calls begin without a lease.
LEMMA CloseAppLeases ==
  ASSUME OneManual, Before, NEW t \in Thread, CloseApp(t)
  PROVE  Accounts'
<1>1. t \notin Worker
  BY DEF CloseApp, Worker
<1>2. Others(t) /\ job'[t] # None /\ job'[t].op = "finish"
  BY FinishEffect DEF Before, Inv, Calls, Shared, CloseApp, Began, Service
<1>3. Minds(t)
  BY LeaseSame DEF CloseApp, arbiters
<1> QED
  BY <1>1, <1>2, <1>3, ClosingFrame DEF Before, Inv, CloseApp, coordinator, world, arbiters,
     managers

LEMMA CloseManagerLeases ==
  ASSUME OneManual, Before, NEW t \in Thread, NEW m \in Managers, CloseManager(t, m)
  PROVE  Accounts'
<1>1. t \notin Worker
  BY DEF CloseManager, Worker
<1>2. CASE Active(m)
  <2>1. (IF m = "ocr" THEN ocrPair ELSE Gemma) \in Service
    BY <1>2 DEF Active, Before, Inv, Owners, ManagersTyped, Managers, Alias, Service
  <2>2. Others(t)
    BY <1>2, <2>1, FinishEffect DEF Before, Inv, Calls, Shared, CloseManager, Began, Managers
  <2> QED
    BY <1>1, <2>2, ClosingFrame DEF Before, Inv, CloseManager, coordinator, world, arbiters,
       managers
<1>3. CASE ~Active(m)
  BY <1>3, AccountsSame DEF Before, CloseManager, coordinator, world, arbiters, managers
<1> QED
  BY <1>2, <1>3

\* A lease is given up for a manager only if it has not adopted what is loaded.
LEMMA ShutdownInactiveForeign ==
  ASSUME OneManual, Before, NEW t \in Thread, NEW m \in Managers, NEW s \in Service, NEW stop
         \in BOOLEAN, NEW foreign \in BOOLEAN, ShutdownInactive(t, m, s, stop, foreign)
  PROVE  /\ t \in Batch /\ s \in Service /\ ArbiterOf(t) = "stage"
         /\ state \in Loaded => loaded # s /\ loaded \in Alias /\ OwnerOf(loaded) # m
<1>1. t \in Batch /\ t \in Thread /\ s \in Service /\ (s \in Alias => m = OwnerOf(s)) /\ s # App
  BY DEF ShutdownInactive, MayShutDown, Managers, OwnerOf, Alias, Service, Thread
<1>2. \A u \in Worker : ~Publishing(u)
  <2> SUFFICES ASSUME NEW u \in Worker, Publishing(u)
               PROVE  FALSE
    OBVIOUS
  <2>1. u \in Thread /\ lock[ArbiterOf(u)] = u /\ u # None
    BY StartFacts DEF Before, Inv, Publishing, Worker, Thread, StartPoints
  <2>2. u \in Batch
    BY <1>1 DEF Before, Inv, Calls, Modes, Publishing, Worker, ShutdownInactive, MayShutDown,
       Rounds
  <2> QED
    BY <2>1, <2>2 DEF ShutdownInactive, ArbiterOf, Bracketed
<1>3. state \in Loaded => loaded # s /\ loaded \in Alias /\ OwnerOf(loaded) # m
  <2>1. state \in Loaded => PairOf(loaded) = contract /\ contract # None /\ loaded # None
    BY <1>2, LoadedAlias DEF Before, Inv, Shared, Ownership, Accounts, Adopted
  <2> QED
    BY <1>1, <2>1, LoadedAlias DEF Before, Inv, ShutdownInactive, Active, PairOf, OwnerOf
<1> QED
  BY <1>1, <1>3 DEF ArbiterOf, Bracketed

LEMMA ShutdownInactiveLeases ==
  ASSUME OneManual, Before, NEW t \in Thread, NEW m \in Managers, NEW s \in Service, NEW stop
         \in BOOLEAN, NEW foreign \in BOOLEAN, ShutdownInactive(t, m, s, stop, foreign)
  PROVE  Accounts'
<1>1. t \in Batch /\ s \in Service /\ ArbiterOf(t) = "stage" /\ (state \in Loaded => loaded # s)
  BY ShutdownInactiveForeign
<1>2. Minds(t) /\ \A x \in Alias \ {s} : \A a \in Arbiter : lease[a] = x => lease'[a] = x
  BY <1>1, VacateMinds DEF Before, Inv, ShutdownInactive
<1>3. Others(t) /\ job[t] = None /\ job'[t] = None
  BY DEF ShutdownInactive, Before, Inv, Calls, JobTyped, Others
<1>4. LeasedBy(t)'
  BY <1>3 DEF LeasedBy
<1>5. Keeps(t)
  BY <1>1, <1>2, <1>3, LoadedAlias DEF Before, Inv, Keeps, Publishing, ConfirmedBy, At, PairOf,
     ShutdownInactive, coordinator, world, managers
<1> QED
  BY <1>2, <1>3, <1>4, <1>5, AccountsFrame DEF Before, Inv

LEMMA ShutdownConflictLeases ==
  ASSUME OneManual, Before, NEW t \in Thread, NEW m \in Managers, NEW s \in Service, NEW stop
         \in BOOLEAN, ShutdownConflict(t, m, s, stop)
  PROVE  Accounts'
  BY AccountsSame DEF Before, ShutdownConflict, coordinator, world, arbiters, managers

\* A release that begins, or is refused, takes at most a lease that is free.
LEMMA UnloadLeases ==
  ASSUME OneManual, Before, NEW t \in Thread, Unload(t)
  PROVE  Accounts'
<1>1. job[t] # None /\ job[t].at = "unload" /\ Moved(t) /\ job'[t].at = "drain"
  BY GotoEffect DEF Before, Inv, Calls, Unload, At, Points
<1>2. job[t] \in Job /\ job[t].op \in {"finish", "change"} /\ job[t].service \in Service
  BY <1>1, FinishFacts DEF Before, Inv, FinishPoints, Job
<1>3. Minds(t) /\ \A x \in Alias : \A a \in Arbiter : lease[a] = x => lease'[a] = x
  BY <1>2, TakeLeaseMinds DEF Before, Inv, Unload, EnterRelease
<1>4. t \in Worker => LeasedBy(t)'
  <2>1. job[t].op = "change" => job[t].service \in Pair
    BY <1>1, FinishFacts DEF Before, Inv, FinishPoints
  <2> QED
    BY <1>1, <1>2, <1>3, <2>1, ChangeKeeps DEF Before, FinishPoints
<1>5. state' \notin Loaded
  BY DEF Unload, Loaded
<1> QED
  BY <1>1, <1>3, <1>4, <1>5, AccountsDown DEF Before, Inv, Moved

LEMMA RefusedLeases ==
  ASSUME OneManual, Before, NEW t \in Thread, Refused(t)
  PROVE  Accounts'
<1>1. job[t] # None /\ job[t].at \in {"unload", "force", "stopEmpty"} /\ Moved(t)
          /\ job'[t].at = "mark"
  BY GotoEffect DEF Before, Inv, Calls, Refused, At, Points
<1>2. job[t] \in Job /\ job[t].op \in {"finish", "change"} /\ job[t].service \in Service
  BY <1>1, FinishFacts DEF Before, Inv, FinishPoints, Job
<1>3. Minds(t) /\ \A x \in Alias : \A a \in Arbiter : lease[a] = x => lease'[a] = x
  <2>1. /\ lock[ArbiterOf(t)] \in {None, t}
        /\ lease' = [lease EXCEPT ![ArbiterOf(t)] = IF @ = None THEN job[t].service ELSE @]
        /\ lease \in [Arbiter -> Service \cup {None}]
    BY DEF Refused, Before, Inv, Arbiters, LeaseTyped
  <2>2. None \notin Alias
    BY DEF Service
  <2> QED
    BY <2>1, <2>2, ArbiterType DEF Minds
<1>4. t \in Worker => LeasedBy(t)'
  <2>1. job[t].op = "change" => job[t].service \in Pair
    BY <1>1, FinishFacts DEF Before, Inv, FinishPoints
  <2> QED
    BY <1>1, <1>2, <1>3, <2>1, ChangeKeeps DEF Before, FinishPoints
<1>5. Keeps(t)
  BY <1>1, <1>3, LoadedAlias DEF Before, Inv, Keeps, Publishing, ConfirmedBy, At, PairOf, Moved,
     Refused, coordinator, world, managers
<1> QED
  BY <1>1, <1>3, <1>4, <1>5, AccountsFrame DEF Before, Inv, Moved

LEMMA ConflictLeases ==
  ASSUME OneManual, Before, NEW t \in Thread, Conflict(t)
  PROVE  Accounts'
<1>1. job[t] # None /\ job[t].at \in {"unload", "force", "stopEmpty"} /\ Moved(t)
          /\ job'[t].at = "mark"
  BY GotoEffect DEF Before, Inv, Calls, Conflict, At, Points
<1>2. job[t] \in Job /\ job[t].op \in {"finish", "change"} /\ job[t].service \in Service
  BY <1>1, FinishFacts DEF Before, Inv, FinishPoints, Job
<1>3. Minds(t) /\ \A x \in Alias : \A a \in Arbiter : lease[a] = x => lease'[a] = x
  BY LeaseSame DEF Conflict, arbiters
<1>4. t \in Worker => LeasedBy(t)'
  <2>1. job[t].op = "change" => job[t].service \in Pair
    BY <1>1, FinishFacts DEF Before, Inv, FinishPoints
  <2> QED
    BY <1>1, <1>2, <1>3, <2>1, ChangeKeeps DEF Before, FinishPoints
<1>5. Keeps(t)
  BY <1>1, <1>3, LoadedAlias DEF Before, Inv, Keeps, Publishing, ConfirmedBy, At, PairOf, Moved,
     Conflict, coordinator, world, managers
<1> QED
  BY <1>1, <1>3, <1>4, <1>5, AccountsFrame DEF Before, Inv, Moved

LEMMA ForceStopLeases ==
  ASSUME OneManual, Before, NEW t \in Thread, ForceStop(t)
  PROVE  Accounts'
<1>1. job[t] # None /\ job[t].at \in {"force", "stopEmpty"} /\ Moved(t) /\ job'[t].at = "stopping"
  BY GotoEffect DEF Before, Inv, Calls, ForceStop, At, Points
<1>2. job[t] \in Job /\ job[t].op \in {"finish", "change"} /\ job[t].service \in Service
  BY <1>1, FinishFacts DEF Before, Inv, FinishPoints, Job
<1>3. Minds(t) /\ \A x \in Alias : \A a \in Arbiter : lease[a] = x => lease'[a] = x
  BY <1>2, TakeLeaseMinds DEF Before, Inv, ForceStop, EnterRelease
<1>4. t \in Worker => LeasedBy(t)'
  <2>1. job[t].op = "change" => job[t].service \in Pair
    BY <1>1, FinishFacts DEF Before, Inv, FinishPoints
  <2> QED
    BY <1>1, <1>2, <1>3, <2>1, ChangeKeeps DEF Before, FinishPoints
<1>5. Keeps(t)
  BY <1>1, <1>3, LoadedAlias DEF Before, Inv, Keeps, Publishing, ConfirmedBy, At, PairOf, Moved,
     ForceStop, coordinator, world, managers
<1> QED
  BY <1>1, <1>3, <1>4, <1>5, AccountsFrame DEF Before, Inv, Moved

\* A mark leaves the leases alone.
LEMMA MarkFailedLeases ==
  ASSUME OneManual, Before, NEW t \in Thread, MarkFailed(t)
  PROVE  Accounts'
<1>1. job[t] # None /\ job[t].at = "mark" /\ Moved(t) /\ job'[t].at = "raise"
  BY GotoEffect DEF Before, Inv, Calls, MarkFailed, At, Points
<1>2. job[t] \in Job /\ job[t].op \in {"finish", "change"} /\ job[t].service \in Service
  BY <1>1, FinishFacts DEF Before, Inv, FinishPoints, Job
<1>3. Minds(t) /\ \A x \in Alias : \A a \in Arbiter : lease[a] = x => lease'[a] = x
  BY LeaseSame DEF MarkFailed, arbiters
<1>4. t \in Worker => LeasedBy(t)'
  <2>1. job[t].op = "change" => job[t].service \in Pair
    BY <1>1, FinishFacts DEF Before, Inv, FinishPoints
  <2> QED
    BY <1>1, <1>2, <1>3, <2>1, ChangeKeeps DEF Before, FinishPoints
<1>5. state' \notin Loaded
  BY DEF MarkFailed, Mark, Loaded
<1> QED
  BY <1>1, <1>3, <1>4, <1>5, AccountsDown DEF Before, Inv, Moved

\* One that failed gives no lease up.
LEMMA UnloadFailsLeases ==
  ASSUME OneManual, Before, NEW t \in Thread, UnloadFails(t)
  PROVE  Accounts'
<1>1. job[t] # None /\ job[t].at = "drain" /\ Moved(t) /\ job'[t].at = "mark"
  BY GotoEffect DEF Before, Inv, Calls, UnloadFails, At, Points, ReleaseFails
<1>2. job[t] \in Job /\ job[t].op \in {"finish", "change"} /\ job[t].service \in Service
  BY <1>1, FinishFacts DEF Before, Inv, FinishPoints, Job
<1>3. Minds(t) /\ \A x \in Alias : \A a \in Arbiter : lease[a] = x => lease'[a] = x
  BY LeaseSame DEF UnloadFails, ReleaseFails, Retain
<1>4. t \in Worker => LeasedBy(t)'
  <2>1. job[t].op = "change" => job[t].service \in Pair
    BY <1>1, FinishFacts DEF Before, Inv, FinishPoints
  <2> QED
    BY <1>1, <1>2, <1>3, <2>1, ChangeKeeps DEF Before, FinishPoints
<1>5. Keeps(t)
  <2>1. resident' \subseteq resident
    BY DEF UnloadFails, Stopped, world
  <2> QED
    BY <1>1, <1>3, <2>1, LoadedAlias DEF Before, Inv, Keeps, Publishing, ConfirmedBy, At,
       PairOf, Moved, UnloadFails, ReleaseFails, coordinator, managers
<1> QED
  BY <1>1, <1>3, <1>4, <1>5, AccountsFrame DEF Before, Inv, Moved

LEMMA ForceStopFailsLeases ==
  ASSUME OneManual, Before, NEW t \in Thread, ForceStopFails(t)
  PROVE  Accounts'
<1>1. job[t] # None /\ job[t].at = "stopping" /\ Moved(t) /\ job'[t].at = "mark"
  BY GotoEffect DEF Before, Inv, Calls, ForceStopFails, At, Points, ReleaseFails
<1>2. job[t] \in Job /\ job[t].op \in {"finish", "change"} /\ job[t].service \in Service
  BY <1>1, FinishFacts DEF Before, Inv, FinishPoints, Job
<1>3. Minds(t) /\ \A x \in Alias : \A a \in Arbiter : lease[a] = x => lease'[a] = x
  BY LeaseSame DEF ForceStopFails, ReleaseFails, Retain
<1>4. t \in Worker => LeasedBy(t)'
  <2>1. job[t].op = "change" => job[t].service \in Pair
    BY <1>1, FinishFacts DEF Before, Inv, FinishPoints
  <2> QED
    BY <1>1, <1>2, <1>3, <2>1, ChangeKeeps DEF Before, FinishPoints
<1>5. Keeps(t)
  <2>1. resident' \subseteq resident
    BY DEF ForceStopFails, StoppedOrNot, Stopped, world
  <2> QED
    BY <1>1, <1>3, <2>1, LoadedAlias DEF Before, Inv, Keeps, Publishing, ConfirmedBy, At,
       PairOf, Moved, ForceStopFails, ReleaseFails, coordinator, managers
<1> QED
  BY <1>1, <1>3, <1>4, <1>5, AccountsFrame DEF Before, Inv, Moved

\* One that worked gives its own up, when nothing is loaded any more.
LEMMA UnloadedLeases ==
  ASSUME OneManual, Before, NEW t \in Thread, Unloaded(t)
  PROVE  Accounts'
<1>1. job[t] # None /\ job[t].at = "drain" /\ ReleaseEnds(t)
  BY DEF Unloaded, At
<1>2. Others(t) /\ Minds(t) /\ (t \in Worker => LeasedBy(t)')
  BY <1>1, ReleaseEndsLease DEF Before, Inv
<1>3. state' \notin Loaded
  BY DEF Unloaded, StoppedAndCleared, Clear, Loaded
<1> QED
  BY <1>2, <1>3, AccountsDown DEF Before, Inv

LEMMA ForceStoppedLeases ==
  ASSUME OneManual, Before, NEW t \in Thread, ForceStopped(t)
  PROVE  Accounts'
<1>1. job[t] # None /\ job[t].at = "stopping" /\ ReleaseEnds(t)
  BY DEF ForceStopped, At
<1>2. Others(t) /\ Minds(t) /\ (t \in Worker => LeasedBy(t)')
  BY <1>1, ReleaseEndsLease DEF Before, Inv
<1>3. state' \notin Loaded
  BY DEF ForceStopped, StoppedAndCleared, Clear, Loaded
<1> QED
  BY <1>2, <1>3, AccountsDown DEF Before, Inv

\* A finish that raised leaves its lease to the next,
LEMMA FinishRaisesEndsLeases ==
  ASSUME OneManual, Before, NEW t \in Thread, FinishRaises(t), ~InOuterStart(t)
  PROVE  Accounts'
<1>1. job[t] # None /\ Ended(t) /\ job[t] \in Job /\ job[t].service \in Service
  BY EndEffect DEF Before, Inv, Calls, JobTyped, Job, FinishRaises, At
<1>2. Minds(t)
  BY LeaseSame DEF FinishRaises, arbiters, Retain, InOuterStart, Bracketed
<1>3. LeasedBy(t)'
  BY <1>1 DEF LeasedBy, Ended
<1>4. Keeps(t)
  BY <1>1, <1>2 DEF Keeps, Publishing, ConfirmedBy, At, PairOf, Ended, FinishRaises, Retain,
     InOuterStart, Bracketed, coordinator, world, arbiters, managers
<1> QED
  BY <1>1, <1>2, <1>3, <1>4, AccountsFrame DEF Before, Inv, Ended

LEMMA FinishRaisesOutLeases ==
  ASSUME OneManual, Before, NEW t \in Thread, FinishRaises(t), InOuterStart(t)
  PROVE  Accounts'
<1>1. job[t] # None /\ job[t].at = "raise" /\ Moved(t) /\ job'[t].at = "outer"
  BY GotoEffect DEF Before, Inv, Calls, FinishRaises, At, Points
<1>2. job[t] \in Job /\ job[t].op \in {"finish", "change"} /\ job[t].service \in Service
  BY <1>1, FinishFacts DEF Before, Inv, FinishPoints, Job
<1>3. Minds(t)
  BY LeaseSame DEF FinishRaises, arbiters, Retain
<1>4. LeasedBy(t)'
  BY <1>1, <1>2 DEF LeasedBy, Moved
<1>5. Keeps(t)
  BY <1>1, <1>2 DEF Keeps, Publishing, ConfirmedBy, At, PairOf, Moved, FinishRaises,
     coordinator, world, arbiters, managers
<1> QED
  BY <1>1, <1>3, <1>4, <1>5, AccountsFrame DEF Before, Inv, Moved

\* and one that had nothing to do gives it up.
LEMMA FinishReturnsWorkerLeases ==
  ASSUME OneManual, Before, NEW t \in Thread, FinishReturns(t), t \in Worker
  PROVE  Accounts'
<1>1. job[t] # None /\ job[t].at = "return"
  BY DEF FinishReturns, At
<1>2. job[t] \in Job /\ job[t].op \in {"finish", "change"} /\ job[t].service \in Service
  BY <1>1, FinishFacts DEF Before, Inv, FinishPoints, Job
<1>3. state \notin Loaded
  BY <1>1 DEF Before, Accounts, Confirmed, ConfirmedBy, At
<1>4. CASE job[t].op = "change"
  <2>1. ContinueStart(t)
    BY <1>4 DEF FinishReturns
  <2>2. Others(t) /\ Minds(t) /\ LeasedBy(t)'
    BY <1>1, <1>4, <2>1, ContinueLease DEF Before, Inv, Accounts, Leased, LeasedBy
  <2> QED
    BY <1>3, <2>2, AccountsDown DEF Before, Inv, FinishReturns, coordinator
<1>5. CASE job[t].op # "change" /\ Bracketed(t)
  <2>1. Vacate(ArbiterOf(t), job[t].service) /\ EndJob(t)
    BY <1>5 DEF FinishReturns, ArbiterOf
  <2>2. lock[ArbiterOf(t)] = t
    BY <1>1, <1>5, FinishFacts DEF Before, Inv, FinishPoints, Bracketed
  <2>3. Minds(t) /\ Ended(t)
    BY <1>2, <2>1, <2>2, VacateMinds, EndEffect DEF Before, Inv, Calls
  <2>4. LeasedBy(t)'
    BY <2>3 DEF LeasedBy, Ended
  <2> QED
    BY <1>3, <2>3, <2>4, AccountsDown DEF Before, Inv, FinishReturns, coordinator, Ended
<1>6. CASE job[t].op # "change" /\ ~Bracketed(t)
  <2>1. UNCHANGED arbiters /\ EndJob(t)
    BY <1>6 DEF FinishReturns
  <2>2. Minds(t) /\ Ended(t)
    BY <2>1, LeaseSame, EndEffect DEF Before, Inv, Calls, arbiters
  <2>3. LeasedBy(t)'
    BY <2>2 DEF LeasedBy, Ended
  <2> QED
    BY <1>3, <2>2, <2>3, AccountsDown DEF Before, Inv, FinishReturns, coordinator, Ended
<1> QED
  BY <1>4, <1>5, <1>6

\* The closing window's stop that returns is no manager's.
LEMMA FinishReturnsClosingLeases ==
  ASSUME OneManual, Before, NEW t \in Thread, FinishReturns(t), t \notin Worker
  PROVE  Accounts'
<1>1. job[t] # None /\ job[t].at = "return" /\ t \in Closing
  BY DEF FinishReturns, At, Worker, Thread
<1>2. job[t].op = "finish" /\ job[t].owner = "app" /\ ~Bracketed(t)
  BY <1>1 DEF Before, Inv, Calls, JobsFormed, Formed, Callers, Bracketed
<1>3. Ended(t) /\ UNCHANGED <<arbiters, managers>>
  BY <1>2, EndEffect DEF Before, Inv, Calls, FinishReturns, Released
<1> QED
  BY <1>3, ClosingFrame DEF Before, Inv, FinishReturns, Ended, coordinator, world, arbiters,
     managers

\* The cleanup around a failed start ends it,
LEMMA OuterCleanupOutsideLeases ==
  ASSUME OneManual, Before, NEW t \in Thread, OuterCleanup(t), ~InOuterStart(t)
  PROVE  Accounts'
<1>1. job[t] # None /\ job[t].at = "outer" /\ job[t] \in Job
  BY DEF OuterCleanup, At, Before, Inv, Calls, JobTyped
<1>2. Ended(t)
  BY EndEffect DEF Before, Inv, Calls, OuterCleanup
<1>3. Minds(t)
  BY LeaseSame DEF OuterCleanup, arbiters
<1>4. LeasedBy(t)'
  BY <1>2 DEF LeasedBy, Ended
<1>5. Keeps(t)
  BY <1>1, <1>2 DEF Keeps, Publishing, ConfirmedBy, At, PairOf, Ended, OuterCleanup,
     coordinator, world, arbiters, managers
<1> QED
  BY <1>2, <1>3, <1>4, <1>5, AccountsFrame DEF Before, Inv, Ended

\* is a finish of its own for a manager that has adopted a live pair,
LEMMA OuterCleanupFinishesLeases ==
  ASSUME OneManual, Before, NEW t \in Thread, OuterCleanup(t), InOuterStart(t),
         Active(job[t].owner)
  PROVE  Accounts'
<1>1. job[t] # None /\ job[t].at = "outer" /\ job[t] \in Job
  BY DEF OuterCleanup, At, Before, Inv, Calls, JobTyped
<1>2. job[t].owner \in Managers \cup {"app"} /\ job[t].service \in Service
  BY <1>1, RoundFacts DEF Before, Inv
<1>3. Began(t, "finish", FinishPoint(TRUE), job[t].owner, job[t].service, loaded, contract, TRUE)
  BY <1>2, FinishEffect DEF Before, Inv, Calls, Shared, OuterCleanup
<1>4. Minds(t)
  BY LeaseSame DEF OuterCleanup, arbiters
<1>5. LeasedBy(t)'
  BY <1>3 DEF LeasedBy, Began
<1>6. Keeps(t)
  BY <1>1, <1>3, ReturnsEmpty DEF Keeps, Publishing, ConfirmedBy, At, PairOf, Began,
     OuterCleanup, coordinator, world, arbiters, managers
<1> QED
  BY <1>3, <1>4, <1>5, <1>6, AccountsFrame DEF Before, Inv, Began

\* and gives the lease up for one that has not.
LEMMA OuterCleanupForeign ==
  ASSUME OneManual, Before, NEW t \in Thread, OuterCleanup(t), InOuterStart(t),
         ~Active(job[t].owner)
  PROVE  /\ job[t] # None /\ job[t] \in Job /\ lock[ArbiterOf(t)] = t /\ job[t].at = "outer"
         /\ state \in Loaded => loaded \in Alias \ {job[t].service}
<1>1. job[t] # None /\ job[t].at = "outer" /\ job[t] \in Job
  BY DEF OuterCleanup, At, Before, Inv, Calls, JobTyped
<1>2. t \in Batch /\ t \in Worker /\ job[t].op \in {"load", "change"} /\ ArbiterOf(t) = "stage"
  BY DEF OuterCleanup, InOuterStart, Bracketed, ArbiterOf, Worker
<1>3. lock[ArbiterOf(t)] = t
  BY <1>1, <1>2 DEF Before, Inv, Calls, Locks, HoldsArbiter
<1>4. job[t].service \in Alias => job[t].owner = OwnerOf(job[t].service)
  <2>1. job[t].op = "load" => job[t].owner = OwnerOf(job[t].service)
    BY <1>1 DEF Before, Inv, Calls, JobsFormed, Formed, WellFormed
  <2>2. job[t].op = "change" => job[t].owner = "ocr" /\ job[t].service \in Pair
    BY <1>1 DEF Before, Inv, Calls, JobsFormed, Formed, WellFormed
  <2> QED
    BY <1>2, <2>1, <2>2 DEF OwnerOf
<1>5. \A u \in Worker : ~Publishing(u)
  <2> SUFFICES ASSUME NEW u \in Worker, Publishing(u)
               PROVE  FALSE
    OBVIOUS
  <2>1. u = t
    BY <1>1, <1>2, CallsExclude DEF Before, Inv, OneCall, Publishing, Worker
  <2> QED
    BY <1>1, <2>1 DEF Publishing
<1>6. state \in Loaded => loaded \in Alias \ {job[t].service}
  <2>1. state \in Loaded => PairOf(loaded) = contract /\ contract # None /\ loaded \in Alias
    BY <1>5, LoadedAlias DEF Before, Inv, Shared, Ownership, Accounts, Adopted
  <2> QED
    BY <1>4, <2>1 DEF Active, PairOf, OwnerOf
<1> QED
  BY <1>1, <1>3, <1>6

LEMMA OuterCleanupLeavesLeases ==
  ASSUME OneManual, Before, NEW t \in Thread, OuterCleanup(t), InOuterStart(t),
         ~Active(job[t].owner)
  PROVE  Accounts'
<1>1. /\ job[t] # None /\ job[t] \in Job /\ lock[ArbiterOf(t)] = t /\ job[t].at = "outer"
      /\ state \in Loaded => loaded \in Alias \ {job[t].service}
  BY OuterCleanupForeign
<1>2. ArbiterOf(t) = "stage"
  BY DEF InOuterStart, ArbiterOf
<1>3. Minds(t) /\ \A x \in Alias \ {job[t].service} : \A a \in Arbiter : lease[a] = x => lease'[a] = x
  BY <1>1, <1>2, VacateMinds DEF Before, Inv, OuterCleanup, Job
<1>4. Ended(t)
  BY EndEffect DEF Before, Inv, Calls, OuterCleanup
<1>5. LeasedBy(t)'
  BY <1>4 DEF LeasedBy, Ended
<1>6. Keeps(t)
  BY <1>1, <1>3, <1>4 DEF Before, Inv, Keeps, Publishing, ConfirmedBy, At,
     PairOf, Ended, OuterCleanup, coordinator, world, managers
<1> QED
  BY <1>3, <1>4, <1>5, <1>6, AccountsFrame DEF Before, Inv, Ended

\* A request is no step of a call.
LEMMA RequestStartLeases ==
  ASSUME OneManual, Before, NEW r \in Request, RequestStart(r)
  PROVE  Accounts'
  BY AccountsSame DEF Before, RequestStart, arbiters, managers

LEMMA RequestEndLeases ==
  ASSUME OneManual, Before, NEW r \in Request, RequestEnd(r)
  PROVE  Accounts'
  BY AccountsSame DEF Before, RequestEnd, arbiters, managers

-----------------------------------------------------------------------------
(* The invariant.                                                           *)

\* The steps of the starts, taken together.
LEMMA StartStepLeases ==
  ASSUME OneManual, Before, NEW t \in Thread, StartStep(t)
  PROVE  Accounts'
<1>1. CASE \E p \in Pair : EnsureOCR(t, p) \/ PrepareContainer(t, p)
  BY <1>1, EnsureOCRLeases, PrepareContainerLeases
<1>2. CASE EnsureGemma(t)
  BY <1>2, EnsureGemmaLeases
<1>3. CASE AdoptMatching(t) \/ \E m \in Managers, p \in Pair : EnsureMatching(t, m, p)
  BY <1>3, EnsureMatchingLeases, AdoptMatchingLeases
<1>4. CASE Prepare(t) \/ StopOld(t) \/ Load(t) \/ LoadPublish(t)
  BY <1>4, PrepareLeases, StopOldLeases, LoadLeases, LoadPublishLeases
<1>5. CASE \E probed \in BOOLEAN : Create(t, probed)
  BY <1>5, CreateLeases
<1>6. CASE \E quiet \in BOOLEAN :
             StopOldFails(t, quiet) \/ CreateFails(t, quiet) \/ LoadFails(t, quiet)
  BY <1>6, StopOldFailsLeases, CreateFailsLeases, LoadFailsLeases
<1>7. CASE StartSucceeds(t) \/ StartCancelled(t)
  BY <1>7, StartSucceedsPreparedLeases, StartSucceedsLoadedLeases, StartCancelledLeases
<1>8. CASE AbortNothing(t) \/ Abort(t) \/ AbortStops(t) \/ AbortStopFails(t) \/ AbortTimesOut(t)
  BY <1>8, AbortNothingLeases, AbortLeases, AbortStopsLeases, AbortStopFailsLeases,
     AbortTimesOutLeases
<1>9. CASE LateLook(t) \/ LateMark(t) \/ OuterCleanup(t)
  BY <1>9, LateLookLeases, LateMarkLeases, OuterCleanupOutsideLeases, OuterCleanupFinishesLeases,
     OuterCleanupLeavesLeases
<1> QED
  BY <1>1, <1>2, <1>3, <1>4, <1>5, <1>6, <1>7, <1>8, <1>9 DEF StartStep

\* And those of the finishes.
LEMMA FinishStepLeases ==
  ASSUME OneManual, Before, NEW t \in Thread, FinishStep(t)
  PROVE  Accounts'
<1>1. CASE \E m \in Managers, s \in Service, foreign \in BOOLEAN : \E stop \in BOOLEAN :
             Shutdown(t, m, s, stop, foreign) \/ ShutdownInactive(t, m, s, stop, foreign)
  BY <1>1, ShutdownLeases, ShutdownInactiveLeases
<1>2. CASE \E m \in Managers, s \in Service, stop \in BOOLEAN : ShutdownConflict(t, m, s, stop)
  BY <1>2, ShutdownConflictLeases
<1>3. CASE \E p \in Pair : ChangePair(t, p) \/ ChangePairInStart(t, p)
  BY <1>3, ChangePairLeases, ChangePairInStartLeases
<1>4. CASE CloseApp(t) \/ \E m \in Managers : CloseManager(t, m)
  BY <1>4, CloseAppLeases, CloseManagerLeases
<1>5. CASE Unload(t) \/ Refused(t) \/ Conflict(t) \/ Unloaded(t) \/ UnloadFails(t)
  BY <1>5, UnloadLeases, RefusedLeases, ConflictLeases, UnloadedLeases, UnloadFailsLeases
<1>6. CASE ForceStop(t) \/ ForceStopped(t) \/ ForceStopFails(t) \/ MarkFailed(t)
  BY <1>6, ForceStopLeases, ForceStoppedLeases, ForceStopFailsLeases, MarkFailedLeases
<1>7. CASE FinishRaises(t)
  BY <1>7, FinishRaisesEndsLeases, FinishRaisesOutLeases
<1>8. CASE FinishReturns(t)
  BY <1>8, FinishReturnsWorkerLeases, FinishReturnsClosingLeases
<1> QED
  BY <1>1, <1>2, <1>3, <1>4, <1>5, <1>6, <1>7, <1>8 DEF FinishStep

\* Every step keeps what the leases account for.
LEMMA NextAccounts ==
  ASSUME OneManual
  PROVE  Inv /\ Accounts /\ [Next]_vars => Accounts'
<1> SUFFICES ASSUME Inv, Accounts, [Next]_vars
             PROVE  Accounts'
  OBVIOUS
<1>1. Before
  BY NextInv DEF Before
<1>2. CASE Application \/ UNCHANGED vars
  BY <1>2, AccountsSame DEF Application, StartManual, EndManual, StartBatch, PreflightPasses,
     StartTeardown, StartRound, EndBatch, Closed, vars, coordinator, world, arbiters, managers
<1>3. CASE Requests
  BY <1>1, <1>3, RequestStartLeases, RequestEndLeases DEF Requests
<1>4. CASE \E t \in Thread : StartStep(t) \/ FinishStep(t)
  BY <1>1, <1>4, StartStepLeases, FinishStepLeases
<1> QED
  BY <1>2, <1>3, <1>4 DEF Next

\* It holds at first.
LEMMA InitAccounts == Init => Accounts
<1> SUFFICES ASSUME Init
             PROVE  Accounts
  OBVIOUS
<1>1. state \notin Loaded /\ resident = {} /\ \A t \in Worker : job[t] = None
  BY DEF Init, Loaded, Worker, Thread
<1> QED
  BY <1>1 DEF Accounts, Leased, LeasedBy, Covered, Adopted, Confirmed, ConfirmedBy, At

\* Between calls a resident model is covered by a lease, or its release is known to be
\* unfinished, even while the window closes.
THEOREM ResidentLeased ==
  ASSUME OneManual
  PROVE  Spec => []ResidentAccounted
<1>1. Init => Inv /\ Accounts
  BY InitInv, InitAccounts
<1>2. Inv /\ Accounts /\ [Next]_vars => Inv' /\ Accounts'
  BY NextInv, NextAccounts
<1>3. Inv /\ Accounts => ResidentAccounted
  <2> SUFFICES ASSUME Inv, Accounts, Idle(Thread), resident # {}
               PROVE  \/ state \in {"RELEASE_FAILED", "DRAINING"}
                      \/ \E a \in Arbiter : lease[a] = loaded
    BY DEF ResidentAccounted
  <2>1. state \in RouterState /\ state # "IDLE"
    BY DEF Inv, Shared, CoordinatorTyped, Ownership
  <2>2. state # "CONTAINER_READY"
    BY DEF Inv, Between, Strays, Idle, At
  <2> QED
    BY <2>1, <2>2 DEF Accounts, Covered, RouterState, Loaded
<1> QED
  BY <1>1, <1>2, <1>3, PTL DEF Spec
-----------------------------------------------------------------------------
(* What a round of shutdowns leaves.  The model needs both hypotheses: it  *)
(* lets a page job's load succeed after the closing window has asked for   *)
(* its cancellation, and leaves open which pair a batch's shutdown names,  *)
(* although a batch has only one.                                          *)

OnePair == \A p, q \in Pair : p = q
BatchOnly == OnePair /\ Manual = {}

\* What is loaded is leased from the stage arbiter; its round has not yet tried to shut
\* it down; and it is loaded for a batch.
StageLeased == state \in Loaded => lease["stage"] = loaded
Untried == mode \in Rounds /\ state \in Loaded => todo[OwnerOf(loaded)] = 2
ForBatch == mode \in {"idle", "manual"} => state \notin Loaded

\* An attempt that raises has found nothing loaded, or has marked it.
Raised == \A t \in Batch : At(t, "raise") /\ mode \in Rounds => state \notin Loaded

Emptying == StageLeased /\ Untried /\ ForBatch /\ Raised
Ahead == Before /\ Emptying

\* Only what is still loaded matters.
LEMMA EmptyingDown ==
  ASSUME state' \notin Loaded
  PROVE  Emptying'
  BY DEF Emptying, StageLeased, Untried, ForBatch, Raised

\* A step that leaves it alone, and its round's attempts.
LEMMA EmptyingFrame ==
  ASSUME Emptying, UNCHANGED <<state, loaded, mode, todo>>,
         state \in Loaded => lease'["stage"] = loaded,
         state \in Loaded /\ mode \in Rounds => \A t \in Batch : At(t, "raise")' => At(t, "raise")
  PROVE  Emptying'
  BY DEF Emptying, StageLeased, Untried, ForBatch, Raised

\* A call of a start is one of a batch, outside its rounds.
LEMMA StartsInBatch ==
  ASSUME BatchOnly, Calls, NEW t \in Thread, StartStep(t)
  PROVE  t \in Batch /\ mode = "batch" /\ mode' = mode
<1>1. mode' = mode
  BY DEF StartStep, EnsureOCR, EnsureGemma, PrepareContainer, BeginStart, EnsureMatching,
     AdoptMatching, Prepare, StopOld, Load, LoadPublish, Create, StopOldFails, CreateFails, LoadFails,
     StartSucceeds, StartCancelled, AbortNothing, Abort, AbortStops, AbortStopFails,
     AbortTimesOut, LeaveStart, LateLook, LateMark, OuterCleanup, application
<1>2. CASE MayCall(t)
  BY <1>1, <1>2 DEF BatchOnly, MayCall
<1>3. CASE job[t] # None
          /\ job[t].at \in StartPoints \cup {"matched", "lateMark", "lateMarking", "outer"}
  <2>1. job[t] \in Job /\ job[t].op \notin {"finish"}
    BY <1>3 DEF Calls, JobTyped, JobsFormed, Formed, WellFormed, StartPoints, FinishPoints
  <2>2. t \in Batch
    BY <1>3, <2>1 DEF BatchOnly, Thread, Calls, JobsFormed, Formed, Callers
  <2>3. mode \notin Rounds
    BY <1>3, <2>1, <2>2 DEF Calls, RoundCalls, RoundCall
  <2> QED
    BY <1>1, <1>3, <2>2, <2>3 DEF Calls, Modes
<1>4. MayCall(t) \/ (/\ job[t] # None
                     /\ job[t].at \in StartPoints \cup {"matched", "lateMark", "lateMarking", "outer"})
  BY DEF StartStep, EnsureOCR, EnsureGemma, PrepareContainer, EnsureMatching, AdoptMatching,
     Prepare, StopOld, Load, LoadPublish, Create, StopOldFails, CreateFails, LoadFails,
     StartSucceeds, StartCancelled, AbortNothing, Abort, AbortStops, AbortStopFails,
     AbortTimesOut, LateLook, LateMark, OuterCleanup, At, StartPoints
<1> QED
  BY <1>2, <1>3, <1>4

\* Where nothing but the lease of what is loaded matters.
LEMMA EmptyingInBatch ==
  ASSUME mode' = "batch", StageLeased'
  PROVE  Emptying'
  BY DEF Emptying, Untried, ForBatch, Raised, Rounds

\* A lease that a call takes replaces none, and no call gives up another's.
LEMMA TakeLeaseStage ==
  ASSUME Ahead, NEW t \in Thread, NEW s \in Service, TakeLease(t, s), state \in Loaded
  PROVE  lease'["stage"] = loaded
  BY TakeLeaseMinds, LoadedAlias DEF Ahead, Before, Inv, Emptying, StageLeased, Arbiter

\* What a load publishes is leased by its call,
LEMMA LoadPublishEmpties ==
  ASSUME Ahead, NEW t \in Thread, t \in Batch, LoadPublish(t)
  PROVE  StageLeased'
<1>1. job[t] # None /\ job[t].at = "loading"
  BY DEF LoadPublish, At
<1>2. job[t].op = "load" /\ job[t].alias = job[t].service
  BY <1>1, StartFacts DEF Ahead, Before, Inv, Calls, JobsFormed, Formed, WellFormed, StartPoints
<1>3. lease["stage"] = job[t].service
  BY <1>1, <1>2 DEF Ahead, Before, Accounts, Leased, LeasedBy, Worker, StartPoints, ArbiterOf,
     Bracketed
<1> QED
  BY <1>2, <1>3 DEF StageLeased, LoadPublish, arbiters

\* and no step of a start gives up the lease of what is loaded.
LEMMA StartSucceedsEmpties ==
  ASSUME Ahead, NEW t \in Thread, StartSucceeds(t)
  PROVE  StageLeased'
<1>1. job[t] # None
  BY DEF StartSucceeds, At
<1>2. CASE job[t].op = "prepare"
  BY <1>1, <1>2 DEF Ahead, Before, Inv, Between, AtPoints, Knows, Shared, Ownership, StageLeased,
     StartSucceeds, coordinator
<1>3. CASE job[t].op # "prepare"
  BY <1>3 DEF Ahead, Emptying, StageLeased, StartSucceeds, coordinator
<1> QED
  BY <1>2, <1>3

LEMMA OuterCleanupEmpties ==
  ASSUME BatchOnly, Ahead, NEW t \in Thread, OuterCleanup(t)
  PROVE  StageLeased'
<1>1. CASE ~InOuterStart(t) \/ Active(job[t].owner)
  BY <1>1 DEF Ahead, Emptying, StageLeased, OuterCleanup, arbiters, coordinator
<1>2. CASE InOuterStart(t) /\ ~Active(job[t].owner)
  <2>1. state \in Loaded => loaded # job[t].service
    BY <1>2, OuterCleanupForeign DEF BatchOnly, OneManual, Ahead
  <2>2. Vacate("stage", job[t].service)
    BY <1>2 DEF OuterCleanup
  <2>3. UNCHANGED <<state, loaded>>
    BY DEF OuterCleanup, coordinator
  <2>4. lease'["stage"] = IF lease["stage"] = job[t].service THEN None ELSE lease["stage"]
    BY <2>2 DEF Ahead, Before, Inv, Arbiters, LeaseTyped, Arbiter, Vacate
  <2> QED
    BY <2>1, <2>3, <2>4 DEF Ahead, Emptying, StageLeased
<1> QED
  BY <1>1, <1>2

LEMMA StartStepEmpties ==
  ASSUME BatchOnly, Ahead, NEW t \in Thread, StartStep(t)
  PROVE  Emptying'
<1>1. t \in Batch /\ mode' = "batch"
  BY StartsInBatch DEF Ahead, Before, Inv
<1>2. StageLeased'
  <2> USE DEF Ahead, Emptying, StageLeased
  <2>1. CASE \E p \in Pair : EnsureOCR(t, p) \/ PrepareContainer(t, p)
    BY <2>1, TakeLeaseStage DEF EnsureOCR, PrepareContainer, BeginStart, coordinator, Service, Alias
  <2>2. CASE EnsureGemma(t)
    BY <2>2, TakeLeaseStage DEF EnsureGemma, BeginStart, coordinator, Service, Alias
  <2>3. CASE \/ \E m \in Managers, p \in Pair : EnsureMatching(t, m, p)
             \/ AdoptMatching(t) \/ Prepare(t) \/ Load(t) \/ StartCancelled(t) \/ LateLook(t)
    BY <2>3 DEF EnsureMatching, AdoptMatching, LateLook, Prepare, Load, StartCancelled, coordinator, arbiters
  <2>4. CASE StopOld(t) \/ \E probed \in BOOLEAN : Create(t, probed)
    BY <2>4 DEF StopOld, StoppedAndCleared, Clear, Create, Loaded
  <2>5. CASE LoadPublish(t)
    BY <1>1, <2>5, LoadPublishEmpties
  <2>6. CASE \E quiet \in BOOLEAN :
               StopOldFails(t, quiet) \/ CreateFails(t, quiet) \/ LoadFails(t, quiet)
    BY <2>6 DEF StopOldFails, CreateFails, LoadFails, coordinator, arbiters
  <2>7. CASE StartSucceeds(t)
    BY <2>7, StartSucceedsEmpties
  <2>8. CASE AbortNothing(t)
    BY <2>8 DEF AbortNothing, coordinator, Before, Inv, Shared, Ownership
  <2>9. CASE Abort(t) \/ AbortStops(t) \/ AbortStopFails(t)
    BY <2>9 DEF Abort, AbortStops, AbortStopFails, StoppedAndCleared, Clear, Mark, Loaded
  <2>10. CASE AbortTimesOut(t)
    BY <2>10 DEF AbortTimesOut, Retain, coordinator
  <2>11. CASE LateMark(t)
    BY <2>11 DEF LateMark, Mark, Loaded
  <2>12. CASE OuterCleanup(t)
    BY <2>12, OuterCleanupEmpties
  <2> QED
    BY <2>1, <2>2, <2>3, <2>4, <2>5, <2>6, <2>7, <2>8, <2>9, <2>10, <2>11, <2>12 DEF StartStep
<1> QED
  BY <1>1, <1>2, EmptyingInBatch

\* A finish that begins raises at once only where nothing is loaded,
LEMMA BeginFinishEmpties ==
  ASSUME Ahead, NEW t \in Thread, NEW owner \in Managers \cup {"app"}, NEW s \in Service,
         NEW stop \in BOOLEAN, BeginFinish(t, owner, s, stop), state \in Loaded
  PROVE  \A u \in Batch : At(u, "raise")' => At(u, "raise")
<1>1. Began(t, "finish", FinishPoint(stop), owner, s, loaded, contract, stop)
  BY FinishEffect DEF Ahead, Before, Inv, Calls, Shared
<1>2. FinishPoint(stop) # "raise"
  BY DEF Ahead, Before, Inv, Shared, Ownership, FinishPoint, Loaded
<1> QED
  BY <1>1, <1>2 DEF Began, Others, At, Thread

LEMMA ShutdownEmpties ==
  ASSUME Ahead, NEW t \in Thread, NEW m \in Managers, NEW s \in Service, NEW stop \in BOOLEAN,
         NEW foreign \in BOOLEAN, Shutdown(t, m, s, stop, foreign)
  PROVE  Emptying'
<1>1. state \in Loaded => lease'["stage"] = loaded
  BY TakeLeaseStage DEF Shutdown
<1>2. state \in Loaded => \A u \in Batch : At(u, "raise")' => At(u, "raise")
  BY BeginFinishEmpties DEF Shutdown
<1> QED
  BY <1>1, <1>2, EmptyingFrame DEF Ahead, Shutdown, coordinator, application

\* a manager with no Router to finish has not loaded what is,
LEMMA ShutdownInactiveEmpties ==
  ASSUME BatchOnly, Ahead, NEW t \in Thread, NEW m \in Managers, NEW s \in Service,
         NEW stop \in BOOLEAN, NEW foreign \in BOOLEAN, ShutdownInactive(t, m, s, stop, foreign)
  PROVE  Emptying'
<1> SUFFICES ASSUME state \in Loaded
             PROVE  Emptying'
  BY EmptyingDown DEF ShutdownInactive, coordinator
<1>1. /\ t \in Batch /\ s \in Service
      /\ loaded # s /\ loaded \in Alias /\ OwnerOf(loaded) # m
  BY ShutdownInactiveForeign DEF BatchOnly, OneManual, Ahead
<1>2. StageLeased'
  BY <1>1 DEF Ahead, Before, Inv, Arbiters, LeaseTyped, Arbiter, Emptying, StageLeased,
     ShutdownInactive, Vacate, coordinator
<1>3. Untried' /\ ForBatch'
  BY <1>1 DEF Ahead, Before, Inv, ApplicationState, ApplicationTyped, Emptying, Untried,
     ForBatch, ShutdownInactive, Tried, OwnerOf, Managers, coordinator
<1>4. Raised'
  BY DEF Ahead, Emptying, Raised, At, ShutdownInactive, Tried, coordinator
<1> QED
  BY <1>2, <1>3, <1>4 DEF Emptying

\* nor has one that meets another's lease.
LEMMA ShutdownConflictEmpties ==
  ASSUME BatchOnly, Ahead, NEW t \in Thread, NEW m \in Managers, NEW s \in Service,
         NEW stop \in BOOLEAN, ShutdownConflict(t, m, s, stop)
  PROVE  Emptying'
<1> SUFFICES ASSUME state \in Loaded
             PROVE  Emptying'
  BY EmptyingDown DEF ShutdownConflict, coordinator
<1>1. loaded \in Alias /\ lease["stage"] = loaded /\ loaded # s
  BY LoadedAlias DEF Ahead, Before, Inv, Emptying, StageLeased, ShutdownConflict
<1>2. OwnerOf(loaded) # m
  BY <1>1 DEF BatchOnly, OnePair, ShutdownConflict, MayShutDown, OwnerOf, Alias, Managers
<1>3. StageLeased'
  BY <1>1 DEF StageLeased, ShutdownConflict, arbiters, coordinator
<1>4. Untried' /\ ForBatch'
  BY <1>1, <1>2 DEF Ahead, Before, Inv, ApplicationState, ApplicationTyped, Emptying, Untried,
     ForBatch, ShutdownConflict, Tried, OwnerOf, Managers, coordinator
<1>5. Raised'
  BY DEF Ahead, Emptying, Raised, At, ShutdownConflict, Tried, coordinator
<1> QED
  BY <1>3, <1>4, <1>5 DEF Emptying

\* The closing window stops what it finds, through the other arbiter.
LEMMA CloseEmpties ==
  ASSUME Ahead, NEW t \in Thread, CloseApp(t) \/ \E m \in Managers : CloseManager(t, m)
  PROVE  Emptying'
<1>1. UNCHANGED <<state, loaded, mode, todo, lease>> /\ t \in Closing
  BY DEF CloseApp, CloseManager, coordinator, arbiters
<1>2. \A u \in Batch : job'[u] = job[u]
  BY <1>1 DEF CloseApp, CloseManager, BeginFinish, Ahead, Before, Inv, Calls, JobTyped, Thread
<1>3. \A u \in Batch : At(u, "raise")' => At(u, "raise")
  BY <1>2 DEF At
<1> QED
  BY <1>1, <1>3, EmptyingFrame DEF Ahead, Emptying, StageLeased

\* A release that has only begun, or has failed, holds on to the lease, and goes on to
\* be marked.
LEMMA ReleaseGoesEmpties ==
  ASSUME Ahead, NEW t \in Thread,
         Refused(t) \/ Conflict(t) \/ UnloadFails(t) \/ ForceStop(t) \/ ForceStopFails(t)
  PROVE  Emptying'
<1>1. UNCHANGED <<state, loaded, mode, todo>>
  BY DEF Refused, Conflict, UnloadFails, ForceStop, ForceStopFails, ReleaseFails, coordinator,
     application
<1>2. job[t] # None /\ Moved(t) /\ job'[t].at \in {"mark", "stopping"}
  BY GotoEffect DEF Ahead, Before, Inv, Calls, Refused, Conflict, UnloadFails, ForceStop,
     ForceStopFails, ReleaseFails, At, Points
<1>3. \A u \in Batch : At(u, "raise")' => At(u, "raise")
  BY <1>2 DEF Moved, Others, At, Thread
<1>4. state \in Loaded => lease'["stage"] = loaded
  <2> SUFFICES ASSUME state \in Loaded
               PROVE  lease'["stage"] = loaded
    OBVIOUS
  <2>1. lease["stage"] = loaded /\ loaded # None
    BY LoadedAlias DEF Ahead, Before, Inv, Emptying, StageLeased, Service
  <2>2. CASE Refused(t)
    BY <2>1, <2>2 DEF Refused, Ahead, Before, Inv, Arbiters, LeaseTyped, Arbiter
  <2>3. CASE Conflict(t) \/ UnloadFails(t) \/ ForceStopFails(t)
    BY <2>1, <2>3 DEF Conflict, UnloadFails, ForceStopFails, ReleaseFails, Retain, arbiters
  <2>4. CASE ForceStop(t)
    <3>1. job[t].service \in Service
      BY <1>2, RoundFacts DEF Ahead, Before, Inv
    <3> QED
      BY <2>4, <3>1, TakeLeaseStage DEF ForceStop, EnterRelease
  <2> QED
    BY <2>2, <2>3, <2>4
<1> QED
  BY <1>1, <1>3, <1>4, EmptyingFrame DEF Ahead

\* An attempt of a round that raises has left nothing loaded,
LEMMA FinishRaisesEmpties ==
  ASSUME Ahead, NEW t \in Thread, FinishRaises(t)
  PROVE  Emptying'
<1>1. UNCHANGED <<state, loaded, mode, lease>>
  BY DEF FinishRaises, Tried, Retain, arbiters, coordinator
<1>2. CASE t \in Batch /\ mode \in Rounds
  BY <1>1, <1>2, EmptyingDown DEF Ahead, Emptying, Raised, FinishRaises
<1>3. CASE ~(t \in Batch /\ mode \in Rounds)
  <2>1. UNCHANGED todo
    BY <1>3 DEF FinishRaises, Tried, Bracketed
  <2>2. mode \in Rounds => \A u \in Batch : job'[u] = job[u]
    BY <1>3 DEF FinishRaises, Goto, EndJob, InOuterStart, Bracketed, Ahead, Before, Inv, Calls,
       JobTyped, Thread
  <2> QED
    BY <1>1, <2>1, <2>2, EmptyingFrame DEF Ahead, Emptying, StageLeased, At
<1> QED
  BY <1>2, <1>3

\* and so has one that returns.
LEMMA FinishReturnsEmpties ==
  ASSUME BatchOnly, Ahead, NEW t \in Thread, FinishReturns(t)
  PROVE  Emptying'
<1>1. job[t] # None /\ job[t].at = "return" /\ UNCHANGED <<state, loaded, mode>>
  BY DEF FinishReturns, Tried, At, coordinator
<1>2. CASE t \in Batch
  BY <1>1, <1>2, EmptyingDown DEF Ahead, Before, Accounts, Confirmed, ConfirmedBy, Worker, At
<1>3. CASE t \notin Batch
  <2>1. job[t].op # "change" /\ ~Bracketed(t)
    BY <1>1, <1>3, RoundFacts DEF Ahead, Before, Inv, Bracketed
  <2>2. EndJob(t) /\ UNCHANGED <<lease, todo>>
    BY <2>1 DEF FinishReturns, Tried, arbiters
  <2>3. \A u \in Batch : job'[u] = job[u]
    BY <1>3, <2>2 DEF EndJob, Ahead, Before, Inv, Calls, JobTyped, Thread
  <2> QED
    BY <1>1, <2>2, <2>3, EmptyingFrame DEF Ahead, Emptying, StageLeased, At
<1> QED
  BY <1>2, <1>3

LEMMA FinishStepEmpties ==
  ASSUME BatchOnly, Ahead, NEW t \in Thread, FinishStep(t)
  PROVE  Emptying'
<1>1. CASE \E m \in Managers, s \in Service, foreign \in BOOLEAN : \E stop \in BOOLEAN :
             Shutdown(t, m, s, stop, foreign) \/ ShutdownInactive(t, m, s, stop, foreign)
  BY <1>1, ShutdownEmpties, ShutdownInactiveEmpties
<1>2. CASE \E m \in Managers, s \in Service, stop \in BOOLEAN : ShutdownConflict(t, m, s, stop)
  BY <1>2, ShutdownConflictEmpties
<1>3. CASE \E p \in Pair : ChangePair(t, p) \/ ChangePairInStart(t, p)
  BY <1>3 DEF BatchOnly, OnePair, ChangePair, ChangePairInStart, Ahead, Before, Inv, Owners,
     ManagersTyped
<1>4. CASE CloseApp(t) \/ \E m \in Managers : CloseManager(t, m)
  BY <1>4, CloseEmpties
<1>5. CASE Refused(t) \/ Conflict(t) \/ UnloadFails(t) \/ ForceStop(t) \/ ForceStopFails(t)
  BY <1>5, ReleaseGoesEmpties
<1>6. CASE Unload(t) \/ Unloaded(t) \/ ForceStopped(t) \/ MarkFailed(t)
  <2>1. state' \notin Loaded
    BY <1>6 DEF Unload, Unloaded, ForceStopped, MarkFailed, StoppedAndCleared, Clear, Mark, Loaded
  <2> QED
    BY <2>1, EmptyingDown
<1>7. CASE FinishRaises(t) \/ FinishReturns(t)
  BY <1>7, FinishRaisesEmpties, FinishReturnsEmpties
<1> QED
  BY <1>1, <1>2, <1>3, <1>4, <1>5, <1>6, <1>7 DEF FinishStep

\* A round begins with both attempts of each manager, and a batch ends once none is left.
LEMMA ApplicationEmpties ==
  ASSUME BatchOnly, Ahead, Application
  PROVE  Emptying'
<1> USE DEF Ahead, Emptying
<1>1. UNCHANGED <<state, loaded, lease, job>>
  BY DEF Application, StartManual, EndManual, StartBatch, PreflightPasses, StartTeardown,
     StartRound, EndBatch, Closed, vars, coordinator, arbiters
<1>2. CASE StartManual \/ EndManual \/ StartBatch
  BY <1>1, <1>2, EmptyingDown DEF StartManual, EndManual, StartBatch, ForBatch
<1>3. CASE PreflightPasses
  BY <1>1, <1>3, EmptyingInBatch DEF PreflightPasses, StageLeased
<1>4. CASE StartTeardown
  <2>1. mode' \in Rounds /\ todo' = [m \in Managers |-> 2]
    BY <1>4 DEF StartTeardown, StartRound, Rounds
  <2>2. StageLeased' /\ ForBatch'
    BY <1>1, <2>1 DEF StageLeased, ForBatch, Rounds
  <2>3. Untried'
    BY <2>1 DEF Untried, OwnerOf, Managers
  <2>4. Raised'
    BY <1>1, <1>4 DEF Raised, At, StartTeardown, Idle
  <2> QED
    BY <2>2, <2>3, <2>4
<1>5. CASE EndBatch
  <2>1. mode \in Rounds /\ \A m \in Managers : todo[m] = 0
    BY <1>5 DEF EndBatch, RoundOver, Rounds
  <2>2. state \notin Loaded
    BY <2>1 DEF Untried, OwnerOf, Managers
  <2> QED
    BY <1>1, <2>2, EmptyingDown
<1>6. CASE Closed
  BY <1>1, <1>6, EmptyingFrame DEF Closed, vars, application, StageLeased, At
<1> QED
  BY <1>2, <1>3, <1>4, <1>5, <1>6 DEF Application

LEMMA NextEmpties ==
  ASSUME BatchOnly
  PROVE  Inv /\ Accounts /\ Emptying /\ [Next]_vars => Emptying'
<1> SUFFICES ASSUME Inv, Accounts, Emptying, [Next]_vars
             PROVE  Emptying'
  OBVIOUS
<1>1. Ahead
  BY NextInv DEF Ahead, Before
<1>2. CASE Application
  BY <1>1, <1>2, ApplicationEmpties
<1>3. CASE Requests \/ UNCHANGED vars
  <2>1. UNCHANGED <<state, loaded, lease, job, mode, todo>>
    BY <1>3 DEF Requests, RequestStart, RequestEnd, vars, coordinator, arbiters, application
  <2> QED
    BY <2>1, EmptyingFrame DEF Emptying, StageLeased, At
<1>4. CASE \E t \in Thread : StartStep(t) \/ FinishStep(t)
  BY <1>1, <1>4, StartStepEmpties, FinishStepEmpties
<1> QED
  BY <1>2, <1>3, <1>4 DEF Next

\* Once the window has closed and the batch has torn itself down, no model is left
\* resident unless a release is known to have failed: with one pair and no manual job.
THEOREM ClosedIsReleased ==
  ASSUME BatchOnly
  PROVE  Spec => []ClosedReleases
<1>1. OneManual
  BY DEF BatchOnly, OneManual
<1>2. Init => Inv /\ Accounts /\ Emptying
  <2>1. Init => Emptying
    BY DEF Init, Emptying, StageLeased, Untried, ForBatch, Raised, Loaded
  <2> QED
    BY <2>1, InitInv, InitAccounts
<1>3. Inv /\ Accounts /\ Emptying /\ [Next]_vars => Inv' /\ Accounts' /\ Emptying'
  BY <1>1, NextInv, NextAccounts, NextEmpties
<1>4. Inv /\ Accounts /\ Emptying => ClosedReleases
  <2> SUFFICES ASSUME Inv, Emptying, mode = "idle", Idle(Thread), resident # {}
               PROVE  state \in {"RELEASE_FAILED", "DRAINING"}
    BY DEF ClosedReleases
  <2>1. state \in RouterState /\ state # "IDLE"
    BY DEF Inv, Shared, CoordinatorTyped, Ownership
  <2>2. state # "CONTAINER_READY"
    BY DEF Inv, Between, Strays, Idle, At
  <2> QED
    BY <2>1, <2>2 DEF Emptying, ForBatch, RouterState, Loaded
<1> QED
  BY <1>2, <1>3, <1>4, PTL DEF Spec
=============================================================================

