--------------------------- MODULE RuntimeArbiter ---------------------------
(***************************************************************************)
(* pipeline/runtime_resource_arbiter.py: RuntimeResourceArbiter.           *)
(*                                                                         *)
(* Several threads (the batch thread, the prewarm worker, the GUI thread)  *)
(* bracket every GPU model load with model_start, every unload with        *)
(* model_release, and the in-process inpainter with acquire_external_model *)
(* / release_external_model.  All of them hold the re-entrant command lock *)
(* from entry to exit, so the commands in progress form one stack, owned   *)
(* by the thread that holds the lock: frames[1..depth], where depth is the *)
(* lock's recursion count.  The generation counter and the cancel flag are *)
(* behind the other lock (_state_lock) and change at any moment.           *)
(*                                                                         *)
(* The bodies the callers run inside a command may succeed, raise, or run  *)
(* a nested command for the same service on the same thread; Nestings      *)
(* names the nestings the callers use.                                     *)
(***************************************************************************)
EXTENDS Naturals

CONSTANTS
  Thread,         \* threads that call the arbiter
  Service,        \* runtime services, the external one included
  External,       \* the services leased with acquire_external_model
  None,           \* the value of _active_model / the lock owner when free
  Nestings,       \* the nested commands that callers' bodies may run
  MaxGeneration   \* bound on _generation for model checking

\* The deepest nesting in the callers: one command inside another.
MaxDepth == 2

\* A nesting <<kind of the outer command, its step, kind of the inner one>>.
NestingKinds == { <<"start", "body", "start">>,
                  <<"start", "body", "release">>,
                  <<"start", "cleanup", "release">>,
                  <<"release", "body", "release">> }

ASSUME NoneAssumption == None \notin Service /\ None \notin Thread
ASSUME ExternalAssumption == External \subseteq Service
ASSUME NestingAssumption == Nestings \subseteq NestingKinds
ASSUME GenerationAssumption == MaxGeneration \in Nat

VARIABLES
  generation,  \* _generation
  cancelled,   \* _cancelled
  active,      \* _active_model
  states,      \* _states; ABSENT stands for a missing key
  owner,       \* the thread that holds _command_lock
  depth,       \* the recursion count of _command_lock
  frames       \* the commands in progress, outermost first

vars == <<generation, cancelled, active, states, owner, depth, frames>>

ModelStates == {"ABSENT", "STOPPED", "MODEL_LOADING", "MODEL_READY",
                "SLEEPING", "RELEASING", "RELEASE_FAILED"}
ReleaseTargets == {"STOPPED", "SLEEPING"}

\* body:    the caller's code runs;  cleanup: the stale_cleanup callback runs;
\* confirm: the body is over, is_cancelled is due;  publish: it said no;
\* failing: a nested command raised, the enclosing handler is due.
Steps == {"body", "confirm", "publish", "cleanup", "failing"}

Frame == [kind : {"start", "release", "external"},
          service : Service,
          token : Nat,
          step : Steps]

NoFrame == [kind |-> "none", service |-> None, token |-> 0, step |-> "body"]

TypeOK ==
  /\ generation \in Nat
  /\ cancelled \in BOOLEAN
  /\ active \in Service \cup {None}
  /\ states \in [Service -> ModelStates]
  /\ owner \in Thread \cup {None}
  /\ depth \in 0..MaxDepth
  /\ frames \in [1..MaxDepth -> Frame \cup {NoFrame}]

Init ==
  /\ generation = 0
  /\ cancelled = FALSE
  /\ active = None
  /\ states = [s \in Service |-> "ABSENT"]
  /\ owner = None
  /\ depth = 0
  /\ frames = [d \in 1..MaxDepth |-> NoFrame]

-----------------------------------------------------------------------------
(* Helpers: the command lock with its stack, and the conditions the code    *)
(* evaluates under _state_lock.                                             *)

Top == frames[depth]

InStep(t, kind, step) ==
  owner = t /\ depth > 0 /\ Top.kind = kind /\ Top.step = step

\* Mutant of MayEnter: the commands do not take the command lock.
MayEnterUnlocked(t, kind, s) == TRUE

\* A command of this kind for s may begin on t: the lock is free, or t holds
\* it and the body it is running issues this nested command.
MayEnter(t, kind, s) ==
  \/ owner = None
  \/ /\ owner = t
     /\ depth < MaxDepth
     /\ Top.service = s
     /\ <<Top.kind, Top.step, kind>> \in Nestings

Push(t, frame) ==
  /\ owner' = t
  /\ depth' = depth + 1
  /\ frames' = [frames EXCEPT ![depth + 1] = frame]

Goto(step) ==
  /\ frames' = [frames EXCEPT ![depth].step = step]
  /\ UNCHANGED <<owner, depth>>

\* Leaving the with-block gives one level of the lock back.
Pop ==
  /\ depth' = depth - 1
  /\ owner' = IF depth = 1 THEN None ELSE owner
  /\ frames' = [frames EXCEPT ![depth] = NoFrame]

\* An exception leaves the with-block and reaches the enclosing one: a start
\* body goes to its except branch, a cleanup or a release body fails.
AfterRaise(frame) ==
  IF frame.kind = "start" /\ frame.step = "body" THEN "cleanup" ELSE "failing"

PopRaising ==
  /\ depth' = depth - 1
  /\ owner' = IF depth = 1 THEN None ELSE owner
  /\ frames' = [d \in 1..MaxDepth |->
                  IF d = depth THEN NoFrame
                  ELSE IF d = depth - 1
                       THEN [frames[d] EXCEPT !.step = AfterRaise(frames[d])]
                       ELSE frames[d]]

\* Mutant of LeaseFreeFor: the foreign holder is not looked at.
LeaseUnchecked(s) == TRUE

LeaseFreeFor(s) == active \in {None, s}

\* is_cancelled; checker is what the caller's cancel_checker returns (a
\* checker that raises counts as TRUE, a missing one as FALSE).
IsCancelled(token, checker) == cancelled \/ token # generation \/ checker

Transition(s, state) == states' = [states EXCEPT ![s] = state]

\* Mutant of VacateIfHolder: any service's release clears the lease.
VacateAlways(s) == active' = None

VacateIfHolder(s) == active' = IF active = s THEN None ELSE active

-----------------------------------------------------------------------------
(* Generation changes: only _state_lock is taken, so these interleave with  *)
(* a command in progress at any step.                                       *)

Reset ==
  /\ generation < MaxGeneration
  /\ generation' = generation + 1
  /\ cancelled' = FALSE
  /\ UNCHANGED <<active, states, owner, depth, frames>>

CancelGeneration ==
  /\ generation < MaxGeneration
  /\ generation' = generation + 1
  /\ cancelled' = TRUE
  /\ UNCHANGED <<active, states, owner, depth, frames>>

-----------------------------------------------------------------------------
(* model_start                                                              *)

\* Entry: lock, first is_cancelled, the two lease conflicts, then the lease.
\* A refused entry raises before it changes anything.  The token a caller
\* took earlier passes the check only if it still is the current generation.
StartEnter(t, s, checker) ==
  /\ MayEnter(t, "start", s)
  /\ ~IsCancelled(generation, checker)
  /\ ~(active = s /\ states[s] = "RELEASE_FAILED")
  /\ LeaseFreeFor(s)
  /\ active' = s
  /\ Transition(s, "MODEL_LOADING")
  /\ Push(t, [kind |-> "start", service |-> s, token |-> generation,
              step |-> "body"])
  /\ UNCHANGED <<generation, cancelled>>

StartBodyDone(t) ==
  /\ InStep(t, "start", "body")
  /\ Goto("confirm")
  /\ UNCHANGED <<generation, cancelled, active, states>>

\* Mutant of StartBodyRaises: no except branch around the caller's body.
StartBodyEscapes(t) ==
  /\ InStep(t, "start", "body")
  /\ PopRaising
  /\ UNCHANGED <<generation, cancelled, active, states>>

StartBodyRaises(t) ==
  /\ InStep(t, "start", "body")
  /\ Goto("cleanup")
  /\ UNCHANGED <<generation, cancelled, active, states>>

\* The second is_cancelled, evaluated before _state_lock is taken again.
StartConfirm(t, checker) ==
  /\ InStep(t, "start", "confirm")
  /\ Goto(IF IsCancelled(Top.token, checker) THEN "cleanup" ELSE "publish")
  /\ UNCHANGED <<generation, cancelled, active, states>>

StartPublish(t) ==
  /\ InStep(t, "start", "publish")
  /\ Transition(Top.service, "MODEL_READY")
  /\ Pop
  /\ UNCHANGED <<generation, cancelled, active>>

\* _cleanup_failed_start: the callback returned (or there is none).
StartCleanupDone(t) ==
  /\ InStep(t, "start", "cleanup")
  /\ VacateIfHolder(Top.service)
  /\ Transition(Top.service, "STOPPED")
  /\ PopRaising
  /\ UNCHANGED <<generation, cancelled>>

\* _cleanup_failed_start: the callback raised; the lease is kept.
StartCleanupRaises(t) ==
  /\ InStep(t, "start", "cleanup") \/ InStep(t, "start", "failing")
  /\ Transition(Top.service, "RELEASE_FAILED")
  /\ PopRaising
  /\ UNCHANGED <<generation, cancelled, active>>

-----------------------------------------------------------------------------
(* model_release                                                            *)

\* Mutant of ReleaseEnter: a foreign teardown takes the owner's lease.
ReleaseEnterTakingLease(t, s, foreign) ==
  /\ MayEnter(t, "release", s)
  /\ LeaseFreeFor(s) \/ foreign
  /\ active' = s
  /\ Transition(s, "RELEASING")
  /\ Push(t, [kind |-> "release", service |-> s, token |-> 0,
              step |-> "body"])
  /\ UNCHANGED <<generation, cancelled>>

\* foreign is allow_foreign_owner_teardown.
ReleaseEnter(t, s, foreign) ==
  /\ MayEnter(t, "release", s)
  /\ LeaseFreeFor(s) \/ foreign
  /\ active' = IF active = None THEN s ELSE active
  /\ Transition(s, "RELEASING")
  /\ Push(t, [kind |-> "release", service |-> s, token |-> 0,
              step |-> "body"])
  /\ UNCHANGED <<generation, cancelled>>

ReleaseDone(t, target) ==
  /\ InStep(t, "release", "body")
  /\ VacateIfHolder(Top.service)
  /\ Transition(Top.service, target)
  /\ Pop
  /\ UNCHANGED <<generation, cancelled>>

\* The body raised, or chose an invalid target state.
ReleaseRaises(t) ==
  /\ InStep(t, "release", "body") \/ InStep(t, "release", "failing")
  /\ Transition(Top.service, "RELEASE_FAILED")
  /\ PopRaising
  /\ UNCHANGED <<generation, cancelled, active>>

-----------------------------------------------------------------------------
(* The external lease: the command lock stays taken until it is released.   *)

\* A holder that already owns an external lease is refused before any change.
AcquireExternal(t, s) ==
  /\ owner = None
  /\ LeaseFreeFor(s)
  /\ active' = s
  /\ Transition(s, "MODEL_LOADING")
  /\ Push(t, [kind |-> "external", service |-> s, token |-> 0,
              step |-> "body"])
  /\ UNCHANGED <<generation, cancelled>>

MarkExternalReady(t) ==
  /\ InStep(t, "external", "body")
  /\ Transition(Top.service, "MODEL_READY")
  /\ UNCHANGED <<generation, cancelled, active, owner, depth, frames>>

ReleaseExternal(t, succeeded) ==
  /\ InStep(t, "external", "body")
  /\ IF succeeded
     THEN /\ VacateIfHolder(Top.service)
          /\ Transition(Top.service, "STOPPED")
     ELSE /\ Transition(Top.service, "RELEASE_FAILED")
          /\ UNCHANGED active
  /\ Pop
  /\ UNCHANGED <<generation, cancelled>>

-----------------------------------------------------------------------------
Managed == Service \ External

StartStep(t) ==
  \/ \E s \in Managed, checker \in BOOLEAN : StartEnter(t, s, checker)
  \/ StartBodyDone(t)
  \/ StartBodyRaises(t)
  \/ \E checker \in BOOLEAN : StartConfirm(t, checker)
  \/ StartPublish(t)
  \/ StartCleanupDone(t)
  \/ StartCleanupRaises(t)

ReleaseStep(t) ==
  \/ \E s \in Managed, foreign \in BOOLEAN : ReleaseEnter(t, s, foreign)
  \/ \E target \in ReleaseTargets : ReleaseDone(t, target)
  \/ ReleaseRaises(t)

ExternalStep(t) ==
  \/ \E s \in External : AcquireExternal(t, s)
  \/ MarkExternalReady(t)
  \/ \E succeeded \in BOOLEAN : ReleaseExternal(t, succeeded)

Next ==
  \/ Reset
  \/ CancelGeneration
  \/ \E t \in Thread : StartStep(t) \/ ReleaseStep(t) \/ ExternalStep(t)

Spec == Init /\ [][Next]_vars

-----------------------------------------------------------------------------
(* Properties.                                                              *)

\* A model that is loading or ready belongs to the lease holder, so no two
\* services are ever loading or ready together, whatever raises, whoever
\* cancels and whichever runtime a terminal teardown stops out of turn.
LeaseExclusive ==
  \A s \in Service :
    states[s] \in {"MODEL_LOADING", "MODEL_READY"} => active = s

\* Once the command lock is free nothing is left half done: no service is in
\* a transitional state, and the lease is free or held by a service that is
\* either usable or has a failed release to be retried.  A lease that leaked
\* to a stopped service would block every other model for good.
NothingHalfDone ==
  owner = None =>
    \A s \in Service :
      /\ states[s] \notin {"MODEL_LOADING", "RELEASING"}
      /\ active = s => states[s] \in {"MODEL_READY", "RELEASE_FAILED"}

\* The lease leaves a service only for nobody, and only in the step that
\* records that service as stopped or asleep: a failed release, a failed
\* cleanup or another service's teardown never gives it away.
VacatedOnlyWhenStopped ==
  [][active # None /\ active' # active =>
       /\ active' = None
       /\ states'[active] \in ReleaseTargets]_vars

\* The refinement: the arbiter implements the exclusive lease.
Lease == INSTANCE GpuModelLease WITH
           NoService <- None,
           holder <- active,
           ready <- {s \in Service : states[s] = "MODEL_READY"}
ImplementsLease == Lease!Spec

\* What model_start states, "enforcing the exclusive GPU lease", and a test is
\* named for (an active model blocks another until its release): no two
\* services are loading or ready together.
OneModelPublished ==
  \A s, u \in Service :
    {states[s], states[u]} \subseteq {"MODEL_LOADING", "MODEL_READY"} => s = u

\* What the class docstring states: a cancelled run never publishes a late
\* MODEL_READY (runtime_resource_arbiter.py:54).
NoLateReady ==
  [][\A s \in Managed :
       states[s] # "MODEL_READY" /\ states'[s] = "MODEL_READY" => ~cancelled]_vars
=============================================================================
