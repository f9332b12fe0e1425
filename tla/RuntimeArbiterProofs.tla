------------------------ MODULE RuntimeArbiterProofs ------------------------
(***************************************************************************)
(* Theorems about RuntimeArbiter for every set of threads and services,    *)
(* every choice of external services and every allowed nesting.            *)
(***************************************************************************)
EXTENDS RuntimeArbiter, TLAPS

\* The nesting under which the lease is exclusive: no caller releases its own
\* service inside the body of a start.
PlainNestings == <<"start", "body", "release">> \notin Nestings

\* The command lock and the stack of commands agree.
StackOK ==
  /\ owner = None <=> depth = 0
  /\ \A d \in 1..MaxDepth : frames[d] \in Frame <=> d <= depth
  /\ depth = 2 => /\ frames[1].service = frames[2].service
                  /\ <<frames[1].kind, frames[1].step, frames[2].kind>>
                       \in Nestings

\* A command that may still publish its model holds the lease.
TopHolds ==
  /\ depth > 0
  /\ \/ Top.kind = "start" /\ Top.step \in {"body", "confirm", "publish"}
     \/ Top.kind = "external"
  => active = Top.service

\* A service in a transitional state, or one that holds the lease without
\* being ready or failed.
Unsettled(s) ==
  \/ states[s] \in {"MODEL_LOADING", "RELEASING"}
  \/ active = s /\ states[s] \notin {"MODEL_READY", "RELEASE_FAILED"}

\* Only the service the commands in progress are about is unsettled.
UnsettledHasFrame ==
  \A s \in Service : Unsettled(s) => depth > 0 /\ frames[1].service = s

BaseInv == TypeOK /\ StackOK
Inv == BaseInv /\ TopHolds /\ LeaseExclusive /\ UnsettledHasFrame

-----------------------------------------------------------------------------
LEMMA FrameFacts ==
  ASSUME BaseInv, NEW t \in Thread, owner = t
  PROVE  /\ depth \in {1, 2}
         /\ Top \in Frame
         /\ Top.service \in Service
         /\ Top # NoFrame
         /\ depth = 2 => frames[1] \in Frame /\ frames[1].service = Top.service
  BY NoneAssumption DEF BaseInv, TypeOK, StackOK, Top, Frame, NoFrame, MaxDepth

LEMMA NoFrameIsNoFrame == NoFrame \notin Frame
  BY DEF NoFrame, Frame

\* Type correctness and the stack discipline do not depend on the nesting.
LEMMA BaseInit == Init => BaseInv
<1> SUFFICES ASSUME Init PROVE BaseInv
  OBVIOUS
<1>1. TypeOK
  <2>1. states \in [Service -> ModelStates]
    BY DEF Init, ModelStates
  <2>2. frames \in [1..MaxDepth -> Frame \cup {NoFrame}]
    BY DEF Init
  <2>3. depth \in 0..MaxDepth
    BY DEF Init, MaxDepth
  <2>4. cancelled \in BOOLEAN /\ generation \in Nat
    BY DEF Init
  <2>5. active \in Service \cup {None} /\ owner \in Thread \cup {None}
    BY DEF Init
  <2> QED
    BY <2>1, <2>2, <2>3, <2>4, <2>5 DEF TypeOK
<1>2. StackOK
  BY NoFrameIsNoFrame DEF Init, StackOK, MaxDepth
<1> QED
  BY <1>1, <1>2 DEF BaseInv

-----------------------------------------------------------------------------
(* The stack operations.                                                    *)

StackTypeOK ==
  /\ owner \in Thread \cup {None}
  /\ depth \in 0..MaxDepth
  /\ frames \in [1..MaxDepth -> Frame \cup {NoFrame}]

LEMMA PushStack ==
  ASSUME BaseInv, NEW t \in Thread, NEW frame \in Frame,
         MayEnter(t, frame.kind, frame.service), Push(t, frame)
  PROVE  /\ StackTypeOK' /\ StackOK'
         /\ depth' > 0 /\ Top' = frame
         /\ frames'[1].service = frame.service
<1>0. depth \in 0..2 /\ frames \in [1..2 -> Frame \cup {NoFrame}]
  BY DEF BaseInv, TypeOK, MaxDepth
<1>1. depth \in {0, 1}
  BY <1>0 DEF BaseInv, StackOK, MayEnter, MaxDepth
<1>2. t # None
  BY NoneAssumption
<1>3. CASE depth = 0
  <2>1. /\ depth' = 1 /\ owner' = t
        /\ frames' \in [1..2 -> Frame \cup {NoFrame}]
        /\ frames'[1] = frame /\ frames'[2] = frames[2]
    BY <1>0, <1>3 DEF Push
  <2>2. frames[2] \notin Frame
    BY <1>3 DEF BaseInv, StackOK, MaxDepth
  <2> QED
    BY <1>2, <2>1, <2>2 DEF StackTypeOK, StackOK, Top, MaxDepth
<1>4. CASE depth = 1
  <2>1. /\ depth' = 2 /\ owner' = t
        /\ frames' \in [1..2 -> Frame \cup {NoFrame}]
        /\ frames'[1] = frames[1] /\ frames'[2] = frame
    BY <1>0, <1>4 DEF Push
  <2>2. frames[1] \in Frame
    BY <1>4 DEF BaseInv, StackOK, MaxDepth
  <2>3. /\ frames[1].service = frame.service
        /\ <<frames[1].kind, frames[1].step, frame.kind>> \in Nestings
    <3>1. owner # None
      BY <1>4 DEF BaseInv, StackOK
    <3> QED
      BY <3>1, <1>4 DEF MayEnter, Top
  <2> QED
    BY <1>2, <2>1, <2>2, <2>3
    DEF StackTypeOK, StackOK, Top, MaxDepth
<1> QED
  BY <1>1, <1>3, <1>4

LEMMA GotoStack ==
  ASSUME BaseInv, NEW t \in Thread, owner = t,
         NEW step \in Steps, Goto(step)
  PROVE  /\ StackTypeOK' /\ StackOK'
         /\ depth' > 0 /\ Top' = [Top EXCEPT !.step = step]
         /\ frames'[1].service = frames[1].service
<1>0. depth \in {1, 2} /\ frames \in [1..2 -> Frame \cup {NoFrame}] /\ t # None
  BY FrameFacts, NoneAssumption DEF BaseInv, TypeOK, MaxDepth
<1>1. Top \in Frame /\ [Top EXCEPT !.step = step] \in Frame
  BY FrameFacts DEF Frame
<1>2. depth' = depth /\ owner' = owner
  BY DEF Goto
<1>3. CASE depth = 1
  <2>1. /\ frames' \in [1..2 -> Frame \cup {NoFrame}]
        /\ frames'[1] = [Top EXCEPT !.step = step] /\ frames'[2] = frames[2]
    BY <1>0, <1>1, <1>3 DEF Goto, Top
  <2>2. frames[2] \notin Frame
    BY <1>3 DEF BaseInv, StackOK, MaxDepth
  <2>3. frames'[1].service = frames[1].service
    BY <1>1, <1>3, <2>1 DEF Top, Frame
  <2> QED
    BY <1>0, <1>1, <1>2, <1>3, <2>1, <2>2, <2>3
    DEF StackTypeOK, StackOK, Top, MaxDepth
<1>4. CASE depth = 2
  <2>1. /\ frames' \in [1..2 -> Frame \cup {NoFrame}]
        /\ frames'[2] = [Top EXCEPT !.step = step] /\ frames'[1] = frames[1]
    BY <1>0, <1>1, <1>4 DEF Goto, Top
  <2>2. frames[1] \in Frame
    BY <1>4 DEF BaseInv, StackOK, MaxDepth
  <2>3. /\ frames'[2].service = frames[2].service
        /\ frames'[2].kind = frames[2].kind
    BY <1>1, <1>4, <2>1 DEF Top, Frame
  <2> QED
    BY <1>0, <1>1, <1>2, <1>4, <2>1, <2>2, <2>3
    DEF BaseInv, StackTypeOK, StackOK, Top, MaxDepth
<1> QED
  BY <1>0, <1>3, <1>4

LEMMA PopStack ==
  ASSUME BaseInv, NEW t \in Thread, owner = t, Pop
  PROVE  /\ StackTypeOK' /\ StackOK'
         /\ depth = 1 => depth' = 0
         /\ depth = 2 => /\ depth' = 1 /\ Top' = frames[1]
                         /\ frames'[1] = frames[1]
<1>0. depth \in {1, 2} /\ frames \in [1..2 -> Frame \cup {NoFrame}] /\ t # None
  BY FrameFacts, NoneAssumption DEF BaseInv, TypeOK, MaxDepth
<1>1. CASE depth = 1
  <2>1. /\ frames' \in [1..2 -> Frame \cup {NoFrame}]
        /\ frames'[1] = NoFrame /\ frames'[2] = frames[2]
        /\ depth' = 0 /\ owner' = None
    BY <1>0, <1>1 DEF Pop
  <2>2. frames[2] \notin Frame
    BY <1>1 DEF BaseInv, StackOK, MaxDepth
  <2> QED
    BY <1>1, <2>1, <2>2, NoFrameIsNoFrame
    DEF StackTypeOK, StackOK, MaxDepth
<1>2. CASE depth = 2
  <2>1. /\ frames' \in [1..2 -> Frame \cup {NoFrame}]
        /\ frames'[1] = frames[1] /\ frames'[2] = NoFrame
        /\ depth' = 1 /\ owner' = owner
    BY <1>0, <1>2 DEF Pop
  <2>2. frames[1] \in Frame
    BY <1>2 DEF BaseInv, StackOK, MaxDepth
  <2> QED
    BY <1>0, <1>2, <2>1, <2>2, NoFrameIsNoFrame
    DEF StackTypeOK, StackOK, Top, MaxDepth
<1> QED
  BY <1>0, <1>1, <1>2

LEMMA PopRaisingStack ==
  ASSUME BaseInv, NEW t \in Thread, owner = t, PopRaising
  PROVE  /\ StackTypeOK' /\ StackOK'
         /\ depth = 1 => depth' = 0
         /\ depth = 2 => /\ depth' = 1 /\ Top' = frames'[1]
                         /\ frames'[1] = [frames[1] EXCEPT
                                            !.step = AfterRaise(frames[1])]
                         /\ frames'[1].service = frames[1].service
                         /\ frames'[1].kind \in {"start", "release"}
                         /\ frames'[1].step \in {"cleanup", "failing"}
<1>0. depth \in {1, 2} /\ frames \in [1..2 -> Frame \cup {NoFrame}] /\ t # None
  BY FrameFacts, NoneAssumption DEF BaseInv, TypeOK, MaxDepth
<1>1. CASE depth = 1
  <2>1. /\ frames' \in [1..2 -> Frame \cup {NoFrame}]
        /\ frames'[1] = NoFrame /\ frames'[2] = frames[2]
        /\ depth' = 0 /\ owner' = None
    BY <1>0, <1>1 DEF PopRaising, MaxDepth
  <2>2. frames[2] \notin Frame
    BY <1>1 DEF BaseInv, StackOK, MaxDepth
  <2> QED
    BY <1>1, <2>1, <2>2, NoFrameIsNoFrame
    DEF StackTypeOK, StackOK, MaxDepth
<1>2. CASE depth = 2
  <2> DEFINE outer == [frames[1] EXCEPT !.step = AfterRaise(frames[1])]
  <2>1. frames[1] \in Frame
    BY <1>2 DEF BaseInv, StackOK, MaxDepth
  <2>2. AfterRaise(frames[1]) \in {"cleanup", "failing"}
    BY DEF AfterRaise
  <2>3. /\ outer \in Frame /\ outer.service = frames[1].service
        /\ outer.kind = frames[1].kind
        /\ outer.step = AfterRaise(frames[1])
    BY <2>1, <2>2 DEF Frame, Steps
  <2>4. /\ frames'[1] = outer /\ frames'[2] = NoFrame
        /\ depth' = 1 /\ owner' = owner
    BY <1>0, <1>2 DEF PopRaising, MaxDepth
  <2>5. frames' = [d \in 1..2 |-> IF d = 1 THEN outer ELSE NoFrame]
    BY <1>0, <1>2 DEF PopRaising, MaxDepth
  <2>6. frames' \in [1..2 -> Frame \cup {NoFrame}]
    BY <2>3, <2>5
  <2>7. frames[1].kind \in {"start", "release"}
    BY <1>2, NestingAssumption DEF BaseInv, StackOK, NestingKinds
  <2>8. StackTypeOK' /\ StackOK'
    BY <1>0, <1>2, <2>3, <2>4, <2>6, NoFrameIsNoFrame
    DEF StackTypeOK, StackOK, MaxDepth
  <2> QED
    BY <1>2, <2>2, <2>3, <2>4, <2>7, <2>8 DEF Top
<1> QED
  BY <1>0, <1>1, <1>2

-----------------------------------------------------------------------------
(* Type correctness, for every nesting.                                     *)

DataTypeOK ==
  /\ generation \in Nat
  /\ cancelled \in BOOLEAN
  /\ active \in Service \cup {None}
  /\ states \in [Service -> ModelStates]

LEMMA BaseFromParts == DataTypeOK' /\ StackTypeOK' /\ StackOK' => BaseInv'
  BY DEF DataTypeOK, StackTypeOK, BaseInv, TypeOK

LEMMA TransitionFacts ==
  ASSUME BaseInv, NEW s \in Service, NEW state \in ModelStates,
         Transition(s, state)
  PROVE  /\ states' \in [Service -> ModelStates]
         /\ states'[s] = state
         /\ \A o \in Service \ {s} : states'[o] = states[o]
  BY DEF BaseInv, TypeOK, Transition

LEMMA VacateFacts ==
  ASSUME BaseInv, NEW s \in Service, VacateIfHolder(s)
  PROVE  /\ active' \in Service \cup {None}
         /\ active' # s
         /\ active # s => active' = active
         /\ active = s => active' = None
  BY NoneAssumption DEF BaseInv, TypeOK, VacateIfHolder

LEMMA BaseStep == BaseInv /\ [Next]_vars => BaseInv'
<1> SUFFICES ASSUME BaseInv, [Next]_vars PROVE BaseInv'
  OBVIOUS
<1>0. DataTypeOK
  BY DEF BaseInv, TypeOK, DataTypeOK
<1>1. CASE UNCHANGED vars
  BY <1>1 DEF BaseInv, TypeOK, StackOK, vars
<1>2. CASE Reset \/ CancelGeneration
  <2>1. UNCHANGED <<active, states, owner, depth, frames>>
    BY <1>2 DEF Reset, CancelGeneration
  <2>2. generation' \in Nat
    BY <1>0, <1>2 DEF Reset, CancelGeneration, DataTypeOK
  <2>3. cancelled' \in BOOLEAN
    BY <1>2 DEF Reset, CancelGeneration
  <2> QED
    BY <2>1, <2>2, <2>3 DEF BaseInv, TypeOK, StackOK
<1>3. ASSUME NEW t \in Thread, StartStep(t) PROVE BaseInv'
  <2>1. ASSUME NEW s \in Managed, NEW checker \in BOOLEAN,
               StartEnter(t, s, checker)
        PROVE  BaseInv'
    <3> DEFINE frame == [kind |-> "start", service |-> s,
                         token |-> generation, step |-> "body"]
    <3>1. s \in Service
      BY DEF Managed
    <3>2. frame \in Frame /\ frame.kind = "start" /\ frame.service = s
      BY <1>0, <3>1 DEF Frame, Steps, DataTypeOK
    <3>3. MayEnter(t, frame.kind, frame.service) /\ Push(t, frame)
      BY <2>1, <3>2 DEF StartEnter
    <3>4. StackTypeOK' /\ StackOK'
      <4> HIDE DEF frame
      <4> QED BY <3>2, <3>3, PushStack
    <3>5. DataTypeOK'
      BY <1>0, <2>1, <3>1, TransitionFacts, VacateFacts DEF StartEnter, DataTypeOK, ModelStates
    <3> QED
      BY <3>4, <3>5, BaseFromParts
  <2>2. ASSUME NEW step \in Steps, owner = t, Goto(step),
               UNCHANGED <<generation, cancelled, active, states>>
        PROVE  BaseInv'
    <3>1. DataTypeOK'
      BY <1>0, <2>2 DEF DataTypeOK
    <3> QED
      BY <2>2, <3>1, GotoStack, BaseFromParts
  <2>3. CASE StartBodyDone(t)
    BY <2>2, <2>3 DEF StartBodyDone, InStep, Steps
  <2>4. CASE StartBodyRaises(t)
    BY <2>2, <2>4 DEF StartBodyRaises, InStep, Steps
  <2>5. CASE \E checker \in BOOLEAN : StartConfirm(t, checker)
    <3>1. PICK checker \in BOOLEAN : StartConfirm(t, checker)
      BY <2>5
    <3>2. \E step \in Steps : Goto(step)
      BY <3>1 DEF StartConfirm, Steps
    <3> QED
      BY <2>2, <3>1, <3>2 DEF StartConfirm, InStep
  <2>6. CASE StartPublish(t)
    <3>1. owner = t /\ Pop
      BY <2>6 DEF StartPublish, InStep
    <3>2. DataTypeOK'
      BY <1>0, <2>6, <3>1, FrameFacts, TransitionFacts, VacateFacts
      DEF StartPublish, DataTypeOK, ModelStates
    <3> QED
      BY <3>1, <3>2, PopStack, BaseFromParts
  <2>7. CASE StartCleanupDone(t)
    <3>1. owner = t /\ PopRaising
      BY <2>7 DEF StartCleanupDone, InStep
    <3>2. DataTypeOK'
      BY <1>0, <2>7, <3>1, FrameFacts, TransitionFacts, VacateFacts
      DEF StartCleanupDone, DataTypeOK, ModelStates
    <3> QED
      BY <3>1, <3>2, PopRaisingStack, BaseFromParts
  <2>8. CASE StartCleanupRaises(t)
    <3>1. owner = t /\ PopRaising
      BY <2>8 DEF StartCleanupRaises, InStep
    <3>2. DataTypeOK'
      BY <1>0, <2>8, <3>1, FrameFacts, TransitionFacts, VacateFacts
      DEF StartCleanupRaises, DataTypeOK, ModelStates
    <3> QED
      BY <3>1, <3>2, PopRaisingStack, BaseFromParts
  <2> QED
    BY <1>3, <2>1, <2>3, <2>4, <2>5, <2>6, <2>7, <2>8 DEF StartStep
<1>4. ASSUME NEW t \in Thread, ReleaseStep(t) PROVE BaseInv'
  <2>1. ASSUME NEW s \in Managed, NEW foreign \in BOOLEAN,
               ReleaseEnter(t, s, foreign)
        PROVE  BaseInv'
    <3> DEFINE frame == [kind |-> "release", service |-> s,
                         token |-> 0, step |-> "body"]
    <3>1. s \in Service
      BY DEF Managed
    <3>2. frame \in Frame /\ frame.kind = "release" /\ frame.service = s
      BY <1>0, <3>1 DEF Frame, Steps, DataTypeOK
    <3>3. MayEnter(t, frame.kind, frame.service) /\ Push(t, frame)
      BY <2>1, <3>2 DEF ReleaseEnter
    <3>4. StackTypeOK' /\ StackOK'
      <4> HIDE DEF frame
      <4> QED BY <3>2, <3>3, PushStack
    <3>5. DataTypeOK'
      BY <1>0, <2>1, <3>1, TransitionFacts, VacateFacts DEF ReleaseEnter, DataTypeOK, ModelStates
    <3> QED
      BY <3>4, <3>5, BaseFromParts
  <2>2. ASSUME NEW target \in ReleaseTargets, ReleaseDone(t, target)
        PROVE  BaseInv'
    <3>1. owner = t /\ Pop
      BY <2>2 DEF ReleaseDone, InStep
    <3>2. DataTypeOK'
      BY <1>0, <2>2, <3>1, FrameFacts, TransitionFacts, VacateFacts
      DEF ReleaseDone, DataTypeOK, ModelStates, ReleaseTargets
    <3> QED
      BY <3>1, <3>2, PopStack, BaseFromParts
  <2>3. CASE ReleaseRaises(t)
    <3>1. owner = t /\ PopRaising
      BY <2>3 DEF ReleaseRaises, InStep
    <3>2. DataTypeOK'
      BY <1>0, <2>3, <3>1, FrameFacts, TransitionFacts, VacateFacts
      DEF ReleaseRaises, DataTypeOK, ModelStates
    <3> QED
      BY <3>1, <3>2, PopRaisingStack, BaseFromParts
  <2> QED
    BY <1>4, <2>1, <2>2, <2>3 DEF ReleaseStep
<1>5. ASSUME NEW t \in Thread, ExternalStep(t) PROVE BaseInv'
  <2>1. ASSUME NEW s \in External, AcquireExternal(t, s)
        PROVE  BaseInv'
    <3> DEFINE frame == [kind |-> "external", service |-> s,
                         token |-> 0, step |-> "body"]
    <3>1. s \in Service
      BY ExternalAssumption
    <3>2. frame \in Frame /\ frame.kind = "external" /\ frame.service = s
      BY <1>0, <3>1 DEF Frame, Steps, DataTypeOK
    <3>3. MayEnter(t, frame.kind, frame.service) /\ Push(t, frame)
      BY <2>1, <3>2 DEF AcquireExternal, MayEnter
    <3>4. StackTypeOK' /\ StackOK'
      <4> HIDE DEF frame
      <4> QED BY <3>2, <3>3, PushStack
    <3>5. DataTypeOK'
      BY <1>0, <2>1, <3>1, TransitionFacts, VacateFacts DEF AcquireExternal, DataTypeOK, ModelStates
    <3> QED
      BY <3>4, <3>5, BaseFromParts
  <2>2. CASE MarkExternalReady(t)
    <3>1. owner = t
      BY <2>2 DEF MarkExternalReady, InStep
    <3>2. states' \in [Service -> ModelStates]
      BY <2>2, <3>1, FrameFacts, TransitionFacts, VacateFacts DEF MarkExternalReady, ModelStates
    <3> QED
      BY <2>2, <3>2 DEF MarkExternalReady, BaseInv, TypeOK, StackOK
  <2>3. ASSUME NEW succeeded \in BOOLEAN, ReleaseExternal(t, succeeded)
        PROVE  BaseInv'
    <3>1. owner = t /\ Pop
      BY <2>3 DEF ReleaseExternal, InStep
    <3>2. /\ states' \in [Service -> ModelStates]
          /\ active' \in Service \cup {None}
      <4>1. CASE succeeded
        BY <2>3, <3>1, <4>1, FrameFacts, TransitionFacts, VacateFacts
        DEF ReleaseExternal, ModelStates
      <4>2. CASE ~succeeded
        BY <1>0, <2>3, <3>1, <4>2, FrameFacts, TransitionFacts, VacateFacts
        DEF ReleaseExternal, ModelStates, DataTypeOK
      <4> QED
        BY <4>1, <4>2
    <3>3. DataTypeOK'
      BY <1>0, <2>3, <3>2 DEF ReleaseExternal, DataTypeOK
    <3> QED
      BY <3>1, <3>3, PopStack, BaseFromParts
  <2> QED
    BY <1>5, <2>1, <2>2, <2>3 DEF ExternalStep
<1> QED
  BY <1>1, <1>2, <1>3, <1>4, <1>5 DEF Next

\* Every reachable state is well typed: the commands in progress never nest
\* deeper than the two levels the stack has room for, whichever nestings of
\* NestingKinds the callers use.
THEOREM TypeCorrect == Spec => []TypeOK
<1>1. BaseInv => TypeOK
  BY DEF BaseInv
<1> QED
  BY BaseInit, BaseStep, <1>1, PTL DEF Spec

-----------------------------------------------------------------------------
(* The lease, for every nesting but a release inside a start's body.        *)

LEMMA InvInit == Init => Inv
<1> SUFFICES ASSUME Init PROVE Inv
  OBVIOUS
<1>1. \A s \in Service : states[s] = "ABSENT" /\ active # s
  BY NoneAssumption DEF Init
<1> QED
  BY <1>1, BaseInit DEF Init, Inv, TopHolds, LeaseExclusive, UnsettledHasFrame,
     Unsettled

\* All the commands in progress are about the service of the innermost one.
LEMMA OneService ==
  ASSUME BaseInv, NEW t \in Thread, owner = t
  PROVE  frames[1] \in Frame /\ frames[1].service = Top.service
<1>1. depth \in {1, 2} /\ Top \in Frame
  BY FrameFacts
<1>2. CASE depth = 1
  BY <1>1, <1>2 DEF Top
<1>3. CASE depth = 2
  BY <1>3, FrameFacts
<1> QED
  BY <1>1, <1>2, <1>3

\* Entering a command: the service the stack is about does not change.
LEMMA EnterUnsettled ==
  ASSUME Inv, NEW t \in Thread, NEW kind, NEW s \in Service,
         MayEnter(t, kind, s),
         NEW o \in Service, Unsettled(o)
  PROVE  o = s
<1>1. depth > 0 /\ frames[1].service = o
  BY DEF Inv, UnsettledHasFrame
<1>2. owner = t /\ Top.service = s
  BY <1>1 DEF MayEnter, Inv, BaseInv, StackOK
<1> QED
  BY <1>1, <1>2, OneService DEF Inv

LEMMA EnterKeepsInv ==
  ASSUME Inv, BaseInv', NEW t \in Thread, NEW frame \in Frame,
         MayEnter(t, frame.kind, frame.service), Push(t, frame),
         NEW state \in {"MODEL_LOADING", "RELEASING"},
         Transition(frame.service, state),
         \/ LeaseFreeFor(frame.service) /\ active' = frame.service
         \/ /\ active' = active /\ frame.kind = "release"
            /\ state = "RELEASING" /\ active # None
  PROVE  Inv'
<1> DEFINE s == frame.service
<1>0. s \in Service /\ BaseInv
  BY DEF Frame, Inv
<1>1. depth' > 0 /\ Top' = frame /\ frames'[1].service = s
  BY <1>0, PushStack
<1>2. /\ states'[s] = state
      /\ \A o \in Service \ {s} : states'[o] = states[o]
  BY <1>0, TransitionFacts DEF ModelStates
<1>3. TopHolds'
  BY <1>1 DEF TopHolds
<1>4. LeaseExclusive'
  <2> SUFFICES ASSUME NEW o \in Service,
                      states'[o] \in {"MODEL_LOADING", "MODEL_READY"}
               PROVE  active' = o
    BY DEF LeaseExclusive
  <2>1. CASE o = s
    BY <1>2, <2>1
  <2>2. CASE o # s
    <3>1. active = o
      BY <1>2, <2>2 DEF Inv, LeaseExclusive
    <3> QED
      BY <2>2, <3>1, NoneAssumption DEF LeaseFreeFor
  <2> QED
    BY <2>1, <2>2
<1>5. UnsettledHasFrame'
  <2> SUFFICES ASSUME NEW o \in Service, Unsettled(o)', o # s
               PROVE  FALSE
    BY <1>1 DEF UnsettledHasFrame
  <2>1. Unsettled(o)
    BY <1>2 DEF Unsettled
  <2> QED
    BY <1>0, <2>1, EnterUnsettled
<1> QED
  BY <1>3, <1>4, <1>5 DEF Inv

\* Moving on inside a command changes neither the lease nor a state.
LEMMA GotoKeepsInv ==
  ASSUME Inv, BaseInv', NEW t \in Thread, owner = t, NEW step \in Steps, Goto(step),
         UNCHANGED <<active, states>>,
         \/ step \notin {"body", "confirm", "publish"} /\ Top.kind # "external"
         \/ Top.step \in {"body", "confirm", "publish"}
  PROVE  Inv'
<1>0. BaseInv /\ Top \in Frame /\ depth > 0
  BY FrameFacts DEF Inv
<1>1. depth' > 0 /\ Top' = [Top EXCEPT !.step = step]
      /\ frames'[1].service = frames[1].service
  BY <1>0, GotoStack
<1>2. /\ Top'.kind = Top.kind /\ Top'.service = Top.service
      /\ Top'.step = step
  BY <1>0, <1>1 DEF Frame
<1>3. TopHolds'
  BY <1>0, <1>2 DEF TopHolds, Inv
<1>4. LeaseExclusive'
  BY DEF Inv, LeaseExclusive
<1>5. UnsettledHasFrame'
  BY <1>0, <1>1 DEF Inv, UnsettledHasFrame, Unsettled
<1> QED
  BY <1>3, <1>4, <1>5 DEF Inv

\* Ending a command: its service ends settled, whatever the enclosing one is.
LEMMA ExitKeepsInv ==
  ASSUME Inv, BaseInv', NEW t \in Thread, owner = t,
         NEW state \in {"STOPPED", "SLEEPING", "MODEL_READY", "RELEASE_FAILED"},
         Transition(Top.service, state),
         \/ state \in {"STOPPED", "SLEEPING"} /\ VacateIfHolder(Top.service)
         \/ state = "RELEASE_FAILED" /\ active' = active
         \/ /\ state = "MODEL_READY" /\ active' = active
            /\ active = Top.service,
         depth = 1 => depth' = 0,
         depth = 2 => depth' = 1 /\ frames'[1].service = frames[1].service,
         TopHolds'
  PROVE  Inv'
<1> DEFINE s == Top.service
<1>0. BaseInv /\ s \in Service /\ depth \in {1, 2} /\ frames[1].service = s
  BY FrameFacts, OneService DEF Inv
<1>1. /\ states'[s] = state
      /\ \A o \in Service \ {s} : states'[o] = states[o]
  BY <1>0, TransitionFacts DEF ModelStates
<1>2. \A o \in Service \ {s} : active' = o <=> active = o
  BY <1>0, VacateFacts, NoneAssumption
<1>3. state \in {"STOPPED", "SLEEPING"} => active' # s
  BY <1>0, VacateFacts
<1>4. LeaseExclusive'
  <2> SUFFICES ASSUME NEW o \in Service,
                      states'[o] \in {"MODEL_LOADING", "MODEL_READY"}
               PROVE  active' = o
    BY DEF LeaseExclusive
  <2>1. CASE o = s
    BY <1>1, <2>1
  <2>2. CASE o # s
    BY <1>1, <1>2, <2>2 DEF Inv, LeaseExclusive
  <2> QED
    BY <2>1, <2>2
<1>5. UnsettledHasFrame'
  <2> SUFFICES ASSUME NEW o \in Service, Unsettled(o)'
               PROVE  FALSE
    BY DEF UnsettledHasFrame
  <2>1. CASE o = s
    BY <1>1, <1>3, <2>1 DEF Unsettled
  <2>2. CASE o # s
    <3>1. Unsettled(o)
      BY <1>1, <1>2, <2>2 DEF Unsettled
    <3> QED
      BY <1>0, <2>2, <3>1 DEF Inv, UnsettledHasFrame
  <2> QED
    BY <2>1, <2>2
<1> QED
  BY <1>4, <1>5 DEF Inv

\* After a raise the enclosing command only cleans up, so it publishes nothing.
LEMMA RaiseTopHolds ==
  ASSUME BaseInv, NEW t \in Thread, owner = t, PopRaising
  PROVE  TopHolds'
<1>1. CASE depth = 1
  BY <1>1, PopRaisingStack DEF TopHolds
<1>2. CASE depth = 2
  BY <1>2, PopRaisingStack DEF TopHolds
<1> QED
  BY <1>1, <1>2, FrameFacts

\* After a normal end the enclosing command either has lost the right to
\* publish, or it is a start around a start that leaves the lease in place.
LEMMA PopTopHolds ==
  ASSUME Inv, PlainNestings, NEW t \in Thread, owner = t, Pop,
         Top.kind = "start" => active' = Top.service
  PROVE  TopHolds'
<1>0. BaseInv
  BY DEF Inv
<1>1. CASE depth = 1
  BY <1>0, <1>1, PopStack DEF TopHolds
<1>2. CASE depth = 2
  <2>1. Top' = frames[1] /\ frames[1].service = Top.service
    BY <1>0, <1>2, PopStack, OneService
  <2>2. <<frames[1].kind, frames[1].step, Top.kind>> \in Nestings
    BY <1>0, <1>2 DEF BaseInv, StackOK, Top
  <2>3. <<frames[1].kind, frames[1].step, Top.kind>>
          \in NestingKinds \ {<<"start", "body", "release">>}
    BY <2>2, NestingAssumption DEF PlainNestings
  <2>4. \/ frames[1].kind = "start" /\ frames[1].step = "body" /\ Top.kind = "start"
        \/ frames[1].kind = "start" /\ frames[1].step = "cleanup"
        \/ frames[1].kind = "release"
    BY <2>3 DEF NestingKinds
  <2> QED
    BY <2>1, <2>4 DEF TopHolds
<1> QED
  BY <1>0, <1>1, <1>2, FrameFacts

LEMMA InvStep == PlainNestings /\ Inv /\ [Next]_vars => Inv'
<1> SUFFICES ASSUME PlainNestings, Inv, [Next]_vars PROVE Inv'
  OBVIOUS
<1>0. BaseInv /\ BaseInv'
  BY BaseStep DEF Inv
<1>1. CASE UNCHANGED vars
  BY <1>0, <1>1 DEF Inv, TopHolds, Top, LeaseExclusive, UnsettledHasFrame,
     Unsettled, vars
<1>2. CASE Reset \/ CancelGeneration
  BY <1>0, <1>2 DEF Reset, CancelGeneration, Inv, TopHolds, Top, LeaseExclusive,
     UnsettledHasFrame, Unsettled
<1>3. ASSUME NEW t \in Thread, StartStep(t) PROVE Inv'
  <2>1. ASSUME NEW s \in Managed, NEW checker \in BOOLEAN,
               StartEnter(t, s, checker)
        PROVE  Inv'
    <3> DEFINE frame == [kind |-> "start", service |-> s,
                         token |-> generation, step |-> "body"]
    <3>1. frame \in Frame /\ frame.kind = "start" /\ frame.service = s
      BY <1>0 DEF Frame, Steps, Managed, BaseInv, TypeOK
    <3>2. /\ MayEnter(t, frame.kind, frame.service) /\ Push(t, frame)
          /\ Transition(frame.service, "MODEL_LOADING")
          /\ LeaseFreeFor(frame.service) /\ active' = frame.service
      BY <2>1, <3>1 DEF StartEnter
    <3> HIDE DEF frame
    <3> QED
      BY <1>0, <3>1, <3>2, EnterKeepsInv
  <2>2. CASE StartBodyDone(t)
    BY <1>0, <2>2, GotoKeepsInv DEF StartBodyDone, InStep, Steps
  <2>3. CASE StartBodyRaises(t)
    BY <1>0, <2>3, GotoKeepsInv DEF StartBodyRaises, InStep, Steps
  <2>4. CASE \E checker \in BOOLEAN : StartConfirm(t, checker)
    <3>1. PICK checker \in BOOLEAN : StartConfirm(t, checker)
      BY <2>4
    <3>2. \E step \in Steps : Goto(step)
      BY <3>1 DEF StartConfirm, Steps
    <3> QED
      BY <1>0, <3>1, <3>2, GotoKeepsInv DEF StartConfirm, InStep
  <2>5. CASE StartPublish(t)
    <3>1. /\ owner = t /\ depth > 0 /\ Top.kind = "start" /\ Top.step = "publish"
          /\ Transition(Top.service, "MODEL_READY") /\ Pop /\ active' = active
      BY <2>5 DEF StartPublish, InStep
    <3>2. active = Top.service
      BY <3>1 DEF Inv, TopHolds
    <3>3. TopHolds'
      BY <3>1, <3>2, PopTopHolds
    <3> QED
      BY <1>0, <3>1, <3>2, <3>3, PopStack, ExitKeepsInv
  <2>6. CASE StartCleanupDone(t)
    <3>1. /\ owner = t /\ VacateIfHolder(Top.service)
          /\ Transition(Top.service, "STOPPED") /\ PopRaising
      BY <2>6 DEF StartCleanupDone, InStep
    <3>2. TopHolds'
      BY <1>0, <3>1, RaiseTopHolds
    <3> QED
      BY <1>0, <3>1, <3>2, PopRaisingStack, ExitKeepsInv
  <2>7. CASE StartCleanupRaises(t)
    <3>1. /\ owner = t /\ active' = active
          /\ Transition(Top.service, "RELEASE_FAILED") /\ PopRaising
      BY <2>7 DEF StartCleanupRaises, InStep
    <3>2. TopHolds'
      BY <1>0, <3>1, RaiseTopHolds
    <3> QED
      BY <1>0, <3>1, <3>2, PopRaisingStack, ExitKeepsInv
  <2> QED
    BY <1>3, <2>1, <2>2, <2>3, <2>4, <2>5, <2>6, <2>7 DEF StartStep
<1>4. ASSUME NEW t \in Thread, ReleaseStep(t) PROVE Inv'
  <2>1. ASSUME NEW s \in Managed, NEW foreign \in BOOLEAN,
               ReleaseEnter(t, s, foreign)
        PROVE  Inv'
    <3> DEFINE frame == [kind |-> "release", service |-> s,
                         token |-> 0, step |-> "body"]
    <3>1. frame \in Frame /\ frame.kind = "release" /\ frame.service = s
      BY DEF Frame, Steps, Managed
    <3>2. /\ MayEnter(t, frame.kind, frame.service) /\ Push(t, frame)
          /\ Transition(frame.service, "RELEASING")
      BY <2>1, <3>1 DEF ReleaseEnter
    <3>3. \/ LeaseFreeFor(frame.service) /\ active' = frame.service
          \/ active' = active /\ active # None
      BY <2>1, <3>1, NoneAssumption DEF ReleaseEnter, LeaseFreeFor
    <3> HIDE DEF frame
    <3> QED
      BY <1>0, <3>1, <3>2, <3>3, EnterKeepsInv
  <2>2. ASSUME NEW target \in ReleaseTargets, ReleaseDone(t, target)
        PROVE  Inv'
    <3>1. /\ owner = t /\ Top.kind = "release" /\ VacateIfHolder(Top.service)
          /\ Transition(Top.service, target) /\ Pop
      BY <2>2 DEF ReleaseDone, InStep
    <3>2. TopHolds'
      BY <3>1, PopTopHolds
    <3>3. target \in {"STOPPED", "SLEEPING"}
      BY DEF ReleaseTargets
    <3> QED
      BY <1>0, <3>1, <3>2, <3>3, PopStack, ExitKeepsInv
  <2>3. CASE ReleaseRaises(t)
    <3>1. /\ owner = t /\ active' = active
          /\ Transition(Top.service, "RELEASE_FAILED") /\ PopRaising
      BY <2>3 DEF ReleaseRaises, InStep
    <3>2. TopHolds'
      BY <1>0, <3>1, RaiseTopHolds
    <3> QED
      BY <1>0, <3>1, <3>2, PopRaisingStack, ExitKeepsInv
  <2> QED
    BY <1>4, <2>1, <2>2, <2>3 DEF ReleaseStep
<1>5. ASSUME NEW t \in Thread, ExternalStep(t) PROVE Inv'
  <2>1. ASSUME NEW s \in External, AcquireExternal(t, s)
        PROVE  Inv'
    <3> DEFINE frame == [kind |-> "external", service |-> s,
                         token |-> 0, step |-> "body"]
    <3>1. frame \in Frame /\ frame.kind = "external" /\ frame.service = s
      BY ExternalAssumption DEF Frame, Steps
    <3>2. /\ MayEnter(t, frame.kind, frame.service) /\ Push(t, frame)
          /\ Transition(frame.service, "MODEL_LOADING")
          /\ LeaseFreeFor(frame.service) /\ active' = frame.service
      BY <2>1, <3>1 DEF AcquireExternal, MayEnter
    <3> HIDE DEF frame
    <3> QED
      BY <1>0, <3>1, <3>2, EnterKeepsInv
  <2>2. CASE MarkExternalReady(t)
    <3>1. /\ owner = t /\ depth > 0 /\ Top.kind = "external"
          /\ Transition(Top.service, "MODEL_READY")
          /\ UNCHANGED <<active, owner, depth, frames>>
      BY <2>2 DEF MarkExternalReady, InStep
    <3>2. active = Top.service /\ Top.service \in Service
      BY <1>0, <3>1, FrameFacts DEF Inv, TopHolds
    <3>3. /\ states'[Top.service] = "MODEL_READY"
          /\ \A o \in Service \ {Top.service} : states'[o] = states[o]
      BY <1>0, <3>1, <3>2, TransitionFacts DEF ModelStates
    <3>4. TopHolds' /\ LeaseExclusive'
      BY <3>1, <3>2, <3>3 DEF Inv, TopHolds, Top, LeaseExclusive
    <3>5. UnsettledHasFrame'
      BY <3>1, <3>2, <3>3 DEF Inv, UnsettledHasFrame, Unsettled
    <3> QED
      BY <1>0, <3>4, <3>5 DEF Inv
  <2>3. ASSUME NEW succeeded \in BOOLEAN, ReleaseExternal(t, succeeded)
        PROVE  Inv'
    <3>1. owner = t /\ Top.kind = "external" /\ Pop
      BY <2>3 DEF ReleaseExternal, InStep
    <3>2. TopHolds'
      BY <3>1, PopTopHolds
    <3>3. CASE succeeded
      <4>1. VacateIfHolder(Top.service) /\ Transition(Top.service, "STOPPED")
        BY <2>3, <3>3 DEF ReleaseExternal
      <4> QED
        BY <1>0, <3>1, <3>2, <4>1, PopStack, ExitKeepsInv
    <3>4. CASE ~succeeded
      <4>1. active' = active /\ Transition(Top.service, "RELEASE_FAILED")
        BY <2>3, <3>4 DEF ReleaseExternal
      <4> QED
        BY <1>0, <3>1, <3>2, <4>1, PopStack, ExitKeepsInv
    <3> QED
      BY <3>3, <3>4
  <2> QED
    BY <1>5, <2>1, <2>2, <2>3 DEF ExternalStep
<1> QED
  BY <1>1, <1>2, <1>3, <1>4, <1>5 DEF Next

\* At most one service is loading or ready, and it holds the lease.
THEOREM LeaseIsExclusive ==
  ASSUME PlainNestings
  PROVE  Spec => []LeaseExclusive
<1>1. Inv => LeaseExclusive
  BY DEF Inv
<1>2. Inv /\ [Next]_vars => Inv'
  BY InvStep
<1> QED
  BY InvInit, <1>1, <1>2, PTL DEF Spec

\* When the command lock is free no service is half loaded or half released,
\* and no stopped service keeps the lease.
THEOREM NothingIsHalfDone ==
  ASSUME PlainNestings
  PROVE  Spec => []NothingHalfDone
<1>1. Inv => NothingHalfDone
  <2> SUFFICES ASSUME Inv, owner = None, NEW s \in Service
               PROVE  ~Unsettled(s)
    BY DEF NothingHalfDone, Unsettled
  <2> QED
    BY DEF Inv, BaseInv, StackOK, UnsettledHasFrame
<1>2. Inv /\ [Next]_vars => Inv'
  BY InvStep
<1> QED
  BY InvInit, <1>1, <1>2, PTL DEF Spec

-----------------------------------------------------------------------------
(* How the lease changes hands.                                             *)

\* The lease is taken only from nobody, for a model that is not ready yet,
\* and left only by a service recorded as stopped or asleep.
LeaseMove ==
  active' # active =>
    \/ active' = None /\ states'[active] \in ReleaseTargets
    \/ active = None /\ states'[active'] # "MODEL_READY"

LEMMA VacateMoves ==
  ASSUME BaseInv, NEW s \in Service, NEW target \in ReleaseTargets,
         VacateIfHolder(s), Transition(s, target)
  PROVE  LeaseMove
<1>1. states'[s] = target
  BY TransitionFacts DEF ModelStates, ReleaseTargets
<1> QED
  BY <1>1, VacateFacts DEF LeaseMove

LEMMA EnterMoves ==
  ASSUME BaseInv, NEW s \in Service, NEW state \in {"MODEL_LOADING", "RELEASING"},
         active' = s => active \in {None, s},
         active' \in {s, active}, Transition(s, state)
  PROVE  LeaseMove
<1>1. states'[s] = state
  BY TransitionFacts DEF ModelStates
<1> QED
  BY <1>1 DEF LeaseMove

LEMMA StepMoves == BaseInv /\ [Next]_vars => LeaseMove
<1> SUFFICES ASSUME BaseInv, [Next]_vars PROVE LeaseMove
  OBVIOUS
<1>1. CASE UNCHANGED vars \/ Reset \/ CancelGeneration
  BY <1>1 DEF vars, Reset, CancelGeneration, LeaseMove
<1>2. ASSUME NEW t \in Thread, StartStep(t) PROVE LeaseMove
  <2>1. ASSUME NEW s \in Managed, NEW checker \in BOOLEAN,
               StartEnter(t, s, checker)
        PROVE  LeaseMove
    <3>1. s \in Service
      BY DEF Managed
    <3> QED
      BY <2>1, <3>1, EnterMoves DEF StartEnter, LeaseFreeFor
  <2>2. CASE StartBodyDone(t) \/ StartBodyRaises(t) \/ StartPublish(t)
             \/ StartCleanupRaises(t)
    BY <2>2 DEF StartBodyDone, StartBodyRaises, StartPublish,
                StartCleanupRaises, LeaseMove
  <2>3. CASE \E checker \in BOOLEAN : StartConfirm(t, checker)
    BY <2>3 DEF StartConfirm, LeaseMove
  <2>4. CASE StartCleanupDone(t)
    BY <2>4, FrameFacts, VacateMoves
    DEF StartCleanupDone, InStep, ReleaseTargets
  <2> QED
    BY <1>2, <2>1, <2>2, <2>3, <2>4 DEF StartStep
<1>3. ASSUME NEW t \in Thread, ReleaseStep(t) PROVE LeaseMove
  <2>1. ASSUME NEW s \in Managed, NEW foreign \in BOOLEAN,
               ReleaseEnter(t, s, foreign)
        PROVE  LeaseMove
    <3>1. s \in Service
      BY DEF Managed
    <3>2. active' \in {s, active} /\ (active' = s => active \in {None, s})
      BY <2>1 DEF ReleaseEnter
    <3> QED
      BY <2>1, <3>1, <3>2, EnterMoves DEF ReleaseEnter
  <2>2. ASSUME NEW target \in ReleaseTargets, ReleaseDone(t, target)
        PROVE  LeaseMove
    BY <2>2, FrameFacts, VacateMoves DEF ReleaseDone, InStep
  <2>3. CASE ReleaseRaises(t)
    BY <2>3 DEF ReleaseRaises, LeaseMove
  <2> QED
    BY <1>3, <2>1, <2>2, <2>3 DEF ReleaseStep
<1>4. ASSUME NEW t \in Thread, ExternalStep(t) PROVE LeaseMove
  <2>1. ASSUME NEW s \in External, AcquireExternal(t, s)
        PROVE  LeaseMove
    BY <2>1, ExternalAssumption, EnterMoves DEF AcquireExternal, LeaseFreeFor
  <2>2. CASE MarkExternalReady(t)
    BY <2>2 DEF MarkExternalReady, LeaseMove
  <2>3. ASSUME NEW succeeded \in BOOLEAN, ReleaseExternal(t, succeeded)
        PROVE  LeaseMove
    <3>1. CASE succeeded
      BY <2>3, <3>1, FrameFacts, VacateMoves
      DEF ReleaseExternal, InStep, ReleaseTargets
    <3>2. CASE ~succeeded
      BY <2>3, <3>2 DEF ReleaseExternal, LeaseMove
    <3> QED
      BY <3>1, <3>2
  <2> QED
    BY <1>4, <2>1, <2>2, <2>3 DEF ExternalStep
<1> QED
  BY <1>1, <1>2, <1>3, <1>4 DEF Next

\* The lease leaves a service only for nobody, in the step that records the
\* service as stopped or asleep, for every nesting the callers use.
THEOREM LeaseLeftOnlyWhenStopped == Spec => VacatedOnlyWhenStopped
<1>1. BaseInv /\ [Next]_vars =>
        [active # None /\ active' # active =>
           active' = None /\ states'[active] \in ReleaseTargets]_vars
  BY StepMoves DEF LeaseMove
<1> QED
  BY BaseInit, BaseStep, <1>1, PTL DEF Spec, VacatedOnlyWhenStopped

-----------------------------------------------------------------------------
(* The refinement.                                                          *)

ReadySet == {s \in Service : states[s] = "MODEL_READY"}

LEMMA ReadyIsHolder ==
  ASSUME Inv
  PROVE  /\ active = None => ReadySet = {}
         /\ active # None => ReadySet \in {{}, {active}}
         /\ active # None => active \in Service
         /\ active # None /\ states[active] # "MODEL_READY" => ReadySet = {}
  BY NoneAssumption DEF Inv, BaseInv, TypeOK, LeaseExclusive, ReadySet

\* The arbiter implements the exclusive GPU model lease: every step is a move
\* of the lease or leaves holder and ready model as they are.
THEOREM ArbiterImplementsLease ==
  ASSUME PlainNestings
  PROVE  Spec => ImplementsLease
<1>1. Init => Lease!Init
  BY DEF Init, Lease!Init
<1>2. Inv /\ [Next]_vars => [Lease!Next]_(Lease!lease)
  <2> SUFFICES ASSUME Inv, [Next]_vars
               PROVE  Lease!Next \/ UNCHANGED Lease!lease
    OBVIOUS
  <2>1. Inv' /\ LeaseMove
    BY InvStep, StepMoves DEF Inv
  <2>2. /\ active' = None => ReadySet' = {}
        /\ active' # None => ReadySet' \in {{}, {active'}}
        /\ active' # None => active' \in Service
        /\ active' # None /\ states'[active'] # "MODEL_READY" => ReadySet' = {}
    BY <2>1, NoneAssumption
    DEF Inv, BaseInv, TypeOK, LeaseExclusive, ReadySet
  <2>3. CASE active' = active /\ active = None
    BY <2>2, <2>3, ReadyIsHolder DEF Lease!lease, ReadySet
  <2>4. CASE active' = active /\ active # None
    <3>1. active \in Service /\ ReadySet' \in {{}, {active}}
      BY <2>2, <2>4
    <3>2. Lease!Occupy(active) \/ Lease!Publish(active)
      BY <2>4, <3>1 DEF Lease!Occupy, Lease!Publish, ReadySet
    <3> QED
      BY <3>1, <3>2 DEF Lease!Next, Lease!Occupy, Lease!Publish, Lease!Vacate
  <2>5. CASE active' # active /\ active' = None
    <3>1. active \in Service /\ ReadySet' = {}
      BY <2>2, <2>5, ReadyIsHolder
    <3>2. Lease!Vacate(active)
      BY <2>5, <3>1 DEF Lease!Vacate, ReadySet
    <3> QED
      BY <3>1, <3>2 DEF Lease!Next, Lease!Occupy, Lease!Publish, Lease!Vacate
  <2>6. CASE active' # active /\ active' # None
    <3>1. active = None /\ active' \in Service /\ ReadySet' = {}
      BY <2>1, <2>2, <2>6 DEF LeaseMove
    <3>2. Lease!Occupy(active')
      BY <3>1 DEF Lease!Occupy, ReadySet
    <3> QED
      BY <3>1, <3>2 DEF Lease!Next, Lease!Occupy, Lease!Publish, Lease!Vacate
  <2> QED
    BY <2>3, <2>4, <2>5, <2>6
<1>3. Inv /\ [Next]_vars => Inv'
  BY InvStep
<1> QED
  BY InvInit, <1>1, <1>2, <1>3, PTL DEF Spec, ImplementsLease, Lease!Spec

=============================================================================
