-------------------------- MODULE TaskRunnerProofs --------------------------
(***************************************************************************)
(* Theorems about TaskRunner for every set of operations and every number  *)
(* of cancellations.                                                       *)
(***************************************************************************)
EXTENDS TaskRunner, FiniteSetTheorems, FunctionTheorems, TLAPS

\* What the queue holds was submitted to it, never started past it: its end
\* starts the next.
QueueIsQueued ==
  /\ \A i \in 1..Len(queue) : queue[i] \notin immediate /\ phase[queue[i]] # "new"
  /\ \A o \in immediate : phase[o] # "new"

\* An operation whose end is reported was submitted.
EndsAreOld == \A o \in Op : Posted(<<"finished", o>>) => phase[o] # "new"

Inv == TypeOK /\ QueueIsQueued /\ EndsAreOld /\ NeverWedged /\ CurrentIsLive

Event == EventKinds \X (Op \cup {None})

-----------------------------------------------------------------------------
(* The event loop's queue.                                                  *)

LEMMA EventTypes ==
  /\ StartNext \in Event
  /\ \A o \in Op : <<"error", o>> \in Event /\ <<"finished", o>> \in Event
BY DEF StartNext, Event, EventKinds

\* Posting an event loses none.
LEMMA PostedAppend ==
  ASSUME events \in Seq(Event), NEW x \in Event, events' = Append(events, x)
  PROVE  /\ events' \in Seq(Event)
         /\ Posted(x)'
         /\ \A e : Posted(e) => Posted(e)'
         /\ \A e : Posted(e)' => Posted(e) \/ e = x
<1>1. events' \in Seq(Event)
  OBVIOUS
<1>2. /\ DOMAIN events = 1..Len(events) /\ DOMAIN events' = 1..(Len(events) + 1)
      /\ Len(events) \in Nat
      /\ \A i \in 1..Len(events) : events'[i] = events[i]
      /\ events'[Len(events) + 1] = x
  OBVIOUS
<1>3. Posted(x)'
  BY <1>2 DEF Posted
<1>4. ASSUME NEW e, Posted(e) PROVE Posted(e)'
  BY <1>2, <1>4 DEF Posted
<1>5. ASSUME NEW e, Posted(e)' PROVE Posted(e) \/ e = x
  BY <1>2, <1>5 DEF Posted
<1> QED
  BY <1>1, <1>3, <1>4, <1>5

\* Handling the head loses no other event.
LEMMA PostedTail ==
  ASSUME events \in Seq(Event), events # <<>>, events' = Tail(events)
  PROVE  /\ events' \in Seq(Event)
         /\ \A e : Posted(e) /\ e # Head(events) => Posted(e)'
         /\ \A e : Posted(e)' => Posted(e)
<1>1. events' \in Seq(Event)
  OBVIOUS
<1>2. /\ DOMAIN events = 1..Len(events) /\ DOMAIN events' = 1..(Len(events) - 1)
      /\ Len(events) \in Nat
      /\ \A i \in 1..(Len(events) - 1) : events'[i] = events[i + 1]
      /\ Head(events) = events[1]
  OBVIOUS
<1>3. ASSUME NEW e, Posted(e), e # Head(events) PROVE Posted(e)'
  <2>1. PICK i \in 1..Len(events) : events[i] = e
    BY <1>2, <1>3 DEF Posted
  <2>2. i - 1 \in 1..(Len(events) - 1) /\ events'[i - 1] = e
    BY <1>2, <1>3, <2>1
  <2> QED
    BY <1>2, <2>2 DEF Posted
<1>4. ASSUME NEW e, Posted(e)' PROVE Posted(e)
  <2>1. PICK i \in 1..(Len(events) - 1) : events'[i] = e
    BY <1>2, <1>4 DEF Posted
  <2>2. i + 1 \in 1..Len(events) /\ events[i + 1] = e
    BY <1>2, <2>1
  <2> QED
    BY <1>2, <2>2 DEF Posted
<1> QED
  BY <1>1, <1>3, <1>4

\* So does handling it and posting the start of the next operation.
LEMMA AdvancePosted ==
  ASSUME events \in Seq(Event), events # <<>>, NEW o, Advance(o)
  PROVE  /\ events' \in Seq(Event)
         /\ o \notin immediate => Posted(StartNext)'
         /\ \A e : Posted(e) /\ e # Head(events) => Posted(e)'
         /\ \A e : Posted(e)' => Posted(e) \/ e = StartNext
<1>1. CASE o \in immediate
  BY <1>1, PostedTail DEF Advance
<1>2. CASE o \notin immediate
  <2>1. events' = Append(Tail(events), StartNext) /\ StartNext \in Event
    BY <1>2, EventTypes DEF Advance
  <2>2. events' \in Seq(Event)
    BY <2>1
  <2>3. /\ DOMAIN events = 1..Len(events) /\ DOMAIN events' = 1..Len(events)
        /\ Len(events) \in Nat \ {0}
        /\ \A i \in 1..(Len(events) - 1) : events'[i] = events[i + 1]
        /\ events'[Len(events)] = StartNext
        /\ Head(events) = events[1]
    BY <2>1
  <2>4. Posted(StartNext)'
    <3>1. Len(events) \in DOMAIN events' /\ events'[Len(events)] = StartNext
      BY <2>3
    <3>2. StartNext' = StartNext
      BY DEF StartNext
    <3> QED
      BY <3>1, <3>2 DEF Posted
  <2>5. ASSUME NEW e, Posted(e), e # Head(events) PROVE Posted(e)'
    <3>1. PICK i \in 1..Len(events) : events[i] = e
      BY <2>3, <2>5 DEF Posted
    <3>2. i - 1 \in 1..Len(events) /\ i - 1 \in 1..(Len(events) - 1) /\ events'[i - 1] = e
      BY <2>3, <2>5, <3>1
    <3> QED
      BY <2>3, <3>2 DEF Posted
  <2>6. ASSUME NEW e, Posted(e)', e # StartNext PROVE Posted(e)
    <3>1. PICK i \in 1..Len(events) : events'[i] = e
      BY <2>3, <2>6 DEF Posted
    <3>2. i \in 1..(Len(events) - 1) /\ i + 1 \in 1..Len(events) /\ events[i + 1] = e
      BY <2>3, <2>6, <3>1
    <3> QED
      BY <2>3, <3>2 DEF Posted
  <2> QED
    BY <2>2, <2>4, <2>5, <2>6
<1> QED
  BY <1>1, <1>2

-----------------------------------------------------------------------------
(* The queue.                                                               *)

\* Taking the next operation off a well-formed queue starts it, or leaves the
\* runner idle with an empty queue.
LEMMA ProcessNextFacts ==
  ASSUME NEW q \in Seq(Op), NEW ph \in [Op -> Phases],
         TypeOK, ProcessNext(q, ph), q = <<>> => queue = <<>>,
         \A i \in 1..Len(q) : q[i] \notin immediate /\ ph[q[i]] # "new"
  PROVE  /\ queue' \in Seq(Op) /\ processing' \in BOOLEAN
         /\ phase' \in [Op -> Phases] /\ current' \in Op \cup {None}
         /\ \A i \in 1..Len(queue') : queue'[i] \notin immediate /\ phase'[queue'[i]] # "new"
         /\ \A o \in Op : ph[o] # "new" => phase'[o] # "new"
         /\ \A o \in Op : ph[o] \in {"running", "returned"} => Alive(o)'
         /\ queue' # <<>> => processing'
         /\ processing' => \E o \in Queued : Alive(o)'
         /\ current' = current \/ (current' \in Op /\ phase'[current'] = "running")
<1>1. CASE q = <<>>
  BY <1>1 DEF ProcessNext, TypeOK, Alive
<1>2. CASE q # <<>>
  <2>1. /\ processing' = TRUE /\ queue' = Tail(q) /\ current' = Head(q)
        /\ phase' = [ph EXCEPT ![Head(q)] = "running"]
    BY <1>2 DEF ProcessNext
  <2>2. /\ Head(q) = q[1] /\ 1 \in 1..Len(q) /\ Head(q) \in Op
        /\ Tail(q) \in Seq(Op) /\ Len(Tail(q)) = Len(q) - 1 /\ Len(q) \in Nat
        /\ \A i \in 1..Len(Tail(q)) : Tail(q)[i] = q[i + 1]
    BY <1>2
  <2>3. /\ phase'[Head(q)] = "running"
        /\ phase' \in [Op -> Phases]
        /\ \A o \in Op : o # Head(q) => phase'[o] = ph[o]
    BY <2>1, <2>2 DEF Phases
  <2>4. Alive(Head(q))' /\ Head(q) \in Queued
    BY <2>1, <2>2, <2>3 DEF Alive, Queued
  <2>5. \A i \in 1..Len(queue') : /\ queue'[i] \in Op /\ queue'[i] \notin immediate
                                 /\ ph[queue'[i]] # "new"
    BY <2>1, <2>2
  <2>6. \A o \in Op : ph[o] # "new" => phase'[o] # "new"
    BY <2>3
  <2>7. \A o \in Op : ph[o] \in {"running", "returned"} => Alive(o)'
    BY <2>3 DEF Alive
  <2> QED
    BY <2>1, <2>2, <2>3, <2>4, <2>5, <2>6, <2>7
<1> QED
  BY <1>1, <1>2

-----------------------------------------------------------------------------
(* The steps.                                                               *)

\* A step that ends no worker unreported and takes no event off the loop keeps
\* a start on its way and the current worker live.
Kept ==
  /\ \A o \in Op : Alive(o) => (Alive(o) \/ Posted(<<"finished", o>>))'
  /\ \A o \in Op : Posted(<<"finished", o>>) => Posted(<<"finished", o>>)'
  /\ Posted(StartNext) => Posted(StartNext)'

LEMMA KeptMoving ==
  ASSUME Kept, Moving, immediate' \cap {o \in Op : Alive(o) \/ Posted(<<"finished", o>>)} \subseteq immediate
  PROVE  Moving'
<1>1. CASE Posted(StartNext)
  BY <1>1 DEF Kept, Moving
<1>2. ASSUME NEW o \in Queued, Alive(o) \/ Posted(<<"finished", o>>)
      PROVE  Moving'
  <2>1. o \in Op /\ o \notin immediate'
    BY <1>2 DEF Queued
  <2> QED
    BY <1>2, <2>1 DEF Kept, Moving, Queued
<1> QED
  BY <1>1, <1>2 DEF Moving

LEMMA KeptCurrent ==
  ASSUME TypeOK, Kept, CurrentIsLive, current' = current
  PROVE  CurrentIsLive'
BY DEF TypeOK, Kept, CurrentIsLive, Alive, Posted

LEMMA InitInv == Init => Inv
<1> SUFFICES ASSUME Init PROVE Inv
  OBVIOUS
<1>1. TypeOK
  <2>1. queue \in Seq(Op) /\ events \in Seq(EventKinds \X (Op \cup {None}))
    BY DEF Init
  <2>2. phase \in [Op -> Phases]
    BY DEF Init, Phases
  <2>3. cancels \in 0..MaxCancels
    BY CancelAssumption DEF Init
  <2> QED
    BY <2>1, <2>2, <2>3 DEF Init, TypeOK
<1>2. QueueIsQueued
  BY DEF Init, QueueIsQueued
<1>3. NeverWedged
  BY DEF Init, NeverWedged
<1>4. CurrentIsLive
  BY DEF Init, CurrentIsLive
<1>5. EndsAreOld
  BY DEF Init, EndsAreOld, Posted
<1> QED
  BY <1>1, <1>2, <1>3, <1>4, <1>5 DEF Inv

LEMMA SubmitStep ==
  ASSUME Inv, NEW o \in Op, Submit(o)
  PROVE  Inv'
<1> DEFINE q == Append(queue, o)
<1> DEFINE ph == [phase EXCEPT ![o] = "waiting"]
<1>1. /\ phase[o] = "new" /\ o \notin immediate
      /\ q \in Seq(Op) /\ q # <<>> /\ ph \in [Op -> Phases]
      /\ UNCHANGED <<immediate, failed, cancels, events>>
  <2>1. phase[o] = "new" /\ UNCHANGED <<immediate, failed, cancels, events>>
    BY DEF Submit
  <2>2. o \notin immediate
    BY <2>1 DEF Inv, QueueIsQueued
  <2>3. q \in Seq(Op) /\ q # <<>>
    BY DEF Inv, TypeOK
  <2>4. ph \in [Op -> Phases]
    BY DEF Inv, TypeOK, Phases
  <2> QED
    BY <2>1, <2>2, <2>3, <2>4
<1>2. \A i \in 1..Len(q) : q[i] \notin immediate /\ ph[q[i]] # "new"
  <2>1. Len(q) = Len(queue) + 1 /\ q[Len(q)] = o /\ Len(queue) \in Nat
        /\ \A i \in 1..Len(queue) : q[i] = queue[i] /\ queue[i] \in Op
    BY DEF Inv, TypeOK
  <2> QED
    BY <1>1, <2>1 DEF Inv, TypeOK, QueueIsQueued
<1>3. \A u \in Op : Alive(u) => ph[u] \in {"running", "returned"}
  BY <1>1 DEF Inv, TypeOK, Alive
<1>4. CASE processing
  <2>1. queue' = q /\ phase' = ph /\ UNCHANGED <<processing, current>>
    BY <1>4 DEF Submit
  <2>2. TypeOK' /\ QueueIsQueued'
    BY <1>1, <1>2, <2>1 DEF Inv, TypeOK, QueueIsQueued
  <2>3. Kept
    BY <1>1, <1>3, <2>1 DEF Kept, Alive, Posted, StartNext
  <2>4. Moving'
    BY <1>1, <1>4, <2>3, KeptMoving DEF Inv, NeverWedged
  <2>5. CurrentIsLive'
    BY <2>1, <2>3, KeptCurrent DEF Inv
  <2>6. EndsAreOld'
    BY <1>1, <2>1 DEF Inv, TypeOK, EndsAreOld, Posted
  <2> QED
    BY <1>4, <2>1, <2>2, <2>4, <2>5, <2>6 DEF Inv, NeverWedged
<1>5. CASE ~processing
  <2>1. ProcessNext(q, ph)
    BY <1>5 DEF Submit
  <2> HIDE DEF q, ph
  <2>2. /\ queue' \in Seq(Op) /\ processing' \in BOOLEAN
        /\ phase' \in [Op -> Phases] /\ current' \in Op \cup {None}
        /\ \A i \in 1..Len(queue') : queue'[i] \notin immediate /\ phase'[queue'[i]] # "new"
        /\ \A u \in Op : ph[u] # "new" => phase'[u] # "new"
        /\ \A u \in Op : ph[u] \in {"running", "returned"} => Alive(u)'
        /\ queue' # <<>> => processing'
        /\ processing' => \E u \in Queued : Alive(u)'
        /\ current' = current \/ (current' \in Op /\ phase'[current'] = "running")
    BY <1>1, <1>2, <2>1, ProcessNextFacts DEF Inv
  <2>3. \A u \in Op : phase[u] # "new" => ph[u] # "new"
    BY <1>1 DEF ph, Inv, TypeOK
  <2>4. TypeOK' /\ QueueIsQueued'
    BY <1>1, <2>2, <2>3 DEF Inv, TypeOK, QueueIsQueued
  <2>5. Kept
    BY <1>1, <1>3, <2>2 DEF Kept, Posted, StartNext
  <2>6. NeverWedged'
    BY <1>1, <2>2 DEF NeverWedged, Moving, Queued
  <2>7. CurrentIsLive'
    BY <2>2, <2>5, KeptCurrent DEF Inv, CurrentIsLive, Alive
  <2>8. EndsAreOld'
    BY <1>1, <2>2, <2>3 DEF Inv, EndsAreOld, Posted
  <2> QED
    BY <2>4, <2>6, <2>7, <2>8 DEF Inv
<1> QED
  BY <1>4, <1>5

LEMMA SubmitImmediateStep ==
  ASSUME Inv, NEW o \in Op, SubmitImmediate(o)
  PROVE  Inv'
<1>1. /\ phase[o] = "new" /\ phase' = [phase EXCEPT ![o] = "running"]
      /\ immediate' = immediate \cup {o} /\ current' = o
      /\ UNCHANGED <<queue, processing, failed, cancels, events>>
  BY DEF SubmitImmediate
<1>2. phase' \in [Op -> Phases] /\ phase'[o] = "running"
  BY <1>1 DEF Inv, TypeOK, Phases
<1>3. TypeOK'
  BY <1>1, <1>2 DEF Inv, TypeOK
<1>4. \A u \in Op : u # o => phase'[u] = phase[u]
  BY <1>1 DEF Inv, TypeOK
<1>5. QueueIsQueued'
  <2>1. \A i \in 1..Len(queue) : queue[i] \in Op /\ queue[i] # o
    BY <1>1 DEF Inv, TypeOK, QueueIsQueued
  <2> QED
    BY <1>1, <1>2, <1>4, <2>1 DEF Inv, TypeOK, QueueIsQueued
<1>6. \A u \in Op : u # o => (Alive(u) <=> Alive(u)')
  BY <1>4 DEF Alive
<1>7. \A e : Posted(e) <=> Posted(e)'
  BY <1>1 DEF Posted
<1>8. ~Alive(o)
  BY <1>1 DEF Alive
<1>9. CurrentIsLive'
  BY <1>1, <1>2 DEF CurrentIsLive, Alive
<1>10. EndsAreOld'
  BY <1>2, <1>4, <1>7 DEF Inv, EndsAreOld
<1>11. NeverWedged'
  <2>1. Kept
    BY <1>6, <1>7, <1>8 DEF Kept, StartNext
  <2>2. immediate' \cap {u \in Op : Alive(u) \/ Posted(<<"finished", u>>)} \subseteq immediate
    BY <1>1, <1>8 DEF Inv, EndsAreOld
  <2>3. Moving => Moving'
    BY <2>1, <2>2, KeptMoving
  <2> QED
    BY <1>1, <2>3 DEF Inv, NeverWedged
<1> QED
  BY <1>3, <1>5, <1>9, <1>10, <1>11 DEF Inv

LEMMA CancelStep ==
  ASSUME Inv, Cancel
  PROVE  Inv'
<1>1. /\ cancels < MaxCancels /\ cancels' = cancels + 1
      /\ phase' = [o \in Op |-> IF phase[o] = "waiting" THEN "dropped" ELSE phase[o]]
      /\ queue' = <<>> /\ processing' = FALSE
      /\ UNCHANGED <<current, immediate, failed, events>>
  BY DEF Cancel
<1>2. phase' \in [Op -> Phases]
  BY <1>1 DEF Inv, TypeOK, Phases
<1>3. TypeOK'
  <2>1. cancels' \in 0..MaxCancels
    BY <1>1, CancelAssumption DEF Inv, TypeOK
  <2>2. queue' \in Seq(Op)
    BY <1>1
  <2> QED
    BY <1>1, <1>2, <2>1, <2>2 DEF Inv, TypeOK
<1>4. \A o \in Op : phase[o] # "new" => phase'[o] # "new"
  BY <1>1 DEF Inv, TypeOK
<1>5. QueueIsQueued' /\ EndsAreOld' /\ NeverWedged'
  BY <1>1, <1>4 DEF Inv, TypeOK, QueueIsQueued, EndsAreOld, Posted, NeverWedged
<1>6. Kept
  BY <1>1 DEF Kept, Alive, Posted, StartNext
<1>7. CurrentIsLive'
  BY <1>1, <1>6, KeptCurrent DEF Inv
<1> QED
  BY <1>3, <1>5, <1>7 DEF Inv

\* A worker goes on, and reports what it has to report.
LEMMA WorkerStep ==
  ASSUME Inv, NEW o \in Op, Worker(o)
  PROVE  Inv'
<1>1. /\ phase[o] \in {"running", "returned"}
      /\ phase' \in [Op -> Phases] /\ phase'[o] \in {"returned", "done"}
      /\ \A u \in Op : u # o => phase'[u] = phase[u]
      /\ failed' \subseteq Op
      /\ UNCHANGED <<queue, processing, current, immediate, cancels>>
  BY DEF Worker, Return, Fail, Finish, Inv, TypeOK, Phases
<1>2. /\ events' \in Seq(Event)
      /\ \A e : Posted(e) => Posted(e)'
      /\ \A u \in Op : Posted(<<"finished", u>>)' => Posted(<<"finished", u>>) \/ u = o
      /\ phase'[o] = "done" => Posted(<<"finished", o>>)'
  <2>0. events \in Seq(Event)
    BY DEF Inv, TypeOK, Event
  <2>1. CASE Return(o)
    BY <2>0, <2>1 DEF Return, Posted, Inv, TypeOK
  <2>2. CASE Fail(o)
    <3>1. events' = Append(events, <<"error", o>>) /\ phase'[o] = "returned"
      BY <2>2 DEF Fail, Inv, TypeOK
    <3> QED
      BY <2>0, <3>1, EventTypes, PostedAppend
  <2>3. CASE Finish(o)
    <3>1. events' = Append(events, <<"finished", o>>)
      BY <2>3 DEF Finish
    <3> QED
      BY <2>0, <3>1, EventTypes, PostedAppend
  <2> QED
    BY <2>1, <2>2, <2>3 DEF Worker
<1>3. TypeOK'
  BY <1>1, <1>2 DEF Inv, TypeOK, Event
<1>4. QueueIsQueued' /\ EndsAreOld'
  <2>1. \A u \in Op : phase[u] # "new" => phase'[u] # "new"
    BY <1>1
  <2>2. \A i \in 1..Len(queue) : queue[i] \in Op
    BY DEF Inv, TypeOK
  <2>3. QueueIsQueued'
    BY <1>1, <2>1, <2>2 DEF Inv, TypeOK, QueueIsQueued
  <2>4. EndsAreOld'
    BY <1>1, <1>2, <2>1 DEF Inv, EndsAreOld
  <2> QED
    BY <2>3, <2>4
<1>5. Kept
  BY <1>1, <1>2 DEF Kept, Alive, StartNext
<1>6. NeverWedged'
  BY <1>1, <1>5, KeptMoving DEF Inv, NeverWedged
<1>7. CurrentIsLive'
  BY <1>1, <1>5, KeptCurrent DEF Inv
<1> QED
  BY <1>3, <1>4, <1>6, <1>7 DEF Inv

LEMMA HandleErrorStep ==
  ASSUME Inv, HandleError
  PROVE  Inv'
<1>1. /\ events # <<>> /\ Head(events)[1] = "error" /\ Advance(HeadOp)
      /\ UNCHANGED <<queue, processing, current, phase, immediate, failed, cancels>>
  BY DEF HandleError, HeadIs
<1>2. events \in Seq(Event)
  BY DEF Inv, TypeOK, Event
<1>3. /\ events' \in Seq(Event)
      /\ \A e : Posted(e) /\ e # Head(events) => Posted(e)'
      /\ \A e : Posted(e)' => Posted(e) \/ e = StartNext
  BY <1>1, <1>2, AdvancePosted
<1>4. TypeOK' /\ QueueIsQueued'
  BY <1>1, <1>3 DEF Inv, TypeOK, Event, QueueIsQueued
<1>5. EndsAreOld'
  BY <1>1, <1>3 DEF Inv, EndsAreOld, StartNext
<1>6. Kept
  <2>1. \A u \in Op : <<"finished", u>> # Head(events)
    BY <1>1
  <2>2. StartNext # Head(events)
    BY <1>1 DEF StartNext
  <2> QED
    BY <1>1, <1>3, <2>1, <2>2 DEF Kept, Alive, StartNext
<1>7. NeverWedged' /\ CurrentIsLive'
  BY <1>1, <1>6, KeptMoving, KeptCurrent DEF Inv, NeverWedged
<1> QED
  BY <1>4, <1>5, <1>7 DEF Inv

\* The end of a queued operation leaves the loop only for the start of the next;
\* the end of an operation that was started past the queue moved nothing.
LEMMA HandleFinishedStep ==
  ASSUME Inv, HandleFinished
  PROVE  Inv'
<1> DEFINE o == HeadOp
<1>1. /\ events # <<>> /\ Head(events)[1] = "finished" /\ Advance(o)
      /\ current' = IF current = o THEN None ELSE current
      /\ UNCHANGED <<queue, processing, phase, immediate, failed, cancels>>
  BY DEF HandleFinished, HeadIs
<1>2. events \in Seq(Event) /\ Head(events) \in Event
  BY <1>1 DEF Inv, TypeOK, Event
<1>3. Head(events) = <<"finished", o>>
  BY <1>1, <1>2 DEF Event, HeadOp
<1>4. /\ events' \in Seq(Event)
      /\ o \notin immediate => Posted(StartNext)'
      /\ \A e : Posted(e) /\ e # Head(events) => Posted(e)'
      /\ \A e : Posted(e)' => Posted(e) \/ e = StartNext
  BY <1>1, <1>2, AdvancePosted
<1> HIDE DEF o
<1>5. TypeOK' /\ QueueIsQueued'
  BY <1>1, <1>4 DEF Inv, TypeOK, Event, QueueIsQueued
<1>6. EndsAreOld'
  BY <1>1, <1>4 DEF Inv, EndsAreOld, StartNext
<1>7. \A u \in Op : u # o /\ Posted(<<"finished", u>>) => Posted(<<"finished", u>>)'
  BY <1>3, <1>4
<1>8. NeverWedged'
  <2>1. ASSUME Moving PROVE Moving'
    <3>1. CASE o \notin immediate
      BY <1>4, <3>1 DEF Moving, StartNext
    <3>2. CASE o \in immediate /\ Posted(StartNext)
      <4>1. StartNext # Head(events)
        BY <1>3 DEF StartNext
      <4>2. Posted(StartNext)'
        BY <1>4, <3>2, <4>1 DEF StartNext
      <4> QED
        BY <4>2 DEF Moving
    <3>3. ASSUME o \in immediate, NEW u \in Queued, Alive(u) \/ Posted(<<"finished", u>>)
          PROVE  Moving'
      BY <1>1, <1>7, <3>3 DEF Moving, Queued, Alive
    <3> QED
      BY <2>1, <3>1, <3>2, <3>3 DEF Moving
  <2> QED
    BY <1>1, <2>1 DEF Inv, NeverWedged
<1>9. CurrentIsLive'
  BY <1>1, <1>7 DEF Inv, TypeOK, CurrentIsLive, Alive
<1> QED
  BY <1>5, <1>6, <1>8, <1>9 DEF Inv

LEMMA HandleNextStep ==
  ASSUME Inv, HandleNext
  PROVE  Inv'
<1>1. /\ events # <<>> /\ Head(events)[1] = "next" /\ events' = Tail(events)
      /\ ProcessNext(queue, phase)
      /\ UNCHANGED <<immediate, failed, cancels>>
  BY DEF HandleNext, HeadIs
<1>2. events \in Seq(Event)
  BY DEF Inv, TypeOK, Event
<1>3. /\ events' \in Seq(Event)
      /\ \A e : Posted(e) /\ e # Head(events) => Posted(e)'
      /\ \A e : Posted(e)' => Posted(e)
  BY <1>1, <1>2, PostedTail
<1>4. /\ queue' \in Seq(Op) /\ processing' \in BOOLEAN
      /\ phase' \in [Op -> Phases] /\ current' \in Op \cup {None}
      /\ \A i \in 1..Len(queue') : queue'[i] \notin immediate /\ phase'[queue'[i]] # "new"
      /\ \A u \in Op : phase[u] # "new" => phase'[u] # "new"
      /\ \A u \in Op : phase[u] \in {"running", "returned"} => Alive(u)'
      /\ queue' # <<>> => processing'
      /\ processing' => \E u \in Queued : Alive(u)'
      /\ current' = current \/ (current' \in Op /\ phase'[current'] = "running")
  <2>1. queue \in Seq(Op) /\ phase \in [Op -> Phases] /\ TypeOK
    BY DEF Inv, TypeOK
  <2>2. \A i \in 1..Len(queue) : queue[i] \notin immediate /\ phase[queue[i]] # "new"
    BY DEF Inv, QueueIsQueued
  <2> QED
    BY <1>1, <2>1, <2>2, ProcessNextFacts
<1>5. TypeOK' /\ QueueIsQueued'
  BY <1>1, <1>3, <1>4 DEF Inv, TypeOK, Event, QueueIsQueued
<1>6. EndsAreOld'
  BY <1>3, <1>4 DEF Inv, EndsAreOld
<1>7. NeverWedged'
  BY <1>1, <1>4 DEF NeverWedged, Moving, Queued
<1>8. CurrentIsLive'
  <2>1. \A u \in Op : Posted(<<"finished", u>>) => Posted(<<"finished", u>>)'
    BY <1>1, <1>3
  <2>2. \A u \in Op : Alive(u) => phase'[u] \in {"running", "returned"}
    BY <1>4 DEF Alive
  <2> QED
    BY <1>4, <2>1, <2>2 DEF Inv, TypeOK, CurrentIsLive, Alive
<1> QED
  BY <1>5, <1>6, <1>7, <1>8 DEF Inv

LEMMA InvStep == Inv /\ [Next]_vars => Inv'
<1> SUFFICES ASSUME Inv, [Next]_vars PROVE Inv'
  OBVIOUS
<1>1. CASE User
  BY <1>1, CancelStep, SubmitStep, SubmitImmediateStep DEF User
<1>2. CASE HandleEvent
  BY <1>2, HandleErrorStep, HandleFinishedStep, HandleNextStep DEF HandleEvent
<1>3. ASSUME NEW o \in Op, Worker(o) PROVE Inv'
  BY <1>3, WorkerStep
<1>4. CASE UNCHANGED vars
  BY <1>4 DEF vars, Inv, TypeOK, QueueIsQueued, EndsAreOld, NeverWedged, CurrentIsLive,
              Moving, Alive, Posted, Queued
<1> QED
  BY <1>1, <1>2, <1>3, <1>4 DEF Next

-----------------------------------------------------------------------------
(* How many starts there are.  An event that belongs to the queue starts its *)
(* next operation, at once or through the event it posts.                    *)

Due(e, past) == e[1] = "next" \/ e[2] \notin past
Starts(ev, past) == {i \in DOMAIN ev : Due(ev[i], past)}
Live == {o \in Queued : Alive(o)}

\* What waits has not been started, and waits once.
QueueWaits ==
  /\ \A i \in DOMAIN queue : phase[queue[i]] = "waiting"
  /\ \A i, j \in DOMAIN queue : queue[i] = queue[j] => i = j
FailedEnded == \A o \in failed : phase[o] \in {"returned", "done"}
ErrorsAreOld == \A o \in Op : Posted(<<"error", o>>) => phase[o] # "new"

\* A busy runner has one start; a failure and a cancellation have made one more each.
Backlog ==
  Cardinality(Live) + Cardinality(Starts(events, immediate))
    <= (IF processing THEN 1 ELSE 0) + Cardinality(failed) + cancels

Turns == QueueWaits /\ FailedEnded /\ ErrorsAreOld /\ Backlog

LEMMA StartsFinite ==
  ASSUME NEW ev \in Seq(Event), NEW past
  PROVE  IsFiniteSet(Starts(ev, past)) /\ Cardinality(Starts(ev, past)) \in Nat
<1>1. Len(ev) \in Nat /\ DOMAIN ev = 1..Len(ev)
  OBVIOUS
<1>2. IsFiniteSet(1..Len(ev))
  BY <1>1, FS_Interval
<1>3. Starts(ev, past) \subseteq 1..Len(ev)
  BY <1>1 DEF Starts
<1>4. IsFiniteSet(Starts(ev, past))
  BY <1>2, <1>3, FS_Subset
<1> QED
  BY <1>4, FS_CardinalityType

LEMMA StartsEmpty ==
  ASSUME NEW past
  PROVE  Cardinality(Starts(<<>>, past)) = 0
<1>1. Starts(<<>>, past) = {}
  BY DEF Starts
<1> QED
  BY <1>1, FS_EmptySet

\* Posting an event adds its start.
LEMMA StartsAppend ==
  ASSUME NEW ev \in Seq(Event), NEW past, NEW x \in Event
  PROVE  Cardinality(Starts(Append(ev, x), past)) =
           Cardinality(Starts(ev, past)) + (IF Due(x, past) THEN 1 ELSE 0)
<1> DEFINE n == Len(ev) + 1
<1>1. /\ n \in Nat /\ DOMAIN ev = 1..(n - 1) /\ DOMAIN Append(ev, x) = 1..n
      /\ Append(ev, x)[n] = x /\ n \notin DOMAIN ev
      /\ \A i \in 1..(n - 1) : Append(ev, x)[i] = ev[i]
  OBVIOUS
<1> HIDE DEF n
<1>2. IsFiniteSet(Starts(ev, past)) /\ Cardinality(Starts(ev, past)) \in Nat
  BY StartsFinite
<1>3. CASE Due(x, past)
  <2>1. Starts(Append(ev, x), past) = Starts(ev, past) \cup {n} /\ n \notin Starts(ev, past)
    BY <1>1, <1>3 DEF Starts
  <2> QED
    BY <1>2, <1>3, <2>1, FS_AddElement
<1>4. CASE ~Due(x, past)
  <2>1. Starts(Append(ev, x), past) = Starts(ev, past)
    BY <1>1, <1>4 DEF Starts
  <2> QED
    BY <1>2, <1>4, <2>1
<1> QED
  BY <1>3, <1>4

\* Handling the head takes its start away; those behind it move up.
LEMMA StartsTail ==
  ASSUME NEW ev \in Seq(Event), NEW past, ev # <<>>
  PROVE  Cardinality(Starts(Tail(ev), past)) =
           Cardinality(Starts(ev, past)) - (IF Due(Head(ev), past) THEN 1 ELSE 0)
<1>1. /\ Len(ev) \in Nat \ {0} /\ DOMAIN ev = 1..Len(ev)
      /\ DOMAIN Tail(ev) = 1..(Len(ev) - 1) /\ Head(ev) = ev[1]
      /\ \A i \in 1..(Len(ev) - 1) : Tail(ev)[i] = ev[i + 1]
  OBVIOUS
<1> DEFINE A == Starts(ev, past) \ {1}
<1> DEFINE B == Starts(Tail(ev), past)
<1> DEFINE f == [i \in A |-> i - 1]
<1>2. \A i \in A : i \in 2..Len(ev) /\ i - 1 \in B
  BY <1>1 DEF Starts
<1>3. \A k \in B : k + 1 \in A /\ (k + 1) - 1 = k
  BY <1>1 DEF Starts
<1>4. f \in Bijection(A, B)
  <2>1. f \in [A -> B]
    BY <1>2
  <2>2. \A a, b \in A : f[a] = f[b] => a = b
    BY <1>2
  <2>3. \A k \in B : \E i \in A : f[i] = k
    BY <1>3
  <2> HIDE DEF f, A, B
  <2> QED
    BY <2>1, <2>2, <2>3, Fun_IsBij
<1>5. IsFiniteSet(Starts(ev, past)) /\ Cardinality(Starts(ev, past)) \in Nat
  BY StartsFinite
<1>6. IsFiniteSet(A) /\ Cardinality(A) =
        IF 1 \in Starts(ev, past) THEN Cardinality(Starts(ev, past)) - 1
                                  ELSE Cardinality(Starts(ev, past))
  BY <1>5, FS_RemoveElement
<1>7. Cardinality(B) = Cardinality(A)
  <2> HIDE DEF f, A, B
  <2> QED
    BY <1>4, <1>6, FS_Bijection DEF ExistsBijection
<1>8. 1 \in Starts(ev, past) <=> Due(Head(ev), past)
  BY <1>1 DEF Starts
<1> HIDE DEF f, A, B
<1>9. Cardinality(B) = Cardinality(Starts(ev, past)) - (IF Due(Head(ev), past) THEN 1 ELSE 0)
  BY <1>5, <1>6, <1>7, <1>8
<1> QED
  BY <1>9 DEF B

\* Another operation started past the queue changes nothing for events of old ones.
LEMMA StartsPast ==
  ASSUME NEW ev \in Seq(Event), NEW past, NEW o \in Op,
         \A i \in DOMAIN ev : ev[i][1] = "next" \/ ev[i][2] # o
  PROVE  Starts(ev, past \cup {o}) = Starts(ev, past)
  BY DEF Starts, Due

-----------------------------------------------------------------------------
(* The starts, step by step.                                                *)

LEMMA CountTypes ==
  ASSUME TypeOK
  PROVE  /\ IsFiniteSet(Live) /\ Cardinality(Live) \in Nat
         /\ IsFiniteSet(failed) /\ Cardinality(failed) \in Nat
         /\ Cardinality(Starts(events, immediate)) \in Nat
         /\ cancels \in Nat /\ events \in Seq(Event)
<1>1. IsFiniteSet(Live) /\ IsFiniteSet(failed)
  BY OpAssumption, FS_Subset DEF TypeOK, Live, Queued
<1>2. events \in Seq(Event) /\ cancels \in Nat
  BY CancelAssumption DEF TypeOK, Event
<1> QED
  BY <1>1, <1>2, FS_CardinalityType, StartsFinite

\* At most one operation more is alive.
LEMMA LiveGrows ==
  ASSUME TypeOK, NEW o, Live' \subseteq Live \cup {o}
  PROVE  Cardinality(Live') <= Cardinality(Live) + 1
<1>1. IsFiniteSet(Live \cup {o}) /\ Cardinality(Live \cup {o}) <= Cardinality(Live) + 1
  <2>1. IsFiniteSet(Live) /\ Cardinality(Live) \in Nat
    BY CountTypes
  <2>2. IsFiniteSet(Live \cup {o})
        /\ Cardinality(Live \cup {o}) = IF o \in Live THEN Cardinality(Live)
                                         ELSE Cardinality(Live) + 1
    BY <2>1, FS_AddElement
  <2> QED
    BY <2>1, <2>2
<1>2. Cardinality(Live') <= Cardinality(Live \cup {o}) /\ IsFiniteSet(Live')
  BY <1>1, FS_Subset
<1> QED
  BY <1>1, <1>2, CountTypes, FS_CardinalityType

LEMMA LiveSame ==
  ASSUME TypeOK, Live' \subseteq Live
  PROVE  Cardinality(Live') <= Cardinality(Live)
  BY CountTypes, FS_Subset

\* Taking the next operation off the queue q.
LEMMA ProcessNextTurns ==
  ASSUME TypeOK, NEW q \in Seq(Op), NEW ph \in [Op -> Phases], ProcessNext(q, ph),
         q = <<>> => queue = <<>>,
         \A i \in DOMAIN q : ph[q[i]] = "waiting",
         \A i, j \in DOMAIN q : q[i] = q[j] => i = j,
         \A o \in failed : ph[o] \in {"returned", "done"},
         UNCHANGED <<failed, immediate>>,
         \A o \in Op : ph[o] \in {"running", "returned"} => Alive(o)
  PROVE  /\ QueueWaits' /\ FailedEnded'
         /\ IF q = <<>> THEN ~processing' /\ Live' \subseteq Live
            ELSE processing' /\ Live' \subseteq Live \cup {Head(q)}
<1>1. CASE q = <<>>
  BY <1>1 DEF ProcessNext, QueueWaits, FailedEnded, Live, Alive, Queued
<1>2. CASE q # <<>>
  <2>1. /\ processing' /\ queue' = Tail(q) /\ phase' = [ph EXCEPT ![Head(q)] = "running"]
    BY <1>2 DEF ProcessNext
  <2>2. /\ Len(q) \in Nat \ {0} /\ DOMAIN q = 1..Len(q) /\ Head(q) = q[1] /\ Head(q) \in Op
        /\ DOMAIN queue' = 1..(Len(q) - 1)
        /\ \A i \in 1..(Len(q) - 1) : queue'[i] = q[i + 1] /\ q[i + 1] \in Op
    BY <1>2, <2>1
  <2>3. \A o \in Op : phase'[o] = IF o = Head(q) THEN "running" ELSE ph[o]
    BY <2>1, <2>2
  <2>4. \A i \in 1..(Len(q) - 1) : queue'[i] # Head(q) /\ ph[queue'[i]] = "waiting"
    <3> SUFFICES ASSUME NEW i \in 1..(Len(q) - 1)
                 PROVE  q[i + 1] # q[1] /\ ph[q[i + 1]] = "waiting"
      BY <2>2
    <3>1. i + 1 \in DOMAIN q /\ 1 \in DOMAIN q /\ i + 1 # 1
      BY <2>2
    <3> QED
      BY <3>1
  <2>5. \A i, j \in 1..(Len(q) - 1) : queue'[i] = queue'[j] => i = j
    <3> SUFFICES ASSUME NEW i \in 1..(Len(q) - 1), NEW j \in 1..(Len(q) - 1), q[i + 1] = q[j + 1]
                 PROVE  i = j
      BY <2>2
    <3>1. i + 1 \in DOMAIN q /\ j + 1 \in DOMAIN q
      BY <2>2
    <3>2. i + 1 = j + 1
      BY <3>1
    <3> QED
      BY <3>2
  <2>6. QueueWaits'
    BY <2>2, <2>3, <2>4, <2>5 DEF QueueWaits
  <2>7. ph[Head(q)] = "waiting"
    BY <2>2
  <2>8. FailedEnded'
    BY <2>3, <2>7 DEF FailedEnded, TypeOK
  <2>9. Live' \subseteq Live \cup {Head(q)}
    BY <2>3 DEF Live, Alive, Queued
  <2> QED
    BY <1>2, <2>1, <2>6, <2>8, <2>9
<1> QED
  BY <1>1, <1>2

LEMMA SubmitTurns ==
  ASSUME Inv, Turns, NEW o \in Op, Submit(o)
  PROVE  Turns'
<1> DEFINE q == Append(queue, o)
<1> DEFINE ph == [phase EXCEPT ![o] = "waiting"]
<1>1. /\ phase[o] = "new" /\ UNCHANGED <<immediate, failed, cancels, events>>
      /\ TypeOK
  BY DEF Submit, Inv
<1>2. q \in Seq(Op) /\ q # <<>> /\ ph \in [Op -> Phases]
  BY <1>1 DEF TypeOK, Phases
<1>3. \A u \in Op : ph[u] = IF u = o THEN "waiting" ELSE phase[u]
  BY <1>1 DEF TypeOK
<1>4. /\ Len(queue) \in Nat /\ DOMAIN queue = 1..Len(queue) /\ DOMAIN q = 1..(Len(queue) + 1)
      /\ q[Len(queue) + 1] = o
      /\ \A i \in 1..Len(queue) : q[i] = queue[i] /\ queue[i] \in Op
  BY <1>1 DEF TypeOK
<1> HIDE DEF q, ph
<1>5. \A i \in 1..Len(queue) : q[i] # o /\ ph[q[i]] = "waiting"
  BY <1>1, <1>3, <1>4 DEF Turns, QueueWaits
<1>6. \A i \in DOMAIN q : ph[q[i]] = "waiting"
  BY <1>3, <1>4, <1>5
<1>7. \A i, j \in DOMAIN q : q[i] = q[j] => i = j
  BY <1>4, <1>5 DEF Turns, QueueWaits
<1>8. \A u \in failed : ph[u] \in {"returned", "done"}
  BY <1>1, <1>3 DEF Turns, FailedEnded, TypeOK
<1>9. \A u \in Op : ph[u] \in {"running", "returned"} => Alive(u)
  BY <1>3 DEF Alive
<1>10. \A e : Posted(e)' = Posted(e)
  BY <1>1 DEF Posted
<1>11. Starts(events, immediate)' = Starts(events, immediate)
  BY <1>1
<1>12. CASE processing
  <2>1. queue' = q /\ phase' = ph /\ processing'
    BY <1>12 DEF Submit, q, ph
  <2>2. QueueWaits' /\ FailedEnded'
    BY <1>1, <1>6, <1>7, <1>8, <2>1 DEF QueueWaits, FailedEnded
  <2>3. ErrorsAreOld'
    BY <1>1, <1>3, <1>10, <2>1 DEF Turns, ErrorsAreOld
  <2>4. Live' \subseteq Live
    BY <1>1, <1>9, <2>1 DEF Live, Alive, Queued
  <2>5. Cardinality(Live') <= Cardinality(Live) /\ Cardinality(Live') \in Nat
    BY <1>1, <2>4, LiveSame, CountTypes, FS_Subset, FS_CardinalityType
  <2>6. Backlog'
    BY <1>1, <1>11, <1>12, <2>1, <2>5, CountTypes DEF Turns, Backlog
  <2> QED
    BY <2>2, <2>3, <2>6 DEF Turns
<1>13. CASE ~processing
  <2>1. ProcessNext(q, ph)
    BY <1>13 DEF Submit, q, ph
  <2>2. QueueWaits' /\ FailedEnded' /\ processing' /\ Live' \subseteq Live \cup {Head(q)}
    BY <1>1, <1>2, <1>6, <1>7, <1>8, <1>9, <2>1, ProcessNextTurns
  <2>3. ErrorsAreOld'
    <3>1. phase' = [ph EXCEPT ![Head(q)] = "running"]
      BY <1>2, <2>1 DEF ProcessNext
    <3>2. \A u \in Op : phase[u] # "new" => phase'[u] # "new"
      BY <1>2, <1>3, <3>1
    <3> QED
      BY <1>10, <3>2 DEF Turns, ErrorsAreOld
  <2>4. Cardinality(Live') <= Cardinality(Live) + 1 /\ Cardinality(Live') \in Nat
    BY <1>1, <2>2, LiveGrows, CountTypes, FS_AddElement, FS_Subset, FS_CardinalityType
  <2>5. Backlog'
    BY <1>1, <1>11, <1>13, <2>2, <2>4, CountTypes DEF Turns, Backlog
  <2> QED
    BY <2>2, <2>3, <2>5 DEF Turns
<1> QED
  BY <1>12, <1>13

LEMMA SubmitImmediateTurns ==
  ASSUME Inv, Turns, NEW o \in Op, SubmitImmediate(o)
  PROVE  Turns'
<1>1. /\ phase[o] = "new" /\ phase' = [phase EXCEPT ![o] = "running"]
      /\ immediate' = immediate \cup {o} /\ TypeOK
      /\ UNCHANGED <<queue, processing, failed, cancels, events>>
  BY DEF SubmitImmediate, Inv
<1>2. \A u \in Op : phase'[u] = IF u = o THEN "running" ELSE phase[u]
  BY <1>1 DEF TypeOK
<1>3. QueueWaits'
  <2>1. \A i \in DOMAIN queue : queue[i] \in Op /\ queue[i] # o
    BY <1>1 DEF TypeOK, Turns, QueueWaits
  <2> QED
    BY <1>1, <1>2, <2>1 DEF Turns, QueueWaits
<1>4. FailedEnded' /\ ErrorsAreOld'
  BY <1>1, <1>2 DEF Turns, FailedEnded, ErrorsAreOld, Posted, TypeOK
<1>5. Starts(events, immediate)' = Starts(events, immediate)
  <2>1. events \in Seq(Event)
    BY <1>1, CountTypes
  <2>2. ASSUME NEW i \in DOMAIN events, events[i][1] # "next", events[i][2] = o PROVE FALSE
    <3>1. events[i] \in Event
      BY <2>1
    <3>2. events[i] = <<"error", o>> \/ events[i] = <<"finished", o>>
      BY <2>2, <3>1 DEF Event, EventKinds
    <3>3. Posted(<<"error", o>>) \/ Posted(<<"finished", o>>)
      BY <3>2 DEF Posted
    <3> QED
      BY <1>1, <3>3 DEF Inv, EndsAreOld, Turns, ErrorsAreOld
  <2> QED
    BY <1>1, <2>1, <2>2, StartsPast
<1>6. Live' \subseteq Live
  BY <1>1, <1>2 DEF Live, Alive, Queued
<1>7. Cardinality(Live') <= Cardinality(Live) /\ Cardinality(Live') \in Nat
  BY <1>1, <1>6, LiveSame, CountTypes, FS_Subset, FS_CardinalityType
<1>8. Backlog'
  BY <1>1, <1>5, <1>7, CountTypes DEF Turns, Backlog
<1> QED
  BY <1>3, <1>4, <1>8 DEF Turns

LEMMA CancelTurns ==
  ASSUME Inv, Turns, Cancel
  PROVE  Turns'
<1>1. /\ cancels' = cancels + 1 /\ queue' = <<>> /\ processing' = FALSE /\ TypeOK
      /\ phase' = [o \in Op |-> IF phase[o] = "waiting" THEN "dropped" ELSE phase[o]]
      /\ UNCHANGED <<immediate, failed, events>>
  BY DEF Cancel, Inv
<1>2. QueueWaits' /\ FailedEnded' /\ ErrorsAreOld'
  BY <1>1 DEF Turns, QueueWaits, FailedEnded, ErrorsAreOld, Posted, TypeOK
<1>3. Live' \subseteq Live
  BY <1>1 DEF Live, Alive, Queued
<1>4. Cardinality(Live') <= Cardinality(Live) /\ Cardinality(Live') \in Nat
  BY <1>1, <1>3, LiveSame, CountTypes, FS_Subset, FS_CardinalityType
<1>5. Backlog'
  BY <1>1, <1>4, CountTypes DEF Turns, Backlog
<1> QED
  BY <1>2, <1>5 DEF Turns

LEMMA WorkerTurns ==
  ASSUME Inv, Turns, NEW o \in Op, Worker(o)
  PROVE  Turns'
<1>1. /\ phase[o] \in {"running", "returned"} /\ phase'[o] \in {"returned", "done"} /\ TypeOK
      /\ \A u \in Op : u # o => phase'[u] = phase[u]
      /\ UNCHANGED <<queue, processing, immediate, cancels>>
  BY DEF Worker, Return, Fail, Finish, Inv, TypeOK
<1>2. QueueWaits'
  <2>1. \A i \in DOMAIN queue : queue[i] \in Op /\ queue[i] # o
    BY <1>1 DEF TypeOK, Turns, QueueWaits
  <2> QED
    BY <1>1, <2>1 DEF Turns, QueueWaits
<1>3. FailedEnded'
  BY <1>1 DEF Worker, Return, Fail, Finish, Turns, FailedEnded, TypeOK
<1>4. events \in Seq(Event)
  BY <1>1, CountTypes
<1>5. ErrorsAreOld'
  <2>1. \A u \in Op : Posted(<<"error", u>>)' => Posted(<<"error", u>>) \/ u = o
    <3>1. CASE Return(o)
      BY <3>1 DEF Return, Posted
    <3>2. CASE Fail(o)
      BY <1>4, <3>2, EventTypes, PostedAppend DEF Fail
    <3>3. CASE Finish(o)
      BY <1>4, <3>3, EventTypes, PostedAppend DEF Finish
    <3> QED
      BY <3>1, <3>2, <3>3 DEF Worker
  <2> QED
    BY <1>1, <2>1 DEF Turns, ErrorsAreOld
<1>6. Live' \subseteq Live
  BY <1>1 DEF Live, Alive, Queued
<1>7. Cardinality(Live') <= Cardinality(Live) /\ Cardinality(Live') \in Nat
  BY <1>1, <1>6, LiveSame, CountTypes, FS_Subset, FS_CardinalityType
<1>8. CASE Return(o)
  <2>1. UNCHANGED <<events, failed>>
    BY <1>8 DEF Return
  <2> QED
    BY <1>1, <1>2, <1>3, <1>5, <1>7, <2>1, CountTypes DEF Turns, Backlog
<1>9. CASE Fail(o)
  <2>1. events' = Append(events, <<"error", o>>) /\ failed' = failed \cup {o} /\ o \notin failed
    BY <1>9 DEF Fail, Turns, FailedEnded
  <2>2. Cardinality(failed') = Cardinality(failed) + 1
    BY <1>1, <2>1, CountTypes, FS_AddElement
  <2>3. Starts(events, immediate)' = Starts(Append(events, <<"error", o>>), immediate)
    BY <1>1, <2>1
  <2>4. /\ Cardinality(Starts(events, immediate)') <= Cardinality(Starts(events, immediate)) + 1
        /\ Cardinality(Starts(events, immediate)') \in Nat
    <3>1. <<"error", o>> \in Event /\ Cardinality(Starts(events, immediate)) \in Nat
      BY <1>1, EventTypes, CountTypes
    <3>2. Cardinality(Starts(Append(events, <<"error", o>>), immediate)) =
            Cardinality(Starts(events, immediate))
              + (IF Due(<<"error", o>>, immediate) THEN 1 ELSE 0)
      BY <1>4, <3>1, StartsAppend
    <3> QED
      BY <2>3, <3>1, <3>2
  <2>5. Backlog'
    BY <1>1, <1>7, <2>2, <2>4, CountTypes DEF Turns, Backlog
  <2> QED
    BY <1>2, <1>3, <1>5, <2>5 DEF Turns
<1>10. CASE Finish(o)
  <2>1. events' = Append(events, <<"finished", o>>) /\ failed' = failed /\ phase'[o] = "done"
    BY <1>1, <1>10 DEF Finish, TypeOK
  <2>2. Cardinality(Starts(events, immediate)') =
          Cardinality(Starts(events, immediate)) + (IF o \in Queued THEN 1 ELSE 0)
    <3>1. Starts(events, immediate)' = Starts(Append(events, <<"finished", o>>), immediate)
      BY <1>1, <2>1
    <3>2. <<"finished", o>> \in Event /\ (Due(<<"finished", o>>, immediate) <=> o \in Queued)
      BY EventTypes DEF Due, Queued
    <3>3. Cardinality(Starts(Append(events, <<"finished", o>>), immediate)) =
            Cardinality(Starts(events, immediate))
              + (IF Due(<<"finished", o>>, immediate) THEN 1 ELSE 0)
      BY <1>4, <3>2, StartsAppend
    <3> QED
      BY <3>1, <3>2, <3>3
  <2>3. Cardinality(Live') = Cardinality(Live) - (IF o \in Queued THEN 1 ELSE 0)
    <3>1. Live' = Live \ {o} /\ (o \in Live <=> o \in Queued)
      BY <1>1, <2>1 DEF Live, Alive, Queued
    <3>2. IsFiniteSet(Live) /\ Cardinality(Live) \in Nat
      BY <1>1, CountTypes
    <3>3. Cardinality(Live \ {o}) = IF o \in Live THEN Cardinality(Live) - 1 ELSE Cardinality(Live)
      BY <3>2, FS_RemoveElement
    <3> QED
      BY <3>1, <3>2, <3>3
  <2>4. Backlog'
    BY <1>1, <2>1, <2>2, <2>3, CountTypes DEF Turns, Backlog
  <2> QED
    BY <1>2, <1>3, <1>5, <2>4 DEF Turns
<1> QED
  BY <1>8, <1>9, <1>10 DEF Worker

\* The start that an event promises is the one that it posts.
LEMMA AdvanceStarts ==
  ASSUME TypeOK, events # <<>>, Head(events)[1] # "next", Advance(HeadOp), UNCHANGED immediate
  PROVE  Cardinality(Starts(events, immediate)') = Cardinality(Starts(events, immediate))
<1>1. events \in Seq(Event) /\ Tail(events) \in Seq(Event)
  BY CountTypes
<1>2. Cardinality(Starts(events, immediate)) \in Nat
  BY CountTypes
<1>3. Due(Head(events), immediate) <=> HeadOp \notin immediate
  BY DEF Due, HeadOp
<1>4. Cardinality(Starts(Tail(events), immediate)) =
        Cardinality(Starts(events, immediate)) - (IF HeadOp \notin immediate THEN 1 ELSE 0)
  BY <1>1, <1>3, StartsTail
<1>5. CASE HeadOp \in immediate
  BY <1>2, <1>4, <1>5 DEF Advance
<1>6. CASE HeadOp \notin immediate
  <2>1. events' = Append(Tail(events), StartNext) /\ Due(StartNext, immediate)
    BY <1>6 DEF Advance, Due, StartNext
  <2>2. Cardinality(Starts(events', immediate)) =
          Cardinality(Starts(Tail(events), immediate)) + 1
    BY <1>1, <2>1, EventTypes, StartsAppend
  <2> QED
    BY <1>2, <1>4, <1>6, <2>2
<1> QED
  BY <1>5, <1>6

LEMMA HandleEndTurns ==
  ASSUME Inv, Turns, HandleError \/ HandleFinished
  PROVE  Turns'
<1>1. /\ events # <<>> /\ Head(events)[1] # "next" /\ Advance(HeadOp) /\ TypeOK
      /\ UNCHANGED <<queue, processing, phase, immediate, failed, cancels>>
  BY DEF HandleError, HandleFinished, HeadIs, Inv
<1>2. QueueWaits' /\ FailedEnded'
  BY <1>1 DEF Turns, QueueWaits, FailedEnded
<1>3. ErrorsAreOld'
  <2>1. \A e : Posted(e)' => Posted(e) \/ e = StartNext
    BY <1>1, CountTypes, AdvancePosted
  <2> QED
    BY <1>1, <2>1 DEF Turns, ErrorsAreOld, StartNext
<1>4. Live' = Live
  BY <1>1 DEF Live, Alive, Queued
<1>5. Backlog'
  BY <1>1, <1>4, AdvanceStarts DEF Turns, Backlog
<1> QED
  BY <1>2, <1>3, <1>5 DEF Turns

LEMMA HandleNextTurns ==
  ASSUME Inv, Turns, HandleNext
  PROVE  Turns'
<1>1. /\ events # <<>> /\ Head(events)[1] = "next" /\ events' = Tail(events) /\ TypeOK
      /\ ProcessNext(queue, phase) /\ UNCHANGED <<immediate, failed, cancels>>
  BY DEF HandleNext, HeadIs, Inv
<1>2. events \in Seq(Event)
  BY <1>1, CountTypes
<1>3. /\ QueueWaits' /\ FailedEnded'
      /\ IF queue = <<>> THEN ~processing' /\ Live' \subseteq Live
         ELSE processing' /\ Live' \subseteq Live \cup {Head(queue)}
  <2>1. queue \in Seq(Op) /\ phase \in [Op -> Phases]
    BY <1>1 DEF TypeOK
  <2> QED
    BY <1>1, <2>1, ProcessNextTurns DEF Turns, QueueWaits, FailedEnded, Alive
<1>4. ErrorsAreOld'
  <2>1. \A e : Posted(e)' => Posted(e)
    BY <1>1, <1>2, PostedTail
  <2>2. \A u \in Op : phase[u] # "new" => phase'[u] # "new"
    BY <1>1 DEF ProcessNext, TypeOK
  <2> QED
    BY <2>1, <2>2 DEF Turns, ErrorsAreOld
<1>5. Cardinality(Starts(events, immediate)') = Cardinality(Starts(events, immediate)) - 1
  BY <1>1, <1>2, StartsTail DEF Due
<1>6. CASE queue = <<>>
  <2>1. Cardinality(Live') <= Cardinality(Live) /\ Cardinality(Live') \in Nat
    BY <1>1, <1>3, <1>6, LiveSame, CountTypes, FS_Subset, FS_CardinalityType
  <2>2. Backlog'
    BY <1>1, <1>3, <1>5, <1>6, <2>1, CountTypes DEF Turns, Backlog
  <2> QED
    BY <1>3, <1>4, <2>2 DEF Turns
<1>7. CASE queue # <<>>
  <2>1. Cardinality(Live') <= Cardinality(Live) + 1 /\ Cardinality(Live') \in Nat
    BY <1>1, <1>3, <1>7, LiveGrows, CountTypes, FS_AddElement, FS_Subset, FS_CardinalityType
  <2>2. processing
    BY <1>7 DEF Inv, NeverWedged
  <2>3. Backlog'
    BY <1>1, <1>3, <1>5, <1>7, <2>1, <2>2, CountTypes DEF Turns, Backlog
  <2> QED
    BY <1>3, <1>4, <2>3 DEF Turns
<1> QED
  BY <1>6, <1>7

LEMMA InitTurns == Init => Turns
<1> SUFFICES ASSUME Init PROVE Turns
  OBVIOUS
<1>1. QueueWaits /\ FailedEnded /\ ErrorsAreOld
  BY DEF Init, QueueWaits, FailedEnded, ErrorsAreOld, Posted
<1>2. Live = {} /\ failed = {} /\ events = <<>> /\ cancels = 0
  BY DEF Init, Live, Alive, Queued
<1>3. Backlog
  BY <1>2, StartsEmpty, FS_EmptySet DEF Init, Backlog
<1> QED
  BY <1>1, <1>3 DEF Turns

LEMMA TurnsStep == Inv /\ Turns /\ [Next]_vars => Turns'
<1> SUFFICES ASSUME Inv, Turns, [Next]_vars PROVE Turns'
  OBVIOUS
<1>1. CASE User
  BY <1>1, CancelTurns, SubmitTurns, SubmitImmediateTurns DEF User
<1>2. CASE HandleEvent
  BY <1>2, HandleEndTurns, HandleNextTurns DEF HandleEvent
<1>3. ASSUME NEW o \in Op, Worker(o) PROVE Turns'
  BY <1>3, WorkerTurns
<1>4. CASE UNCHANGED vars
  BY <1>4 DEF vars, Turns, QueueWaits, FailedEnded, ErrorsAreOld, Backlog, Live, Alive, Posted,
              Queued, Starts
<1> QED
  BY <1>1, <1>2, <1>3, <1>4 DEF Next

-----------------------------------------------------------------------------
\* The runner's state is well typed.
THEOREM TypeCorrect == Spec => []TypeOK
<1>1. Inv => TypeOK
  BY DEF Inv
<1> QED
  BY InitInv, InvStep, <1>1, PTL DEF Spec

\* Whatever is cancelled, fails or overtakes, work waits only behind a busy
\* runner, and a busy runner has a start of the next operation on its way
\* (_process_next_operation and the callbacks that post it).
THEOREM QueueNeverWedges == Spec => []NeverWedged
<1>1. Inv => NeverWedged
  BY DEF Inv
<1> QED
  BY InitInv, InvStep, <1>1, PTL DEF Spec

\* A cancellation always reaches a worker that still has something to report
\* (current_worker and _clear_current_worker).
THEOREM CurrentWorkerIsLive == Spec => []CurrentIsLive
<1>1. Inv => CurrentIsLive
  BY DEF Inv
<1> QED
  BY InitInv, InvStep, <1>1, PTL DEF Spec
\* The queue is serial but for failures, each of which posts two starts, and
\* cancellations, each of which forgets the running operation: they alone let
\* operations of the queue run beside one another.
THEOREM QueueIsSerial == Spec => []ConcurrencyBounded
<1>1. Inv /\ Turns => ConcurrencyBounded
  <2> SUFFICES ASSUME Inv, Turns
               PROVE  Cardinality(Live) <= 1 + Cardinality(failed) + cancels
    BY DEF ConcurrencyBounded, Live
  <2>1. TypeOK
    BY DEF Inv
  <2> QED
    BY <2>1, CountTypes DEF Turns, Backlog
<1> QED
  BY InitInv, InvStep, InitTurns, TurnsStep, <1>1, PTL DEF Spec
=============================================================================
