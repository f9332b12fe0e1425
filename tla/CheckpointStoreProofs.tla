------------------------ MODULE CheckpointStoreProofs ------------------------
(***************************************************************************)
(* Theorems about CheckpointStore for every set of sessions, pages,        *)
(* stages, results and objects.                                            *)
(***************************************************************************)
EXTENDS CheckpointStore, TLAPS

RecordLabels == {"record", "create", "put", "begin", "verify", "commit"}
LookupLabels == {"lookup", "objects", "check", "read"}
RowLabels    == {"objects", "check", "read"}

\* A call is at a label of its own kind, and only a lookup past its first
\* step holds a row.
CallKept(s) ==
  /\ pc[s] \in RecordLabels => request[s] \in Recording
  /\ pc[s] \in LookupLabels => request[s] \in LookingUp
  /\ pc[s] = "invalidate" => request[s] \in Invalidating
  /\ candidate[s] # None <=> pc[s] \in RowLabels
  /\ pc[s] # "idle" => answer[s] = None

\* The write lock is held by the call that is between taking it and letting
\* it go, so at most one call is there.
LockKept(s) == pc[s] \in {"verify", "commit", "sweep"} <=> lock = s

\* What the lock protects: a call about to commit has its objects in place, a
\* cleanup has nothing on its list that a row refers to.
PublicationKept(s) ==
  pc[s] = "commit" =>
    \A o \in Parts(request[s].result) : files[o] = "good" \/ o \in damaged
SweepKept(s) == pc[s] = "sweep" => work[s] \cap Referenced = {}

\* A lookup never answers with a result and objects that are not its own.
AnswerKept(s) == answer[s] # None => answer[s].parts = Parts(answer[s].result)

Inv ==
  /\ TypeOK
  /\ \A s \in Session : CallKept(s) /\ LockKept(s) /\ AnswerKept(s)
  /\ \A s \in Session : PublicationKept(s) /\ SweepKept(s)
  /\ TablesAgree
  /\ ReferencesBacked

-----------------------------------------------------------------------------
(* Requests.                                                                *)

LEMMA RequestFields ==
  /\ \A r \in Recording : r \in Requests /\ r.op = "record"
       /\ r.page \in Page /\ r.stage \in Stage /\ r.result \in Result
  /\ \A r \in LookingUp : r \in Requests /\ r.op = "lookup"
       /\ r.page \in Page /\ r.stage \in Stage
  /\ \A r \in Invalidating : r \in Requests /\ r.op = "invalidate"
       /\ r.pages \subseteq Page /\ r.stages \subseteq Stage
  /\ \A r \in Cleaning : r \in Requests /\ r.op = "clean"
  /\ \A r \in Requests :
       /\ r.op = "record" => r \in Recording
       /\ r.op = "lookup" => r \in LookingUp
       /\ r.op = "invalidate" => r \in Invalidating
       /\ r.op \in {"record", "lookup", "invalidate", "clean"}
BY DEF Recording, LookingUp, Invalidating, Cleaning, Requests, AndDownstream

\* What is below a stage that is below another is below that one too, or it.
LEMMA DownstreamTransitive ==
  ASSUME NEW x \in Stage, NEW st \in AndDownstream(x)
  PROVE  Downstream(st) \cap Stage \subseteq AndDownstream(x)
<1>1. x \in DOMAIN Dependencies /\ st \in DOMAIN Dependencies
  BY StageAssumption DEF AndDownstream
<1>2. SUFFICES ASSUME NEW t \in Downstream(st) \cap Stage, t # x
               PROVE  t \in Downstream(x)
  BY DEF AndDownstream
<1>3. SUFFICES ASSUME NEW C \in SUBSET DOMAIN Dependencies, x \in C, Closed(C)
               PROVE  t \in C
  BY <1>1, <1>2, StageAssumption DEF Downstream, DownstreamOf
<1>4. st \in C
  BY <1>1, <1>3 DEF AndDownstream, Downstream, DownstreamOf
<1> QED
  BY <1>1, <1>2, <1>3, <1>4 DEF Downstream, DownstreamOf

LEMMA InvalidatingClosed ==
  ASSUME NEW r \in Invalidating, NEW st \in r.stages
  PROVE  Downstream(st) \cap Stage \subseteq r.stages
<1>1. CASE r.stages = Stage
  BY <1>1
<1>2. CASE r.stages # Stage
  <2>1. PICK x \in Stage : r.stages = AndDownstream(x)
    BY <1>2 DEF Invalidating
  <2> QED
    BY <2>1, DownstreamTransitive
<1> QED
  BY <1>1, <1>2

-----------------------------------------------------------------------------
(* The ends and the steps of a call keep what is said about it.             *)

LEMMA ReturnTypes ==
  ASSUME TypeOK, NEW s \in Session, NEW a \in Found \cup {None}, Return(s, a)
  PROVE  /\ pc' \in [Session -> Labels]
         /\ request' \in [Session -> Requests \cup {None}]
         /\ work' \in [Session -> SUBSET Object]
         /\ candidate' \in [Session -> Result \cup {None}]
         /\ answer' \in [Session -> Found \cup {None}]
BY DEF TypeOK, Return, Labels

LEMMA GotoTypes ==
  ASSUME TypeOK, NEW s \in Session, NEW l \in Labels, NEW w \in SUBSET Object,
         Goto(s, l, w)
  PROVE  /\ pc' \in [Session -> Labels]
         /\ work' \in [Session -> SUBSET Object]
         /\ UNCHANGED <<request, candidate, answer>>
BY DEF TypeOK, Goto

LEMMA DisableTypes ==
  ASSUME TypeOK, NEW s \in Session, Disable(s)
  PROVE  TypeOK'
<1>1. Return(s, None)
  BY DEF Disable
<1>2. lock' \in Session \cup {None} /\ disabled' \in [Session -> BOOLEAN]
  BY DEF TypeOK, Disable, Release
<1> QED
  BY <1>1, <1>2, ReturnTypes DEF TypeOK, Disable, tables

LEMMA InitInv == Init => Inv
<1> SUFFICES ASSUME Init PROVE Inv
  OBVIOUS
<1>1. TypeOK
  BY DEF Init, TypeOK, Labels
<1>2. \A s \in Session : CallKept(s) /\ LockKept(s) /\ AnswerKept(s)
  BY SessionAssumption DEF Init, CallKept, LockKept, AnswerKept,
     RecordLabels, LookupLabels, RowLabels
<1>3. \A s \in Session : PublicationKept(s) /\ SweepKept(s)
  BY DEF Init, PublicationKept, SweepKept
<1>4. TablesAgree /\ ReferencesBacked
  BY DEF Init, TablesAgree, ReferencesBacked
<1> QED
  BY <1>1, <1>2, <1>3, <1>4 DEF Inv

-----------------------------------------------------------------------------
(* Steps that touch neither the tables nor the files.                       *)

\* What Inv says beyond the types.
Rest ==
  /\ \A s \in Session : CallKept(s) /\ LockKept(s) /\ AnswerKept(s)
  /\ \A s \in Session : PublicationKept(s) /\ SweepKept(s)
  /\ TablesAgree
  /\ ReferencesBacked

LEMMA DataKept ==
  ASSUME UNCHANGED <<tables, files, damaged>>, TablesAgree, ReferencesBacked
  PROVE  TablesAgree' /\ ReferencesBacked' /\ Referenced' = Referenced
BY DEF tables, TablesAgree, ReferencesBacked, Referenced

LEMMA ReturnStep ==
  ASSUME Inv, NEW s \in Session, NEW a \in Found \cup {None},
         a # None => a.parts = Parts(a.result),
         Return(s, a), Release(s), UNCHANGED <<tables, files, damaged>>
  PROVE  Rest'
<1>1. \A t \in Session :
        /\ pc'[t] = IF t = s THEN "idle" ELSE pc[t]
        /\ request'[t] = IF t = s THEN None ELSE request[t]
        /\ work'[t] = IF t = s THEN {} ELSE work[t]
        /\ candidate'[t] = IF t = s THEN None ELSE candidate[t]
        /\ answer'[t] = IF t = s THEN a ELSE answer[t]
  BY DEF Inv, TypeOK, Return
<1>2. TablesAgree' /\ ReferencesBacked' /\ Referenced' = Referenced
  BY DataKept DEF Inv
<1>3. ASSUME NEW t \in Session PROVE CallKept(t)' /\ AnswerKept(t)'
  BY <1>1 DEF Inv, CallKept, AnswerKept, RecordLabels, LookupLabels, RowLabels
<1>4. ASSUME NEW t \in Session PROVE LockKept(t)'
  BY <1>1, SessionAssumption DEF Inv, LockKept, Release
<1>5. ASSUME NEW t \in Session PROVE PublicationKept(t)' /\ SweepKept(t)'
  BY <1>1, <1>2 DEF Inv, PublicationKept, SweepKept
<1> QED
  BY <1>2, <1>3, <1>4, <1>5 DEF Rest

\* From one label of a call to a later one.
Onward(from, to) ==
  \/ from \in RecordLabels /\ to \in RecordLabels
  \/ from \in RowLabels /\ to \in RowLabels
  \/ from \in {"clean", "sweep"} /\ to = "sweep"

LEMMA GotoStep ==
  ASSUME Inv, NEW s \in Session, NEW l \in Labels, NEW w \in SUBSET Object,
         Goto(s, l, w), Onward(pc[s], l),
         UNCHANGED <<tables, files, damaged>>,
         l \in {"verify", "commit", "sweep"} <=> lock' = s,
         \A t \in Session \ {s} : lock' = t <=> lock = t,
         l = "commit" => Good(Parts(request[s].result)),
         l = "sweep" => w \cap Referenced = {}
  PROVE  Rest'
<1>1. /\ \A t \in Session :
           /\ pc'[t] = IF t = s THEN l ELSE pc[t]
           /\ work'[t] = IF t = s THEN w ELSE work[t]
      /\ UNCHANGED <<request, candidate, answer>>
  BY DEF Inv, TypeOK, Goto
<1>2. TablesAgree' /\ ReferencesBacked' /\ Referenced' = Referenced
  BY DataKept DEF Inv
<1>3. ASSUME NEW t \in Session PROVE CallKept(t)' /\ AnswerKept(t)'
  BY <1>1 DEF Inv, CallKept, AnswerKept, Onward, RecordLabels, LookupLabels, RowLabels
<1>4. ASSUME NEW t \in Session PROVE LockKept(t)'
  BY <1>1 DEF Inv, LockKept
<1>5. ASSUME NEW t \in Session PROVE PublicationKept(t)'
  BY <1>1, ResultAssumption DEF Inv, PublicationKept, Good
<1>6. ASSUME NEW t \in Session PROVE SweepKept(t)'
  BY <1>1, <1>2 DEF Inv, SweepKept
<1> QED
  BY <1>2, <1>3, <1>4, <1>5, <1>6 DEF Rest

LEMMA DisableInv ==
  ASSUME Inv, NEW s \in Session, Disable(s)
  PROVE  Inv'
<1>1. Rest'
  BY ReturnStep DEF Disable
<1>2. TypeOK'
  BY DisableTypes DEF Inv
<1> QED
  BY <1>1, <1>2 DEF Inv, Rest

\* A call that returns without having held the lock.
LEMMA EmptyReturn ==
  ASSUME Inv, NEW s \in Session, NEW a \in Found \cup {None},
         a # None => a.parts = Parts(a.result),
         pc[s] \notin {"verify", "commit", "sweep"},
         Return(s, a), UNCHANGED <<db, tables, files, lock, disabled, damaged>>
  PROVE  Inv'
<1>1. Release(s)
  BY DEF Inv, LockKept, Release
<1>2. Rest'
  BY <1>1, ReturnStep
<1>3. TypeOK'
  BY ReturnTypes DEF Inv, TypeOK, tables
<1> QED
  BY <1>2, <1>3 DEF Inv, Rest

\* A step of a call that leaves the lock and the database alone.
LEMMA QuietGoto ==
  ASSUME Inv, NEW s \in Session, NEW l \in Labels, NEW w \in SUBSET Object,
         Goto(s, l, w), Onward(pc[s], l),
         UNCHANGED <<tables, files, lock, disabled, damaged>>,
         db' \in {"absent", "partial", "ready"},
         l \in {"verify", "commit", "sweep"} <=> pc[s] \in {"verify", "commit", "sweep"},
         l = "commit" => Good(Parts(request[s].result)),
         l = "sweep" => w \cap Referenced = {}
  PROVE  Inv'
<1>1. Rest'
  BY GotoStep DEF Inv, LockKept
<1>2. TypeOK'
  BY GotoTypes DEF Inv, TypeOK, tables
<1> QED
  BY <1>1, <1>2 DEF Inv, Rest

\* A step that takes the free lock.
LEMMA LockingGoto ==
  ASSUME Inv, NEW s \in Session, NEW l \in {"verify", "sweep"},
         NEW w \in SUBSET Object,
         Goto(s, l, w), Onward(pc[s], l),
         UNCHANGED <<db, tables, files, disabled, damaged>>,
         lock = None, lock' = s,
         l = "sweep" => w \cap Referenced = {}
  PROVE  Inv'
<1>1. l \in Labels
  BY DEF Labels
<1>2. \A t \in Session \ {s} : lock' = t <=> lock = t
  BY SessionAssumption
<1>3. Rest'
  BY <1>1, <1>2, GotoStep
<1>4. TypeOK'
  BY <1>1, GotoTypes DEF Inv, TypeOK, tables
<1> QED
  BY <1>3, <1>4 DEF Inv, Rest

-----------------------------------------------------------------------------
(* One lemma for each step that touches the tables or the files.            *)

LEMMA PutInv ==
  ASSUME Inv, NEW s \in Session, Put(s)
  PROVE  Inv'
<1>1. CASE work[s] = {} /\ Goto(s, "begin", {}) /\ UNCHANGED <<files, damaged>>
  <2>1. Onward(pc[s], "begin") /\ "begin" \in Labels
    BY DEF Put, Onward, RecordLabels, Labels
  <2> QED
    BY <1>1, <2>1, QuietGoto DEF Put, Inv, TypeOK
<1>2. ASSUME NEW o \in work[s],
             files' = [files EXCEPT ![o] = "good"], damaged' = damaged \ {o},
             Goto(s, "put", work[s] \ {o})
      PROVE  Inv'
  <2>1. /\ pc[s] = "put" /\ pc' = pc /\ UNCHANGED <<request, candidate, answer>>
        /\ \A t \in Session : t # s => work'[t] = work[t]
        /\ UNCHANGED <<db, tables, lock, disabled>>
    BY <1>2 DEF Put, Goto, Inv, TypeOK
  <2>2. TypeOK'
    BY <1>2, <2>1, GotoTypes DEF Inv, TypeOK, tables, Labels
  <2>3. \A x \in Object : files[x] = "good" \/ x \in damaged =>
                           files'[x] = "good" \/ x \in damaged'
    BY <1>2 DEF Inv, TypeOK
  <2>4. \A t \in Session : CallKept(t)' /\ LockKept(t)' /\ AnswerKept(t)'
    BY <2>1 DEF Inv, CallKept, LockKept, AnswerKept
  <2>5. \A t \in Session : PublicationKept(t)'
    <3> SUFFICES ASSUME NEW t \in Session, pc[t] = "commit",
                        NEW x \in Parts(request[t].result)
                 PROVE  files'[x] = "good" \/ x \in damaged'
      BY <2>1 DEF PublicationKept
    <3>1. request[t].result \in Result
      BY RequestFields DEF Inv, CallKept, RecordLabels
    <3> QED
      BY <2>3, <3>1, ResultAssumption DEF Inv, PublicationKept
  <2>6. \A t \in Session : SweepKept(t)'
    BY <2>1 DEF Inv, SweepKept, Referenced, tables
  <2>7. TablesAgree' /\ ReferencesBacked'
    BY <2>1, <2>3 DEF Inv, TypeOK, TablesAgree, ReferencesBacked, tables
  <2> QED
    BY <2>2, <2>4, <2>5, <2>6, <2>7 DEF Inv
<1> QED
  BY <1>1, <1>2 DEF Put

LEMMA SweepInv ==
  ASSUME Inv, NEW s \in Session, Sweep(s)
  PROVE  Inv'
<1>1. PICK o \in work[s] :
        files' = [files EXCEPT ![o] = "absent"] /\ Goto(s, "sweep", work[s] \ {o})
  BY DEF Sweep
<1>2. /\ pc[s] = "sweep" /\ pc' = pc /\ UNCHANGED <<request, candidate, answer>>
      /\ \A t \in Session : work'[t] \subseteq work[t]
      /\ UNCHANGED <<db, tables, lock, disabled, damaged>>
  BY <1>1 DEF Sweep, Goto, Inv, TypeOK
<1>3. TypeOK'
  BY <1>1, <1>2, GotoTypes DEF Inv, TypeOK, tables, Labels
<1>4. \A t \in Session : CallKept(t)' /\ LockKept(t)' /\ AnswerKept(t)'
  BY <1>2 DEF Inv, CallKept, LockKept, AnswerKept
<1>5. \A t \in Session : pc[t] # "commit"
  BY <1>2 DEF Inv, LockKept
<1>6. Referenced' = Referenced /\ o \notin Referenced
  BY <1>1, <1>2 DEF Inv, SweepKept, Referenced, tables
<1>7. \A t \in Session : PublicationKept(t)' /\ SweepKept(t)'
  BY <1>2, <1>5, <1>6 DEF Inv, PublicationKept, SweepKept
<1>8. TablesAgree' /\ ReferencesBacked'
  BY <1>1, <1>2, <1>6 DEF Inv, TypeOK, TablesAgree, ReferencesBacked, Referenced, tables
<1> QED
  BY <1>3, <1>4, <1>7, <1>8 DEF Inv

LEMMA DamageInv ==
  ASSUME Inv, NEW o \in Object, Damage(o)
  PROVE  Inv'
<1>1. /\ UNCHANGED <<db, tables, lock, disabled, calls>>
      /\ damaged' = damaged \cup {o}
      /\ \A x \in Object : x # o => files'[x] = files[x]
  BY DEF Damage, Inv, TypeOK
<1>2. TypeOK'
  BY <1>1 DEF Damage, Inv, TypeOK, tables, calls
<1>3. \A t \in Session : CallKept(t)' /\ LockKept(t)' /\ AnswerKept(t)' /\ SweepKept(t)'
  BY <1>1 DEF Inv, CallKept, LockKept, AnswerKept, SweepKept, Referenced, tables, calls
<1>4. ASSUME NEW t \in Session PROVE PublicationKept(t)'
  <2> SUFFICES ASSUME pc[t] = "commit", NEW x \in Parts(request[t].result)
               PROVE  files'[x] = "good" \/ x \in damaged'
    BY <1>1 DEF PublicationKept, calls
  <2>1. request[t].result \in Result
    BY RequestFields DEF Inv, CallKept, RecordLabels
  <2> QED
    BY <1>1, <2>1, ResultAssumption DEF Inv, PublicationKept
<1>5. TablesAgree' /\ ReferencesBacked'
  BY <1>1 DEF Inv, TypeOK, TablesAgree, ReferencesBacked, tables
<1> QED
  BY <1>2, <1>3, <1>4, <1>5 DEF Inv

LEMMA CommitInv ==
  ASSUME Inv, NEW s \in Session, RecordCommit(s)
  PROVE  Inv'
<1> DEFINE p == request[s].page
           st == request[s].stage
           r == request[s].result
<1>1. p \in Page /\ st \in Stage /\ r \in Result /\ Parts(r) \subseteq Object
  BY RequestFields, ResultAssumption DEF RecordCommit, Inv, CallKept, RecordLabels
<1>2. PICK dropped : /\ stage_records' = [q \in Page |-> [t \in Stage |->
                          IF q # p THEN stage_records[q][t]
                          ELSE IF t = st THEN r
                          ELSE IF t \in dropped THEN None ELSE stage_records[q][t]]]
                     /\ stage_objects' = [q \in Page |-> [t \in Stage |->
                          IF q # p THEN stage_objects[q][t]
                          ELSE IF t = st THEN Parts(r)
                          ELSE IF t \in dropped THEN {} ELSE stage_objects[q][t]]]
  BY DEF RecordCommit
<1>3. Return(s, None) /\ Release(s) /\ UNCHANGED <<db, files, disabled, damaged>>
  BY DEF RecordCommit
<1>4. TypeOK'
  <2>1. stage_records' \in [Page -> [Stage -> Result \cup {None}]]
    BY <1>1, <1>2 DEF Inv, TypeOK
  <2>2. stage_objects' \in [Page -> [Stage -> SUBSET Object]]
    BY <1>1, <1>2 DEF Inv, TypeOK
  <2>3. lock' \in Session \cup {None}
    BY <1>3 DEF Inv, TypeOK, Release
  <2> QED
    BY <1>3, <2>1, <2>2, <2>3, ReturnTypes DEF Inv, TypeOK
<1>5. \A t \in Session :
        /\ pc'[t] = IF t = s THEN "idle" ELSE pc[t]
        /\ request'[t] = IF t = s THEN None ELSE request[t]
        /\ candidate'[t] = IF t = s THEN None ELSE candidate[t]
        /\ answer'[t] = IF t = s THEN None ELSE answer[t]
  BY <1>3 DEF Inv, TypeOK, Return
<1>6. \A t \in Session : t # s => pc[t] \notin {"verify", "commit", "sweep"}
  BY DEF RecordCommit, Inv, LockKept
<1>7. ASSUME NEW t \in Session PROVE CallKept(t)' /\ AnswerKept(t)'
  BY <1>5 DEF Inv, CallKept, AnswerKept, RecordLabels, LookupLabels, RowLabels
<1>8. ASSUME NEW t \in Session PROVE LockKept(t)'
  BY <1>3, <1>5, SessionAssumption DEF Inv, LockKept, Release
<1>9. ASSUME NEW t \in Session PROVE PublicationKept(t)' /\ SweepKept(t)'
  BY <1>5, <1>6 DEF PublicationKept, SweepKept
<1>10. TablesAgree'
  BY <1>1, <1>2, ResultAssumption DEF Inv, TablesAgree
<1>11. ReferencesBacked'
  <2> SUFFICES ASSUME NEW q \in Page, NEW t \in Stage, NEW x \in stage_objects'[q][t]
               PROVE  files[x] = "good" \/ x \in damaged
    BY <1>3 DEF ReferencesBacked
  <2>1. CASE q = p /\ t = st
    BY <1>1, <1>2, <2>1 DEF RecordCommit, Inv, PublicationKept
  <2>2. CASE ~(q = p /\ t = st)
    BY <1>1, <1>2, <2>2 DEF Inv, ReferencesBacked
  <2> QED
    BY <2>1, <2>2
<1> QED
  BY <1>4, <1>7, <1>8, <1>9, <1>10, <1>11 DEF Inv

LEMMA InvalidateInv ==
  ASSUME Inv, NEW s \in Session, Invalidate(s)
  PROVE  Inv'
<1>1. /\ Return(s, None) /\ UNCHANGED <<db, files, lock, disabled, damaged>>
      /\ pc[s] = "invalidate" /\ lock = None
      /\ DeleteRows(request[s].pages, request[s].stages)
  BY DEF Invalidate
<1>2. TypeOK'
  BY <1>1, ReturnTypes DEF Inv, TypeOK, DeleteRows
<1>3. \A t \in Session :
        /\ pc'[t] = IF t = s THEN "idle" ELSE pc[t]
        /\ request'[t] = IF t = s THEN None ELSE request[t]
        /\ candidate'[t] = IF t = s THEN None ELSE candidate[t]
        /\ answer'[t] = IF t = s THEN None ELSE answer[t]
  BY <1>1 DEF Inv, TypeOK, Return
<1>4. \A t \in Session : pc[t] \notin {"verify", "commit", "sweep"}
  BY <1>1, SessionAssumption DEF Inv, LockKept
<1>5. ASSUME NEW t \in Session PROVE CallKept(t)' /\ AnswerKept(t)'
  BY <1>3 DEF Inv, CallKept, AnswerKept, RecordLabels, LookupLabels, RowLabels
<1>6. ASSUME NEW t \in Session PROVE LockKept(t)' /\ PublicationKept(t)' /\ SweepKept(t)'
  BY <1>1, <1>3, <1>4, SessionAssumption DEF LockKept, PublicationKept, SweepKept
<1>7. TablesAgree' /\ ReferencesBacked'
  BY <1>1 DEF Inv, TablesAgree, ReferencesBacked, DeleteRows
<1> QED
  BY <1>2, <1>5, <1>6, <1>7 DEF Inv

-----------------------------------------------------------------------------
(* The other steps.                                                         *)

LEMMA RecordInv ==
  ASSUME Inv, NEW s \in Session,
         RecordOpen(s) \/ CreateSchema(s) \/ RecordBegin(s) \/ RecordVerify(s)
  PROVE  Inv'
<1>1. ASSUME pc[s] \in RecordLabels PROVE Parts(request[s].result) \subseteq Object
  BY <1>1, RequestFields, ResultAssumption DEF Inv, CallKept
<1>2. /\ \A l \in {"create", "put", "verify", "commit"} : l \in Labels /\ l \in RecordLabels
      /\ "record" \in RecordLabels /\ "begin" \in RecordLabels
  BY DEF Labels, RecordLabels
<1>3. CASE RecordOpen(s)
  <2>1. CASE db = "absent"
    BY <1>2, <1>3, <2>1, QuietGoto DEF RecordOpen, Onward
  <2>2. CASE db = "ready"
    BY <1>1, <1>2, <1>3, <2>2, QuietGoto DEF RecordOpen, Onward
  <2> QED
    BY <1>3, <2>1, <2>2 DEF RecordOpen
<1>4. CASE CreateSchema(s)
  BY <1>1, <1>2, <1>4, QuietGoto DEF CreateSchema, Onward
<1>5. CASE RecordBegin(s)
  BY <1>2, <1>5, LockingGoto DEF RecordBegin, Onward
<1>6. CASE RecordVerify(s)
  <2>1. CASE Good(Parts(request[s].result))
    BY <1>2, <1>6, <2>1, QuietGoto DEF RecordVerify, Onward, Inv, TypeOK
  <2>2. CASE ~Good(Parts(request[s].result))
    BY <1>6, <2>2, DisableInv DEF RecordVerify
  <2> QED
    BY <2>1, <2>2
<1> QED
  BY <1>3, <1>4, <1>5, <1>6

LEMMA LookupInv ==
  ASSUME Inv, NEW s \in Session,
         LookupRow(s) \/ LookupObjects(s) \/ LookupCheck(s) \/ LookupRead(s)
  PROVE  Inv'
<1>1. ASSUME pc[s] \in LookupLabels
      PROVE  request[s].page \in Page /\ request[s].stage \in Stage
  BY <1>1, RequestFields DEF Inv, CallKept
<1>2. /\ \A l \in {"check", "read"} : l \in Labels /\ l \in RowLabels
      /\ "objects" \in Labels /\ "objects" \in RowLabels
  BY DEF Labels, RowLabels
<1>3. CASE LookupRow(s)
  <2> DEFINE row == stage_records[request[s].page][request[s].stage]
  <2>1. pc[s] = "lookup" /\ row \in Result \cup {None}
    BY <1>1, <1>3 DEF LookupRow, LookupLabels, Inv, TypeOK
  <2>2. CASE row # None /\ Fingerprint(row) = request[s].fingerprint
    <3>1. /\ candidate' = [candidate EXCEPT ![s] = row]
          /\ pc' = [pc EXCEPT ![s] = "objects"]
          /\ UNCHANGED <<db, tables, files, lock, disabled, request, work, answer, damaged>>
      BY <1>3, <2>2 DEF LookupRow
    <3>2. TypeOK'
      BY <1>2, <2>1, <3>1 DEF Inv, TypeOK, tables
    <3>3. \A t \in Session : CallKept(t)' /\ LockKept(t)' /\ AnswerKept(t)'
      BY <2>1, <2>2, <3>1 DEF Inv, TypeOK, CallKept, LockKept, AnswerKept,
         RecordLabels, LookupLabels, RowLabels
    <3>4. \A t \in Session : PublicationKept(t)' /\ SweepKept(t)'
      BY <3>1 DEF Inv, TypeOK, PublicationKept, SweepKept, Referenced, tables
    <3> QED
      BY <3>1, <3>2, <3>3, <3>4, DataKept DEF Inv
  <2>3. CASE ~(row # None /\ Fingerprint(row) = request[s].fingerprint)
    BY <1>3, <2>1, <2>3, EmptyReturn DEF LookupRow
  <2> QED
    BY <2>2, <2>3
<1>4. CASE LookupObjects(s)
  <2>1. stage_objects[request[s].page][request[s].stage] \in SUBSET Object
    BY <1>1, <1>4 DEF LookupObjects, LookupLabels, Inv, TypeOK
  <2> QED
    BY <1>2, <1>4, <2>1, QuietGoto DEF LookupObjects, Onward, Inv, TypeOK
<1>5. CASE LookupCheck(s)
  <2>1. pc[s] = "check" /\ work[s] \in SUBSET Object
    BY <1>5 DEF LookupCheck, Inv, TypeOK
  <2>2. CASE Good(work[s])
    BY <1>2, <1>5, <2>1, <2>2, QuietGoto DEF LookupCheck, Onward, Inv, TypeOK
  <2>3. CASE ~Good(work[s])
    BY <1>5, <2>1, <2>3, EmptyReturn DEF LookupCheck
  <2> QED
    BY <2>2, <2>3
<1>6. CASE LookupRead(s)
  <2>1. pc[s] = "read" /\ candidate[s] \in Result /\ work[s] \in SUBSET Object
    BY <1>6 DEF LookupRead, Inv, TypeOK, CallKept, RowLabels
  <2>2. CASE Good(work[s]) /\ work[s] = Parts(candidate[s])
    <3> DEFINE a == [result |-> candidate[s], parts |-> work[s]]
    <3>1. a \in Found \cup {None} /\ a.parts = Parts(a.result)
      BY <2>1, <2>2 DEF Found
    <3>2. Return(s, a) /\ UNCHANGED <<db, tables, files, lock, disabled, damaged>>
      BY <1>6, <2>2 DEF LookupRead
    <3> HIDE DEF a
    <3> QED
      BY <2>1, <3>1, <3>2, EmptyReturn
  <2>3. CASE ~(Good(work[s]) /\ work[s] = Parts(candidate[s]))
    BY <1>6, <2>1, <2>3, EmptyReturn DEF LookupRead
  <2> QED
    BY <2>2, <2>3
<1> QED
  BY <1>3, <1>4, <1>5, <1>6

LEMMA CleanInv ==
  ASSUME Inv, NEW s \in Session, CleanBegin(s) \/ CleanEnd(s)
  PROVE  Inv'
<1>1. CASE CleanBegin(s)
  <2>1. Object \ Referenced \in SUBSET Object
    OBVIOUS
  <2>2. (Object \ Referenced) \cap Referenced = {}
    OBVIOUS
  <2> QED
    BY <1>1, <2>1, <2>2, LockingGoto DEF CleanBegin, Onward
<1>2. CASE CleanEnd(s)
  <2>1. Rest'
    BY <1>2, ReturnStep DEF CleanEnd
  <2>2. lock' \in Session \cup {None}
    BY <1>2 DEF CleanEnd, Release, Inv, TypeOK
  <2>3. TypeOK'
    BY <1>2, <2>2, ReturnTypes DEF CleanEnd, Inv, TypeOK, tables
  <2> QED
    BY <2>1, <2>3 DEF Inv, Rest
<1> QED
  BY <1>1, <1>2

LEMMA OwnerInv ==
  ASSUME Inv, NEW s \in Session,
         Open(s) \/ (\E r \in Requests : Begin(s, r)) \/ Crash(s)
  PROVE  Inv'
<1>1. CASE Open(s)
  <2>1. /\ pc[s] = "idle" /\ answer' = [answer EXCEPT ![s] = None]
        /\ disabled' = [disabled EXCEPT ![s] = FALSE]
        /\ UNCHANGED <<db, tables, files, lock, pc, request, work, candidate, damaged>>
    BY <1>1 DEF Open
  <2>2. TypeOK'
    BY <2>1 DEF Inv, TypeOK, tables
  <2>3. \A t \in Session : CallKept(t)' /\ LockKept(t)' /\ AnswerKept(t)'
    BY <2>1 DEF Inv, TypeOK, CallKept, LockKept, AnswerKept
  <2>4. \A t \in Session : PublicationKept(t)' /\ SweepKept(t)'
    BY <2>1 DEF Inv, PublicationKept, SweepKept, Referenced, tables
  <2> QED
    BY <2>1, <2>2, <2>3, <2>4, DataKept DEF Inv
<1>2. ASSUME NEW r \in Requests, Begin(s, r) PROVE Inv'
  <2>1. /\ pc[s] = "idle"
        /\ pc' = [pc EXCEPT ![s] = r.op]
        /\ request' = [request EXCEPT ![s] = r]
        /\ answer' = [answer EXCEPT ![s] = None]
        /\ UNCHANGED <<db, tables, files, lock, disabled, work, candidate, damaged>>
    BY <1>2 DEF Begin
  <2>2. TypeOK'
    BY <2>1, RequestFields DEF Inv, TypeOK, tables, Labels
  <2>3. /\ r.op \in {"record", "lookup", "invalidate", "clean"}
        /\ r.op = "record" => r \in Recording
        /\ r.op = "lookup" => r \in LookingUp
        /\ r.op = "invalidate" => r \in Invalidating
    BY RequestFields
  <2>4. \A t \in Session : CallKept(t)' /\ LockKept(t)' /\ AnswerKept(t)'
    BY <2>1, <2>3 DEF Inv, TypeOK, CallKept, LockKept, AnswerKept,
       RecordLabels, LookupLabels, RowLabels
  <2>5. \A t \in Session : PublicationKept(t)' /\ SweepKept(t)'
    BY <2>1, <2>3 DEF Inv, TypeOK, PublicationKept, SweepKept, Referenced, tables
  <2> QED
    BY <2>1, <2>2, <2>4, <2>5, DataKept DEF Inv
<1>3. CASE Crash(s)
  <2>1. Rest'
    BY <1>3, ReturnStep DEF Crash
  <2>2. lock' \in Session \cup {None} /\ disabled' \in [Session -> BOOLEAN]
    BY <1>3 DEF Crash, Release, Inv, TypeOK
  <2>3. TypeOK'
    BY <1>3, <2>2, ReturnTypes DEF Crash, Inv, TypeOK, tables
  <2> QED
    BY <2>1, <2>3 DEF Inv, Rest
<1> QED
  BY <1>1, <1>2, <1>3

LEMMA StepInv ==
  ASSUME Inv, NEW s \in Session, Step(s)
  PROVE  Inv'
<1>1. CASE LockTimeout(s) \/ Refuse(s) \/ PutCorrupt(s) \/ ReadCorrupt(s)
  BY <1>1, DisableInv DEF LockTimeout, Refuse, PutCorrupt, ReadCorrupt
<1>2. CASE NoDatabase(s)
  BY <1>2, EmptyReturn DEF NoDatabase
<1>3. CASE RecordOpen(s) \/ CreateSchema(s) \/ RecordBegin(s) \/ RecordVerify(s)
  BY <1>3, RecordInv
<1>4. CASE LookupRow(s) \/ LookupObjects(s) \/ LookupCheck(s) \/ LookupRead(s)
  BY <1>4, LookupInv
<1>5. CASE CleanBegin(s) \/ CleanEnd(s)
  BY <1>5, CleanInv
<1> QED
  BY <1>1, <1>2, <1>3, <1>4, <1>5, PutInv, SweepInv, CommitInv, InvalidateInv DEF Step

LEMMA NextInv == Inv /\ [Next]_vars => Inv'
<1> SUFFICES ASSUME Inv, [Next]_vars PROVE Inv'
  OBVIOUS
<1>1. CASE UNCHANGED vars
  <2>1. UNCHANGED <<db, tables, files, lock, disabled, calls, damaged>>
    BY <1>1 DEF vars
  <2> QED
    BY <2>1 DEF Inv, TypeOK, CallKept, LockKept, AnswerKept, PublicationKept,
       SweepKept, TablesAgree, ReferencesBacked, Referenced, tables, calls
<1>2. ASSUME NEW s \in Session, Fail(s) PROVE Inv'
  BY <1>2, DisableInv DEF Fail
<1> QED
  BY <1>1, <1>2, StepInv, OwnerInv, DamageInv DEF Next

\* Whatever sessions interleave, fail, time out and crash in the middle of.
THEOREM Invariance == Spec => []Inv
<1> QED
  BY InitInv, NextInv, PTL DEF Spec

\* Every state is well formed.
THEOREM TypeCorrect == Spec => []TypeOK
<1>1. Inv => TypeOK
  BY DEF Inv
<1> QED
  BY <1>1, Invariance, PTL

\* No cleanup, failure or crash leaves a committed row without its objects:
\* objects are verified and rows read under the one write lock.
THEOREM References == Spec => []ReferencesBacked
<1>1. Inv => ReferencesBacked
  BY DEF Inv
<1> QED
  BY <1>1, Invariance, PTL

\* The rows of the two tables are written and deleted together.
THEOREM Tables == Spec => []TablesAgree
<1>1. Inv => TablesAgree
  BY DEF Inv
<1> QED
  BY <1>1, Invariance, PTL

-----------------------------------------------------------------------------
(* The store is a StageCache.                                               *)

\* The answers as the refinement mapping reads them.
MappedAnswer ==
  [s \in Session |->
    IF answer[s] = None THEN None
    ELSE IF answer[s].parts = Parts(answer[s].result) THEN answer[s].result
    ELSE <<"mixed", answer[s]>>]

LEMMA MappedUnchanged ==
  ASSUME UNCHANGED answer
  PROVE  UNCHANGED MappedAnswer
BY DEF MappedAnswer

LEMMA InitRefines == Init => Abstract!Init
BY SessionAssumption DEF Init, Abstract!Init

\* A call that returns nothing is a question that misses.
LEMMA ReturnMisses ==
  ASSUME Inv, NEW s \in Session, Return(s, None), UNCHANGED tables
  PROVE  Abstract!Miss(s)
<1>1. MappedAnswer' = [MappedAnswer EXCEPT ![s] = None]
  BY DEF MappedAnswer, Return, Inv, TypeOK
<1> QED
  BY <1>1 DEF Abstract!Miss, Return, tables, MappedAnswer

\* So is the start of a call.
LEMMA StartMisses ==
  ASSUME Inv, NEW s \in Session, pc[s] = "idle",
         answer' = [answer EXCEPT ![s] = None], UNCHANGED <<tables, candidate>>
  PROVE  Abstract!Miss(s)
<1>1. MappedAnswer' = [MappedAnswer EXCEPT ![s] = None]
  BY DEF MappedAnswer, Inv, TypeOK
<1>2. candidate' = [candidate EXCEPT ![s] = None]
  BY DEF Inv, TypeOK, CallKept, RowLabels
<1> QED
  BY <1>1, <1>2 DEF Abstract!Miss, tables, MappedAnswer

LEMMA CommitRefines ==
  ASSUME Inv, NEW s \in Session, RecordCommit(s)
  PROVE  \E p \in Page, st \in Stage, r \in Result : Abstract!Record(p, st, r)
<1> DEFINE p == request[s].page
           st == request[s].stage
           r == request[s].result
<1>1. p \in Page /\ st \in Stage /\ r \in Result
  BY RequestFields DEF RecordCommit, Inv, CallKept, RecordLabels
<1>2. answer' = answer /\ candidate' = candidate
  BY DEF RecordCommit, Return, Inv, TypeOK, CallKept, RowLabels
<1>3. Changed(p, st, r) <=> stage_records[p][st] \notin {None, r}
  BY <1>1, ResultAssumption DEF Changed, Inv, TablesAgree
<1>4. stage_records' = [q \in Page |-> [t \in Stage |->
        IF q # p THEN stage_records[q][t]
        ELSE IF t = st THEN r
        ELSE IF t \in (IF Changed(p, st, r) THEN Downstream(st) ELSE {})
             THEN None ELSE stage_records[q][t]]]
  BY DEF RecordCommit
<1>5. CASE stage_records[p][st] \in {None, r}
  <2>1. stage_records' = [stage_records EXCEPT ![p][st] = r]
    BY <1>1, <1>3, <1>4, <1>5 DEF Inv, TypeOK
  <2> QED
    BY <1>1, <1>2, <1>5, <2>1 DEF Abstract!Record
<1>6. CASE stage_records[p][st] \notin {None, r}
  <2>1. stage_records' = [Abstract!Without({p}, Downstream(st)) EXCEPT ![p][st] = r]
    BY <1>1, <1>3, <1>4, <1>6 DEF Inv, TypeOK, Abstract!Without
  <2> QED
    BY <1>1, <1>2, <1>6, <2>1 DEF Abstract!Record
<1> QED
  BY <1>5, <1>6

LEMMA InvalidateRefines ==
  ASSUME Inv, NEW s \in Session, Invalidate(s)
  PROVE  \E ps \in SUBSET Page, sts \in SUBSET Stage : Abstract!Invalidate(ps, sts)
<1> DEFINE ps == request[s].pages
           sts == request[s].stages
<1>1. request[s] \in Invalidating
  BY DEF Invalidate, Inv, CallKept
<1>2. ps \in SUBSET Page /\ sts \in SUBSET Stage
  BY <1>1, RequestFields
<1>3. \A st \in sts : Downstream(st) \cap Stage \subseteq sts
  BY <1>1, InvalidatingClosed
<1>4. answer' = answer /\ candidate' = candidate
  BY DEF Invalidate, Return, Inv, TypeOK, CallKept, RowLabels
<1>5. stage_records' = Abstract!Without(ps, sts)
  BY DEF Invalidate, DeleteRows, Abstract!Without
<1> QED
  BY <1>2, <1>3, <1>4, <1>5 DEF Abstract!Invalidate

LEMMA RowFinds ==
  ASSUME Inv, NEW s \in Session, LookupRow(s)
  PROVE  Abstract!Next
<1> DEFINE p == request[s].page
           st == request[s].stage
           row == stage_records[p][st]
<1>1. p \in Page /\ st \in Stage /\ row \in Result \cup {None}
  BY RequestFields DEF LookupRow, Inv, TypeOK, CallKept, LookupLabels
<1>2. CASE row # None /\ Fingerprint(row) = request[s].fingerprint
  <2>1. candidate[s] = None
    BY DEF LookupRow, Inv, CallKept, RowLabels
  <2>2. Abstract!Find(s, p, st, Fingerprint(row))
    BY <1>2, <2>1 DEF LookupRow, Abstract!Find, tables
  <2> QED
    BY <1>1, <1>2, <2>2 DEF Abstract!Next
<1>3. CASE ~(row # None /\ Fingerprint(row) = request[s].fingerprint)
  BY <1>3, ReturnMisses DEF LookupRow, Abstract!Next
<1> QED
  BY <1>2, <1>3

LEMMA ReadGives ==
  ASSUME Inv, NEW s \in Session, LookupRead(s)
  PROVE  Abstract!Next
<1>1. CASE Good(work[s]) /\ work[s] = Parts(candidate[s])
  <2> DEFINE a == [result |-> candidate[s], parts |-> work[s]]
  <2>1. Return(s, a) /\ UNCHANGED tables
    BY <1>1 DEF LookupRead
  <2>2. candidate[s] # None /\ candidate[s] \in Result
    BY DEF LookupRead, Inv, TypeOK, CallKept, RowLabels
  <2>3. a.result = candidate[s] /\ a.parts = Parts(a.result)
    BY <1>1
  <2>4. a \in Found /\ a # None
    BY <2>2, AnswerAssumption DEF Found, LookupRead, Inv, TypeOK
  <2>5. MappedAnswer' = [MappedAnswer EXCEPT ![s] = candidate[s]]
    BY <2>1, <2>2, <2>3, <2>4 DEF MappedAnswer, Return, Inv, TypeOK
  <2> QED
    BY <2>1, <2>2, <2>5 DEF Abstract!Give, Abstract!Next, Return, tables, MappedAnswer
<1>2. CASE ~(Good(work[s]) /\ work[s] = Parts(candidate[s]))
  BY <1>2, ReturnMisses DEF LookupRead, Abstract!Next
<1> QED
  BY <1>1, <1>2

LEMMA StepRefines ==
  ASSUME Inv, Inv', [Next]_vars
  PROVE  Abstract!Next \/ UNCHANGED <<stage_records, candidate, MappedAnswer>>
<1>1. CASE UNCHANGED vars
  BY <1>1, MappedUnchanged DEF vars, tables, calls
<1>2. ASSUME NEW s \in Session, Disable(s) PROVE Abstract!Next
  BY <1>2, ReturnMisses DEF Disable, Abstract!Next
<1>3. ASSUME NEW s \in Session, Open(s) PROVE Abstract!Next
  BY <1>3, StartMisses DEF Open, Abstract!Next
<1>4. ASSUME NEW s \in Session, NEW r \in Requests, Begin(s, r) PROVE Abstract!Next
  BY <1>4, StartMisses DEF Begin, Abstract!Next
<1>5. ASSUME NEW s \in Session, Crash(s) \/ NoDatabase(s) \/ CleanEnd(s) PROVE Abstract!Next
  BY <1>5, ReturnMisses DEF Crash, NoDatabase, CleanEnd, Abstract!Next
<1>6. ASSUME NEW o \in Object, Damage(o)
      PROVE  UNCHANGED <<stage_records, candidate, MappedAnswer>>
  BY <1>6, MappedUnchanged DEF Damage, tables, calls
<1>7. ASSUME NEW s \in Session, Step(s)
      PROVE  Abstract!Next \/ UNCHANGED <<stage_records, candidate, MappedAnswer>>
  <2>1. CASE LockTimeout(s) \/ Refuse(s) \/ PutCorrupt(s) \/ ReadCorrupt(s)
    BY <1>2, <2>1 DEF LockTimeout, Refuse, PutCorrupt, ReadCorrupt
  <2>2. CASE NoDatabase(s) \/ CleanEnd(s)
    BY <1>5, <2>2
  <2>3. CASE RecordOpen(s) \/ CreateSchema(s) \/ RecordBegin(s) \/ Put(s)
             \/ LookupObjects(s) \/ CleanBegin(s) \/ Sweep(s)
    BY <2>3, MappedUnchanged DEF RecordOpen, CreateSchema, RecordBegin, Put,
       LookupObjects, CleanBegin, Sweep, Goto, tables
  <2>4. CASE RecordVerify(s)
    BY <1>2, <2>4, MappedUnchanged DEF RecordVerify, Goto, tables
  <2>5. CASE LookupCheck(s)
    BY <2>5, ReturnMisses, MappedUnchanged DEF LookupCheck, Goto, tables, Abstract!Next
  <2>6. CASE RecordCommit(s)
    BY <2>6, CommitRefines DEF Abstract!Next
  <2>7. CASE Invalidate(s)
    BY <2>7, InvalidateRefines DEF Abstract!Next
  <2> QED
    BY <1>7, <2>1, <2>2, <2>3, <2>4, <2>5, <2>6, <2>7, RowFinds, ReadGives DEF Step
<1> QED
  BY <1>1, <1>2, <1>3, <1>4, <1>5, <1>6, <1>7 DEF Next, Fail

\* Whatever a lookup interleaves with, it answers as a StageCache does: with
\* a result that was in the cache whole, under the fingerprint asked for, or
\* with nothing; and a changed or invalidated stage takes what was computed
\* from it out of the cache in the same step.
THEOREM Implements == Spec => StoreIsACache
<1>1. Init => Abstract!Init
  BY InitRefines
<1>2. Inv /\ Inv' /\ [Next]_vars => [Abstract!Next]_(Abstract!vars)
  BY StepRefines DEF Abstract!vars, MappedAnswer
<1> QED
  BY <1>1, <1>2, Invariance, PTL DEF Spec, StoreIsACache, Abstract!Spec
=============================================================================
