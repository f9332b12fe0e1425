--------------------------- MODULE CheckpointStore ---------------------------
(***************************************************************************)
(* The project's checkpoint sidecar: ProjectCheckpointStore                *)
(* (app/projects/checkpoint_store.py) and the records the stages of the     *)
(* pipeline keep in it (app/projects/stage_checkpoints.py).                 *)
(*                                                                         *)
(* A sidecar is a database of two tables and a folder of immutable objects *)
(* named by their hash.  Several stores work on it at once: a batch that    *)
(* records and looks up, edits and menu entries of the GUI that invalidate *)
(* and clean, another instance of the application.  Objects are written     *)
(* before the row that refers to them and outside any transaction; only    *)
(* the database's write lock orders a writer and a cleanup.                 *)
(***************************************************************************)
EXTENDS Naturals, FiniteSets

CONSTANTS Session,      \* the stores that are open
          Calls(_),     \* what the owner of a store does with it
          Page,
          Stage,        \* the stages the sessions work on
          Result,       \* what a stage may compute: a fingerprint and a payload
          Fingerprint(_),
          Parts(_),     \* the objects whose digests a result's payload holds
          Object,
          None

\* PROJECT_STAGE_DEPENDENCIES.
Dependencies ==
  [detection   |-> {},
   ocr         |-> {"detection"},
   translation |-> {"ocr"},
   inpaint     |-> {"detection", "ocr"},
   render      |-> {"translation", "inpaint"}]

ASSUME StageAssumption == Stage \subseteq DOMAIN Dependencies
ASSUME ResultAssumption == None \notin Result /\ \A r \in Result : Parts(r) \subseteq Object
ASSUME SessionAssumption == None \notin Session

VARIABLES
  db,             \* the database: absent, partial (its schema is not whole), ready
  stage_records,  \* the committed rows of the two tables
  stage_objects,
  files,          \* the object files
  lock,           \* the holder of the database's write lock
  disabled,       \* per store: whether disabled_reason is set
  pc, request,    \* per store: the call it is in
  work,           \* per store: the objects the call still has to look at
  candidate,      \* per store: the row a lookup has read
  answer,         \* per store: what its last lookup returned
  damaged         \* the objects someone else removed or changed

tables == <<stage_records, stage_objects>>
calls  == <<pc, request, work, candidate, answer>>
vars   == <<db, tables, files, lock, disabled, calls, damaged>>

\* stage_downstream without the stage itself: its loop adds what depends on a
\* stage it has until nothing is added, which leaves the least closed set.
Closed(stages) ==
  \A st \in DOMAIN Dependencies :
    Dependencies[st] \cap stages # {} => st \in stages
DownstreamOf ==
  [stage \in DOMAIN Dependencies |->
     {st \in DOMAIN Dependencies \ {stage} :
        \A stages \in SUBSET DOMAIN Dependencies :
          stage \in stages /\ Closed(stages) => st \in stages}]
Downstream(stage) == DownstreamOf[stage]

\* With include_self.
AndDownstream(stage) == (Downstream(stage) \cup {stage}) \cap Stage

Recording   == [op : {"record"}, page : Page, stage : Stage, result : Result]
LookingUp   == [op : {"lookup"}, page : Page, stage : Stage,
                fingerprint : {Fingerprint(r) : r \in Result}]
\* One page after an edit, or everything on request.
Invalidating == [op : {"invalidate"}, pages : {{p} : p \in Page},
                 stages : {AndDownstream(st) : st \in Stage}]
                \cup [op : {"invalidate"}, pages : {Page}, stages : {Stage}]
Cleaning    == [op : {"clean"}]
Requests    == Recording \cup LookingUp \cup Invalidating \cup Cleaning

Labels == {"idle", "record", "create", "put", "begin", "verify", "commit",
           "lookup", "objects", "check", "read", "invalidate", "clean", "sweep"}
Found == [result : Result, parts : SUBSET Object]

ASSUME AnswerAssumption == None \notin Found

TypeOK ==
  /\ db \in {"absent", "partial", "ready"}
  /\ stage_records \in [Page -> [Stage -> Result \cup {None}]]
  /\ stage_objects \in [Page -> [Stage -> SUBSET Object]]
  /\ files \in [Object -> {"absent", "good", "corrupt"}]
  /\ lock \in Session \cup {None}
  /\ disabled \in [Session -> BOOLEAN]
  /\ pc \in [Session -> Labels]
  /\ request \in [Session -> Requests \cup {None}]
  /\ work \in [Session -> SUBSET Object]
  /\ candidate \in [Session -> Result \cup {None}]
  /\ answer \in [Session -> Found \cup {None}]
  /\ damaged \subseteq Object

Init ==
  /\ db = "absent"
  /\ stage_records = [p \in Page |-> [st \in Stage |-> None]]
  /\ stage_objects = [p \in Page |-> [st \in Stage |-> {}]]
  /\ files = [o \in Object |-> "absent"]
  /\ lock = None
  /\ disabled = [s \in Session |-> FALSE]
  /\ pc = [s \in Session |-> "idle"]
  /\ request = [s \in Session |-> None]
  /\ work = [s \in Session |-> {}]
  /\ candidate = [s \in Session |-> None]
  /\ answer = [s \in Session |-> None]
  /\ damaged = {}

-----------------------------------------------------------------------------
Good(objects) == \A o \in objects : files[o] = "good"
Referenced == UNION {stage_objects[p][st] : p \in Page, st \in Stage}

\* The call goes on at the label l with the objects w to look at.
Goto(s, l, w) ==
  /\ pc' = [pc EXCEPT ![s] = l]
  /\ work' = [work EXCEPT ![s] = w]
  /\ UNCHANGED <<request, candidate, answer>>

\* The call returns, a lookup with the answer a.
Return(s, a) ==
  /\ pc' = [pc EXCEPT ![s] = "idle"]
  /\ request' = [request EXCEPT ![s] = None]
  /\ work' = [work EXCEPT ![s] = {}]
  /\ candidate' = [candidate EXCEPT ![s] = None]
  /\ answer' = [answer EXCEPT ![s] = a]

\* The connection is closed: what is not committed is rolled back.
Release(s) == lock' = IF lock = s THEN None ELSE lock

\* _disable, and the call returns nothing.
Disable(s) ==
  /\ disabled' = [disabled EXCEPT ![s] = TRUE]
  /\ Release(s)
  /\ Return(s, None)
  /\ UNCHANGED <<db, tables, files, damaged>>

\* A store is made for every batch and every edit.
Open(s) ==
  /\ pc[s] = "idle"
  /\ disabled' = [disabled EXCEPT ![s] = FALSE]
  /\ answer' = [answer EXCEPT ![s] = None]
  /\ UNCHANGED <<db, tables, files, lock, pc, request, work, candidate, damaged>>

Begin(s, r) ==
  /\ pc[s] = "idle" /\ ~disabled[s] /\ r.op \in Calls(s)
  /\ pc' = [pc EXCEPT ![s] = r.op]
  /\ request' = [request EXCEPT ![s] = r]
  /\ answer' = [answer EXCEPT ![s] = None]
  /\ UNCHANGED <<db, tables, files, lock, disabled, work, candidate, damaged>>

\* Any call to SQLite or to the file system fails: a disk that is full, a
\* folder the cleanup took away, a statement another connection blocks.
Fail(s) == pc[s] # "idle" /\ Disable(s)

\* Mutant of LockTimeout: the store waits for as long as it takes.
LockTimeoutNever(s) ==
  /\ pc[s] \in {"begin", "invalidate", "clean"}
  /\ lock = s
  /\ Disable(s)

\* busy_timeout: the write lock is waited for no longer than timeout_sec.
LockTimeout(s) ==
  /\ pc[s] \in {"begin", "invalidate", "clean"}
  /\ lock # None
  /\ Disable(s)

\* An existing database whose schema is not whole is refused, by every call.
Refuse(s) ==
  /\ pc[s] \in {"record", "lookup", "invalidate", "clean"}
  /\ db = "partial"
  /\ Disable(s)

\* A call that creates nothing finds no database.
NoDatabase(s) ==
  /\ pc[s] \in {"lookup", "invalidate", "clean"}
  /\ db = "absent"
  /\ Return(s, None)
  /\ UNCHANGED <<db, tables, files, lock, disabled, damaged>>

-----------------------------------------------------------------------------
(* record_*_checkpoint: put_object for every artifact, then record_stage.   *)

\* The first connection creates the database: its tables one by one, which
\* commits each, and then the row that tells whose cache it is.
RecordOpen(s) ==
  /\ pc[s] = "record"
  /\ \/ db = "absent" /\ db' = "partial" /\ Goto(s, "create", {})
     \/ db = "ready" /\ UNCHANGED db /\ Goto(s, "put", Parts(request[s].result))
  /\ UNCHANGED <<tables, files, lock, disabled, damaged>>

CreateSchema(s) ==
  /\ pc[s] = "create"
  /\ db' = "ready"
  /\ Goto(s, "put", Parts(request[s].result))
  /\ UNCHANGED <<tables, files, lock, disabled, damaged>>

\* Mutant of Put: the object is written in place.
PutInPlace(s) ==
  /\ pc[s] = "put"
  /\ \/ \E o \in work[s] :
          /\ files' = [files EXCEPT ![o] = IF @ = "absent" THEN "half" ELSE "good"]
          /\ Goto(s, "put", IF files[o] = "absent" THEN work[s] ELSE work[s] \ {o})
     \/ work[s] = {} /\ Goto(s, "begin", {}) /\ UNCHANGED files
  /\ UNCHANGED <<db, tables, lock, disabled, damaged>>

\* put_object: a file that is there must be whole; a missing one is written
\* aside and renamed.
Put(s) ==
  /\ pc[s] = "put"
  /\ \/ \E o \in work[s] :
          /\ files[o] # "corrupt"
          /\ files' = [files EXCEPT ![o] = "good"]
          /\ damaged' = damaged \ {o}
          /\ Goto(s, "put", work[s] \ {o})
     \/ work[s] = {} /\ Goto(s, "begin", {}) /\ UNCHANGED <<files, damaged>>
  /\ UNCHANGED <<db, tables, lock, disabled>>

PutCorrupt(s) ==
  /\ pc[s] = "put"
  /\ \E o \in work[s] : files[o] = "corrupt"
  /\ Disable(s)

RecordBegin(s) ==
  /\ pc[s] = "begin"
  /\ lock = None /\ lock' = s
  /\ Goto(s, "verify", {})
  /\ UNCHANGED <<db, tables, files, disabled, damaged>>

\* The manifest refers to objects that are there, or is not written.
RecordVerify(s) ==
  /\ pc[s] = "verify"
  /\ IF Good(Parts(request[s].result))
     THEN /\ Goto(s, "commit", {})
          /\ UNCHANGED <<db, tables, files, lock, disabled, damaged>>
     ELSE Disable(s)

\* Mutant of DeleteRows: the connection does not enforce foreign keys.
DeleteRecords(ps, sts) ==
  /\ stage_records' = [p \in Page |-> [st \in Stage |->
       IF p \in ps /\ st \in sts THEN None ELSE stage_records[p][st]]]
  /\ UNCHANGED stage_objects

\* _delete_stage_rows: the rows' objects go by the foreign key.
DeleteRows(ps, sts) ==
  /\ stage_records' = [p \in Page |-> [st \in Stage |->
       IF p \in ps /\ st \in sts THEN None ELSE stage_records[p][st]]]
  /\ stage_objects' = [p \in Page |-> [st \in Stage |->
       IF p \in ps /\ st \in sts THEN {} ELSE stage_objects[p][st]]]

\* A result that differs from the one before drops what was computed from it.
Changed(p, st, r) ==
  /\ stage_records[p][st] # None
  /\ stage_records[p][st] # r \/ stage_objects[p][st] # Parts(r)

RecordCommit(s) ==
  /\ pc[s] = "commit"
  /\ LET p == request[s].page  st == request[s].stage  r == request[s].result
         dropped == IF Changed(p, st, r) THEN Downstream(st) ELSE {}
     IN /\ stage_records' = [q \in Page |-> [t \in Stage |->
             IF q # p THEN stage_records[q][t]
             ELSE IF t = st THEN r
             ELSE IF t \in dropped THEN None ELSE stage_records[q][t]]]
        /\ stage_objects' = [q \in Page |-> [t \in Stage |->
             IF q # p THEN stage_objects[q][t]
             ELSE IF t = st THEN Parts(r)
             ELSE IF t \in dropped THEN {} ELSE stage_objects[q][t]]]
  /\ Release(s)
  /\ Return(s, None)
  /\ UNCHANGED <<db, files, disabled, damaged>>

-----------------------------------------------------------------------------
(* lookup_*_checkpoint: lookup_stage reads the two tables one after the     *)
(* other and outside a transaction, then the files.                         *)

LookupRow(s) ==
  /\ pc[s] = "lookup" /\ db = "ready"
  /\ LET row == stage_records[request[s].page][request[s].stage] IN
       IF row # None /\ Fingerprint(row) = request[s].fingerprint
       THEN /\ candidate' = [candidate EXCEPT ![s] = row]
            /\ pc' = [pc EXCEPT ![s] = "objects"]
            /\ UNCHANGED <<request, work, answer>>
       ELSE Return(s, None)
  /\ UNCHANGED <<db, tables, files, lock, disabled, damaged>>

LookupObjects(s) ==
  /\ pc[s] = "objects"
  /\ Goto(s, "check", stage_objects[request[s].page][request[s].stage])
  /\ UNCHANGED <<db, tables, files, lock, disabled, damaged>>

\* A missing or corrupt object is a miss and no more.
LookupCheck(s) ==
  /\ pc[s] = "check"
  /\ IF Good(work[s]) THEN Goto(s, "read", work[s]) ELSE Return(s, None)
  /\ UNCHANGED <<db, tables, files, lock, disabled, damaged>>

\* Mutant of LookupRead: the payload's digests are not compared.
LookupReadUnchecked(s) ==
  /\ pc[s] = "read"
  /\ IF Good(work[s])
     THEN Return(s, [result |-> candidate[s], parts |-> work[s]])
     ELSE Return(s, None)
  /\ UNCHANGED <<db, tables, files, lock, disabled, damaged>>

\* read_object, and the digests in the payload against what was read.
LookupRead(s) ==
  /\ pc[s] = "read"
  /\ \A o \in work[s] : files[o] # "corrupt"
  /\ IF Good(work[s]) /\ work[s] = Parts(candidate[s])
     THEN Return(s, [result |-> candidate[s], parts |-> work[s]])
     ELSE Return(s, None)
  /\ UNCHANGED <<db, tables, files, lock, disabled, damaged>>

ReadCorrupt(s) ==
  /\ pc[s] = "read"
  /\ \E o \in work[s] : files[o] = "corrupt"
  /\ Disable(s)

-----------------------------------------------------------------------------
\* invalidate: one transaction.
Invalidate(s) ==
  /\ pc[s] = "invalidate" /\ db = "ready" /\ lock = None
  /\ DeleteRows(request[s].pages, request[s].stages)
  /\ Return(s, None)
  /\ UNCHANGED <<db, files, lock, disabled, damaged>>

(* clean_unused_objects: under the write lock, the files no row refers to.  *)

\* Mutant of CleanBegin: the references are read outside a transaction.
CleanUnlocked(s) ==
  /\ pc[s] = "clean" /\ db = "ready"
  /\ Goto(s, "sweep", Object \ Referenced)
  /\ UNCHANGED <<db, tables, files, lock, disabled, damaged>>

CleanBegin(s) ==
  /\ pc[s] = "clean" /\ db = "ready"
  /\ lock = None /\ lock' = s
  /\ Goto(s, "sweep", Object \ Referenced)
  /\ UNCHANGED <<db, tables, files, disabled, damaged>>

Sweep(s) ==
  /\ pc[s] = "sweep"
  /\ \E o \in work[s] :
       /\ files' = [files EXCEPT ![o] = "absent"]
       /\ Goto(s, "sweep", work[s] \ {o})
  /\ UNCHANGED <<db, tables, lock, disabled, damaged>>

CleanEnd(s) ==
  /\ pc[s] = "sweep" /\ work[s] = {}
  /\ Release(s)
  /\ Return(s, None)
  /\ UNCHANGED <<db, tables, files, disabled, damaged>>

-----------------------------------------------------------------------------
\* The session's process dies and the application is started again.
Crash(s) ==
  /\ Release(s)
  /\ disabled' = [disabled EXCEPT ![s] = FALSE]
  /\ Return(s, None)
  /\ UNCHANGED <<db, tables, files, damaged>>

\* Someone removes an object file or changes it.
Damage(o) ==
  /\ files[o] # "absent"
  /\ \E to \in {"absent", "corrupt"} : files' = [files EXCEPT ![o] = to]
  /\ damaged' = damaged \cup {o}
  /\ UNCHANGED <<db, tables, lock, disabled, calls>>

Step(s) ==
  \/ LockTimeout(s) \/ Refuse(s) \/ NoDatabase(s)
  \/ RecordOpen(s) \/ CreateSchema(s) \/ Put(s) \/ PutCorrupt(s)
  \/ RecordBegin(s) \/ RecordVerify(s) \/ RecordCommit(s)
  \/ LookupRow(s) \/ LookupObjects(s) \/ LookupCheck(s) \/ LookupRead(s)
  \/ ReadCorrupt(s)
  \/ Invalidate(s) \/ CleanBegin(s) \/ Sweep(s) \/ CleanEnd(s)

Next ==
  \/ \E s \in Session :
       \/ Open(s) \/ \E r \in Requests : Begin(s, r)
       \/ Step(s) \/ Fail(s) \/ Crash(s)
  \/ \E o \in Object : Damage(o)

\* A call that has begun goes on: it is straight-line code on its own thread,
\* and its waits for the lock time out.
Fairness == \A s \in Session : WF_vars(Step(s))

Spec == Init /\ [][Next]_vars /\ Fairness

-----------------------------------------------------------------------------
(* Properties.                                                              *)

\* A committed row never refers to an object the program itself removed or
\* never wrote: "a concurrent cleanup cannot create a committed dangling
\* reference", whatever writers, cleanups and crashes interleave.  Only an
\* object that somebody else damaged may be missing.
ReferencesBacked ==
  \A p \in Page, st \in Stage : \A o \in stage_objects[p][st] :
    files[o] = "good" \/ o \in damaged

\* The two tables agree: no object is referred to by a stage without a row,
\* where it would be kept from every cleanup, and a row's objects are those
\* its payload was computed with.
TablesAgree ==
  \A p \in Page, st \in Stage :
    stage_objects[p][st] =
      IF stage_records[p][st] = None THEN {} ELSE Parts(stage_records[p][st])

\* The cache never holds up the work it is to save: every call returns, with
\* any other session crashed, failing or holding the lock.
CallsReturn == \A s \in Session : pc[s] # "idle" ~> pc[s] = "idle"

\* Whatever a lookup interleaves with, its answer is one that StageCache
\* allows: a whole result, the one that was recorded under the fingerprint
\* when the row was read - never the payload of one and the objects of
\* another - and a changed stage takes the stages below it away.
Abstract == INSTANCE StageCache WITH
  Client <- Session,
  Below <- Downstream,
  cache <- stage_records,
  answer <- [s \in Session |->
    IF answer[s] = None THEN None
    ELSE IF answer[s].parts = Parts(answer[s].result) THEN answer[s].result
    ELSE <<"mixed", answer[s]>>]

StoreIsACache == Abstract!Spec
=============================================================================
