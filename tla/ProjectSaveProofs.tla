------------------------- MODULE ProjectSaveProofs -------------------------
(***************************************************************************)
(* What is proved of the saves of a project, for any number of jobs,       *)
(* paths, edits and accidents.                                             *)
(*                                                                         *)
(* First what each step does to a job, then one invariant after the other, *)
(* from the shapes of jobs up to the clean window, each preserved by every *)
(* step, and the theorems at the end.                                      *)
(***************************************************************************)
EXTENDS ProjectSave, TLAPS

USE PathAssumption, BoundAssumption, FileAssumption, NoneAssumption

-----------------------------------------------------------------------------
(* The invariant.                                                           *)

Kind(s, kinds) == job[s] # None /\ job[s].kind \in kinds
IsMove(s) == Kind(s, {"move"})
OnUser(s) == Kind(s, {"manual", "move"}) /\ ~job[s].save_failed

\* Where a job of each kind may stand, what it carries, and what it is about.
PlaceOf(s) ==
  job[s] # None =>
    /\ job[s].save_failed => job[s].at = "returned"
    /\ job[s].at \in {"backing up", "installing"} => job[s].kind = "move"
    /\ job[s].copy # "none" \/ job[s].backup # "none" =>
         job[s].kind = "move" /\ job[s].at \in {"installing", "writing", "settling"}
Places == \A s \in Slot : PlaceOf(s)
AimOf(s) ==
  job[s] # None =>
    /\ job[s].kind = "move" => job[s].source # job[s].target
    /\ job[s].kind = "manual" => job[s].source = job[s].target
    /\ job[s].kind # "autosave" => job[s].target \in Path
Aims == \A s \in Slot : AimOf(s)
Shapes == TypeOK /\ Places /\ Aims

\* What the user saves is the project's file.
Ours == \A s \in Slot : OnUser(s) => job[s].target = project_file
AgeOf(s) ==
  job[s] # None =>
    /\ job[s].start <= revision
    /\ job[s].at = "writing" => job[s].start <= job[s].content /\ job[s].content <= revision
JobAges == \A s \in Slot : AgeOf(s)
FileAges == \A f \in Files : disk[f] \in Revision => disk[f] <= revision

\* The dialog keeps the user's saves apart, and without an overtaking all saves are.
OneOnUser == \A s, t \in Slot : OnUser(s) /\ OnUser(t) => s = t
User == Ours /\ OneOnUser
Moving(s) == job[s] # None /\ job[s].at \notin {"asked", "queued", "ready"}
Alone == "together" \notin mishaps => \A s, t \in Slot : Moving(s) /\ Moving(t) => s = t

\* A failed save that nobody asked for has left its mark.
MarkOf(s) == Kind(s, {"autosave", "page"}) /\ (job[s].at = "failed" \/ job[s].save_failed)
Marked == \A s \in Slot : MarkOf(s) => "unsaved" \in mishaps

\* The sidecar of another's project is beside it, or put aside by the move that is
\* to replace the project.
Replacing(s) == IsMove(s) /\ job[s].at \in {"installing", "writing"}
PutAside ==
  \A p \in Path : disk[p] = Foreign /\ sidecar[p] # "foreign" =>
    \E s \in Slot : Replacing(s) /\ job[s].target = p
BackedUp ==
  \A s \in Slot :
    Replacing(s) /\ disk[job[s].target] = Foreign =>
      \/ job[s].backup = "foreign"
      \/ /\ job[s].at = "writing" /\ job[s].copy = "none" /\ job[s].backup = "none"
         /\ sidecar[job[s].target] = "foreign"

Sides == PutAside /\ BackedUp

\* What is about to be written, or has just been, is the newest there is.
Written(s) == job[s] # None /\ job[s].at \in {"settling", "returned"} /\ ~job[s].save_failed
NewestOf(s) ==
  /\ job[s] # None /\ job[s].at = "writing" =>
       \A f \in Files : disk[f] \in Revision => disk[f] <= job[s].content
  /\ Written(s) =>
       /\ Holds(job[s].target, job[s].start)
       /\ \A f \in Files : disk[f] \in Revision => disk[f] <= disk[job[s].target]
Newest == "together" \notin mishaps => \A s \in Slot : NewestOf(s)

\* Edits after the reading leave the window dirty, and what has been written for the
\* project is one of its files.
Faithful == mishaps \cap {"unsaved", "stray", "together"} = {}
Current(p) ==
  p = project_file \/ \E s \in Slot : IsMove(s) /\ job[s].source = p
StaleOf(s) == job[s] # None /\ job[s].at = "writing" /\ job[s].content < revision
Stale == Faithful => \A s \in Slot : StaleOf(s) => dirty
PlacedOf(s) ==
  /\ Written(s) /\ job[s].kind \in {"autosave", "page"} /\ job[s].target \in Path
       => Current(job[s].target)
  /\ IsMove(s) /\ job[s].save_failed =>
       \/ project_file = job[s].source
       \/ \E t \in Slot : IsMove(t) /\ OnUser(t) /\ job[t].source = job[s].source
Placed == Faithful => \A s \in Slot : PlacedOf(s)

\* One of the project's files holds every edit.
Clean == Faithful /\ ~dirty => \E p \in Path : Current(p) /\ Holds(p, revision)

\* The flag that holds up every autosave has a save whose end will reset it.
Saves(s) == Kind(s, {"autosave", "page"})
Pending == save_pending => (\E s \in Slot : Saves(s)) \/ "dropped" \in mishaps

SaveInv ==
  /\ Shapes /\ User /\ Alone /\ Marked /\ JobAges /\ FileAges
  /\ Pending /\ Sides
  /\ Newest /\ Stale /\ Placed /\ Clean

-----------------------------------------------------------------------------
(* What steps do to a job.                                                  *)

Label == {"asked", "queued", "ready", "backing up", "installing", "writing",
          "settling", "failed", "returned"}

\* The job in slot s goes on, the others are as they were.
Goes(s) ==
  /\ job[s] \in Job /\ job'[s] \in Job
  /\ job' \in [Slot -> Job \cup {None}]
  /\ \A t \in Slot : t # s => job'[t] = job[t]
  /\ job'[s].kind = job[s].kind /\ job'[s].target = job[s].target
  /\ job'[s].source = job[s].source
Becomes(s, l, r, c, y, b, f) ==
  /\ Goes(s)
  /\ job'[s].at = l /\ job'[s].start = r /\ job'[s].content = c
  /\ job'[s].copy = y /\ job'[s].backup = b /\ job'[s].save_failed = f

\* What a job's fields may be.
LEMMA Fields ==
  ASSUME NEW j \in Job
  PROVE  /\ j.kind \in {"autosave", "page", "manual", "move"} /\ j.at \in Label
         /\ j.target \in Files /\ j.source \in Path /\ j.start \in Revision
         /\ j.content \in Revision /\ j.copy \in Sidecars /\ j.backup \in Sidecars
         /\ j.save_failed \in BOOLEAN
  BY DEF Job, Label

\* The next lemmas say, action by action, what becomes of the job.
LEMMA BeginMoveJob ==
  ASSUME Shapes, NEW s \in Slot, Begin(s), IsMove(s)
  PROVE  /\ job[s] # None /\ job[s].at \in {"queued", "ready"}
         /\ Becomes(s, "backing up", job[s].start, job[s].content, job[s].copy,
                    job[s].backup, job[s].save_failed)
<1> DEFINE k == [job[s] EXCEPT !.at = "backing up"]
<1>1. job[s] \in Job /\ job[s] # None
  BY DEF Shapes, TypeOK, Begin, At, Goto, BeginWriting, IsMove, Kind
<1>2. k \in Job
  BY <1>1 DEF Job, Shapes, TypeOK, Sidecars, Revision
<1>3. job' = [job EXCEPT ![s] = k]
  BY <1>1 DEF Shapes, TypeOK, Begin, At, Goto, BeginWriting, IsMove, Kind
<1>4. /\ job' \in [Slot -> Job \cup {None}] /\ job'[s] = k
      /\ \A t \in Slot : t # s => job'[t] = job[t]
  BY <1>2, <1>3 DEF Shapes, TypeOK
<1>5. job[s].at \in {"queued", "ready"}
  BY DEF Begin, At, Goto, BeginWriting, IsMove, Kind
<1> QED
  BY <1>1, <1>2, <1>4, <1>5 DEF Becomes, Goes, Job

LEMMA BeginOtherJob ==
  ASSUME Shapes, NEW s \in Slot, Begin(s), ~IsMove(s)
  PROVE  /\ job[s] # None /\ job[s].at \in {"queued", "ready"}
         /\ Becomes(s, "writing", job[s].start, revision, job[s].copy, job[s].backup,
                    job[s].save_failed)
<1> DEFINE k == [job[s] EXCEPT !.at = "writing", !.content = revision]
<1>1. job[s] \in Job /\ job[s] # None
  BY DEF Shapes, TypeOK, Begin, At, Goto, BeginWriting, IsMove, Kind
<1>2. k \in Job
  BY <1>1 DEF Job, Shapes, TypeOK, Sidecars, Revision
<1>3. job' = [job EXCEPT ![s] = k]
  BY <1>1 DEF Shapes, TypeOK, Begin, At, Goto, BeginWriting, IsMove, Kind
<1>4. /\ job' \in [Slot -> Job \cup {None}] /\ job'[s] = k
      /\ \A t \in Slot : t # s => job'[t] = job[t]
  BY <1>2, <1>3 DEF Shapes, TypeOK
<1>5. job[s].at \in {"queued", "ready"}
  BY DEF Begin, At, Goto, BeginWriting, IsMove, Kind
<1> QED
  BY <1>1, <1>2, <1>4, <1>5 DEF Becomes, Goes, Job

LEMMA BackUpJob ==
  ASSUME Shapes, NEW s \in Slot, BackUp(s)
  PROVE  /\ job[s] # None /\ job[s].at \in {"backing up"}
         /\ Becomes(s, "installing", job[s].start, job[s].content,
                    sidecar[job[s].source], sidecar[job[s].target], job[s].save_failed)
<1> DEFINE k == [job[s] EXCEPT !.at = "installing", 
                         !.copy = sidecar[job[s].source], !.backup = sidecar[job[s].target]]
<1>1. job[s] \in Job /\ job[s] # None
  BY DEF Shapes, TypeOK, BackUp, At
<1>2. k \in Job
  <2>1. job[s].source \in Path /\ job[s].target \in Path
    BY <1>1, Fields DEF Shapes, Places, Aims, PlaceOf, AimOf, BackUp, At
  <2>2. sidecar[job[s].source] \in Sidecars /\ sidecar[job[s].target] \in Sidecars
    BY <2>1 DEF Shapes, TypeOK
  <2> QED
    BY <1>1, <2>2 DEF Job
<1>3. job' = [job EXCEPT ![s] = k]
  BY <1>1 DEF Shapes, TypeOK, BackUp, At
<1>4. /\ job' \in [Slot -> Job \cup {None}] /\ job'[s] = k
      /\ \A t \in Slot : t # s => job'[t] = job[t]
  BY <1>2, <1>3 DEF Shapes, TypeOK
<1>5. job[s].at \in {"backing up"}
  BY DEF BackUp, At
<1> QED
  BY <1>1, <1>2, <1>4, <1>5 DEF Becomes, Goes, Job

LEMMA InstallJob ==
  ASSUME Shapes, NEW s \in Slot, Install(s)
  PROVE  /\ job[s] # None /\ job[s].at \in {"installing"}
         /\ Becomes(s, "writing", job[s].start, revision, job[s].copy, job[s].backup,
                    job[s].save_failed)
<1> DEFINE k == [job[s] EXCEPT !.at = "writing", !.content = revision]
<1>1. job[s] \in Job /\ job[s] # None
  BY DEF Shapes, TypeOK, Install, At, BeginWriting
<1>2. k \in Job
  BY <1>1 DEF Job, Shapes, TypeOK, Sidecars, Revision
<1>3. job' = [job EXCEPT ![s] = k]
  BY <1>1 DEF Shapes, TypeOK, Install, At, BeginWriting
<1>4. /\ job' \in [Slot -> Job \cup {None}] /\ job'[s] = k
      /\ \A t \in Slot : t # s => job'[t] = job[t]
  BY <1>2, <1>3 DEF Shapes, TypeOK
<1>5. job[s].at \in {"installing"}
  BY DEF Install, At, BeginWriting
<1> QED
  BY <1>1, <1>2, <1>4, <1>5 DEF Becomes, Goes, Job

LEMMA PrepareFailsJob ==
  ASSUME Shapes, NEW s \in Slot, PrepareFails(s)
  PROVE  /\ job[s] # None /\ job[s].at \in {"backing up", "installing"}
         /\ Becomes(s, "writing", job[s].start, revision, "none", "none", job[s].save_failed)
<1> DEFINE k == [job[s] EXCEPT !.at = "writing", !.content = revision,
                         !.copy = "none", !.backup = "none"]
<1>1. job[s] \in Job /\ job[s] # None
  BY DEF Shapes, TypeOK, PrepareFails, At, BeginWriting
<1>2. k \in Job
  BY <1>1 DEF Job, Shapes, TypeOK, Sidecars, Revision
<1>3. job' = [job EXCEPT ![s] = k]
  BY <1>1 DEF Shapes, TypeOK, PrepareFails, At, BeginWriting
<1>4. /\ job' \in [Slot -> Job \cup {None}] /\ job'[s] = k
      /\ \A t \in Slot : t # s => job'[t] = job[t]
  BY <1>2, <1>3 DEF Shapes, TypeOK
<1>5. job[s].at \in {"backing up", "installing"}
  BY DEF PrepareFails, At, BeginWriting
<1> QED
  BY <1>1, <1>2, <1>4, <1>5 DEF Becomes, Goes, Job

LEMMA WriteJob ==
  ASSUME Shapes, NEW s \in Slot, Write(s)
  PROVE  /\ job[s] # None /\ job[s].at \in {"writing"}
         /\ Becomes(s, "settling", job[s].start, job[s].content, job[s].copy,
                    job[s].backup, job[s].save_failed)
<1> DEFINE k == [job[s] EXCEPT !.at = "settling"]
<1>1. job[s] \in Job /\ job[s] # None
  BY DEF Shapes, TypeOK, Write, At, Goto
<1>2. k \in Job
  BY <1>1 DEF Job, Shapes, TypeOK, Sidecars, Revision
<1>3. job' = [job EXCEPT ![s] = k]
  BY <1>1 DEF Shapes, TypeOK, Write, At, Goto
<1>4. /\ job' \in [Slot -> Job \cup {None}] /\ job'[s] = k
      /\ \A t \in Slot : t # s => job'[t] = job[t]
  BY <1>2, <1>3 DEF Shapes, TypeOK
<1>5. job[s].at \in {"writing"}
  BY DEF Write, At, Goto
<1> QED
  BY <1>1, <1>2, <1>4, <1>5 DEF Becomes, Goes, Job

LEMMA WriteFailsJob ==
  ASSUME Shapes, NEW s \in Slot, WriteFails(s)
  PROVE  /\ job[s] # None /\ job[s].at \in {"writing"}
         /\ Becomes(s, "failed", job[s].start, 0, "none", "none", job[s].save_failed)
<1> DEFINE k == [job[s] EXCEPT !.at = "failed", !.content = 0,
                         !.copy = "none", !.backup = "none"]
<1>1. job[s] \in Job /\ job[s] # None
  BY DEF Shapes, TypeOK, WriteFails, At, Done
<1>2. k \in Job
  <2>1. 0 \in Revision
    BY DEF Revision
  <2> QED
    BY <1>1, <2>1 DEF Job, Sidecars
<1>3. job' = [job EXCEPT ![s] = k]
  BY <1>1 DEF Shapes, TypeOK, WriteFails, At, Done
<1>4. /\ job' \in [Slot -> Job \cup {None}] /\ job'[s] = k
      /\ \A t \in Slot : t # s => job'[t] = job[t]
  BY <1>2, <1>3 DEF Shapes, TypeOK
<1>5. job[s].at \in {"writing"}
  BY DEF WriteFails, At, Done
<1> QED
  BY <1>1, <1>2, <1>4, <1>5 DEF Becomes, Goes, Job

LEMMA SettleJob ==
  ASSUME Shapes, NEW s \in Slot, Settle(s)
  PROVE  /\ job[s] # None /\ job[s].at \in {"settling"}
         /\ Becomes(s, "returned", job[s].start, 0, "none", "none", job[s].save_failed)
<1> DEFINE k == [job[s] EXCEPT !.at = "returned", !.content = 0,
                         !.copy = "none", !.backup = "none"]
<1>1. job[s] \in Job /\ job[s] # None
  BY DEF Shapes, TypeOK, Settle, At, Done
<1>2. k \in Job
  <2>1. 0 \in Revision
    BY DEF Revision
  <2> QED
    BY <1>1, <2>1 DEF Job, Sidecars
<1>3. job' = [job EXCEPT ![s] = k]
  BY <1>1 DEF Shapes, TypeOK, Settle, At, Done
<1>4. /\ job' \in [Slot -> Job \cup {None}] /\ job'[s] = k
      /\ \A t \in Slot : t # s => job'[t] = job[t]
  BY <1>2, <1>3 DEF Shapes, TypeOK
<1>5. job[s].at \in {"settling"}
  BY DEF Settle, At, Done
<1> QED
  BY <1>1, <1>2, <1>4, <1>5 DEF Becomes, Goes, Job

LEMMA QueueJob ==
  ASSUME Shapes, NEW s \in Slot, Queue(s)
  PROVE  /\ job[s] # None /\ job[s].at \in {"asked"}
         /\ Becomes(s, "queued", revision, job[s].content, job[s].copy,
                    job[s].backup, job[s].save_failed)
<1> DEFINE k == [job[s] EXCEPT !.at = "queued", !.start = revision]
<1>1. job[s] \in Job /\ job[s] # None
  BY DEF Shapes, TypeOK, Queue, At
<1>2. k \in Job
  BY <1>1 DEF Job, Shapes, TypeOK, Sidecars, Revision
<1>3. job' = [job EXCEPT ![s] = k]
  BY <1>1 DEF Shapes, TypeOK, Queue, At
<1>4. /\ job' \in [Slot -> Job \cup {None}] /\ job'[s] = k
      /\ \A t \in Slot : t # s => job'[t] = job[t]
  BY <1>2, <1>3 DEF Shapes, TypeOK
<1>5. job[s].at \in {"asked"}
  BY DEF Queue, At
<1> QED
  BY <1>1, <1>2, <1>4, <1>5 DEF Becomes, Goes, Job

\* A new job has been put in slot s.
Fresh(s, kind, target, source) ==
  /\ job' \in [Slot -> Job \cup {None}] /\ job'[s] \in Job
  /\ \A t \in Slot : t # s => job'[t] = job[t]
  /\ job'[s].kind = kind /\ job'[s].target = target /\ job'[s].source = source
  /\ job'[s].at \in {"asked", "queued", "ready"} /\ job'[s].start = revision
  /\ job'[s].copy = "none" /\ job'[s].backup = "none" /\ job'[s].save_failed = FALSE
Submits(kind, target, source) ==
  \E s \in Slot : job[s] = None /\ Fresh(s, kind, target, source)

\* The job in slot s is over.
Ends(s) ==
  /\ job[s] \in Job /\ job[s].at = "returned"
  /\ job' \in [Slot -> Job \cup {None}] /\ job'[s] = None
  /\ \A t \in Slot : t # s => job'[t] = job[t]

\* The failed save in slot s is reported; a page save may begin beside it.
NewPage(t) ==
  /\ job[t] = None /\ job'[t] \in Job
  /\ job'[t].kind = "page" /\ job'[t].target = project_file /\ job'[t].source = Home
  /\ job'[t].at = "ready" /\ job'[t].start = revision
  /\ job'[t].copy = "none" /\ job'[t].backup = "none" /\ job'[t].save_failed = FALSE
Reports(s) ==
  /\ job[s] \in Job /\ job'[s] \in Job
  /\ job' \in [Slot -> Job \cup {None}]
  /\ \A t \in Slot : t # s => job'[t] = job[t] \/ NewPage(t)
  /\ job'[s].kind = job[s].kind /\ job'[s].target = job[s].target
  /\ job'[s].source = job[s].source /\ job'[s].start = job[s].start
  /\ job'[s].copy = job[s].copy /\ job'[s].backup = job[s].backup
  /\ job'[s].at = "returned" /\ job'[s].save_failed

\* A job that is added takes a free slot.
LEMMA AddFresh ==
  ASSUME Shapes, NEW free \in SUBSET Slot, NEW others,
         \/ free = Free /\ others = job
         \/ \E s \in Slot : free = {s} /\ others = Without(s),
         NEW kind \in {"autosave", "page", "manual", "move"},
         NEW label \in {"asked", "queued", "ready"}, NEW target \in Files, NEW source \in Path,
         Add(others, free, NewJob(kind, label, target, source))
  PROVE  /\ \E s \in free : Fresh(s, kind, target, source)
         /\ operation_queue' \in Seq(Slot)
<1> DEFINE new == NewJob(kind, label, target, source)
<1>1. revision \in Revision /\ 0 \in Revision /\ operation_queue \in Seq(Slot)
  <2>1. 0 \in Revision
    BY DEF Revision
  <2> QED
    BY <2>1 DEF Shapes, TypeOK
<1>2. new \in Job /\ new # None
  <2>1. new \in Job
    BY <1>1 DEF NewJob, Job, Sidecars
  <2> QED
    BY <2>1
<1>3. /\ new.kind = kind /\ new.target = target /\ new.source = source /\ new.at = label
      /\ new.start = revision /\ new.copy = "none" /\ new.backup = "none"
      /\ new.save_failed = FALSE
  BY DEF NewJob
<1> HIDE DEF new
<1>4. PICK s \in free :
        /\ job' = [others EXCEPT ![s] = new]
        /\ operation_queue' = IF new.at = "queued" THEN Append(operation_queue, s)
                              ELSE operation_queue
  BY DEF Add, new
<1>5. others \in [Slot -> Job \cup {None}] /\ \A t \in Slot : t # s => others[t] = job[t]
  BY <1>4 DEF Shapes, TypeOK, Without
<1>6. /\ job' \in [Slot -> Job \cup {None}] /\ job'[s] = new
      /\ \A t \in Slot : t # s => job'[t] = job[t]
  BY <1>2, <1>4, <1>5
<1>7. operation_queue' \in Seq(Slot)
  BY <1>1, <1>4
<1> QED
  BY <1>2, <1>3, <1>6, <1>7 DEF Fresh

\* Where none is added and none is over, the jobs stay.
LEMMA NoneAdded ==
  ASSUME Shapes, NoSubmit(job)
  PROVE  UNCHANGED <<job, operation_queue>>
  BY DEF NoSubmit

LEMMA NoneLeft ==
  ASSUME Shapes, NEW s \in Slot, At(s, "returned"), NoSubmit(Without(s))
  PROVE  Ends(s)
  BY DEF Shapes, TypeOK, At, NoSubmit, Ends, Without

LEMMA Targets ==
  ASSUME Shapes
  PROVE  project_file \in Path /\ project_file \in Files /\ Recovery \in Files /\ Home \in Path
  BY DEF Shapes, TypeOK, Files

LEMMA PageDoneJob ==
  ASSUME Shapes, NEW p \in BOOLEAN, NEW r, PageDone(job, Free, p, r)
  PROVE  /\ (UNCHANGED job /\ save_pending' = p) \/ Submits("page", project_file, Home)
         /\ operation_queue' \in Seq(Slot)
<1>1. CASE NoSubmit(job) /\ save_pending' = p
  BY <1>1, NoneAdded DEF Shapes, TypeOK
<1>2. CASE Add(job, Free, NewJob("page", "ready", project_file, Home))
  <2>1. Free \in SUBSET Slot /\ \A s \in Free : job[s] = None
    BY DEF Free
  <2> QED
    BY <1>2, <2>1, AddFresh, Targets DEF Submits
<1> QED
  BY <1>1, <1>2 DEF PageDone

LEMMA AutosaveJob ==
  ASSUME Shapes, NEW prefer \in BOOLEAN, Autosave(prefer)
  PROVE  /\ \/ UNCHANGED <<job, save_pending>>
            \/ Submits("autosave", IF prefer THEN project_file ELSE Recovery, Home)
         /\ operation_queue' \in Seq(Slot)
<1>1. CASE UNCHANGED <<save_pending, job, operation_queue>>
  BY <1>1 DEF Shapes, TypeOK
<1>2. CASE Add(job, Free, NewJob("autosave", "queued",
                       IF prefer THEN project_file ELSE Recovery, Home))
  <2>1. Free \in SUBSET Slot /\ \A s \in Free : job[s] = None
    BY DEF Free
  <2> QED
    BY <1>2, <2>1, AddFresh, Targets DEF Submits
<1> QED
  BY <1>1, <1>2 DEF Autosave

LEMMA EndDeferralJob ==
  ASSUME Shapes, EndDeferralSave
  PROVE  /\ UNCHANGED <<job, save_pending>> \/ Submits("page", project_file, Home)
         /\ operation_queue' \in Seq(Slot)
<1>1. CASE UNCHANGED <<save_pending, job, operation_queue>>
  BY <1>1 DEF Shapes, TypeOK
<1>2. CASE Add(job, Free, NewJob("page", "ready", project_file, Home))
  <2>1. Free \in SUBSET Slot /\ \A s \in Free : job[s] = None
    BY DEF Free
  <2> QED
    BY <1>2, <2>1, AddFresh, Targets DEF Submits
<1> QED
  BY <1>1, <1>2 DEF EndDeferralSave

LEMMA ManualSaveJob ==
  ASSUME Shapes, ManualSave
  PROVE  Submits("manual", project_file, project_file) /\ operation_queue' \in Seq(Slot)
<1>1. Free \in SUBSET Slot /\ \A s \in Free : job[s] = None
  BY DEF Free
<1> QED
  BY <1>1, AddFresh, Targets DEF Submits, ManualSave

LEMMA MoveJob ==
  ASSUME Shapes, NEW p \in Path, Move(p)
  PROVE  Submits("move", p, project_file) /\ operation_queue' \in Seq(Slot)
<1>1. Free \in SUBSET Slot /\ (\A s \in Free : job[s] = None) /\ p \in Files
  BY DEF Free, Files
<1> QED
  BY <1>1, AddFresh, Targets DEF Submits, Move

\* A page's save may be followed by another in its place.
LEMMA PageFinishedJob ==
  ASSUME Shapes, NEW s \in Slot, HandlePageFinished(s)
  PROVE  /\ (Ends(s) /\ save_pending' = FALSE) \/ Fresh(s, "page", project_file, Home)
         /\ operation_queue' \in Seq(Slot)
<1>1. CASE NoSubmit(Without(s)) /\ save_pending' = FALSE
  BY <1>1, NoneLeft DEF HandlePageFinished, At, NoSubmit, Shapes, TypeOK
<1>2. CASE Add(Without(s), {s}, NewJob("page", "ready", project_file, Home))
  <2> DEFINE free == {s}
  <2>1. free \in SUBSET Slot /\ \E t \in Slot : free = {t} /\ Without(s) = Without(t)
    OBVIOUS
  <2>2. Add(Without(s), free, NewJob("page", "ready", project_file, Home))
    BY <1>2
  <2> HIDE DEF free
  <2>3. /\ \E t \in free : Fresh(t, "page", project_file, Home)
        /\ operation_queue' \in Seq(Slot)
    BY <2>1, <2>2, AddFresh, Targets
  <2> QED
    BY <2>3 DEF free
<1> QED
  BY <1>1, <1>2 DEF HandlePageFinished, PageSaveOver, PageDone

\* A failed page save may be followed by another beside it.
LEMMA HandleErrorJob ==
  ASSUME Shapes, NEW s \in Slot, HandleError(s)
  PROVE  /\ job[s] # None /\ job[s].at \in {"failed"} /\ Reports(s)
         /\ job[s].kind # "page" => Goes(s)
         /\ save_pending' => save_pending \/ \E t \in Slot : NewPage(t)
         /\ operation_queue' \in Seq(Slot)
<1> DEFINE k == [job[s] EXCEPT !.at = "returned", !.save_failed = TRUE]
<1>1. /\ job[s] \in Job /\ job[s] # None /\ job[s].at = "failed"
      /\ Reported(s) = [job EXCEPT ![s] = k]
  BY DEF Shapes, TypeOK, HandleError, At, Reported
<1>2. /\ k \in Job /\ k.kind = job[s].kind /\ k.target = job[s].target
      /\ k.source = job[s].source /\ k.start = job[s].start /\ k.copy = job[s].copy
      /\ k.backup = job[s].backup /\ k.at = "returned" /\ k.save_failed
  BY <1>1 DEF Job
<1> HIDE DEF k
<1>3. CASE NoSubmit(Reported(s)) /\ (save_pending' => save_pending)
  <2>1. /\ job' \in [Slot -> Job \cup {None}] /\ job'[s] = k
        /\ \A t \in Slot : t # s => job'[t] = job[t]
    BY <1>1, <1>2, <1>3 DEF NoSubmit, Shapes, TypeOK
  <2>2. operation_queue' \in Seq(Slot)
    BY <1>3 DEF NoSubmit, Shapes, TypeOK
  <2> QED
    BY <1>1, <1>2, <1>3, <2>1, <2>2 DEF Reports, Goes
<1>4. CASE Add(Reported(s), Free, NewJob("page", "ready", project_file, Home))
           /\ job[s].kind = "page"
  <2> DEFINE new == NewJob("page", "ready", project_file, Home)
  <2>1. revision \in Revision /\ 0 \in Revision
    <3>1. 0 \in Revision
      BY DEF Revision
    <3> QED
      BY <3>1 DEF Shapes, TypeOK
  <2>2. /\ new \in Job /\ new.at = "ready" /\ new.kind = "page" /\ new.source = Home
        /\ new.target = project_file /\ new.start = revision /\ new.copy = "none"
        /\ new.backup = "none" /\ new.save_failed = FALSE
    <3>1. project_file \in Files /\ Home \in Path
      BY Targets
    <3> QED
      BY <2>1, <3>1 DEF NewJob, Job, Sidecars
  <2> HIDE DEF new
  <2>3. PICK n \in Free : job' = [Reported(s) EXCEPT ![n] = new] /\ UNCHANGED operation_queue
    BY <1>4, <2>2 DEF Add, new
  <2>4. n \in Slot /\ job[n] = None /\ n # s
    BY <1>1, <2>3 DEF Free
  <2>5. /\ job' \in [Slot -> Job \cup {None}] /\ job'[s] = k /\ job'[n] = new
        /\ \A t \in Slot : t # s /\ t # n => job'[t] = job[t]
    BY <1>1, <1>2, <2>2, <2>3, <2>4 DEF Shapes, TypeOK
  <2>6. NewPage(n)
    BY <2>2, <2>4, <2>5 DEF NewPage
  <2>7. operation_queue' \in Seq(Slot)
    BY <2>3 DEF Shapes, TypeOK
  <2> QED
    BY <1>1, <1>2, <1>4, <2>4, <2>5, <2>6, <2>7 DEF Reports
<1>5. \/ NoSubmit(Reported(s)) /\ (save_pending' => save_pending)
      \/ Add(Reported(s), Free, NewJob("page", "ready", project_file, Home))
         /\ job[s].kind = "page"
  BY DEF HandleError, PageSaveOver, PageDone, flags
<1> QED
  BY <1>3, <1>4, <1>5

LEMMA BeginJob ==
  ASSUME Shapes, NEW s \in Slot, Begin(s)
  PROVE  /\ job[s] # None /\ job[s].at \in {"queued", "ready"} /\ Goes(s)
         /\ job'[s].start = job[s].start /\ job'[s].copy = job[s].copy
         /\ job'[s].backup = job[s].backup /\ job'[s].save_failed = job[s].save_failed
         /\ job'[s].at = IF job[s].kind = "move" THEN "backing up" ELSE "writing"
         /\ job[s].kind # "move" => job'[s].content = revision
<1>1. CASE IsMove(s)
  BY <1>1, BeginMoveJob DEF Becomes, IsMove, Kind
<1>2. CASE ~IsMove(s)
  BY <1>2, BeginOtherJob DEF Becomes, IsMove, Kind
<1> QED
  BY <1>1, <1>2

LEMMA EndsJob ==
  ASSUME Shapes, NEW s \in Slot,
         \/ HandleAutosaveFinished(s) \/ HandleSaveFailed(s)
         \/ HandleSaved(s) \/ HandleMoved(s)
  PROVE  Ends(s) /\ UNCHANGED operation_queue
<1>1. At(s, "returned") /\ NoSubmit(Without(s))
  BY DEF HandleAutosaveFinished, HandleSaveFailed, HandleSaved, HandleMoved, At
<1> QED
  BY <1>1, NoneLeft DEF NoSubmit

LEMMA RealtimeJob ==
  ASSUME Shapes, RealtimeTimeout
  PROVE  /\ UNCHANGED <<job, save_pending>> \/ Submits("autosave", project_file, Home)
         /\ operation_queue' \in Seq(Slot)
<1>1. Autosave(TRUE)
  BY DEF RealtimeTimeout
<1> QED
  BY <1>1, AutosaveJob

LEMMA IntervalJob ==
  ASSUME Shapes, IntervalTimeout
  PROVE  /\ UNCHANGED <<job, save_pending>> \/ Submits("autosave", Recovery, Home)
         /\ operation_queue' \in Seq(Slot)
<1>1. Autosave(FALSE)
  BY DEF IntervalTimeout
<1> QED
  BY <1>1, AutosaveJob

LEMMA BatchPageJob ==
  ASSUME Shapes, BatchPageDone
  PROVE  /\ UNCHANGED <<job, save_pending>> \/ Submits("page", project_file, Home)
         /\ operation_queue' \in Seq(Slot)
<1>1. save_pending \in BOOLEAN
  BY DEF Shapes, TypeOK
<1> QED
  BY <1>1, PageDoneJob DEF BatchPageDone

\* Nothing that the user waits for is forgotten.
LEMMA CancelJob ==
  ASSUME Shapes, Cancel
  PROVE  /\ job' \in [Slot -> Job \cup {None}]
         /\ \A t \in Slot : job'[t] = job[t] \/ (At(t, "queued") /\ job'[t] = None)
         /\ \A s \in Slot : ~OnUser(s)
<1>1. \A s \in Slot : ~OnUser(s)
  BY DEF Cancel, Busy, OnUser, Kind, Jobs
<1> QED
  BY <1>1 DEF Cancel, Shapes, TypeOK

-----------------------------------------------------------------------------
(* Types, and where jobs stand.                                             *)

LEMMA ShapesInit == Init => Shapes
<1> SUFFICES ASSUME Init PROVE Shapes
  OBVIOUS
<1>1. 0 \in Revision /\ 0 \in 0..MaxAccidents
  BY DEF Revision
<1>2. \A s \in Slot : job[s] = None
  BY DEF Init
<1>3. /\ disk \in [Files -> Revision \cup {Absent, Foreign}]
      /\ sidecar \in [Path -> Sidecars]
  BY <1>1 DEF Init, Sidecars
<1>4. job \in [Slot -> Job \cup {None}] /\ operation_queue \in Seq(Slot)
  BY DEF Init
<1>5. TypeOK
  BY <1>1, <1>3, <1>4 DEF Init, TypeOK
<1> QED
  BY <1>2, <1>5 DEF Shapes, Places, Aims, PlaceOf, AimOf

\* Accidents are counted up to their bound.
LEMMA AccidentType ==
  ASSUME Shapes, Accident
  PROVE  accidents' \in 0..MaxAccidents
<1>1. accidents \in 0..MaxAccidents
  BY DEF Shapes, TypeOK
<1> QED
  BY <1>1 DEF Accident

LEMMA QueueTypes ==
  ASSUME Shapes
  PROVE  /\ operation_queue \in Seq(Slot)
         /\ \A s \in Slot : Append(operation_queue, s) \in Seq(Slot)
         /\ operation_queue # <<>> => Tail(operation_queue) \in Seq(Slot)
         /\ <<>> \in Seq(Slot)
<1>1. operation_queue \in Seq(Slot)
  BY DEF Shapes, TypeOK
<1> QED
  BY <1>1

LEMMA TypeStep ==
  ASSUME Shapes, [Next]_vars
  PROVE  TypeOK'
<1>1. CASE Edit
  <2>1. revision \in Revision
    BY DEF Shapes, TypeOK
  <2>2. revision' \in Revision
    BY <1>1, <2>1 DEF Edit, Revision
  <2> QED
    BY <1>1, <2>2 DEF Edit, edits, flags, turns, jobs, Shapes, TypeOK
<1>2. CASE ManualSave
  <2>1. job' \in [Slot -> Job \cup {None}]
    BY <1>2, ManualSaveJob DEF Submits, Fresh, Ends, Shapes, TypeOK
  <2>2. operation_queue' \in Seq(Slot)
    BY <1>2, ManualSaveJob
  <2> QED
    BY <1>2, <2>1, <2>2 DEF ManualSave, edits, flags, turns, jobs, Shapes, TypeOK,
       Revision, Sidecars, Mishaps
<1>3. CASE Cancel
  <2>1. job' \in [Slot -> Job \cup {None}] /\ operation_queue' \in Seq(Slot)
    BY <1>3, QueueTypes DEF Cancel, Shapes, TypeOK
  <2>2. accidents' \in 0..MaxAccidents
    BY <1>3, AccidentType DEF Cancel
  <2> QED
    BY <1>3, <2>1, <2>2 DEF Cancel, edits, flags, turns, jobs, Shapes, TypeOK, Mishaps
<1>4. ASSUME NEW p \in Path, Move(p) PROVE TypeOK'
  <2>1. job' \in [Slot -> Job \cup {None}]
    BY <1>4, MoveJob DEF Submits, Fresh, Ends, Shapes, TypeOK
  <2>2. operation_queue' \in Seq(Slot)
    BY <1>4, MoveJob
  <2> QED
    BY <1>4, <2>1, <2>2 DEF Move, edits, flags, turns, jobs, Shapes, TypeOK, Revision,
       Sidecars, Mishaps
<1>5. CASE RealtimeTimeout
  <2>1. job' \in [Slot -> Job \cup {None}]
    BY <1>5, RealtimeJob DEF Submits, Fresh, Ends, Shapes, TypeOK
  <2>2. operation_queue' \in Seq(Slot)
    BY <1>5, RealtimeJob
  <2> QED
    BY <1>5, <2>1, <2>2 DEF RealtimeTimeout, Autosave, edits, flags, turns, jobs,
       Shapes, TypeOK, Revision, Sidecars, Mishaps
<1>6. CASE IntervalTimeout
  <2>1. job' \in [Slot -> Job \cup {None}]
    BY <1>6, IntervalJob DEF Submits, Fresh, Ends, Shapes, TypeOK
  <2>2. operation_queue' \in Seq(Slot)
    BY <1>6, IntervalJob
  <2> QED
    BY <1>6, <2>1, <2>2 DEF IntervalTimeout, Autosave, edits, flags, turns, jobs,
       Shapes, TypeOK, Revision, Sidecars, Mishaps
<1>7. CASE BatchStart
  BY <1>7 DEF BatchStart, edits, flags, turns, jobs, Shapes, TypeOK, Revision, Mishaps
<1>8. CASE BatchPageDone
  <2>1. job' \in [Slot -> Job \cup {None}]
    BY <1>8, BatchPageJob DEF Submits, Fresh, Ends, Shapes, TypeOK
  <2>2. operation_queue' \in Seq(Slot)
    BY <1>8, BatchPageJob
  <2> QED
    BY <1>8, <2>1, <2>2 DEF BatchPageDone, PageDone, NoSubmit, edits, flags, turns,
       jobs, Shapes, TypeOK, Revision, Sidecars, Mishaps
<1>9. CASE BeginDeferral
  BY <1>9 DEF BeginDeferral, edits, flags, turns, jobs, Shapes, TypeOK, Revision,
     Mishaps
<1>10. CASE BatchBegin
  BY <1>10 DEF BatchBegin, edits, flags, turns, jobs, Shapes, TypeOK, Revision,
     Mishaps
<1>11. CASE EndDeferral
  BY <1>11 DEF EndDeferral, edits, flags, turns, jobs, Shapes, TypeOK, Revision,
     Mishaps
<1>12. CASE EndDeferralSave
  <2>1. job' \in [Slot -> Job \cup {None}]
    BY <1>12, EndDeferralJob DEF Submits, Fresh, Ends, Shapes, TypeOK
  <2>2. operation_queue' \in Seq(Slot)
    BY <1>12, EndDeferralJob
  <2> QED
    BY <1>12, <2>1, <2>2 DEF EndDeferralSave, edits, flags, turns, jobs, Shapes, TypeOK,
       Revision, Sidecars, Mishaps
<1>13. CASE BatchEnd
  BY <1>13 DEF BatchEnd, edits, flags, turns, jobs, Shapes, TypeOK, Revision, Mishaps
<1>14. ASSUME NEW s \in Slot, Begin(s) PROVE TypeOK'
  <2>1. job' \in [Slot -> Job \cup {None}] /\ job[s] \in Job /\ job[s] # None
    BY <1>14, BeginJob DEF Becomes, Goes
  <2>2. operation_queue' \in Seq(Slot)
    BY <1>14, QueueTypes DEF Begin, jobs
  <2>3. /\ job[s].target \in Files /\ job[s].source \in Path /\ job[s].content \in Revision
        /\ job[s].copy \in Sidecars /\ job[s].backup \in Sidecars
    BY <2>1, Fields
  <2> QED
    BY <1>14, <2>1, <2>2, <2>3 DEF Begin, edits, flags, turns, jobs, Shapes, TypeOK,
       Revision, Sidecars, Mishaps
<1>15. ASSUME NEW s \in Slot, BackUp(s) PROVE TypeOK'
  <2>1. job' \in [Slot -> Job \cup {None}] /\ job[s] \in Job /\ job[s] # None
    BY <1>15, BackUpJob DEF Becomes, Goes
  <2>2. operation_queue' \in Seq(Slot)
    BY <1>15, QueueTypes DEF BackUp, jobs
  <2>3. /\ job[s].target \in Files /\ job[s].source \in Path /\ job[s].content \in Revision
        /\ job[s].copy \in Sidecars /\ job[s].backup \in Sidecars
    BY <2>1, Fields
  <2> QED
    BY <1>15, <2>1, <2>2, <2>3 DEF BackUp, edits, flags, turns, jobs, Shapes, TypeOK,
       Revision, Sidecars, Mishaps
<1>16. ASSUME NEW s \in Slot, PrepareFails(s) PROVE TypeOK'
  <2>1. job' \in [Slot -> Job \cup {None}] /\ job[s] \in Job /\ job[s] # None
    BY <1>16, PrepareFailsJob DEF Becomes, Goes
  <2>2. operation_queue' \in Seq(Slot)
    BY <1>16, QueueTypes DEF PrepareFails, jobs
  <2>3. /\ job[s].target \in Files /\ job[s].source \in Path /\ job[s].content \in Revision
        /\ job[s].copy \in Sidecars /\ job[s].backup \in Sidecars
    BY <2>1, Fields
  <2>4. accidents' \in 0..MaxAccidents
    BY <1>16, AccidentType DEF PrepareFails, Shapes, TypeOK
  <2> QED
    BY <1>16, <2>1, <2>2, <2>3, <2>4 DEF PrepareFails, edits, flags, turns, jobs, Shapes,
       TypeOK, Revision, Sidecars, Mishaps
<1>17. ASSUME NEW s \in Slot, Install(s) PROVE TypeOK'
  <2>1. job' \in [Slot -> Job \cup {None}] /\ job[s] \in Job /\ job[s] # None
    BY <1>17, InstallJob DEF Becomes, Goes
  <2>2. operation_queue' \in Seq(Slot)
    BY <1>17, QueueTypes DEF Install, jobs
  <2>3. /\ job[s].target \in Files /\ job[s].source \in Path /\ job[s].content \in Revision
        /\ job[s].copy \in Sidecars /\ job[s].backup \in Sidecars
    BY <2>1, Fields
  <2> QED
    BY <1>17, <2>1, <2>2, <2>3 DEF Install, edits, flags, turns, jobs, Shapes, TypeOK,
       Revision, Sidecars, Mishaps
<1>18. ASSUME NEW s \in Slot, Write(s) PROVE TypeOK'
  <2>1. job' \in [Slot -> Job \cup {None}] /\ job[s] \in Job /\ job[s] # None
    BY <1>18, WriteJob DEF Becomes, Goes
  <2>2. operation_queue' \in Seq(Slot)
    BY <1>18, QueueTypes DEF Write, jobs
  <2>3. /\ job[s].target \in Files /\ job[s].source \in Path /\ job[s].content \in Revision
        /\ job[s].copy \in Sidecars /\ job[s].backup \in Sidecars
    BY <2>1, Fields
  <2> QED
    BY <1>18, <2>1, <2>2, <2>3 DEF Write, edits, flags, turns, jobs, Shapes, TypeOK,
       Revision, Sidecars, Mishaps
<1>19. ASSUME NEW s \in Slot, Settle(s) PROVE TypeOK'
  <2>1. job' \in [Slot -> Job \cup {None}] /\ job[s] \in Job /\ job[s] # None
    BY <1>19, SettleJob DEF Becomes, Goes
  <2>2. operation_queue' \in Seq(Slot)
    BY <1>19, QueueTypes DEF Settle, jobs
  <2>3. /\ job[s].target \in Files /\ job[s].source \in Path /\ job[s].content \in Revision
        /\ job[s].copy \in Sidecars /\ job[s].backup \in Sidecars
    BY <2>1, Fields
  <2> QED
    BY <1>19, <2>1, <2>2, <2>3 DEF Settle, edits, flags, turns, jobs, Shapes, TypeOK,
       Revision, Sidecars, Mishaps
<1>20. ASSUME NEW s \in Slot, Queue(s) PROVE TypeOK'
  <2>1. job' \in [Slot -> Job \cup {None}] /\ job[s] \in Job /\ job[s] # None
    BY <1>20, QueueJob DEF Becomes, Goes
  <2>2. operation_queue' \in Seq(Slot)
    BY <1>20, QueueTypes DEF Queue, jobs
  <2>3. /\ job[s].target \in Files /\ job[s].source \in Path /\ job[s].content \in Revision
        /\ job[s].copy \in Sidecars /\ job[s].backup \in Sidecars
    BY <2>1, Fields
  <2> QED
    BY <1>20, <2>1, <2>2, <2>3 DEF Queue, edits, flags, turns, jobs, Shapes, TypeOK,
       Revision, Sidecars, Mishaps
<1>21. ASSUME NEW s \in Slot, HandleError(s) PROVE TypeOK'
  <2>1. job' \in [Slot -> Job \cup {None}] /\ job[s] \in Job /\ job[s] # None
    BY <1>21, HandleErrorJob DEF Reports
  <2>2. operation_queue' \in Seq(Slot)
    BY <1>21, HandleErrorJob
  <2>3. job[s].source \in Path
    BY <2>1, Fields
  <2>4. save_pending' \in BOOLEAN /\ retrigger_requested' \in BOOLEAN /\ realtime_timer' \in BOOLEAN
    BY <1>21 DEF HandleError, PageSaveOver, PageDone, NoSubmit, flags, Shapes, TypeOK
  <2>5. project_file' \in Path /\ mishaps' \subseteq Mishaps
    BY <1>21, <2>3 DEF HandleError, flags, Shapes, TypeOK, Mishaps
  <2> QED
    BY <1>21, <2>1, <2>2, <2>4, <2>5 DEF HandleError, edits, turns, Shapes, TypeOK
<1>22. ASSUME NEW s \in Slot, HandleAutosaveFinished(s) PROVE TypeOK'
  <2>1. job' \in [Slot -> Job \cup {None}]
    BY <1>22, EndsJob DEF Ends
  <2>2. operation_queue' \in Seq(Slot)
    BY <1>22, EndsJob, QueueTypes
  <2> QED
    BY <1>22, <2>1, <2>2 DEF HandleAutosaveFinished, NoSubmit, SetCleanIfSaved, Cleared,
       edits, flags, turns, jobs, Shapes, TypeOK, Revision, Sidecars, Mishaps
<1>23. ASSUME NEW s \in Slot, HandlePageFinished(s) PROVE TypeOK'
  <2>1. job' \in [Slot -> Job \cup {None}]
    BY <1>23, PageFinishedJob DEF Submits, Fresh, Ends, Shapes, TypeOK
  <2>2. operation_queue' \in Seq(Slot)
    BY <1>23, PageFinishedJob
  <2> QED
    BY <1>23, <2>1, <2>2 DEF HandlePageFinished, NoSubmit, SetCleanIfSaved, Cleared,
       PageSaveOver, PageDone, edits, flags, turns, jobs, Shapes, TypeOK, Revision, Sidecars,
       Mishaps
<1>24. ASSUME NEW s \in Slot, HandleSaveFailed(s) PROVE TypeOK'
  <2>1. job' \in [Slot -> Job \cup {None}]
    BY <1>24, EndsJob DEF Ends
  <2>2. operation_queue' \in Seq(Slot)
    BY <1>24, EndsJob, QueueTypes
  <2> QED
    BY <1>24, <2>1, <2>2 DEF HandleSaveFailed, NoSubmit, edits, flags, turns, jobs,
       Shapes, TypeOK, Revision, Sidecars, Mishaps
<1>25. ASSUME NEW s \in Slot, HandleSaved(s) PROVE TypeOK'
  <2>1. job' \in [Slot -> Job \cup {None}]
    BY <1>25, EndsJob DEF Ends
  <2>2. operation_queue' \in Seq(Slot)
    BY <1>25, EndsJob, QueueTypes
  <2> QED
    BY <1>25, <2>1, <2>2 DEF HandleSaved, NoSubmit, SetCleanIfSaved, Cleared, edits,
       flags, turns, jobs, Shapes, TypeOK, Revision, Sidecars, Mishaps
<1>26. ASSUME NEW s \in Slot, HandleMoved(s) PROVE TypeOK'
  <2>1. job' \in [Slot -> Job \cup {None}]
    BY <1>26, EndsJob DEF Ends
  <2>2. operation_queue' \in Seq(Slot)
    BY <1>26, EndsJob, QueueTypes
  <2>4. accidents' \in 0..MaxAccidents
    BY <1>26, AccidentType DEF HandleMoved, Shapes, TypeOK
  <2> QED
    BY <1>26, <2>1, <2>2, <2>4 DEF HandleMoved, NoSubmit, SetCleanIfSaved, Cleared,
       Finalized, edits, flags, turns, jobs, Shapes, TypeOK, Revision, Sidecars,
       Mishaps
<1>27. ASSUME NEW s \in Slot, WriteFails(s) PROVE TypeOK'
  <2>1. job' \in [Slot -> Job \cup {None}] /\ job[s] \in Job /\ job[s] # None
    BY <1>27, WriteFailsJob DEF Becomes, Goes
  <2>2. operation_queue' \in Seq(Slot)
    BY <1>27, QueueTypes DEF WriteFails, jobs
  <2>3. /\ job[s].target \in Files /\ job[s].source \in Path /\ job[s].content \in Revision
        /\ job[s].copy \in Sidecars /\ job[s].backup \in Sidecars
    BY <2>1, Fields
  <2>4. accidents' \in 0..MaxAccidents
    BY <1>27, AccidentType DEF WriteFails
  <2> QED
    BY <1>27, <2>1, <2>2, <2>3, <2>4 DEF WriteFails, edits, flags, turns, jobs, Shapes,
       TypeOK, Revision, Sidecars, Mishaps
<1>28. CASE UNCHANGED vars
  BY <1>28 DEF vars, edits, flags, turns, jobs, Shapes, TypeOK, Revision, Mishaps
<1>29. CASE RecordStage
  BY <1>29 DEF RecordStage, edits, flags, turns, jobs, Shapes, TypeOK, Sidecars, Mishaps
<1> QED
  BY <1>1, <1>2, <1>3, <1>4, <1>5, <1>6, <1>7, <1>8, <1>9, <1>10, <1>11, <1>12, <1>13,
     <1>14, <1>15, <1>16, <1>17, <1>18, <1>19, <1>20, <1>21, <1>22, <1>23, <1>24,
     <1>25, <1>26, <1>27, <1>28, <1>29 DEF Next, Worker, Callback, BatchThread

\* A step that moves one job leaves the places of the others.
LEMMA PlacesFrame ==
  ASSUME Places, NEW s \in Slot, \A t \in Slot : t # s => job'[t] = job[t], PlaceOf(s)'
  PROVE  Places'
<1>1. \A t \in Slot : t # s => PlaceOf(t)'
  <2> SUFFICES ASSUME NEW t \in Slot, t # s PROVE PlaceOf(t)'
    OBVIOUS
  <2>1. PlaceOf(t) /\ job'[t] = job[t]
    BY DEF Places
  <2> QED
    BY <2>1 DEF PlaceOf
<1> QED
  BY <1>1 DEF Places

LEMMA PlacesStep ==
  ASSUME Shapes, Places, [Next]_vars
  PROVE  Places'
<1>1. CASE Edit
  BY <1>1 DEF Edit, jobs, Places, PlaceOf
<1>2. CASE ManualSave
  <2>1. PICK s \in Slot : Fresh(s, "manual", project_file, project_file)
    BY <1>2, ManualSaveJob DEF Submits
  <2>2. (\A t \in Slot : t # s => job'[t] = job[t]) /\ PlaceOf(s)'
    BY <1>2, <2>1 DEF Fresh, PlaceOf
  <2> QED
    BY <2>2, PlacesFrame
<1>3. CASE Cancel
  <2>1. \A t \in Slot : job'[t] = job[t] \/ job'[t] = None
    BY <1>3, CancelJob
  <2> QED
    BY <2>1 DEF Places, PlaceOf
<1>4. ASSUME NEW p \in Path, Move(p) PROVE Places'
  <2>1. PICK s \in Slot : Fresh(s, "move", p, project_file)
    BY <1>4, MoveJob DEF Submits
  <2>2. (\A t \in Slot : t # s => job'[t] = job[t]) /\ PlaceOf(s)'
    BY <1>4, <2>1 DEF Fresh, PlaceOf, Move
  <2> QED
    BY <2>2, PlacesFrame
<1>5. CASE RealtimeTimeout
  <2>1. CASE UNCHANGED job
    BY <2>1 DEF Places, PlaceOf
  <2>2. CASE \E s \in Slot : Fresh(s, "autosave", project_file, Home)
    <3>1. PICK s \in Slot : Fresh(s, "autosave", project_file, Home)
      BY <2>2
    <3>2. (\A t \in Slot : t # s => job'[t] = job[t]) /\ PlaceOf(s)'
      BY <3>1 DEF Fresh, PlaceOf
    <3> QED
      BY <3>2, PlacesFrame
  <2> QED
    BY <1>5, <2>1, <2>2, RealtimeJob DEF Submits
<1>6. CASE IntervalTimeout
  <2>1. CASE UNCHANGED job
    BY <2>1 DEF Places, PlaceOf
  <2>2. CASE \E s \in Slot : Fresh(s, "autosave", Recovery, Home)
    <3>1. PICK s \in Slot : Fresh(s, "autosave", Recovery, Home)
      BY <2>2
    <3>2. (\A t \in Slot : t # s => job'[t] = job[t]) /\ PlaceOf(s)'
      BY <3>1 DEF Fresh, PlaceOf
    <3> QED
      BY <3>2, PlacesFrame
  <2> QED
    BY <1>6, <2>1, <2>2, IntervalJob DEF Submits
<1>7. CASE BatchStart
  BY <1>7 DEF BatchStart, jobs, Places, PlaceOf
<1>8. CASE BatchPageDone
  <2>1. CASE UNCHANGED job
    BY <2>1 DEF Places, PlaceOf
  <2>2. CASE \E s \in Slot : Fresh(s, "page", project_file, Home)
    <3>1. PICK s \in Slot : Fresh(s, "page", project_file, Home)
      BY <2>2
    <3>2. (\A t \in Slot : t # s => job'[t] = job[t]) /\ PlaceOf(s)'
      BY <3>1 DEF Fresh, PlaceOf
    <3> QED
      BY <3>2, PlacesFrame
  <2> QED
    BY <1>8, <2>1, <2>2, BatchPageJob DEF Submits
<1>9. CASE BeginDeferral
  BY <1>9 DEF BeginDeferral, jobs, Places, PlaceOf
<1>10. CASE BatchBegin
  BY <1>10 DEF BatchBegin, jobs, Places, PlaceOf
<1>11. CASE EndDeferral
  BY <1>11 DEF EndDeferral, jobs, Places, PlaceOf
<1>12. CASE EndDeferralSave
  <2>1. CASE UNCHANGED job
    BY <2>1 DEF Places, PlaceOf
  <2>2. CASE \E s \in Slot : Fresh(s, "page", project_file, Home)
    <3>1. PICK s \in Slot : Fresh(s, "page", project_file, Home)
      BY <2>2
    <3>2. (\A t \in Slot : t # s => job'[t] = job[t]) /\ PlaceOf(s)'
      BY <3>1 DEF Fresh, PlaceOf
    <3> QED
      BY <3>2, PlacesFrame
  <2> QED
    BY <1>12, <2>1, <2>2, EndDeferralJob DEF Submits
<1>13. CASE BatchEnd
  BY <1>13 DEF BatchEnd, jobs, Places, PlaceOf
<1>14. ASSUME NEW s \in Slot, Begin(s) PROVE Places'
  <2>1. (\A t \in Slot : t # s => job'[t] = job[t]) /\ PlaceOf(s)'
    BY <1>14, BeginJob DEF Becomes, Goes, Places, PlaceOf
  <2> QED
    BY <2>1, PlacesFrame
<1>15. ASSUME NEW s \in Slot, BackUp(s) PROVE Places'
  <2>1. (\A t \in Slot : t # s => job'[t] = job[t]) /\ PlaceOf(s)'
    BY <1>15, BackUpJob DEF Becomes, Goes, Places, PlaceOf
  <2> QED
    BY <2>1, PlacesFrame
<1>16. ASSUME NEW s \in Slot, PrepareFails(s) PROVE Places'
  <2>1. (\A t \in Slot : t # s => job'[t] = job[t]) /\ PlaceOf(s)'
    BY <1>16, PrepareFailsJob DEF Becomes, Goes, Places, PlaceOf
  <2> QED
    BY <2>1, PlacesFrame
<1>17. ASSUME NEW s \in Slot, Install(s) PROVE Places'
  <2>1. (\A t \in Slot : t # s => job'[t] = job[t]) /\ PlaceOf(s)'
    BY <1>17, InstallJob DEF Becomes, Goes, Places, PlaceOf
  <2> QED
    BY <2>1, PlacesFrame
<1>18. ASSUME NEW s \in Slot, Write(s) PROVE Places'
  <2>1. (\A t \in Slot : t # s => job'[t] = job[t]) /\ PlaceOf(s)'
    BY <1>18, WriteJob DEF Becomes, Goes, Places, PlaceOf
  <2> QED
    BY <2>1, PlacesFrame
<1>19. ASSUME NEW s \in Slot, Settle(s) PROVE Places'
  <2>1. (\A t \in Slot : t # s => job'[t] = job[t]) /\ PlaceOf(s)'
    BY <1>19, SettleJob DEF Becomes, Goes, Places, PlaceOf
  <2> QED
    BY <2>1, PlacesFrame
<1>20. ASSUME NEW s \in Slot, Queue(s) PROVE Places'
  <2>1. (\A t \in Slot : t # s => job'[t] = job[t]) /\ PlaceOf(s)'
    BY <1>20, QueueJob DEF Becomes, Goes, Places, PlaceOf
  <2> QED
    BY <2>1, PlacesFrame
<1>21. ASSUME NEW s \in Slot, HandleError(s) PROVE Places'
  <2>1. PlaceOf(s)'
    <3>1. PlaceOf(s) /\ job[s] # None /\ job[s].at = "failed"
      BY <1>21, HandleErrorJob DEF Places
    <3>2. job'[s].copy = job[s].copy /\ job'[s].backup = job[s].backup /\ job'[s].at = "returned"
      BY <1>21, HandleErrorJob DEF Reports
    <3> QED
      BY <3>1, <3>2 DEF PlaceOf
  <2>2. \A t \in Slot : NewPage(t) => PlaceOf(t)'
    BY DEF NewPage, PlaceOf
  <2>3. \A t \in Slot : job'[t] = job[t] => PlaceOf(t)'
    BY DEF Places, PlaceOf
  <2> QED
    BY <1>21, <2>1, <2>2, <2>3, HandleErrorJob DEF Reports, Places
<1>22. ASSUME NEW s \in Slot, HandleAutosaveFinished(s) PROVE Places'
  <2>1. (\A t \in Slot : t # s => job'[t] = job[t]) /\ PlaceOf(s)'
    BY <1>22, EndsJob DEF Ends, Places, PlaceOf
  <2> QED
    BY <2>1, PlacesFrame
<1>23. ASSUME NEW s \in Slot, HandlePageFinished(s) PROVE Places'
  <2>1. (\A t \in Slot : t # s => job'[t] = job[t]) /\ PlaceOf(s)'
    BY <1>23, PageFinishedJob DEF Ends, Fresh, Places, PlaceOf
  <2> QED
    BY <2>1, PlacesFrame
<1>24. ASSUME NEW s \in Slot, HandleSaveFailed(s) PROVE Places'
  <2>1. (\A t \in Slot : t # s => job'[t] = job[t]) /\ PlaceOf(s)'
    BY <1>24, EndsJob DEF Ends, Places, PlaceOf
  <2> QED
    BY <2>1, PlacesFrame
<1>25. ASSUME NEW s \in Slot, HandleSaved(s) PROVE Places'
  <2>1. (\A t \in Slot : t # s => job'[t] = job[t]) /\ PlaceOf(s)'
    BY <1>25, EndsJob DEF Ends, Places, PlaceOf
  <2> QED
    BY <2>1, PlacesFrame
<1>26. ASSUME NEW s \in Slot, HandleMoved(s) PROVE Places'
  <2>1. (\A t \in Slot : t # s => job'[t] = job[t]) /\ PlaceOf(s)'
    BY <1>26, EndsJob DEF Ends, Places, PlaceOf
  <2> QED
    BY <2>1, PlacesFrame
<1>27. ASSUME NEW s \in Slot, WriteFails(s) PROVE Places'
  <2>1. (\A t \in Slot : t # s => job'[t] = job[t]) /\ PlaceOf(s)'
    BY <1>27, WriteFailsJob DEF Becomes, Goes, Places, PlaceOf
  <2> QED
    BY <2>1, PlacesFrame
<1>28. CASE UNCHANGED vars
  BY <1>28 DEF vars, jobs, Places, PlaceOf
<1>29. CASE RecordStage
  BY <1>29 DEF RecordStage, jobs, Places, PlaceOf
<1> QED
  BY <1>1, <1>2, <1>3, <1>4, <1>5, <1>6, <1>7, <1>8, <1>9, <1>10, <1>11, <1>12, <1>13,
     <1>14, <1>15, <1>16, <1>17, <1>18, <1>19, <1>20, <1>21, <1>22, <1>23, <1>24,
     <1>25, <1>26, <1>27, <1>28, <1>29 DEF Next, Worker, Callback, BatchThread

\* What a job is about never changes.
LEMMA AimsFrame ==
  ASSUME Aims, NEW s \in Slot, \A t \in Slot : t # s => job'[t] = job[t], AimOf(s)'
  PROVE  Aims'
<1>1. \A t \in Slot : t # s => AimOf(t)'
  <2> SUFFICES ASSUME NEW t \in Slot, t # s PROVE AimOf(t)'
    OBVIOUS
  <2>1. AimOf(t) /\ job'[t] = job[t]
    BY DEF Aims
  <2> QED
    BY <2>1 DEF AimOf
<1> QED
  BY <1>1 DEF Aims

LEMMA AimsStep ==
  ASSUME Shapes, Aims, [Next]_vars
  PROVE  Aims'
<1>1. CASE Edit
  BY <1>1, Targets DEF Edit, jobs, Aims, AimOf
<1>2. CASE ManualSave
  <2>1. PICK s \in Slot : Fresh(s, "manual", project_file, project_file)
    BY <1>2, ManualSaveJob DEF Submits
  <2>2. (\A t \in Slot : t # s => job'[t] = job[t]) /\ AimOf(s)'
    BY <1>2, Targets, <2>1 DEF Fresh, AimOf
  <2> QED
    BY <2>2, AimsFrame
<1>3. CASE Cancel
  <2>1. \A t \in Slot : job'[t] = job[t] \/ job'[t] = None
    BY <1>3, CancelJob
  <2> QED
    BY <2>1 DEF Aims, AimOf
<1>4. ASSUME NEW p \in Path, Move(p) PROVE Aims'
  <2>1. PICK s \in Slot : Fresh(s, "move", p, project_file)
    BY <1>4, MoveJob DEF Submits
  <2>2. (\A t \in Slot : t # s => job'[t] = job[t]) /\ AimOf(s)'
    BY <1>4, Targets, <2>1 DEF Fresh, AimOf, Move
  <2> QED
    BY <2>2, AimsFrame
<1>5. CASE RealtimeTimeout
  <2>1. CASE UNCHANGED job
    BY <2>1 DEF Aims, AimOf
  <2>2. CASE \E s \in Slot : Fresh(s, "autosave", project_file, Home)
    <3>1. PICK s \in Slot : Fresh(s, "autosave", project_file, Home)
      BY <2>2
    <3>2. (\A t \in Slot : t # s => job'[t] = job[t]) /\ AimOf(s)'
      BY <3>1, Targets DEF Fresh, AimOf
    <3> QED
      BY <3>2, AimsFrame
  <2> QED
    BY <1>5, <2>1, <2>2, RealtimeJob DEF Submits
<1>6. CASE IntervalTimeout
  <2>1. CASE UNCHANGED job
    BY <2>1 DEF Aims, AimOf
  <2>2. CASE \E s \in Slot : Fresh(s, "autosave", Recovery, Home)
    <3>1. PICK s \in Slot : Fresh(s, "autosave", Recovery, Home)
      BY <2>2
    <3>2. (\A t \in Slot : t # s => job'[t] = job[t]) /\ AimOf(s)'
      BY <3>1, Targets DEF Fresh, AimOf
    <3> QED
      BY <3>2, AimsFrame
  <2> QED
    BY <1>6, <2>1, <2>2, IntervalJob DEF Submits
<1>7. CASE BatchStart
  BY <1>7, Targets DEF BatchStart, jobs, Aims, AimOf
<1>8. CASE BatchPageDone
  <2>1. CASE UNCHANGED job
    BY <2>1 DEF Aims, AimOf
  <2>2. CASE \E s \in Slot : Fresh(s, "page", project_file, Home)
    <3>1. PICK s \in Slot : Fresh(s, "page", project_file, Home)
      BY <2>2
    <3>2. (\A t \in Slot : t # s => job'[t] = job[t]) /\ AimOf(s)'
      BY <3>1, Targets DEF Fresh, AimOf
    <3> QED
      BY <3>2, AimsFrame
  <2> QED
    BY <1>8, <2>1, <2>2, BatchPageJob DEF Submits
<1>9. CASE BeginDeferral
  BY <1>9, Targets DEF BeginDeferral, jobs, Aims, AimOf
<1>10. CASE BatchBegin
  BY <1>10, Targets DEF BatchBegin, jobs, Aims, AimOf
<1>11. CASE EndDeferral
  BY <1>11, Targets DEF EndDeferral, jobs, Aims, AimOf
<1>12. CASE EndDeferralSave
  <2>1. CASE UNCHANGED job
    BY <2>1 DEF Aims, AimOf
  <2>2. CASE \E s \in Slot : Fresh(s, "page", project_file, Home)
    <3>1. PICK s \in Slot : Fresh(s, "page", project_file, Home)
      BY <2>2
    <3>2. (\A t \in Slot : t # s => job'[t] = job[t]) /\ AimOf(s)'
      BY <3>1, Targets DEF Fresh, AimOf
    <3> QED
      BY <3>2, AimsFrame
  <2> QED
    BY <1>12, <2>1, <2>2, EndDeferralJob DEF Submits
<1>13. CASE BatchEnd
  BY <1>13, Targets DEF BatchEnd, jobs, Aims, AimOf
<1>14. ASSUME NEW s \in Slot, Begin(s) PROVE Aims'
  <2>1. Goes(s) /\ job[s] # None
    BY <1>14, BeginJob DEF Becomes
  <2>2. (\A t \in Slot : t # s => job'[t] = job[t]) /\ AimOf(s)'
    BY <2>1 DEF Goes, Aims, AimOf
  <2> QED
    BY <2>2, AimsFrame
<1>15. ASSUME NEW s \in Slot, BackUp(s) PROVE Aims'
  <2>1. Goes(s) /\ job[s] # None
    BY <1>15, BackUpJob DEF Becomes
  <2>2. (\A t \in Slot : t # s => job'[t] = job[t]) /\ AimOf(s)'
    BY <2>1 DEF Goes, Aims, AimOf
  <2> QED
    BY <2>2, AimsFrame
<1>16. ASSUME NEW s \in Slot, PrepareFails(s) PROVE Aims'
  <2>1. Goes(s) /\ job[s] # None
    BY <1>16, PrepareFailsJob DEF Becomes
  <2>2. (\A t \in Slot : t # s => job'[t] = job[t]) /\ AimOf(s)'
    BY <2>1 DEF Goes, Aims, AimOf
  <2> QED
    BY <2>2, AimsFrame
<1>17. ASSUME NEW s \in Slot, Install(s) PROVE Aims'
  <2>1. Goes(s) /\ job[s] # None
    BY <1>17, InstallJob DEF Becomes
  <2>2. (\A t \in Slot : t # s => job'[t] = job[t]) /\ AimOf(s)'
    BY <2>1 DEF Goes, Aims, AimOf
  <2> QED
    BY <2>2, AimsFrame
<1>18. ASSUME NEW s \in Slot, Write(s) PROVE Aims'
  <2>1. Goes(s) /\ job[s] # None
    BY <1>18, WriteJob DEF Becomes
  <2>2. (\A t \in Slot : t # s => job'[t] = job[t]) /\ AimOf(s)'
    BY <2>1 DEF Goes, Aims, AimOf
  <2> QED
    BY <2>2, AimsFrame
<1>19. ASSUME NEW s \in Slot, Settle(s) PROVE Aims'
  <2>1. Goes(s) /\ job[s] # None
    BY <1>19, SettleJob DEF Becomes
  <2>2. (\A t \in Slot : t # s => job'[t] = job[t]) /\ AimOf(s)'
    BY <2>1 DEF Goes, Aims, AimOf
  <2> QED
    BY <2>2, AimsFrame
<1>20. ASSUME NEW s \in Slot, Queue(s) PROVE Aims'
  <2>1. Goes(s) /\ job[s] # None
    BY <1>20, QueueJob DEF Becomes
  <2>2. (\A t \in Slot : t # s => job'[t] = job[t]) /\ AimOf(s)'
    BY <2>1 DEF Goes, Aims, AimOf
  <2> QED
    BY <2>2, AimsFrame
<1>21. ASSUME NEW s \in Slot, HandleError(s) PROVE Aims'
  <2>1. AimOf(s)'
    BY <1>21, HandleErrorJob DEF Reports, Aims, AimOf
  <2>2. \A t \in Slot : NewPage(t) => AimOf(t)'
    BY Targets DEF NewPage, AimOf
  <2>3. \A t \in Slot : job'[t] = job[t] => AimOf(t)'
    BY DEF Aims, AimOf
  <2> QED
    BY <1>21, <2>1, <2>2, <2>3, HandleErrorJob DEF Reports, Aims
<1>22. ASSUME NEW s \in Slot, HandleAutosaveFinished(s) PROVE Aims'
  <2>1. (\A t \in Slot : t # s => job'[t] = job[t]) /\ AimOf(s)'
    BY <1>22, Targets, EndsJob DEF Ends, Aims, AimOf
  <2> QED
    BY <2>1, AimsFrame
<1>23. ASSUME NEW s \in Slot, HandlePageFinished(s) PROVE Aims'
  <2>1. (\A t \in Slot : t # s => job'[t] = job[t]) /\ AimOf(s)'
    BY <1>23, Targets, PageFinishedJob DEF Ends, Fresh, Aims, AimOf
  <2> QED
    BY <2>1, AimsFrame
<1>24. ASSUME NEW s \in Slot, HandleSaveFailed(s) PROVE Aims'
  <2>1. (\A t \in Slot : t # s => job'[t] = job[t]) /\ AimOf(s)'
    BY <1>24, Targets, EndsJob DEF Ends, Aims, AimOf
  <2> QED
    BY <2>1, AimsFrame
<1>25. ASSUME NEW s \in Slot, HandleSaved(s) PROVE Aims'
  <2>1. (\A t \in Slot : t # s => job'[t] = job[t]) /\ AimOf(s)'
    BY <1>25, Targets, EndsJob DEF Ends, Aims, AimOf
  <2> QED
    BY <2>1, AimsFrame
<1>26. ASSUME NEW s \in Slot, HandleMoved(s) PROVE Aims'
  <2>1. (\A t \in Slot : t # s => job'[t] = job[t]) /\ AimOf(s)'
    BY <1>26, Targets, EndsJob DEF Ends, Aims, AimOf
  <2> QED
    BY <2>1, AimsFrame
<1>27. ASSUME NEW s \in Slot, WriteFails(s) PROVE Aims'
  <2>1. Goes(s) /\ job[s] # None
    BY <1>27, WriteFailsJob DEF Becomes
  <2>2. (\A t \in Slot : t # s => job'[t] = job[t]) /\ AimOf(s)'
    BY <2>1 DEF Goes, Aims, AimOf
  <2> QED
    BY <2>2, AimsFrame
<1>28. CASE UNCHANGED vars
  BY <1>28 DEF vars, jobs, Aims, AimOf
<1>29. CASE RecordStage
  BY <1>29 DEF RecordStage, jobs, Aims, AimOf
<1> QED
  BY <1>1, <1>2, <1>3, <1>4, <1>5, <1>6, <1>7, <1>8, <1>9, <1>10, <1>11, <1>12, <1>13,
     <1>14, <1>15, <1>16, <1>17, <1>18, <1>19, <1>20, <1>21, <1>22, <1>23, <1>24,
     <1>25, <1>26, <1>27, <1>28, <1>29 DEF Next, Worker, Callback, BatchThread

LEMMA ShapesStep ==
  ASSUME Shapes, [Next]_vars
  PROVE  Shapes'
  BY TypeStep, PlacesStep, AimsStep DEF Shapes

\* TypeOK holds in every reachable state: the flags, the files and each save's record
\* stay what the code makes them, for any number of saves, paths and edits.
THEOREM TypeCorrect == Spec => []TypeOK
<1>1. Shapes => TypeOK
  BY DEF Shapes
<1>2. Shapes /\ [Next]_vars => Shapes'
  BY ShapesStep
<1> QED
  BY <1>1, <1>2, ShapesInit, PTL DEF Spec

-----------------------------------------------------------------------------
(* The user's saves, and which saves are under way together.                *)

\* The user's saves stay apart when none is added.
LEMMA UserFrame ==
  ASSUME User, UNCHANGED project_file,
         \A t \in Slot : OnUser(t)' => OnUser(t) /\ job'[t].target = job[t].target
  PROVE  User'
  BY DEF User, Ours, OneOnUser

\* Where the user has no save under way, one may begin.
LEMMA UserFresh ==
  ASSUME Shapes, ~Busy, NEW s \in Slot,
         \A t \in Slot : t # s => job'[t] = job[t],
         job'[s] # None => job'[s].target = project_file'
  PROVE  User'
<1>1. \A t \in Slot : ~OnUser(t)
  BY DEF Busy, OnUser, Kind, Jobs
<1>2. \A t \in Slot : t # s => ~OnUser(t)'
  BY <1>1 DEF OnUser, Kind
<1> QED
  BY <1>2 DEF User, Ours, OneOnUser, OnUser, Kind

LEMMA UserStep ==
  ASSUME Shapes, User, [Next]_vars
  PROVE  User'
<1>1. CASE Edit
  <2>1. \A t \in Slot : OnUser(t)' => OnUser(t) /\ job'[t].target = job[t].target
    BY <1>1 DEF Edit, jobs, OnUser, Kind
  <2>2. UNCHANGED project_file
    BY <1>1 DEF Edit, edits, flags, turns, jobs
  <2> QED
    BY <2>1, <2>2, UserFrame
<1>2. CASE ManualSave
  <2>1. PICK s \in Slot : Fresh(s, "manual", project_file, project_file)
    BY <1>2, ManualSaveJob DEF Submits
  <2>2. ~Busy /\ UNCHANGED project_file
    BY <1>2 DEF ManualSave
  <2> QED
    BY <2>1, <2>2, UserFresh DEF Fresh
<1>3. CASE Cancel
  <2>1. \A t \in Slot : OnUser(t)' => OnUser(t) /\ job'[t].target = job[t].target
    BY <1>3, CancelJob DEF At, OnUser, Kind
  <2>2. UNCHANGED project_file
    BY <1>3 DEF Cancel, edits, flags, turns, jobs
  <2> QED
    BY <2>1, <2>2, UserFrame
<1>4. ASSUME NEW p \in Path, Move(p) PROVE User'
  <2>1. PICK s \in Slot : Fresh(s, "move", p, project_file)
    BY <1>4, MoveJob DEF Submits
  <2>2. ~Busy /\ project_file' = p
    BY <1>4 DEF Move
  <2> QED
    BY <2>1, <2>2, UserFresh DEF Fresh
<1>5. CASE RealtimeTimeout
  <2>1. \A t \in Slot : OnUser(t)' => OnUser(t) /\ job'[t].target = job[t].target
    BY <1>5, RealtimeJob DEF Submits, Fresh, OnUser, Kind
  <2>2. UNCHANGED project_file
    BY <1>5 DEF RealtimeTimeout, edits, flags, turns, jobs
  <2> QED
    BY <2>1, <2>2, UserFrame
<1>6. CASE IntervalTimeout
  <2>1. \A t \in Slot : OnUser(t)' => OnUser(t) /\ job'[t].target = job[t].target
    BY <1>6, IntervalJob DEF Submits, Fresh, OnUser, Kind
  <2>2. UNCHANGED project_file
    BY <1>6 DEF IntervalTimeout, edits, flags, turns, jobs
  <2> QED
    BY <2>1, <2>2, UserFrame
<1>7. CASE BatchStart
  <2>1. \A t \in Slot : OnUser(t)' => OnUser(t) /\ job'[t].target = job[t].target
    BY <1>7 DEF BatchStart, jobs, OnUser, Kind
  <2>2. UNCHANGED project_file
    BY <1>7 DEF BatchStart, edits, flags, turns, jobs
  <2> QED
    BY <2>1, <2>2, UserFrame
<1>8. CASE BatchPageDone
  <2>1. \A t \in Slot : OnUser(t)' => OnUser(t) /\ job'[t].target = job[t].target
    BY <1>8, BatchPageJob DEF Submits, Fresh, OnUser, Kind
  <2>2. UNCHANGED project_file
    BY <1>8 DEF BatchPageDone, edits, flags, turns, jobs
  <2> QED
    BY <2>1, <2>2, UserFrame
<1>9. CASE BeginDeferral
  <2>1. \A t \in Slot : OnUser(t)' => OnUser(t) /\ job'[t].target = job[t].target
    BY <1>9 DEF BeginDeferral, jobs, OnUser, Kind
  <2>2. UNCHANGED project_file
    BY <1>9 DEF BeginDeferral, edits, flags, turns, jobs
  <2> QED
    BY <2>1, <2>2, UserFrame
<1>10. CASE BatchBegin
  <2>1. \A t \in Slot : OnUser(t)' => OnUser(t) /\ job'[t].target = job[t].target
    BY <1>10 DEF BatchBegin, jobs, OnUser, Kind
  <2>2. UNCHANGED project_file
    BY <1>10 DEF BatchBegin, edits, flags, turns, jobs
  <2> QED
    BY <2>1, <2>2, UserFrame
<1>11. CASE EndDeferral
  <2>1. \A t \in Slot : OnUser(t)' => OnUser(t) /\ job'[t].target = job[t].target
    BY <1>11 DEF EndDeferral, jobs, OnUser, Kind
  <2>2. UNCHANGED project_file
    BY <1>11 DEF EndDeferral, edits, flags, turns, jobs
  <2> QED
    BY <2>1, <2>2, UserFrame
<1>12. CASE EndDeferralSave
  <2>1. \A t \in Slot : OnUser(t)' => OnUser(t) /\ job'[t].target = job[t].target
    BY <1>12, EndDeferralJob DEF Submits, Fresh, OnUser, Kind
  <2>2. UNCHANGED project_file
    BY <1>12 DEF EndDeferralSave, edits, flags, turns, jobs
  <2> QED
    BY <2>1, <2>2, UserFrame
<1>13. CASE BatchEnd
  <2>1. \A t \in Slot : OnUser(t)' => OnUser(t) /\ job'[t].target = job[t].target
    BY <1>13 DEF BatchEnd, jobs, OnUser, Kind
  <2>2. UNCHANGED project_file
    BY <1>13 DEF BatchEnd, edits, flags, turns, jobs
  <2> QED
    BY <2>1, <2>2, UserFrame
<1>14. ASSUME NEW s \in Slot, Begin(s) PROVE User'
  <2>1. \A t \in Slot : OnUser(t)' => OnUser(t) /\ job'[t].target = job[t].target
    BY <1>14, BeginJob DEF Goes, OnUser, Kind
  <2>2. UNCHANGED project_file
    BY <1>14 DEF Begin, edits, flags, turns, jobs
  <2> QED
    BY <2>1, <2>2, UserFrame
<1>15. ASSUME NEW s \in Slot, BackUp(s) PROVE User'
  <2>1. \A t \in Slot : OnUser(t)' => OnUser(t) /\ job'[t].target = job[t].target
    BY <1>15, BackUpJob DEF Becomes, Goes, OnUser, Kind
  <2>2. UNCHANGED project_file
    BY <1>15 DEF BackUp, edits, flags, turns, jobs
  <2> QED
    BY <2>1, <2>2, UserFrame
<1>16. ASSUME NEW s \in Slot, PrepareFails(s) PROVE User'
  <2>1. \A t \in Slot : OnUser(t)' => OnUser(t) /\ job'[t].target = job[t].target
    BY <1>16, PrepareFailsJob DEF Becomes, Goes, OnUser, Kind
  <2>2. UNCHANGED project_file
    BY <1>16 DEF PrepareFails, edits, flags, turns, jobs
  <2> QED
    BY <2>1, <2>2, UserFrame
<1>17. ASSUME NEW s \in Slot, Install(s) PROVE User'
  <2>1. \A t \in Slot : OnUser(t)' => OnUser(t) /\ job'[t].target = job[t].target
    BY <1>17, InstallJob DEF Becomes, Goes, OnUser, Kind
  <2>2. UNCHANGED project_file
    BY <1>17 DEF Install, edits, flags, turns, jobs
  <2> QED
    BY <2>1, <2>2, UserFrame
<1>18. ASSUME NEW s \in Slot, Write(s) PROVE User'
  <2>1. \A t \in Slot : OnUser(t)' => OnUser(t) /\ job'[t].target = job[t].target
    BY <1>18, WriteJob DEF Becomes, Goes, OnUser, Kind
  <2>2. UNCHANGED project_file
    BY <1>18 DEF Write, edits, flags, turns, jobs
  <2> QED
    BY <2>1, <2>2, UserFrame
<1>19. ASSUME NEW s \in Slot, Settle(s) PROVE User'
  <2>1. \A t \in Slot : OnUser(t)' => OnUser(t) /\ job'[t].target = job[t].target
    BY <1>19, SettleJob DEF Becomes, Goes, OnUser, Kind
  <2>2. UNCHANGED project_file
    BY <1>19 DEF Settle, edits, flags, turns, jobs
  <2> QED
    BY <2>1, <2>2, UserFrame
<1>20. ASSUME NEW s \in Slot, Queue(s) PROVE User'
  <2>1. \A t \in Slot : OnUser(t)' => OnUser(t) /\ job'[t].target = job[t].target
    BY <1>20, QueueJob DEF Becomes, Goes, OnUser, Kind
  <2>2. UNCHANGED project_file
    BY <1>20 DEF Queue, edits, flags, turns, jobs
  <2> QED
    BY <2>1, <2>2, UserFrame
<1>21. ASSUME NEW s \in Slot, HandleError(s) PROVE User'
  <2>1. \A t \in Slot : OnUser(t)' => OnUser(t) /\ job'[t].target = job[t].target
    BY <1>21, HandleErrorJob DEF Reports, NewPage, OnUser, Kind
  <2>2. CASE UNCHANGED project_file
    BY <2>1, <2>2, UserFrame
  <2>3. CASE job[s].kind \in {"manual", "move"}
    <3>1. OnUser(s) /\ job[s] # None
      BY <1>21, <2>3, HandleErrorJob DEF OnUser, Kind, Shapes, Places, PlaceOf
    <3>2. ~OnUser(s)'
      BY <1>21, HandleErrorJob DEF Reports, OnUser, Kind
    <3>3. \A t \in Slot : ~OnUser(t)'
      BY <2>1, <3>1, <3>2 DEF User, OneOnUser
    <3> QED
      BY <3>3 DEF User, Ours, OneOnUser
  <2> QED
    BY <1>21, <2>2, <2>3 DEF HandleError
<1>22. ASSUME NEW s \in Slot, HandleAutosaveFinished(s) PROVE User'
  <2>1. \A t \in Slot : OnUser(t)' => OnUser(t) /\ job'[t].target = job[t].target
    BY <1>22, EndsJob DEF Ends, OnUser, Kind
  <2>2. UNCHANGED project_file
    BY <1>22 DEF HandleAutosaveFinished, edits, flags, turns, jobs
  <2> QED
    BY <2>1, <2>2, UserFrame
<1>23. ASSUME NEW s \in Slot, HandlePageFinished(s) PROVE User'
  <2>1. \A t \in Slot : OnUser(t)' => OnUser(t) /\ job'[t].target = job[t].target
    BY <1>23, PageFinishedJob DEF Ends, Fresh, OnUser, Kind
  <2>2. UNCHANGED project_file
    BY <1>23 DEF HandlePageFinished, edits, flags, turns, jobs
  <2> QED
    BY <2>1, <2>2, UserFrame
<1>24. ASSUME NEW s \in Slot, HandleSaveFailed(s) PROVE User'
  <2>1. \A t \in Slot : OnUser(t)' => OnUser(t) /\ job'[t].target = job[t].target
    BY <1>24, EndsJob DEF Ends, OnUser, Kind
  <2>2. UNCHANGED project_file
    BY <1>24 DEF HandleSaveFailed, edits, flags, turns, jobs
  <2> QED
    BY <2>1, <2>2, UserFrame
<1>25. ASSUME NEW s \in Slot, HandleSaved(s) PROVE User'
  <2>1. \A t \in Slot : OnUser(t)' => OnUser(t) /\ job'[t].target = job[t].target
    BY <1>25, EndsJob DEF Ends, OnUser, Kind
  <2>2. UNCHANGED project_file
    BY <1>25 DEF HandleSaved, edits, flags, turns, jobs
  <2> QED
    BY <2>1, <2>2, UserFrame
<1>26. ASSUME NEW s \in Slot, HandleMoved(s) PROVE User'
  <2>1. \A t \in Slot : OnUser(t)' => OnUser(t) /\ job'[t].target = job[t].target
    BY <1>26, EndsJob DEF Ends, OnUser, Kind
  <2>2. UNCHANGED project_file
    BY <1>26 DEF HandleMoved, edits, flags, turns, jobs
  <2> QED
    BY <2>1, <2>2, UserFrame
<1>27. ASSUME NEW s \in Slot, WriteFails(s) PROVE User'
  <2>1. \A t \in Slot : OnUser(t)' => OnUser(t) /\ job'[t].target = job[t].target
    BY <1>27, WriteFailsJob DEF Becomes, Goes, OnUser, Kind
  <2>2. UNCHANGED project_file
    BY <1>27 DEF WriteFails, edits, flags, turns, jobs
  <2> QED
    BY <2>1, <2>2, UserFrame
<1>28. CASE UNCHANGED vars
  BY <1>28, UserFrame DEF vars, edits, flags, turns, jobs, OnUser, Kind
<1>29. CASE RecordStage
  <2>1. \A t \in Slot : OnUser(t)' => OnUser(t) /\ job'[t].target = job[t].target
    BY <1>29 DEF RecordStage, jobs, OnUser, Kind
  <2>2. UNCHANGED project_file
    BY <1>29 DEF RecordStage, edits, flags, turns, jobs
  <2> QED
    BY <2>1, <2>2, UserFrame
<1> QED
  BY <1>1, <1>2, <1>3, <1>4, <1>5, <1>6, <1>7, <1>8, <1>9, <1>10, <1>11, <1>12, <1>13,
     <1>14, <1>15, <1>16, <1>17, <1>18, <1>19, <1>20, <1>21, <1>22, <1>23, <1>24,
     <1>25, <1>26, <1>27, <1>28, <1>29 DEF Next, Worker, Callback, BatchThread

\* What has befallen is not undone.
LEMMA MishapsGrow ==
  ASSUME Shapes, [Next]_vars
  PROVE  mishaps \subseteq mishaps'
<1>1. CASE Edit
  BY <1>1 DEF Edit
<1>2. CASE ManualSave
  BY <1>2 DEF ManualSave
<1>3. CASE Cancel
  BY <1>3 DEF Cancel
<1>4. ASSUME NEW p \in Path, Move(p) PROVE mishaps \subseteq mishaps'
  BY <1>4 DEF Move
<1>5. CASE RealtimeTimeout
  BY <1>5 DEF RealtimeTimeout
<1>6. CASE IntervalTimeout
  BY <1>6 DEF IntervalTimeout
<1>7. CASE BatchStart
  BY <1>7 DEF BatchStart
<1>8. CASE BatchPageDone
  BY <1>8 DEF BatchPageDone
<1>9. CASE BeginDeferral
  BY <1>9 DEF BeginDeferral
<1>10. CASE BatchBegin
  BY <1>10 DEF BatchBegin
<1>11. CASE EndDeferral
  BY <1>11 DEF EndDeferral
<1>12. CASE EndDeferralSave
  BY <1>12 DEF EndDeferralSave
<1>13. CASE BatchEnd
  BY <1>13 DEF BatchEnd
<1>14. ASSUME NEW s \in Slot, Begin(s) PROVE mishaps \subseteq mishaps'
  BY <1>14 DEF Begin
<1>15. ASSUME NEW s \in Slot, BackUp(s) PROVE mishaps \subseteq mishaps'
  BY <1>15 DEF BackUp
<1>16. ASSUME NEW s \in Slot, PrepareFails(s) PROVE mishaps \subseteq mishaps'
  BY <1>16 DEF PrepareFails
<1>17. ASSUME NEW s \in Slot, Install(s) PROVE mishaps \subseteq mishaps'
  BY <1>17 DEF Install
<1>18. ASSUME NEW s \in Slot, Write(s) PROVE mishaps \subseteq mishaps'
  BY <1>18 DEF Write
<1>19. ASSUME NEW s \in Slot, Settle(s) PROVE mishaps \subseteq mishaps'
  BY <1>19 DEF Settle
<1>20. ASSUME NEW s \in Slot, Queue(s) PROVE mishaps \subseteq mishaps'
  BY <1>20 DEF Queue
<1>21. ASSUME NEW s \in Slot, HandleError(s) PROVE mishaps \subseteq mishaps'
  BY <1>21 DEF HandleError
<1>22. ASSUME NEW s \in Slot, HandleAutosaveFinished(s) PROVE mishaps \subseteq mishaps'
  BY <1>22 DEF HandleAutosaveFinished
<1>23. ASSUME NEW s \in Slot, HandlePageFinished(s) PROVE mishaps \subseteq mishaps'
  BY <1>23 DEF HandlePageFinished
<1>24. ASSUME NEW s \in Slot, HandleSaveFailed(s) PROVE mishaps \subseteq mishaps'
  BY <1>24 DEF HandleSaveFailed
<1>25. ASSUME NEW s \in Slot, HandleSaved(s) PROVE mishaps \subseteq mishaps'
  BY <1>25 DEF HandleSaved
<1>26. ASSUME NEW s \in Slot, HandleMoved(s) PROVE mishaps \subseteq mishaps'
  BY <1>26 DEF HandleMoved
<1>27. ASSUME NEW s \in Slot, WriteFails(s) PROVE mishaps \subseteq mishaps'
  BY <1>27 DEF WriteFails
<1>28. CASE UNCHANGED vars
  BY <1>28 DEF vars
<1>29. CASE RecordStage
  BY <1>29 DEF RecordStage
<1> QED
  BY <1>1, <1>2, <1>3, <1>4, <1>5, <1>6, <1>7, <1>8, <1>9, <1>10, <1>11, <1>12, <1>13,
     <1>14, <1>15, <1>16, <1>17, <1>18, <1>19, <1>20, <1>21, <1>22, <1>23, <1>24,
     <1>25, <1>26, <1>27, <1>28, <1>29 DEF Next, Worker, Callback, BatchThread

LEMMA AloneFrame ==
  ASSUME Alone, mishaps \subseteq mishaps', \A t \in Slot : Moving(t)' => Moving(t)
  PROVE  Alone'
  BY DEF Alone

LEMMA AloneStep ==
  ASSUME Shapes, Alone, [Next]_vars
  PROVE  Alone'
<1>1. CASE Edit
  <2>1. \A t \in Slot : Moving(t)' => Moving(t)
    BY <1>1 DEF Edit, jobs, Moving
  <2> QED
    BY <2>1, AloneFrame, MishapsGrow
<1>2. CASE ManualSave
  <2>1. \A t \in Slot : Moving(t)' => Moving(t)
    BY <1>2, ManualSaveJob DEF Submits, Fresh, Moving
  <2> QED
    BY <2>1, AloneFrame, MishapsGrow
<1>3. CASE Cancel
  <2>1. \A t \in Slot : Moving(t)' => Moving(t)
    BY <1>3, CancelJob DEF At, Moving
  <2> QED
    BY <2>1, AloneFrame, MishapsGrow
<1>4. ASSUME NEW p \in Path, Move(p) PROVE Alone'
  <2>1. PICK s \in Slot : Fresh(s, "move", p, project_file)
    BY <1>4, MoveJob DEF Submits
  <2>2. \A t \in Slot : Moving(t)' => Moving(t)
    BY <2>1 DEF Fresh, Moving
  <2> QED
    BY <2>2, AloneFrame, MishapsGrow
<1>5. CASE RealtimeTimeout
  <2>1. \A t \in Slot : Moving(t)' => Moving(t)
    BY <1>5, RealtimeJob DEF Submits, Fresh, Moving
  <2> QED
    BY <2>1, AloneFrame, MishapsGrow
<1>6. CASE IntervalTimeout
  <2>1. \A t \in Slot : Moving(t)' => Moving(t)
    BY <1>6, IntervalJob DEF Submits, Fresh, Moving
  <2> QED
    BY <2>1, AloneFrame, MishapsGrow
<1>7. CASE BatchStart
  <2>1. \A t \in Slot : Moving(t)' => Moving(t)
    BY <1>7 DEF BatchStart, jobs, Moving
  <2> QED
    BY <2>1, AloneFrame, MishapsGrow
<1>8. CASE BatchPageDone
  <2>1. \A t \in Slot : Moving(t)' => Moving(t)
    BY <1>8, BatchPageJob DEF Submits, Fresh, Moving
  <2> QED
    BY <2>1, AloneFrame, MishapsGrow
<1>9. CASE BeginDeferral
  <2>1. \A t \in Slot : Moving(t)' => Moving(t)
    BY <1>9 DEF BeginDeferral, jobs, Moving
  <2> QED
    BY <2>1, AloneFrame, MishapsGrow
<1>10. CASE BatchBegin
  <2>1. \A t \in Slot : Moving(t)' => Moving(t)
    BY <1>10 DEF BatchBegin, jobs, Moving
  <2> QED
    BY <2>1, AloneFrame, MishapsGrow
<1>11. CASE EndDeferral
  <2>1. \A t \in Slot : Moving(t)' => Moving(t)
    BY <1>11 DEF EndDeferral, jobs, Moving
  <2> QED
    BY <2>1, AloneFrame, MishapsGrow
<1>12. CASE EndDeferralSave
  <2>1. \A t \in Slot : Moving(t)' => Moving(t)
    BY <1>12, EndDeferralJob DEF Submits, Fresh, Moving
  <2> QED
    BY <2>1, AloneFrame, MishapsGrow
<1>13. CASE BatchEnd
  <2>1. \A t \in Slot : Moving(t)' => Moving(t)
    BY <1>13 DEF BatchEnd, jobs, Moving
  <2> QED
    BY <2>1, AloneFrame, MishapsGrow
<1>14. ASSUME NEW s \in Slot, Begin(s) PROVE Alone'
  <2>1. \A t \in Slot : t # s /\ Moving(t)' => Moving(t)
    BY <1>14, BeginJob DEF Goes, Moving
  <2>2. CASE UnderWay = {}
    <3>1. \A t \in Slot : ~Moving(t)
      BY <2>2 DEF UnderWay, Jobs, Moving
    <3> QED
      BY <2>1, <3>1 DEF Alone
  <2>3. CASE UnderWay # {}
    BY <1>14, <2>3 DEF Begin, Alone
  <2> QED
    BY <2>2, <2>3
<1>15. ASSUME NEW s \in Slot, BackUp(s) PROVE Alone'
  <2>1. \A t \in Slot : Moving(t)' => Moving(t)
    BY <1>15, BackUpJob DEF Becomes, Goes, Moving
  <2> QED
    BY <2>1, AloneFrame, MishapsGrow
<1>16. ASSUME NEW s \in Slot, PrepareFails(s) PROVE Alone'
  <2>1. \A t \in Slot : Moving(t)' => Moving(t)
    BY <1>16, PrepareFailsJob DEF Becomes, Goes, Moving
  <2> QED
    BY <2>1, AloneFrame, MishapsGrow
<1>17. ASSUME NEW s \in Slot, Install(s) PROVE Alone'
  <2>1. \A t \in Slot : Moving(t)' => Moving(t)
    BY <1>17, InstallJob DEF Becomes, Goes, Moving
  <2> QED
    BY <2>1, AloneFrame, MishapsGrow
<1>18. ASSUME NEW s \in Slot, Write(s) PROVE Alone'
  <2>1. \A t \in Slot : Moving(t)' => Moving(t)
    BY <1>18, WriteJob DEF Becomes, Goes, Moving
  <2> QED
    BY <2>1, AloneFrame, MishapsGrow
<1>19. ASSUME NEW s \in Slot, Settle(s) PROVE Alone'
  <2>1. \A t \in Slot : Moving(t)' => Moving(t)
    BY <1>19, SettleJob DEF Becomes, Goes, Moving
  <2> QED
    BY <2>1, AloneFrame, MishapsGrow
<1>20. ASSUME NEW s \in Slot, Queue(s) PROVE Alone'
  <2>1. \A t \in Slot : Moving(t)' => Moving(t)
    BY <1>20, QueueJob DEF Becomes, Goes, Moving
  <2> QED
    BY <2>1, AloneFrame, MishapsGrow
<1>21. ASSUME NEW s \in Slot, HandleError(s) PROVE Alone'
  <2>1. \A t \in Slot : Moving(t)' => Moving(t)
    <3>1. /\ job[s] # None /\ job[s].at = "failed"
          /\ \A t \in Slot : t # s => job'[t] = job[t] \/ NewPage(t)
      BY <1>21, HandleErrorJob DEF Reports
    <3>2. Moving(s) /\ \A t \in Slot : NewPage(t) => ~Moving(t)'
      BY <3>1 DEF NewPage, Moving
    <3>3. \A t \in Slot : job'[t] = job[t] => Moving(t)' = Moving(t)
      BY DEF Moving
    <3> QED
      BY <3>1, <3>2, <3>3
  <2> QED
    BY <2>1, AloneFrame, MishapsGrow
<1>22. ASSUME NEW s \in Slot, HandleAutosaveFinished(s) PROVE Alone'
  <2>1. \A t \in Slot : Moving(t)' => Moving(t)
    BY <1>22, EndsJob DEF Ends, Moving
  <2> QED
    BY <2>1, AloneFrame, MishapsGrow
<1>23. ASSUME NEW s \in Slot, HandlePageFinished(s) PROVE Alone'
  <2>1. \A t \in Slot : Moving(t)' => Moving(t)
    BY <1>23, PageFinishedJob DEF Ends, Fresh, Moving
  <2> QED
    BY <2>1, AloneFrame, MishapsGrow
<1>24. ASSUME NEW s \in Slot, HandleSaveFailed(s) PROVE Alone'
  <2>1. \A t \in Slot : Moving(t)' => Moving(t)
    BY <1>24, EndsJob DEF Ends, Moving
  <2> QED
    BY <2>1, AloneFrame, MishapsGrow
<1>25. ASSUME NEW s \in Slot, HandleSaved(s) PROVE Alone'
  <2>1. \A t \in Slot : Moving(t)' => Moving(t)
    BY <1>25, EndsJob DEF Ends, Moving
  <2> QED
    BY <2>1, AloneFrame, MishapsGrow
<1>26. ASSUME NEW s \in Slot, HandleMoved(s) PROVE Alone'
  <2>1. \A t \in Slot : Moving(t)' => Moving(t)
    BY <1>26, EndsJob DEF Ends, Moving
  <2> QED
    BY <2>1, AloneFrame, MishapsGrow
<1>27. ASSUME NEW s \in Slot, WriteFails(s) PROVE Alone'
  <2>1. \A t \in Slot : Moving(t)' => Moving(t)
    BY <1>27, WriteFailsJob DEF Becomes, Goes, Moving
  <2> QED
    BY <2>1, AloneFrame, MishapsGrow
<1>28. CASE UNCHANGED vars
  BY <1>28, AloneFrame, MishapsGrow DEF vars, edits, flags, turns, jobs, Moving
<1>29. CASE RecordStage
  <2>1. \A t \in Slot : Moving(t)' => Moving(t)
    BY <1>29 DEF RecordStage, jobs, Moving
  <2> QED
    BY <2>1, AloneFrame, MishapsGrow
<1> QED
  BY <1>1, <1>2, <1>3, <1>4, <1>5, <1>6, <1>7, <1>8, <1>9, <1>10, <1>11, <1>12, <1>13,
     <1>14, <1>15, <1>16, <1>17, <1>18, <1>19, <1>20, <1>21, <1>22, <1>23, <1>24,
     <1>25, <1>26, <1>27, <1>28, <1>29 DEF Next, Worker, Callback, BatchThread

LEMMA MarkedFrame ==
  ASSUME Marked, mishaps \subseteq mishaps', \A t \in Slot : MarkOf(t)' => MarkOf(t)
  PROVE  Marked'
  BY DEF Marked

LEMMA MarkedStep ==
  ASSUME Shapes, Marked, [Next]_vars
  PROVE  Marked'
<1>1. CASE Edit
  <2>1. \A t \in Slot : MarkOf(t)' => MarkOf(t)
    BY <1>1 DEF Edit, jobs, MarkOf, Kind
  <2> QED
    BY <2>1, MarkedFrame, MishapsGrow
<1>2. CASE ManualSave
  <2>1. CASE \E s \in Slot : Fresh(s, "manual", project_file, project_file)
    BY <2>1, MarkedFrame, MishapsGrow DEF Fresh, MarkOf, Kind
  <2>2. CASE UNCHANGED job
    BY <2>2, MarkedFrame, MishapsGrow DEF MarkOf, Kind
  <2> QED
    BY <1>2, <2>1, <2>2, ManualSaveJob DEF Submits
<1>3. CASE Cancel
  <2>1. \A t \in Slot : MarkOf(t)' => MarkOf(t)
    BY <1>3, CancelJob DEF At, MarkOf, Kind
  <2> QED
    BY <2>1, MarkedFrame, MishapsGrow
<1>4. ASSUME NEW p \in Path, Move(p) PROVE Marked'
  <2>1. CASE \E s \in Slot : Fresh(s, "move", p, project_file)
    BY <2>1, MarkedFrame, MishapsGrow DEF Fresh, MarkOf, Kind
  <2>2. CASE UNCHANGED job
    BY <2>2, MarkedFrame, MishapsGrow DEF MarkOf, Kind
  <2> QED
    BY <1>4, <2>1, <2>2, MoveJob DEF Submits
<1>5. CASE RealtimeTimeout
  <2>1. CASE \E s \in Slot : Fresh(s, "autosave", project_file, Home)
    BY <2>1, MarkedFrame, MishapsGrow DEF Fresh, MarkOf, Kind
  <2>2. CASE UNCHANGED job
    BY <2>2, MarkedFrame, MishapsGrow DEF MarkOf, Kind
  <2> QED
    BY <1>5, <2>1, <2>2, RealtimeJob DEF Submits
<1>6. CASE IntervalTimeout
  <2>1. CASE \E s \in Slot : Fresh(s, "autosave", Recovery, Home)
    BY <2>1, MarkedFrame, MishapsGrow DEF Fresh, MarkOf, Kind
  <2>2. CASE UNCHANGED job
    BY <2>2, MarkedFrame, MishapsGrow DEF MarkOf, Kind
  <2> QED
    BY <1>6, <2>1, <2>2, IntervalJob DEF Submits
<1>7. CASE BatchStart
  <2>1. \A t \in Slot : MarkOf(t)' => MarkOf(t)
    BY <1>7 DEF BatchStart, jobs, MarkOf, Kind
  <2> QED
    BY <2>1, MarkedFrame, MishapsGrow
<1>8. CASE BatchPageDone
  <2>1. CASE \E s \in Slot : Fresh(s, "page", project_file, Home)
    BY <2>1, MarkedFrame, MishapsGrow DEF Fresh, MarkOf, Kind
  <2>2. CASE UNCHANGED job
    BY <2>2, MarkedFrame, MishapsGrow DEF MarkOf, Kind
  <2> QED
    BY <1>8, <2>1, <2>2, BatchPageJob DEF Submits
<1>9. CASE BeginDeferral
  <2>1. \A t \in Slot : MarkOf(t)' => MarkOf(t)
    BY <1>9 DEF BeginDeferral, jobs, MarkOf, Kind
  <2> QED
    BY <2>1, MarkedFrame, MishapsGrow
<1>10. CASE BatchBegin
  <2>1. \A t \in Slot : MarkOf(t)' => MarkOf(t)
    BY <1>10 DEF BatchBegin, jobs, MarkOf, Kind
  <2> QED
    BY <2>1, MarkedFrame, MishapsGrow
<1>11. CASE EndDeferral
  <2>1. \A t \in Slot : MarkOf(t)' => MarkOf(t)
    BY <1>11 DEF EndDeferral, jobs, MarkOf, Kind
  <2> QED
    BY <2>1, MarkedFrame, MishapsGrow
<1>12. CASE EndDeferralSave
  <2>1. CASE \E s \in Slot : Fresh(s, "page", project_file, Home)
    BY <2>1, MarkedFrame, MishapsGrow DEF Fresh, MarkOf, Kind
  <2>2. CASE UNCHANGED job
    BY <2>2, MarkedFrame, MishapsGrow DEF MarkOf, Kind
  <2> QED
    BY <1>12, <2>1, <2>2, EndDeferralJob DEF Submits
<1>13. CASE BatchEnd
  <2>1. \A t \in Slot : MarkOf(t)' => MarkOf(t)
    BY <1>13 DEF BatchEnd, jobs, MarkOf, Kind
  <2> QED
    BY <2>1, MarkedFrame, MishapsGrow
<1>14. ASSUME NEW s \in Slot, Begin(s) PROVE Marked'
  <2>1. \A t \in Slot : MarkOf(t)' => MarkOf(t)
    BY <1>14, BeginJob DEF Goes, MarkOf, Kind
  <2> QED
    BY <2>1, MarkedFrame, MishapsGrow
<1>15. ASSUME NEW s \in Slot, BackUp(s) PROVE Marked'
  <2>1. \A t \in Slot : MarkOf(t)' => MarkOf(t)
    BY <1>15, BackUpJob DEF Becomes, Goes, MarkOf, Kind
  <2> QED
    BY <2>1, MarkedFrame, MishapsGrow
<1>16. ASSUME NEW s \in Slot, PrepareFails(s) PROVE Marked'
  <2>1. \A t \in Slot : MarkOf(t)' => MarkOf(t)
    BY <1>16, PrepareFailsJob DEF Becomes, Goes, MarkOf, Kind
  <2> QED
    BY <2>1, MarkedFrame, MishapsGrow
<1>17. ASSUME NEW s \in Slot, Install(s) PROVE Marked'
  <2>1. \A t \in Slot : MarkOf(t)' => MarkOf(t)
    BY <1>17, InstallJob DEF Becomes, Goes, MarkOf, Kind
  <2> QED
    BY <2>1, MarkedFrame, MishapsGrow
<1>18. ASSUME NEW s \in Slot, Write(s) PROVE Marked'
  <2>1. \A t \in Slot : MarkOf(t)' => MarkOf(t)
    BY <1>18, WriteJob DEF Becomes, Goes, MarkOf, Kind
  <2> QED
    BY <2>1, MarkedFrame, MishapsGrow
<1>19. ASSUME NEW s \in Slot, Settle(s) PROVE Marked'
  <2>1. \A t \in Slot : MarkOf(t)' => MarkOf(t)
    BY <1>19, SettleJob DEF Becomes, Goes, MarkOf, Kind
  <2> QED
    BY <2>1, MarkedFrame, MishapsGrow
<1>20. ASSUME NEW s \in Slot, Queue(s) PROVE Marked'
  <2>1. \A t \in Slot : MarkOf(t)' => MarkOf(t)
    BY <1>20, QueueJob DEF Becomes, Goes, MarkOf, Kind
  <2> QED
    BY <2>1, MarkedFrame, MishapsGrow
<1>21. ASSUME NEW s \in Slot, HandleError(s) PROVE Marked'
  <2>1. \A t \in Slot : MarkOf(t)' => MarkOf(t)
    <3>1. /\ job[s] # None /\ job[s].at = "failed"
          /\ \A t \in Slot : t # s => job'[t] = job[t] \/ NewPage(t)
      BY <1>21, HandleErrorJob DEF Reports
    <3>2. \A t \in Slot : NewPage(t) => ~MarkOf(t)'
      BY DEF NewPage, MarkOf, Kind
    <3>3. \A t \in Slot : job'[t] = job[t] => MarkOf(t)' = MarkOf(t)
      BY DEF MarkOf, Kind
    <3>4. MarkOf(s)' => MarkOf(s)
      BY <1>21, <3>1, HandleErrorJob DEF Reports, MarkOf, Kind
    <3> QED
      BY <3>1, <3>2, <3>3, <3>4
  <2> QED
    BY <2>1, MarkedFrame, MishapsGrow
<1>22. ASSUME NEW s \in Slot, HandleAutosaveFinished(s) PROVE Marked'
  <2>1. \A t \in Slot : MarkOf(t)' => MarkOf(t)
    BY <1>22, EndsJob DEF Ends, MarkOf, Kind
  <2> QED
    BY <2>1, MarkedFrame, MishapsGrow
<1>23. ASSUME NEW s \in Slot, HandlePageFinished(s) PROVE Marked'
  <2>1. \A t \in Slot : MarkOf(t)' => MarkOf(t)
    BY <1>23, PageFinishedJob DEF Ends, Fresh, MarkOf, Kind
  <2> QED
    BY <2>1, MarkedFrame, MishapsGrow
<1>24. ASSUME NEW s \in Slot, HandleSaveFailed(s) PROVE Marked'
  <2>1. \A t \in Slot : MarkOf(t)' => MarkOf(t)
    BY <1>24, EndsJob DEF Ends, MarkOf, Kind
  <2> QED
    BY <2>1, MarkedFrame, MishapsGrow
<1>25. ASSUME NEW s \in Slot, HandleSaved(s) PROVE Marked'
  <2>1. \A t \in Slot : MarkOf(t)' => MarkOf(t)
    BY <1>25, EndsJob DEF Ends, MarkOf, Kind
  <2> QED
    BY <2>1, MarkedFrame, MishapsGrow
<1>26. ASSUME NEW s \in Slot, HandleMoved(s) PROVE Marked'
  <2>1. \A t \in Slot : MarkOf(t)' => MarkOf(t)
    BY <1>26, EndsJob DEF Ends, MarkOf, Kind
  <2> QED
    BY <2>1, MarkedFrame, MishapsGrow
<1>27. ASSUME NEW s \in Slot, WriteFails(s) PROVE Marked'
  <2>1. \A t \in Slot : t # s /\ MarkOf(t)' => MarkOf(t)
    BY <1>27, WriteFailsJob DEF Becomes, Goes, MarkOf, Kind
  <2>2. MarkOf(s)' => job[s].kind \in {"autosave", "page"}
    BY <1>27, WriteFailsJob DEF Becomes, Goes, MarkOf, Kind
  <2>3. job[s].kind \in {"autosave", "page"} => "unsaved" \in mishaps'
    BY <1>27 DEF WriteFails
  <2> QED
    BY <2>1, <2>2, <2>3, MishapsGrow DEF Marked
<1>28. CASE UNCHANGED vars
  BY <1>28, MarkedFrame, MishapsGrow DEF vars, edits, flags, turns, jobs, MarkOf, Kind
<1>29. CASE RecordStage
  <2>1. \A t \in Slot : MarkOf(t)' => MarkOf(t)
    BY <1>29 DEF RecordStage, jobs, MarkOf, Kind
  <2> QED
    BY <2>1, MarkedFrame, MishapsGrow
<1> QED
  BY <1>1, <1>2, <1>3, <1>4, <1>5, <1>6, <1>7, <1>8, <1>9, <1>10, <1>11, <1>12, <1>13,
     <1>14, <1>15, <1>16, <1>17, <1>18, <1>19, <1>20, <1>21, <1>22, <1>23, <1>24,
     <1>25, <1>26, <1>27, <1>28, <1>29 DEF Next, Worker, Callback, BatchThread

-----------------------------------------------------------------------------
(* The age of what is read and written.                                     *)

\* Absent and Foreign are no revisions.
LEMMA NoFile == Absent \notin Revision /\ Foreign \notin Revision
  BY DEF Revision

\* Only an edit makes a new revision.
LEMMA StillRevision ==
  ASSUME TRUE, [Next]_vars
  PROVE  Edit \/ UNCHANGED revision
<1>1. CASE Edit
  BY <1>1
<1>2. CASE ManualSave
  BY <1>2 DEF ManualSave, edits
<1>3. CASE Cancel
  BY <1>3 DEF Cancel, edits
<1>4. ASSUME NEW p \in Path, Move(p) PROVE Edit \/ UNCHANGED revision
  BY <1>4 DEF Move, edits
<1>5. CASE RealtimeTimeout
  BY <1>5 DEF RealtimeTimeout, edits
<1>6. CASE IntervalTimeout
  BY <1>6 DEF IntervalTimeout, edits
<1>7. CASE BatchStart
  BY <1>7 DEF BatchStart, edits
<1>8. CASE BatchPageDone
  BY <1>8 DEF BatchPageDone, edits
<1>9. CASE BeginDeferral
  BY <1>9 DEF BeginDeferral, edits
<1>10. CASE BatchBegin
  BY <1>10 DEF BatchBegin, edits
<1>11. CASE EndDeferral
  BY <1>11 DEF EndDeferral, edits
<1>12. CASE EndDeferralSave
  BY <1>12 DEF EndDeferralSave, edits
<1>13. CASE BatchEnd
  BY <1>13 DEF BatchEnd, edits
<1>14. ASSUME NEW s \in Slot, Begin(s) PROVE Edit \/ UNCHANGED revision
  BY <1>14 DEF Begin, edits
<1>15. ASSUME NEW s \in Slot, BackUp(s) PROVE Edit \/ UNCHANGED revision
  BY <1>15 DEF BackUp, edits
<1>16. ASSUME NEW s \in Slot, PrepareFails(s) PROVE Edit \/ UNCHANGED revision
  BY <1>16 DEF PrepareFails, edits
<1>17. ASSUME NEW s \in Slot, Install(s) PROVE Edit \/ UNCHANGED revision
  BY <1>17 DEF Install, edits
<1>18. ASSUME NEW s \in Slot, Write(s) PROVE Edit \/ UNCHANGED revision
  BY <1>18 DEF Write, edits
<1>19. ASSUME NEW s \in Slot, Settle(s) PROVE Edit \/ UNCHANGED revision
  BY <1>19 DEF Settle, edits
<1>20. ASSUME NEW s \in Slot, Queue(s) PROVE Edit \/ UNCHANGED revision
  BY <1>20 DEF Queue, edits
<1>21. ASSUME NEW s \in Slot, HandleError(s) PROVE Edit \/ UNCHANGED revision
  BY <1>21 DEF HandleError, edits
<1>22. ASSUME NEW s \in Slot, HandleAutosaveFinished(s) PROVE Edit \/ UNCHANGED revision
  BY <1>22 DEF HandleAutosaveFinished, edits
<1>23. ASSUME NEW s \in Slot, HandlePageFinished(s) PROVE Edit \/ UNCHANGED revision
  BY <1>23 DEF HandlePageFinished, edits
<1>24. ASSUME NEW s \in Slot, HandleSaveFailed(s) PROVE Edit \/ UNCHANGED revision
  BY <1>24 DEF HandleSaveFailed, edits
<1>25. ASSUME NEW s \in Slot, HandleSaved(s) PROVE Edit \/ UNCHANGED revision
  BY <1>25 DEF HandleSaved, edits
<1>26. ASSUME NEW s \in Slot, HandleMoved(s) PROVE Edit \/ UNCHANGED revision
  BY <1>26 DEF HandleMoved, edits
<1>27. ASSUME NEW s \in Slot, WriteFails(s) PROVE Edit \/ UNCHANGED revision
  BY <1>27 DEF WriteFails, edits
<1>28. CASE UNCHANGED vars
  BY <1>28 DEF vars, edits
<1>29. CASE RecordStage
  BY <1>29 DEF RecordStage, edits
<1> QED
  BY <1>1, <1>2, <1>3, <1>4, <1>5, <1>6, <1>7, <1>8, <1>9, <1>10, <1>11, <1>12, <1>13,
     <1>14, <1>15, <1>16, <1>17, <1>18, <1>19, <1>20, <1>21, <1>22, <1>23, <1>24,
     <1>25, <1>26, <1>27, <1>28, <1>29 DEF Next, Worker, Callback, BatchThread

\* Revisions grow.
LEMMA Ageing ==
  ASSUME Shapes, [Next]_vars
  PROVE  revision \in Nat /\ revision' \in Nat /\ revision <= revision'
<1>1. revision \in Nat /\ revision' \in Nat
  <2>1. revision \in Revision /\ revision' \in Revision
    BY TypeStep DEF Shapes, TypeOK
  <2> QED
    BY <2>1 DEF Revision
<1>2. revision' = revision \/ revision' = revision + 1
  <2>1. CASE Edit
    BY <2>1 DEF Edit
  <2>2. CASE UNCHANGED revision
    BY <2>2
  <2> QED
    BY <2>1, <2>2, StillRevision
<1> QED
  BY <1>1, <1>2

LEMMA JobAgesFrame ==
  ASSUME Shapes, JobAges, NEW s \in Slot, \A t \in Slot : t # s => job'[t] = job[t],
         [Next]_vars, AgeOf(s)'
  PROVE  JobAges'
<1>1. \A t \in Slot : t # s => AgeOf(t)'
  <2> SUFFICES ASSUME NEW t \in Slot, t # s, job[t] # None PROVE AgeOf(t)'
    BY DEF AgeOf
  <2>1. job[t] \in Job /\ job'[t] = job[t] /\ AgeOf(t)
    BY DEF Shapes, TypeOK, JobAges
  <2>2. job[t].start \in Nat /\ job[t].content \in Nat
    BY <2>1, Fields DEF Revision
  <2> QED
    BY <2>1, <2>2, Ageing DEF AgeOf
<1> QED
  BY <1>1 DEF JobAges

LEMMA JobAgesStill ==
  ASSUME Shapes, JobAges, [Next]_vars, UNCHANGED job
  PROVE  JobAges'
<1> SUFFICES ASSUME NEW t \in Slot, job[t] # None PROVE AgeOf(t)'
  BY DEF JobAges, AgeOf
<1>1. job[t] \in Job /\ AgeOf(t)
  BY DEF Shapes, TypeOK, JobAges
<1>2. job[t].start \in Nat /\ job[t].content \in Nat
  BY <1>1, Fields DEF Revision
<1> QED
  BY <1>1, <1>2, Ageing DEF AgeOf

LEMMA JobAgesStep ==
  ASSUME Shapes, JobAges, [Next]_vars
  PROVE  JobAges'
<1>1. CASE Edit
  BY <1>1, JobAgesStill DEF Edit, jobs
<1>2. CASE ManualSave
  <2>1. CASE \E s \in Slot : Fresh(s, "manual", project_file, project_file)
    <3>1. PICK s \in Slot : Fresh(s, "manual", project_file, project_file)
      BY <2>1
    <3>2. AgeOf(s)'
      BY <3>1, Ageing DEF Fresh, AgeOf
    <3> QED
      BY <3>1, <3>2, JobAgesFrame DEF Fresh
  <2>2. CASE UNCHANGED job
    BY <2>2, JobAgesStill
  <2> QED
    BY <1>2, <2>1, <2>2, ManualSaveJob DEF Submits
<1>3. CASE Cancel
  <2>1. \A t \in Slot : job'[t] = job[t] \/ job'[t] = None
    BY <1>3, CancelJob
  <2> QED
    BY <1>3, <2>1 DEF JobAges, AgeOf, Cancel, edits
<1>4. ASSUME NEW p \in Path, Move(p) PROVE JobAges'
  <2>1. CASE \E s \in Slot : Fresh(s, "move", p, project_file)
    <3>1. PICK s \in Slot : Fresh(s, "move", p, project_file)
      BY <2>1
    <3>2. AgeOf(s)'
      BY <3>1, Ageing DEF Fresh, AgeOf
    <3> QED
      BY <3>1, <3>2, JobAgesFrame DEF Fresh
  <2>2. CASE UNCHANGED job
    BY <2>2, JobAgesStill
  <2> QED
    BY <1>4, <2>1, <2>2, MoveJob DEF Submits
<1>5. CASE RealtimeTimeout
  <2>1. CASE \E s \in Slot : Fresh(s, "autosave", project_file, Home)
    <3>1. PICK s \in Slot : Fresh(s, "autosave", project_file, Home)
      BY <2>1
    <3>2. AgeOf(s)'
      BY <3>1, Ageing DEF Fresh, AgeOf
    <3> QED
      BY <3>1, <3>2, JobAgesFrame DEF Fresh
  <2>2. CASE UNCHANGED job
    BY <2>2, JobAgesStill
  <2> QED
    BY <1>5, <2>1, <2>2, RealtimeJob DEF Submits
<1>6. CASE IntervalTimeout
  <2>1. CASE \E s \in Slot : Fresh(s, "autosave", Recovery, Home)
    <3>1. PICK s \in Slot : Fresh(s, "autosave", Recovery, Home)
      BY <2>1
    <3>2. AgeOf(s)'
      BY <3>1, Ageing DEF Fresh, AgeOf
    <3> QED
      BY <3>1, <3>2, JobAgesFrame DEF Fresh
  <2>2. CASE UNCHANGED job
    BY <2>2, JobAgesStill
  <2> QED
    BY <1>6, <2>1, <2>2, IntervalJob DEF Submits
<1>7. CASE BatchStart
  BY <1>7, JobAgesStill DEF BatchStart, jobs
<1>8. CASE BatchPageDone
  <2>1. CASE \E s \in Slot : Fresh(s, "page", project_file, Home)
    <3>1. PICK s \in Slot : Fresh(s, "page", project_file, Home)
      BY <2>1
    <3>2. AgeOf(s)'
      BY <3>1, Ageing DEF Fresh, AgeOf
    <3> QED
      BY <3>1, <3>2, JobAgesFrame DEF Fresh
  <2>2. CASE UNCHANGED job
    BY <2>2, JobAgesStill
  <2> QED
    BY <1>8, <2>1, <2>2, BatchPageJob DEF Submits
<1>9. CASE BeginDeferral
  BY <1>9, JobAgesStill DEF BeginDeferral, jobs
<1>10. CASE BatchBegin
  BY <1>10, JobAgesStill DEF BatchBegin, jobs
<1>11. CASE EndDeferral
  BY <1>11, JobAgesStill DEF EndDeferral, jobs
<1>12. CASE EndDeferralSave
  <2>1. CASE \E s \in Slot : Fresh(s, "page", project_file, Home)
    <3>1. PICK s \in Slot : Fresh(s, "page", project_file, Home)
      BY <2>1
    <3>2. AgeOf(s)'
      BY <3>1, Ageing DEF Fresh, AgeOf
    <3> QED
      BY <3>1, <3>2, JobAgesFrame DEF Fresh
  <2>2. CASE UNCHANGED job
    BY <2>2, JobAgesStill
  <2> QED
    BY <1>12, <2>1, <2>2, EndDeferralJob DEF Submits
<1>13. CASE BatchEnd
  BY <1>13, JobAgesStill DEF BatchEnd, jobs
<1>14. ASSUME NEW s \in Slot, Begin(s) PROVE JobAges'
  <2>1. job[s] \in Job /\ job[s] # None /\ AgeOf(s) /\ UNCHANGED revision
    BY <1>14, BeginJob DEF Becomes, Goes, JobAges, Begin, edits
  <2>2. job[s].start \in Nat /\ job[s].content \in Nat
    BY <2>1, Fields DEF Revision
  <2>3. (\A t \in Slot : t # s => job'[t] = job[t]) /\ AgeOf(s)'
    BY <1>14, <2>1, <2>2, Ageing, BeginJob DEF Becomes, Goes, AgeOf
  <2> QED
    BY <2>3, JobAgesFrame
<1>15. ASSUME NEW s \in Slot, BackUp(s) PROVE JobAges'
  <2>1. job[s] \in Job /\ job[s] # None /\ AgeOf(s) /\ UNCHANGED revision
    BY <1>15, BackUpJob DEF Becomes, Goes, JobAges, BackUp, edits
  <2>2. job[s].start \in Nat /\ job[s].content \in Nat
    BY <2>1, Fields DEF Revision
  <2>3. (\A t \in Slot : t # s => job'[t] = job[t]) /\ AgeOf(s)'
    BY <1>15, <2>1, <2>2, Ageing, BackUpJob DEF Becomes, Goes, AgeOf
  <2> QED
    BY <2>3, JobAgesFrame
<1>16. ASSUME NEW s \in Slot, PrepareFails(s) PROVE JobAges'
  <2>1. job[s] \in Job /\ job[s] # None /\ AgeOf(s) /\ UNCHANGED revision
    BY <1>16, PrepareFailsJob DEF Becomes, Goes, JobAges, PrepareFails, edits
  <2>2. job[s].start \in Nat /\ job[s].content \in Nat
    BY <2>1, Fields DEF Revision
  <2>3. (\A t \in Slot : t # s => job'[t] = job[t]) /\ AgeOf(s)'
    BY <1>16, <2>1, <2>2, Ageing, PrepareFailsJob DEF Becomes, Goes, AgeOf
  <2> QED
    BY <2>3, JobAgesFrame
<1>17. ASSUME NEW s \in Slot, Install(s) PROVE JobAges'
  <2>1. job[s] \in Job /\ job[s] # None /\ AgeOf(s) /\ UNCHANGED revision
    BY <1>17, InstallJob DEF Becomes, Goes, JobAges, Install, edits
  <2>2. job[s].start \in Nat /\ job[s].content \in Nat
    BY <2>1, Fields DEF Revision
  <2>3. (\A t \in Slot : t # s => job'[t] = job[t]) /\ AgeOf(s)'
    BY <1>17, <2>1, <2>2, Ageing, InstallJob DEF Becomes, Goes, AgeOf
  <2> QED
    BY <2>3, JobAgesFrame
<1>18. ASSUME NEW s \in Slot, Write(s) PROVE JobAges'
  <2>1. job[s] \in Job /\ job[s] # None /\ AgeOf(s) /\ UNCHANGED revision
    BY <1>18, WriteJob DEF Becomes, Goes, JobAges, Write, edits
  <2>2. job[s].start \in Nat /\ job[s].content \in Nat
    BY <2>1, Fields DEF Revision
  <2>3. (\A t \in Slot : t # s => job'[t] = job[t]) /\ AgeOf(s)'
    BY <1>18, <2>1, <2>2, Ageing, WriteJob DEF Becomes, Goes, AgeOf
  <2> QED
    BY <2>3, JobAgesFrame
<1>19. ASSUME NEW s \in Slot, Settle(s) PROVE JobAges'
  <2>1. job[s] \in Job /\ job[s] # None /\ AgeOf(s) /\ UNCHANGED revision
    BY <1>19, SettleJob DEF Becomes, Goes, JobAges, Settle, edits
  <2>2. job[s].start \in Nat /\ job[s].content \in Nat
    BY <2>1, Fields DEF Revision
  <2>3. (\A t \in Slot : t # s => job'[t] = job[t]) /\ AgeOf(s)'
    BY <1>19, <2>1, <2>2, Ageing, SettleJob DEF Becomes, Goes, AgeOf
  <2> QED
    BY <2>3, JobAgesFrame
<1>20. ASSUME NEW s \in Slot, Queue(s) PROVE JobAges'
  <2>1. job[s] \in Job /\ job[s] # None /\ AgeOf(s) /\ UNCHANGED revision
    BY <1>20, QueueJob DEF Becomes, Goes, JobAges, Queue, edits
  <2>2. job[s].start \in Nat /\ job[s].content \in Nat
    BY <2>1, Fields DEF Revision
  <2>3. (\A t \in Slot : t # s => job'[t] = job[t]) /\ AgeOf(s)'
    BY <1>20, <2>1, <2>2, Ageing, QueueJob DEF Becomes, Goes, AgeOf
  <2> QED
    BY <2>3, JobAgesFrame
<1>21. ASSUME NEW s \in Slot, HandleError(s) PROVE JobAges'
  <2>1. job[s] \in Job /\ job[s] # None /\ AgeOf(s) /\ UNCHANGED revision
    BY <1>21, HandleErrorJob DEF Reports, JobAges, HandleError, edits
  <2>2. job[s].start \in Nat /\ job[s].content \in Nat
    BY <2>1, Fields DEF Revision
  <2>3. AgeOf(s)'
    BY <1>21, <2>1, HandleErrorJob DEF Reports, AgeOf
  <2>4. \A t \in Slot : NewPage(t) => AgeOf(t)'
    BY <2>1, Ageing DEF NewPage, AgeOf
  <2>5. \A t \in Slot : job'[t] = job[t] => AgeOf(t)'
    BY <2>1 DEF JobAges, AgeOf
  <2> QED
    BY <1>21, <2>3, <2>4, <2>5, HandleErrorJob DEF Reports, JobAges
<1>22. ASSUME NEW s \in Slot, HandleAutosaveFinished(s) PROVE JobAges'
  <2>1. (\A t \in Slot : t # s => job'[t] = job[t]) /\ AgeOf(s)'
    BY <1>22, Ageing, EndsJob DEF Ends, AgeOf
  <2> QED
    BY <2>1, JobAgesFrame
<1>23. ASSUME NEW s \in Slot, HandlePageFinished(s) PROVE JobAges'
  <2>1. (\A t \in Slot : t # s => job'[t] = job[t]) /\ AgeOf(s)'
    BY <1>23, Ageing, PageFinishedJob DEF Ends, Fresh, AgeOf
  <2> QED
    BY <2>1, JobAgesFrame
<1>24. ASSUME NEW s \in Slot, HandleSaveFailed(s) PROVE JobAges'
  <2>1. (\A t \in Slot : t # s => job'[t] = job[t]) /\ AgeOf(s)'
    BY <1>24, Ageing, EndsJob DEF Ends, AgeOf
  <2> QED
    BY <2>1, JobAgesFrame
<1>25. ASSUME NEW s \in Slot, HandleSaved(s) PROVE JobAges'
  <2>1. (\A t \in Slot : t # s => job'[t] = job[t]) /\ AgeOf(s)'
    BY <1>25, Ageing, EndsJob DEF Ends, AgeOf
  <2> QED
    BY <2>1, JobAgesFrame
<1>26. ASSUME NEW s \in Slot, HandleMoved(s) PROVE JobAges'
  <2>1. (\A t \in Slot : t # s => job'[t] = job[t]) /\ AgeOf(s)'
    BY <1>26, Ageing, EndsJob DEF Ends, AgeOf
  <2> QED
    BY <2>1, JobAgesFrame
<1>27. ASSUME NEW s \in Slot, WriteFails(s) PROVE JobAges'
  <2>1. job[s] \in Job /\ job[s] # None /\ AgeOf(s) /\ UNCHANGED revision
    BY <1>27, WriteFailsJob DEF Becomes, Goes, JobAges, WriteFails, edits
  <2>2. job[s].start \in Nat /\ job[s].content \in Nat
    BY <2>1, Fields DEF Revision
  <2>3. (\A t \in Slot : t # s => job'[t] = job[t]) /\ AgeOf(s)'
    BY <1>27, <2>1, <2>2, Ageing, WriteFailsJob DEF Becomes, Goes, AgeOf
  <2> QED
    BY <2>3, JobAgesFrame
<1>28. CASE UNCHANGED vars
  BY <1>28, JobAgesStill DEF vars, jobs
<1>29. CASE RecordStage
  BY <1>29, JobAgesStill DEF RecordStage, jobs
<1> QED
  BY <1>1, <1>2, <1>3, <1>4, <1>5, <1>6, <1>7, <1>8, <1>9, <1>10, <1>11, <1>12, <1>13,
     <1>14, <1>15, <1>16, <1>17, <1>18, <1>19, <1>20, <1>21, <1>22, <1>23, <1>24,
     <1>25, <1>26, <1>27, <1>28, <1>29 DEF Next, Worker, Callback, BatchThread

-----------------------------------------------------------------------------
(* A calm step leaves the files, the project and the saves under way alone. *)

Calm ==
  /\ UNCHANGED <<revision, dirty, project_file, disk>>
  /\ \A t \in Slot : IF Moving(t) THEN job'[t] = job[t] ELSE ~Moving(t)'
  /\ \A t \in Slot : IsMove(t) = IsMove(t)'
  /\ \A t \in Slot : IsMove(t) =>
       /\ job'[t].source = job[t].source /\ job'[t].target = job[t].target
       /\ job'[t].save_failed = job[t].save_failed

LEMMA CalmWhenStill ==
  ASSUME UNCHANGED <<revision, dirty, project_file, disk, job>>
  PROVE  Calm
  BY DEF Calm, Moving, IsMove, Kind

LEMMA CalmWhenFresh ==
  ASSUME UNCHANGED <<revision, dirty, project_file, disk>>,
         NEW kind \in {"autosave", "page", "manual"}, NEW target, NEW source,
         Submits(kind, target, source)
  PROVE  Calm
<1>1. PICK s \in Slot : job[s] = None /\ Fresh(s, kind, target, source)
  BY DEF Submits
<1>2. \A t \in Slot : IF Moving(t) THEN job'[t] = job[t] ELSE ~Moving(t)'
  BY <1>1 DEF Fresh, Moving
<1>3. \A t \in Slot : t # s => job'[t] = job[t]
  BY <1>1 DEF Fresh
<1>4. ~IsMove(s) /\ ~IsMove(s)'
  BY <1>1 DEF Fresh, IsMove, Kind
<1> QED
  BY <1>2, <1>3, <1>4 DEF Calm, IsMove, Kind

Loud ==
  \/ Edit \/ \E p \in Path : Move(p)
  \/ \E s \in Slot :
       \/ Begin(s) \/ BackUp(s) \/ PrepareFails(s) \/ Install(s) \/ Write(s) \/ WriteFails(s)
       \/ Settle(s) \/ HandleError(s) \/ HandleAutosaveFinished(s) \/ HandlePageFinished(s)
       \/ HandleSaveFailed(s) \/ HandleSaved(s) \/ HandleMoved(s)

\* Every step is calm or is one of those that touch files and saves under way.
LEMMA CalmStep ==
  ASSUME Shapes, [Next]_vars
  PROVE  (Calm /\ (UNCHANGED sidecar \/ RecordStage)) \/ Loud
<1>1. CASE ManualSave
  <2>1. UNCHANGED <<revision, dirty, project_file, disk, sidecar>>
    BY <1>1 DEF ManualSave, edits, turns
  <2> QED
    BY <1>1, <2>1, ManualSaveJob, CalmWhenStill, CalmWhenFresh
<1>2. CASE Cancel
  <2>1. UNCHANGED <<revision, dirty, project_file, disk, sidecar>>
    BY <1>2 DEF Cancel, edits
  <2>2. \A t \in Slot : IsMove(t) => job'[t] = job[t]
    <3> SUFFICES ASSUME NEW t \in Slot, IsMove(t), job'[t] # job[t] PROVE FALSE
      OBVIOUS
    <3>1. job[t] # None /\ job[t].at = "queued" /\ ~OnUser(t)
      BY <1>2, CancelJob DEF At
    <3> QED
      BY <3>1 DEF Shapes, Places, PlaceOf, IsMove, OnUser, Kind
  <2>3. \A t \in Slot : ~IsMove(t) => ~IsMove(t)'
    BY <1>2, CancelJob DEF IsMove, Kind
  <2>4. \A t \in Slot : IF Moving(t) THEN job'[t] = job[t] ELSE ~Moving(t)'
    BY <1>2, CancelJob DEF Moving, At
  <2>5. \A t \in Slot : IsMove(t) = IsMove(t)'
    BY <2>2, <2>3 DEF IsMove, Kind
  <2> QED
    BY <2>1, <2>2, <2>4, <2>5 DEF Calm
<1>3. CASE RealtimeTimeout
  <2>1. UNCHANGED <<revision, dirty, project_file, disk, sidecar>>
    BY <1>3 DEF RealtimeTimeout, edits, turns
  <2> QED
    BY <1>3, <2>1, RealtimeJob, CalmWhenStill, CalmWhenFresh
<1>4. CASE IntervalTimeout
  <2>1. UNCHANGED <<revision, dirty, project_file, disk, sidecar>>
    BY <1>4 DEF IntervalTimeout, edits, turns
  <2> QED
    BY <1>4, <2>1, IntervalJob, CalmWhenStill, CalmWhenFresh
<1>5. CASE BatchStart
  BY <1>5, CalmWhenStill DEF BatchStart, edits, flags, turns, jobs
<1>6. CASE BatchPageDone
  <2>1. UNCHANGED <<revision, dirty, project_file, disk, sidecar>>
    BY <1>6 DEF BatchPageDone, edits, turns
  <2> QED
    BY <1>6, <2>1, BatchPageJob, CalmWhenStill, CalmWhenFresh
<1>7. CASE BeginDeferral
  BY <1>7, CalmWhenStill DEF BeginDeferral, edits, flags, turns, jobs
<1>8. CASE BatchBegin
  BY <1>8, CalmWhenStill DEF BatchBegin, edits, flags, turns, jobs
<1>9. CASE EndDeferral
  BY <1>9, CalmWhenStill DEF EndDeferral, edits, flags, turns, jobs
<1>10. CASE EndDeferralSave
  <2>1. UNCHANGED <<revision, dirty, project_file, disk, sidecar>>
    BY <1>10 DEF EndDeferralSave, edits, turns
  <2> QED
    BY <1>10, <2>1, EndDeferralJob, CalmWhenStill, CalmWhenFresh
<1>11. CASE BatchEnd
  BY <1>11, CalmWhenStill DEF BatchEnd, edits, flags, turns, jobs
<1>14. CASE RecordStage
  BY <1>14, CalmWhenStill DEF RecordStage, edits, flags, turns, jobs
<1>12. ASSUME NEW s \in Slot, Queue(s) PROVE Calm /\ UNCHANGED sidecar
  <2>1. UNCHANGED <<revision, dirty, project_file, disk, sidecar>>
    BY <1>12 DEF Queue, edits, turns
  <2>2. /\ job[s] # None /\ job[s].at = "asked" /\ job[s] \in Job
        /\ job'[s] \in Job /\ job'[s].at = "queued" /\ job'[s].kind = job[s].kind
        /\ job'[s].source = job[s].source /\ job'[s].target = job[s].target
        /\ job'[s].save_failed = job[s].save_failed
        /\ \A t \in Slot : t # s => job'[t] = job[t]
    BY <1>12, QueueJob DEF Becomes, Goes
  <2>3. \A t \in Slot : IF Moving(t) THEN job'[t] = job[t] ELSE ~Moving(t)'
    BY <2>2 DEF Moving
  <2>4. job'[s] # None
    BY <2>2
  <2>5. \A t \in Slot : IsMove(t) = IsMove(t)'
    BY <2>2, <2>4 DEF IsMove, Kind
  <2>6. \A t \in Slot :
          /\ job'[t].source = job[t].source /\ job'[t].target = job[t].target
          /\ job'[t].save_failed = job[t].save_failed
    BY <2>2
  <2> QED
    BY <2>1, <2>3, <2>5, <2>6 DEF Calm
<1>13. CASE UNCHANGED vars
  BY <1>13, CalmWhenStill DEF vars, edits, jobs
<1> QED
  BY <1>1, <1>2, <1>3, <1>4, <1>5, <1>6, <1>7, <1>8, <1>9, <1>10, <1>11, <1>12, <1>13, <1>14 DEF
     Next, Worker, Callback, BatchThread, Loud

-----------------------------------------------------------------------------
(* The flag of the autosave.                                                *)

LEMMA PendingFrame ==
  ASSUME Pending, mishaps \subseteq mishaps', save_pending' => save_pending,
         \A t \in Slot : Saves(t) => Saves(t)'
  PROVE  Pending'
  BY DEF Pending

LEMMA PendingStep ==
  ASSUME Shapes, Pending, [Next]_vars
  PROVE  Pending'
<1>1. CASE Edit
  BY <1>1, PendingFrame, MishapsGrow DEF Edit, flags, jobs, Saves, Kind
<1>2. CASE ManualSave
  <2>1. PICK s \in Slot : job[s] = None /\ Fresh(s, "manual", project_file, project_file)
    BY <1>2, ManualSaveJob DEF Submits
  <2>2. \A t \in Slot : Saves(t) => Saves(t)'
    BY <2>1 DEF Fresh, Saves, Kind
  <2> QED
    BY <1>2, <2>2, PendingFrame, MishapsGrow DEF ManualSave, flags
<1>3. CASE Cancel
  <2>1. CASE \E s \in Slot : At(s, "queued")
    BY <1>3, <2>1 DEF Cancel, Pending
  <2>2. CASE ~\E s \in Slot : At(s, "queued")
    <3>1. \A t \in Slot : job'[t] = job[t]
      BY <1>3, <2>2, CancelJob
    <3> QED
      BY <1>3, <3>1, PendingFrame, MishapsGrow DEF Cancel, flags, Saves, Kind
  <2> QED
    BY <2>1, <2>2
<1>4. ASSUME NEW p \in Path, Move(p) PROVE Pending'
  <2>1. PICK s \in Slot : job[s] = None /\ Fresh(s, "move", p, project_file)
    BY <1>4, MoveJob DEF Submits
  <2>2. \A t \in Slot : Saves(t) => Saves(t)'
    BY <2>1 DEF Fresh, Saves, Kind
  <2> QED
    BY <1>4, <2>2, PendingFrame, MishapsGrow DEF Move, flags
<1>5. CASE RealtimeTimeout
  <2>1. CASE UNCHANGED <<job, save_pending>>
    BY <2>1, PendingFrame, MishapsGrow DEF Saves, Kind
  <2>2. CASE Submits("autosave", project_file, Home)
    <3>1. \E s \in Slot : job'[s] \in Job /\ job'[s].kind \in {"autosave", "page"}
      BY <2>2 DEF Submits, Fresh
    <3> QED
      BY <3>1 DEF Pending, Saves, Kind
  <2> QED
    BY <1>5, <2>1, <2>2, RealtimeJob
<1>6. CASE IntervalTimeout
  <2>1. CASE UNCHANGED <<job, save_pending>>
    BY <2>1, PendingFrame, MishapsGrow DEF Saves, Kind
  <2>2. CASE Submits("autosave", Recovery, Home)
    <3>1. \E s \in Slot : job'[s] \in Job /\ job'[s].kind \in {"autosave", "page"}
      BY <2>2 DEF Submits, Fresh
    <3> QED
      BY <3>1 DEF Pending, Saves, Kind
  <2> QED
    BY <1>6, <2>1, <2>2, IntervalJob
<1>7. CASE BatchStart
  BY <1>7, PendingFrame, MishapsGrow DEF BatchStart, flags, jobs, Saves, Kind
<1>8. CASE BatchPageDone
  <2>1. CASE UNCHANGED <<job, save_pending>>
    BY <2>1, PendingFrame, MishapsGrow DEF Saves, Kind
  <2>2. CASE Submits("page", project_file, Home)
    <3>1. \E s \in Slot : job'[s] \in Job /\ job'[s].kind \in {"autosave", "page"}
      BY <2>2 DEF Submits, Fresh
    <3> QED
      BY <3>1 DEF Pending, Saves, Kind
  <2> QED
    BY <1>8, <2>1, <2>2, BatchPageJob
<1>9. CASE BeginDeferral
  BY <1>9, PendingFrame, MishapsGrow DEF BeginDeferral, flags, jobs, Saves, Kind
<1>10. CASE BatchBegin
  BY <1>10, PendingFrame, MishapsGrow DEF BatchBegin, flags, jobs, Saves, Kind
<1>11. CASE EndDeferral
  BY <1>11, PendingFrame, MishapsGrow DEF EndDeferral, flags, jobs, Saves, Kind
<1>12. CASE EndDeferralSave
  <2>1. CASE UNCHANGED <<job, save_pending>>
    BY <2>1, PendingFrame, MishapsGrow DEF Saves, Kind
  <2>2. CASE Submits("page", project_file, Home)
    <3>1. \E s \in Slot : job'[s] \in Job /\ job'[s].kind \in {"autosave", "page"}
      BY <2>2 DEF Submits, Fresh
    <3> QED
      BY <3>1 DEF Pending, Saves, Kind
  <2> QED
    BY <1>12, <2>1, <2>2, EndDeferralJob
<1>13. CASE BatchEnd
  BY <1>13, PendingFrame, MishapsGrow DEF BatchEnd, flags, jobs, Saves, Kind
<1>14. ASSUME NEW s \in Slot, Begin(s) PROVE Pending'
  <2>1. \A t \in Slot : Saves(t) => Saves(t)'
    BY <1>14, BeginJob DEF Goes, Saves, Kind
  <2>2. save_pending' => save_pending
    BY <1>14 DEF Begin, flags
  <2> QED
    BY <2>1, <2>2, PendingFrame, MishapsGrow
<1>15. ASSUME NEW s \in Slot, BackUp(s) PROVE Pending'
  <2>1. \A t \in Slot : Saves(t) => Saves(t)'
    BY <1>15, BackUpJob DEF Becomes, Goes, Saves, Kind
  <2>2. save_pending' => save_pending
    BY <1>15 DEF BackUp, flags
  <2> QED
    BY <2>1, <2>2, PendingFrame, MishapsGrow
<1>16. ASSUME NEW s \in Slot, PrepareFails(s) PROVE Pending'
  <2>1. \A t \in Slot : Saves(t) => Saves(t)'
    BY <1>16, PrepareFailsJob DEF Becomes, Goes, Saves, Kind
  <2>2. save_pending' => save_pending
    BY <1>16 DEF PrepareFails, flags
  <2> QED
    BY <2>1, <2>2, PendingFrame, MishapsGrow
<1>17. ASSUME NEW s \in Slot, Install(s) PROVE Pending'
  <2>1. \A t \in Slot : Saves(t) => Saves(t)'
    BY <1>17, InstallJob DEF Becomes, Goes, Saves, Kind
  <2>2. save_pending' => save_pending
    BY <1>17 DEF Install, flags
  <2> QED
    BY <2>1, <2>2, PendingFrame, MishapsGrow
<1>18. ASSUME NEW s \in Slot, Write(s) PROVE Pending'
  <2>1. \A t \in Slot : Saves(t) => Saves(t)'
    BY <1>18, WriteJob DEF Becomes, Goes, Saves, Kind
  <2>2. save_pending' => save_pending
    BY <1>18 DEF Write, flags
  <2> QED
    BY <2>1, <2>2, PendingFrame, MishapsGrow
<1>19. ASSUME NEW s \in Slot, Settle(s) PROVE Pending'
  <2>1. \A t \in Slot : Saves(t) => Saves(t)'
    BY <1>19, SettleJob DEF Becomes, Goes, Saves, Kind
  <2>2. save_pending' => save_pending
    BY <1>19 DEF Settle, flags
  <2> QED
    BY <2>1, <2>2, PendingFrame, MishapsGrow
<1>20. ASSUME NEW s \in Slot, Queue(s) PROVE Pending'
  <2>1. \A t \in Slot : Saves(t) => Saves(t)'
    BY <1>20, QueueJob DEF Becomes, Goes, Saves, Kind
  <2>2. save_pending' => save_pending
    BY <1>20 DEF Queue, flags
  <2> QED
    BY <2>1, <2>2, PendingFrame, MishapsGrow
<1>21. ASSUME NEW s \in Slot, HandleError(s) PROVE Pending'
  <2>1. \A t \in Slot : Saves(t) => Saves(t)'
    <3>1. /\ job[s] # None /\ job[s].at = "failed"
          /\ \A t \in Slot : t # s => job'[t] = job[t] \/ NewPage(t)
      BY <1>21, HandleErrorJob DEF Reports
    <3>2. \A t \in Slot : NewPage(t) \/ job'[t] = job[t] => (Saves(t) => Saves(t)')
      BY DEF NewPage, Saves, Kind
    <3>3. Saves(s) => Saves(s)'
      BY <1>21, HandleErrorJob DEF Reports, Saves, Kind
    <3> QED
      BY <3>1, <3>2, <3>3
  <2>2. CASE save_pending' => save_pending
    BY <2>1, <2>2, PendingFrame, MishapsGrow
  <2>3. ASSUME NEW t \in Slot, NewPage(t) PROVE Pending'
    BY <2>3 DEF NewPage, Pending, Saves, Kind
  <2> QED
    BY <1>21, <2>2, <2>3, HandleErrorJob
<1>22. ASSUME NEW s \in Slot, HandleAutosaveFinished(s) PROVE Pending'
  BY <1>22 DEF HandleAutosaveFinished, Pending
<1>23. ASSUME NEW s \in Slot, HandlePageFinished(s) PROVE Pending'
  <2>1. CASE save_pending' = FALSE
    BY <2>1 DEF Pending
  <2>2. CASE Fresh(s, "page", project_file, Home)
    BY <2>2 DEF Fresh, Pending, Saves, Kind
  <2> QED
    BY <1>23, <2>1, <2>2, PageFinishedJob
<1>24. ASSUME NEW s \in Slot, HandleSaveFailed(s) PROVE Pending'
  <2>1. job[s].kind \in {"manual", "move"} /\ UNCHANGED save_pending
    BY <1>24 DEF HandleSaveFailed, flags
  <2>2. \A t \in Slot : Saves(t) => Saves(t)'
    BY <1>24, <2>1, EndsJob DEF Ends, Saves, Kind
  <2> QED
    BY <2>1, <2>2, PendingFrame, MishapsGrow
<1>25. ASSUME NEW s \in Slot, HandleSaved(s) PROVE Pending'
  <2>1. job[s].kind \in {"manual", "move"} /\ UNCHANGED save_pending
    BY <1>25 DEF HandleSaved, flags
  <2>2. \A t \in Slot : Saves(t) => Saves(t)'
    BY <1>25, <2>1, EndsJob DEF Ends, Saves, Kind
  <2> QED
    BY <2>1, <2>2, PendingFrame, MishapsGrow
<1>26. ASSUME NEW s \in Slot, HandleMoved(s) PROVE Pending'
  <2>1. job[s].kind \in {"manual", "move"} /\ UNCHANGED save_pending
    BY <1>26 DEF HandleMoved, flags
  <2>2. \A t \in Slot : Saves(t) => Saves(t)'
    BY <1>26, <2>1, EndsJob DEF Ends, Saves, Kind
  <2> QED
    BY <2>1, <2>2, PendingFrame, MishapsGrow
<1>27. ASSUME NEW s \in Slot, WriteFails(s) PROVE Pending'
  <2>1. \A t \in Slot : Saves(t) => Saves(t)'
    BY <1>27, WriteFailsJob DEF Becomes, Goes, Saves, Kind
  <2>2. save_pending' => save_pending
    BY <1>27 DEF WriteFails, flags
  <2> QED
    BY <2>1, <2>2, PendingFrame, MishapsGrow
<1>28. CASE UNCHANGED vars
  BY <1>28, PendingFrame, MishapsGrow DEF vars, flags, jobs, Saves, Kind
<1>29. CASE RecordStage
  BY <1>29, PendingFrame, MishapsGrow DEF RecordStage, flags, jobs, Saves, Kind
<1> QED
  BY <1>1, <1>2, <1>3, <1>4, <1>5, <1>6, <1>7, <1>8, <1>9, <1>10, <1>11, <1>12, <1>13,
     <1>14, <1>15, <1>16, <1>17, <1>18, <1>19, <1>20, <1>21, <1>22, <1>23, <1>24,
     <1>25, <1>26, <1>27, <1>28, <1>29 DEF Next, Worker, Callback, BatchThread

-----------------------------------------------------------------------------
(* Sidecars.                                                                *)

FilesChanged ==
  \/ UNCHANGED disk
  \/ \E f \in Files, x \in Revision : disk' = [disk EXCEPT ![f] = x]
  \/ \E f, g \in Files : disk' = [[disk EXCEPT ![f] = Absent] EXCEPT ![g] = Absent]

\* A step writes one file, or removes the recovery checkpoint and perhaps another.
LEMMA FilesChange ==
  ASSUME Shapes, [Next]_vars
  PROVE  FilesChanged
<1>1. CASE Calm
  BY <1>1 DEF Calm, FilesChanged
<1>2. CASE Edit
  BY <1>2 DEF Edit, edits, FilesChanged
<1>3. ASSUME NEW p \in Path, Move(p) PROVE FilesChanged
  BY <1>3 DEF Move, edits, FilesChanged
<1>4. ASSUME NEW s \in Slot, Begin(s) PROVE FilesChanged
  BY <1>4 DEF Begin, edits, FilesChanged
<1>5. ASSUME NEW s \in Slot, BackUp(s) PROVE FilesChanged
  BY <1>5 DEF BackUp, edits, FilesChanged
<1>6. ASSUME NEW s \in Slot, PrepareFails(s) PROVE FilesChanged
  BY <1>6 DEF PrepareFails, edits, FilesChanged
<1>7. ASSUME NEW s \in Slot, Install(s) PROVE FilesChanged
  BY <1>7 DEF Install, edits, FilesChanged
<1>8. ASSUME NEW s \in Slot, Write(s) PROVE FilesChanged
  <2>1. job[s].target \in Files /\ job[s].content \in Revision
    BY <1>8, WriteJob, Fields DEF Becomes, Goes
  <2> QED
    BY <1>8, <2>1 DEF Write, FilesChanged
<1>9. ASSUME NEW s \in Slot, Settle(s) PROVE FilesChanged
  BY <1>9 DEF Settle, edits, FilesChanged
<1>10. ASSUME NEW s \in Slot, HandleError(s) PROVE FilesChanged
  BY <1>10 DEF HandleError, edits, FilesChanged
<1>11. ASSUME NEW s \in Slot, HandleAutosaveFinished(s) PROVE FilesChanged
  <2>1. Recovery \in Files
    BY <1>11, Targets
  <2>2. [disk EXCEPT ![Recovery] = Absent] =
          [[disk EXCEPT ![Recovery] = Absent] EXCEPT ![Recovery] = Absent]
    BY <2>1 DEF Shapes, TypeOK
  <2> QED
    BY <1>11, <2>1, <2>2 DEF HandleAutosaveFinished, Cleared, FilesChanged
<1>12. ASSUME NEW s \in Slot, HandlePageFinished(s) PROVE FilesChanged
  <2>1. Recovery \in Files
    BY <1>12, Targets
  <2>2. [disk EXCEPT ![Recovery] = Absent] =
          [[disk EXCEPT ![Recovery] = Absent] EXCEPT ![Recovery] = Absent]
    BY <2>1 DEF Shapes, TypeOK
  <2> QED
    BY <1>12, <2>1, <2>2 DEF HandlePageFinished, Cleared, FilesChanged
<1>13. ASSUME NEW s \in Slot, HandleSaveFailed(s) PROVE FilesChanged
  BY <1>13 DEF HandleSaveFailed, edits, FilesChanged
<1>14. ASSUME NEW s \in Slot, HandleSaved(s) PROVE FilesChanged
  <2>1. Recovery \in Files
    BY <1>14, Targets
  <2>2. [disk EXCEPT ![Recovery] = Absent] =
          [[disk EXCEPT ![Recovery] = Absent] EXCEPT ![Recovery] = Absent]
    BY <2>1 DEF Shapes, TypeOK
  <2> QED
    BY <1>14, <2>1, <2>2 DEF HandleSaved, Cleared, FilesChanged
<1>15. ASSUME NEW s \in Slot, HandleMoved(s) PROVE FilesChanged
  <2>1. Recovery \in Files /\ job[s].source \in Files
    BY <1>15, EndsJob, PageFinishedJob, Fields, Targets DEF Ends, Files, HandleMoved, At
  <2>2. [disk EXCEPT ![Recovery] = Absent] =
          [[disk EXCEPT ![Recovery] = Absent] EXCEPT ![Recovery] = Absent]
    BY <2>1 DEF Shapes, TypeOK
  <2> QED
    BY <1>15, <2>1, <2>2 DEF HandleMoved, Cleared, FilesChanged
<1>16. ASSUME NEW s \in Slot, WriteFails(s) PROVE FilesChanged
  BY <1>16 DEF WriteFails, edits, FilesChanged
<1> QED
  BY CalmStep, <1>1, <1>2, <1>3, <1>4, <1>5, <1>6, <1>7, <1>8, <1>9, <1>10, <1>11,
     <1>12, <1>13, <1>14, <1>15, <1>16 DEF Loud

\* The files of another project are nobody's to write.
LEMMA ForeignFiles ==
  ASSUME Shapes, [Next]_vars, NEW p \in Path, disk'[p] = Foreign
  PROVE  disk[p] = Foreign
<1>1. FilesChanged
  BY FilesChange
<1>2. p \in Files /\ disk \in [Files -> Revision \cup {Absent, Foreign}]
  BY DEF Files, Shapes, TypeOK
<1> QED
  BY <1>1, <1>2, NoFile DEF FilesChanged

LiveMove(s) == IsMove(s) /\ OnUser(s)

LEMMA MovesAlone ==
  ASSUME Shapes, User, NEW s \in Slot, NEW t \in Slot, LiveMove(s), Replacing(t) \/ LiveMove(t)
  PROVE  s = t
<1>1. OnUser(t)
  BY DEF Replacing, LiveMove, OnUser, IsMove, Kind, Shapes, Places, PlaceOf
<1> QED
  BY <1>1 DEF LiveMove, User, OneOnUser

\* A step that leaves the moves in progress alone and no sidecar of another's project.
LEMMA SideFrame ==
  ASSUME Shapes, Sides, [Next]_vars,
         \A p \in Path : (sidecar'[p] = "foreign") = (sidecar[p] = "foreign"),
         \A t \in Slot : Replacing(t) \/ Replacing(t)' => Replacing(t) /\ job'[t] = job[t]
  PROVE  Sides'
<1>1. \A t \in Slot : Replacing(t) => Replacing(t)'
  BY DEF Replacing, IsMove, Kind
<1>2. PutAside'
  BY <1>1, ForeignFiles DEF Sides, PutAside
<1>3. BackedUp'
  <2> SUFFICES ASSUME NEW t \in Slot, Replacing(t)', disk'[job'[t].target] = Foreign
               PROVE  \/ job'[t].backup = "foreign"
                      \/ /\ job'[t].at = "writing" /\ job'[t].copy = "none"
                         /\ job'[t].backup = "none" /\ sidecar'[job'[t].target] = "foreign"
    BY DEF BackedUp
  <2>1. Replacing(t) /\ job'[t] = job[t]
    OBVIOUS
  <2>2. job[t].target \in Path
    BY <2>1 DEF Replacing, IsMove, Kind, Shapes, Aims, AimOf
  <2>3. disk[job[t].target] = Foreign
    BY <2>1, <2>2, ForeignFiles
  <2> QED
    BY <2>1, <2>2, <2>3 DEF Sides, BackedUp
<1> QED
  BY <1>2, <1>3 DEF Sides

\* Where a move has just begun with its target, the sidecar there is still its owner's.
LEMMA BesideIt ==
  ASSUME Shapes, User, Sides, NEW s \in Slot, LiveMove(s), ~Replacing(s),
         disk[job[s].target] = Foreign, job[s].target \in Path
  PROVE  sidecar[job[s].target] = "foreign"
  BY MovesAlone DEF Sides, PutAside

\* The only move in progress is that of slot s.
LEMMA SidesOfOne ==
  ASSUME Shapes, User, Sides, [Next]_vars, NEW s \in Slot, LiveMove(s), Goes(s),
         \A p \in Path : p # job[s].target => sidecar'[p] = sidecar[p],
         disk'[job[s].target] = Foreign =>
           IF Replacing(s)'
           THEN \/ job'[s].backup = "foreign"
                \/ /\ job'[s].at = "writing" /\ job'[s].copy = "none"
                   /\ job'[s].backup = "none" /\ sidecar'[job[s].target] = "foreign"
           ELSE sidecar'[job[s].target] = "foreign"
  PROVE  Sides'
<1>1. \A t \in Slot : t # s => ~Replacing(t) /\ ~Replacing(t)'
  BY MovesAlone DEF Goes, Replacing, IsMove, Kind
<1>2. job'[s].target = job[s].target
  BY DEF Goes
<1>3. PutAside'
  <2> SUFFICES ASSUME NEW p \in Path, disk'[p] = Foreign, sidecar'[p] # "foreign"
               PROVE  \E t \in Slot : (Replacing(t) /\ job[t].target = p)'
    BY DEF PutAside
  <2>1. disk[p] = Foreign
    BY ForeignFiles
  <2>2. CASE p # job[s].target
    BY <1>1, <2>1, <2>2 DEF Sides, PutAside
  <2>3. CASE p = job[s].target
    BY <1>2, <2>3
  <2> QED
    BY <2>2, <2>3
<1>4. BackedUp'
  BY <1>1, <1>2 DEF BackedUp
<1> QED
  BY <1>3, <1>4 DEF Sides

LEMMA SidesStep ==
  ASSUME Shapes, User, Sides, [Next]_vars
  PROVE  Sides'
<1>1. CASE Calm /\ (UNCHANGED sidecar \/ RecordStage)
  <2>1. \A p \in Path : (sidecar'[p] = "foreign") = (sidecar[p] = "foreign")
    <3>1. CASE UNCHANGED sidecar
      BY <3>1
    <3>2. CASE RecordStage
      BY <3>2 DEF RecordStage
    <3> QED
      BY <1>1, <3>1, <3>2
  <2>2. \A t \in Slot : Replacing(t) \/ Replacing(t)' => Replacing(t) /\ job'[t] = job[t]
    BY <1>1 DEF Calm, Moving, Replacing, IsMove, Kind
  <2> QED
    BY <2>1, <2>2, SideFrame
<1>2. CASE Edit
  <2>1. \A p \in Path : (sidecar'[p] = "foreign") = (sidecar[p] = "foreign")
    BY <1>2 DEF Edit
  <2>2. \A t \in Slot : Replacing(t) \/ Replacing(t)' => Replacing(t) /\ job'[t] = job[t]
    BY <1>2 DEF Edit, jobs, Replacing, IsMove, Kind
  <2> QED
    BY <2>1, <2>2, SideFrame
<1>3. ASSUME NEW p \in Path, Move(p) PROVE Sides'
  <2>1. PICK s \in Slot : job[s] = None /\ Fresh(s, "move", p, project_file)
    BY <1>3, MoveJob DEF Submits
  <2>2. \A t \in Slot : Replacing(t) \/ Replacing(t)' => Replacing(t) /\ job'[t] = job[t]
    BY <2>1 DEF Fresh, Replacing, IsMove, Kind
  <2>3. UNCHANGED sidecar
    BY <1>3 DEF Move
  <2> QED
    BY <2>2, <2>3, SideFrame
<1>4. ASSUME NEW s \in Slot, Begin(s) PROVE Sides'
  <2>1. \A p \in Path : (sidecar'[p] = "foreign") = (sidecar[p] = "foreign")
    BY <1>4 DEF Begin
  <2>2. \A t \in Slot : Replacing(t) \/ Replacing(t)' => Replacing(t) /\ job'[t] = job[t]
    BY <1>4, BeginJob DEF Goes, Replacing, IsMove, Kind
  <2> QED
    BY <2>1, <2>2, SideFrame
<1>5. ASSUME NEW s \in Slot, BackUp(s) PROVE Sides'
  <2>1. LiveMove(s) /\ Goes(s) /\ job[s].target \in Path /\ job[s] # None
    BY <1>5, BackUpJob DEF Becomes, LiveMove, OnUser, IsMove, Kind, Shapes, Places,
       PlaceOf, Aims, AimOf
  <2>2. \A p \in Path : p # job[s].target => sidecar'[p] = sidecar[p]
    BY <1>5, <2>1 DEF BackUp, Shapes, TypeOK
  <2>3. ~Replacing(s) /\ UNCHANGED disk
        /\ job'[s].backup = sidecar[job[s].target]
    BY <1>5, BackUpJob DEF BackUp, Becomes, Replacing
  <2>4. disk[job[s].target] = Foreign => job'[s].backup = "foreign"
    BY <2>1, <2>3, BesideIt
  <2>5. Replacing(s)'
    BY <1>5, <2>1, BackUpJob DEF Becomes, Goes, LiveMove, Replacing, IsMove, Kind
  <2> QED
    BY <2>1, <2>2, <2>3, <2>4, <2>5, SidesOfOne
<1>6. ASSUME NEW s \in Slot, PrepareFails(s) PROVE Sides'
  <2>1. LiveMove(s) /\ Goes(s) /\ job[s].target \in Path /\ job[s] # None
    BY <1>6, PrepareFailsJob DEF Becomes, LiveMove, OnUser, IsMove, Kind, Shapes, Places,
       PlaceOf, Aims, AimOf
  <2>2. \A p \in Path : p # job[s].target => sidecar'[p] = sidecar[p]
    BY <1>6, <2>1 DEF PrepareFails, Shapes, TypeOK
  <2>3. /\ UNCHANGED disk /\ job'[s].at = "writing"
        /\ job'[s].copy = "none" /\ job'[s].backup = "none"
    BY <1>6, PrepareFailsJob DEF PrepareFails, Becomes
  <2>4. sidecar'[job[s].target] = IF job[s].backup # "none" THEN job[s].backup
                                  ELSE sidecar[job[s].target]
    BY <1>6, <2>1 DEF PrepareFails, Shapes, TypeOK
  <2>5. disk[job[s].target] = Foreign => sidecar'[job[s].target] = "foreign"
    <3>1. CASE job[s].at = "installing"
      BY <2>1, <2>4, <3>1 DEF Sides, BackedUp, Replacing, LiveMove
    <3>2. CASE job[s].at = "backing up"
      <4>1. job[s].backup = "none" /\ ~Replacing(s)
        BY <2>1, <3>2 DEF Replacing, Shapes, Places, PlaceOf
      <4> QED
        BY <2>1, <2>4, <4>1, BesideIt
    <3> QED
      BY <1>6, <3>1, <3>2, PrepareFailsJob
  <2> QED
    BY <2>1, <2>2, <2>3, <2>5, SidesOfOne
<1>7. ASSUME NEW s \in Slot, Install(s) PROVE Sides'
  <2>1. LiveMove(s) /\ Goes(s) /\ job[s].target \in Path /\ job[s] # None
    BY <1>7, InstallJob DEF Becomes, LiveMove, OnUser, IsMove, Kind, Shapes, Places,
       PlaceOf, Aims, AimOf
  <2>2. \A p \in Path : p # job[s].target => sidecar'[p] = sidecar[p]
    BY <1>7, <2>1 DEF Install, Shapes, TypeOK
  <2>3. /\ Replacing(s) /\ job[s].at = "installing" /\ UNCHANGED disk
        /\ job'[s].backup = job[s].backup
    BY <1>7, <2>1, InstallJob DEF Install, Becomes, Replacing, LiveMove
  <2>4. disk[job[s].target] = Foreign => job'[s].backup = "foreign"
    BY <2>1, <2>3 DEF Sides, BackedUp
  <2>5. Replacing(s)'
    BY <1>7, <2>1, InstallJob DEF Becomes, Goes, LiveMove, Replacing, IsMove, Kind
  <2> QED
    BY <2>1, <2>2, <2>3, <2>4, <2>5, SidesOfOne
<1>8. ASSUME NEW s \in Slot, Write(s) PROVE Sides'
  <2>1. job[s] # None /\ job[s].at = "writing" /\ Goes(s) /\ job'[s].at = "settling"
    BY <1>8, WriteJob DEF Becomes
  <2>2. UNCHANGED sidecar
    BY <1>8 DEF Write
  <2>3. disk'[job[s].target] # Foreign
    <3>1. job[s].target \in Files /\ job[s].content \in Revision
      BY <2>1, Fields DEF Goes
    <3> QED
      BY <1>8, <3>1, NoFile DEF Write, Shapes, TypeOK
  <2>4. CASE job[s].kind = "move"
    <3>1. LiveMove(s)
      BY <2>1, <2>4 DEF LiveMove, OnUser, IsMove, Kind, Shapes, Places, PlaceOf
    <3> QED
      BY <2>1, <2>2, <2>3, <3>1, SidesOfOne
  <2>5. CASE job[s].kind # "move"
    <3>1. \A t \in Slot : Replacing(t) \/ Replacing(t)' => Replacing(t) /\ job'[t] = job[t]
      BY <2>1, <2>5 DEF Goes, Replacing, IsMove, Kind
    <3> QED
      BY <2>2, <3>1, SideFrame
  <2> QED
    BY <2>4, <2>5
<1>9. ASSUME NEW s \in Slot, Settle(s) PROVE Sides'
  <2>1. \A p \in Path : (sidecar'[p] = "foreign") = (sidecar[p] = "foreign")
    <3>1. CASE UNCHANGED sidecar
      BY <3>1
    <3>2. CASE /\ sidecar[job[s].target] = "none"
               /\ sidecar' = [sidecar EXCEPT ![job[s].target] = "behind"]
      BY <3>2 DEF Shapes, TypeOK
    <3> QED
      BY <1>9, <3>1, <3>2 DEF Settle
  <2>2. \A t \in Slot : Replacing(t) \/ Replacing(t)' => Replacing(t) /\ job'[t] = job[t]
    BY <1>9, SettleJob DEF Becomes, Goes, Replacing, IsMove, Kind
  <2> QED
    BY <2>1, <2>2, SideFrame
<1>10. ASSUME NEW s \in Slot, HandleError(s) PROVE Sides'
  <2>1. \A p \in Path : (sidecar'[p] = "foreign") = (sidecar[p] = "foreign")
    BY <1>10 DEF HandleError
  <2>2. \A t \in Slot : Replacing(t) \/ Replacing(t)' => Replacing(t) /\ job'[t] = job[t]
    BY <1>10, HandleErrorJob DEF Reports, NewPage, Replacing, IsMove, Kind
  <2> QED
    BY <2>1, <2>2, SideFrame
<1>11. ASSUME NEW s \in Slot, HandleAutosaveFinished(s) PROVE Sides'
  <2>1. \A p \in Path : (sidecar'[p] = "foreign") = (sidecar[p] = "foreign")
    BY <1>11 DEF HandleAutosaveFinished
  <2>2. \A t \in Slot : Replacing(t) \/ Replacing(t)' => Replacing(t) /\ job'[t] = job[t]
    BY <1>11, EndsJob DEF Ends, Replacing, IsMove, Kind
  <2> QED
    BY <2>1, <2>2, SideFrame
<1>12. ASSUME NEW s \in Slot, HandlePageFinished(s) PROVE Sides'
  <2>1. \A p \in Path : (sidecar'[p] = "foreign") = (sidecar[p] = "foreign")
    BY <1>12 DEF HandlePageFinished
  <2>2. \A t \in Slot : Replacing(t) \/ Replacing(t)' => Replacing(t) /\ job'[t] = job[t]
    BY <1>12, PageFinishedJob DEF Ends, Fresh, HandlePageFinished, At, Replacing, IsMove,
       Kind
  <2> QED
    BY <2>1, <2>2, SideFrame
<1>13. ASSUME NEW s \in Slot, HandleSaveFailed(s) PROVE Sides'
  <2>1. \A p \in Path : (sidecar'[p] = "foreign") = (sidecar[p] = "foreign")
    BY <1>13 DEF HandleSaveFailed
  <2>2. \A t \in Slot : Replacing(t) \/ Replacing(t)' => Replacing(t) /\ job'[t] = job[t]
    BY <1>13, EndsJob DEF Ends, Replacing, IsMove, Kind
  <2> QED
    BY <2>1, <2>2, SideFrame
<1>14. ASSUME NEW s \in Slot, HandleSaved(s) PROVE Sides'
  <2>1. \A p \in Path : (sidecar'[p] = "foreign") = (sidecar[p] = "foreign")
    BY <1>14 DEF HandleSaved
  <2>2. \A t \in Slot : Replacing(t) \/ Replacing(t)' => Replacing(t) /\ job'[t] = job[t]
    BY <1>14, EndsJob DEF Ends, Replacing, IsMove, Kind
  <2> QED
    BY <2>1, <2>2, SideFrame
<1>15. ASSUME NEW s \in Slot, HandleMoved(s) PROVE Sides'
  <2>1. \A p \in Path : (sidecar'[p] = "foreign") = (sidecar[p] = "foreign")
    <3>1. CASE UNCHANGED sidecar
      BY <3>1
    <3>2. CASE /\ sidecar[job[s].source] \in {"own", "behind"}
               /\ sidecar' = [sidecar EXCEPT ![job[s].source] = "none"]
      BY <3>2 DEF Shapes, TypeOK
    <3> QED
      BY <1>15, <3>1, <3>2 DEF HandleMoved, Finalized
  <2>2. \A t \in Slot : Replacing(t) \/ Replacing(t)' => Replacing(t) /\ job'[t] = job[t]
    BY <1>15, EndsJob DEF Ends, Replacing, IsMove, Kind
  <2> QED
    BY <2>1, <2>2, SideFrame
<1>16. ASSUME NEW s \in Slot, WriteFails(s) PROVE Sides'
  <2>1. job[s] # None /\ job[s].at = "writing" /\ Goes(s) /\ job'[s].at = "failed"
    BY <1>16, WriteFailsJob DEF Becomes
  <2>2. UNCHANGED disk
    BY <1>16 DEF WriteFails
  <2>3. CASE job[s].kind = "move"
    <3>1. LiveMove(s) /\ Replacing(s) /\ ~Replacing(s)' /\ job[s].target \in Path
      BY <2>1, <2>3 DEF LiveMove, OnUser, Replacing, IsMove, Kind, Shapes, Places,
         PlaceOf, Aims, AimOf
    <3>2. \A p \in Path : p # job[s].target => sidecar'[p] = sidecar[p]
      BY <1>16, <3>1 DEF WriteFails, Shapes, TypeOK
    <3>3. disk[job[s].target] = Foreign => sidecar'[job[s].target] = "foreign"
      BY <1>16, <3>1 DEF WriteFails, Sides, BackedUp, Shapes, TypeOK
    <3> QED
      BY <2>1, <2>2, <3>1, <3>2, <3>3, SidesOfOne
  <2>4. CASE job[s].kind # "move"
    <3>1. \A t \in Slot : Replacing(t) \/ Replacing(t)' => Replacing(t) /\ job'[t] = job[t]
      BY <2>1, <2>4 DEF Goes, Replacing, IsMove, Kind
    <3>2. UNCHANGED sidecar
      BY <1>16, <2>1, <2>4 DEF WriteFails, Shapes, Places, PlaceOf
    <3> QED
      BY <3>1, <3>2, SideFrame
  <2> QED
    BY <2>3, <2>4
<1> QED
  BY CalmStep, <1>1, <1>2, <1>3, <1>4, <1>5, <1>6, <1>7, <1>8, <1>9, <1>10, <1>11,
     <1>12, <1>13, <1>14, <1>15, <1>16 DEF Loud

-----------------------------------------------------------------------------
(* Files.                                                                   *)

LEMMA FileAgesFrame ==
  ASSUME Shapes, FileAges, [Next]_vars,
         \A f \in Files : disk'[f] = disk[f] \/ disk'[f] = Absent
  PROVE  FileAges'
<1> SUFFICES ASSUME NEW f \in Files, disk'[f] \in Revision PROVE disk'[f] <= revision'
  BY DEF FileAges
<1>1. disk'[f] = disk[f] /\ disk[f] <= revision
  BY NoFile DEF FileAges
<1>2. disk'[f] \in Nat
  BY DEF Revision
<1> QED
  BY <1>1, <1>2, Ageing

\* A save that ends clears the recovery checkpoint, a move the old file as well.
Finishes(s) ==
  \/ HandleAutosaveFinished(s) \/ HandlePageFinished(s) \/ HandleSaved(s) \/ HandleMoved(s)

\* What the end of a save does to the files.
LEMMA FinishFiles ==
  ASSUME Shapes, NEW s \in Slot, Finishes(s)
  PROVE  /\ \A f \in Files : disk'[f] = disk[f] \/ disk'[f] = Absent
         /\ job[s].target \in Path => disk'[job[s].target] = disk[job[s].target]
         /\ job[s].kind # "move" => \A p \in Path : disk'[p] = disk[p]
         /\ job[s].target \notin Path => UNCHANGED <<disk, dirty>>
<1>1. job[s] \in Job /\ job[s] # None /\ job[s].target \in Files
  <2>1. job[s] \in Job /\ job[s] # None
    BY DEF Finishes, HandleAutosaveFinished, HandlePageFinished, HandleSaved,
       HandleMoved, At,
           Shapes, TypeOK
  <2> QED
    BY <2>1, Fields
<1>2. disk \in [Files -> Revision \cup {Absent, Foreign}]
  BY DEF Shapes, TypeOK
<1>3. \A f \in Files : Cleared(disk)[f] = IF f = Recovery THEN Absent ELSE disk[f]
  BY <1>2 DEF Cleared
<1>4. Cleared(disk) \in [Files -> Revision \cup {Absent, Foreign}]
  BY <1>2 DEF Cleared
<1>5. AimOf(s) /\ Path \subseteq Files
  BY DEF Shapes, Aims, Files
<1> HIDE DEF Cleared
<1>6. CASE HandleAutosaveFinished(s)
  BY <1>1, <1>3, <1>5, <1>6 DEF HandleAutosaveFinished, Files, At
<1>7. CASE HandlePageFinished(s)
  BY <1>1, <1>3, <1>5, <1>7 DEF HandlePageFinished, At, AimOf
<1>8. CASE HandleSaved(s)
  BY <1>1, <1>3, <1>5, <1>8 DEF HandleSaved, At, AimOf
<1>9. CASE HandleMoved(s)
  <2>1. job[s].kind = "move" /\ job[s].target \in Path /\ job[s].target # job[s].source
    BY <1>1, <1>5, <1>9 DEF HandleMoved, At, AimOf
  <2>2. CASE disk' = [Cleared(disk) EXCEPT ![job[s].source] = Absent]
    BY <1>3, <1>4, <1>5, <2>1, <2>2
  <2>3. CASE disk' = Cleared(disk)
    BY <1>3, <1>5, <2>1, <2>3
  <2> QED
    BY <1>9, <2>1, <2>2, <2>3 DEF HandleMoved
<1> QED
  BY <1>6, <1>7, <1>8, <1>9 DEF Finishes

\* No file is newer than the edits.
LEMMA FileAgesStep ==
  ASSUME Shapes, JobAges, FileAges, [Next]_vars
  PROVE  FileAges'
<1>1. CASE Calm
  BY <1>1, FileAgesFrame DEF Calm
<1>2. CASE Edit
  BY <1>2, FileAgesFrame DEF Edit
<1>3. ASSUME NEW p \in Path, Move(p) PROVE FileAges'
  BY <1>3, FileAgesFrame DEF Move
<1>4. ASSUME NEW s \in Slot, Begin(s) PROVE FileAges'
  BY <1>4, FileAgesFrame DEF Begin
<1>5. ASSUME NEW s \in Slot, BackUp(s) PROVE FileAges'
  BY <1>5, FileAgesFrame DEF BackUp
<1>6. ASSUME NEW s \in Slot, PrepareFails(s) PROVE FileAges'
  BY <1>6, FileAgesFrame DEF PrepareFails
<1>7. ASSUME NEW s \in Slot, Install(s) PROVE FileAges'
  BY <1>7, FileAgesFrame DEF Install
<1>8. ASSUME NEW s \in Slot, Write(s) PROVE FileAges'
  <2>1. job[s] \in Job /\ job[s] # None /\ job[s].at = "writing" /\ UNCHANGED revision
    BY <1>8, WriteJob DEF Becomes, Goes, Write, edits
  <2>2. job[s].target \in Files /\ job[s].content <= revision
    BY <2>1, Fields DEF JobAges, AgeOf
  <2>3. \A f \in Files : disk'[f] = IF f = job[s].target THEN job[s].content ELSE disk[f]
    BY <1>8, <2>2 DEF Write, Shapes, TypeOK
  <2> QED
    BY <2>1, <2>2, <2>3 DEF FileAges
<1>9. ASSUME NEW s \in Slot, Settle(s) PROVE FileAges'
  BY <1>9, FileAgesFrame DEF Settle
<1>10. ASSUME NEW s \in Slot, HandleError(s) PROVE FileAges'
  BY <1>10, FileAgesFrame DEF HandleError
<1>11. ASSUME NEW s \in Slot, HandleAutosaveFinished(s) PROVE FileAges'
  BY <1>11, FinishFiles, FileAgesFrame DEF Finishes
<1>12. ASSUME NEW s \in Slot, HandlePageFinished(s) PROVE FileAges'
  BY <1>12, FinishFiles, FileAgesFrame DEF Finishes
<1>13. ASSUME NEW s \in Slot, HandleSaveFailed(s) PROVE FileAges'
  BY <1>13, FileAgesFrame DEF HandleSaveFailed
<1>14. ASSUME NEW s \in Slot, HandleSaved(s) PROVE FileAges'
  BY <1>14, FinishFiles, FileAgesFrame DEF Finishes
<1>15. ASSUME NEW s \in Slot, HandleMoved(s) PROVE FileAges'
  BY <1>15, FinishFiles, FileAgesFrame DEF Finishes
<1>16. ASSUME NEW s \in Slot, WriteFails(s) PROVE FileAges'
  BY <1>16, FileAgesFrame DEF WriteFails
<1> QED
  BY CalmStep, <1>1, <1>2, <1>3, <1>4, <1>5, <1>6, <1>7, <1>8, <1>9, <1>10, <1>11,
     <1>12, <1>13, <1>14, <1>15, <1>16 DEF Loud

\* Without an overtaking a save under way is the only one.
LEMMA OnlyMoving ==
  ASSUME Alone, "together" \notin mishaps, NEW s \in Slot, Moving(s), NEW t \in Slot, t # s
  PROVE  ~Moving(t)
  BY DEF Alone

\* What is newest stays so while the files stay.
LEMMA NewestFrame ==
  ASSUME Newest, mishaps \subseteq mishaps', UNCHANGED disk,
         \A t \in Slot : job'[t] = job[t] \/ ~Moving(t)'
                         \/ ("together" \notin mishaps => NewestOf(t)')
  PROVE  Newest'
<1> SUFFICES ASSUME "together" \notin mishaps', NEW t \in Slot PROVE NewestOf(t)'
  BY DEF Newest
<1>1. NewestOf(t) /\ "together" \notin mishaps
  BY DEF Newest
<1>2. CASE job'[t] = job[t]
  BY <1>1, <1>2 DEF NewestOf, Written, Holds
<1>3. CASE ~Moving(t)'
  BY <1>3 DEF NewestOf, Written, Moving
<1> QED
  BY <1>1, <1>2, <1>3

\* Without an overtaking only the save that steps is to be looked at.
LEMMA NewestOfOne ==
  ASSUME Alone, Newest, mishaps \subseteq mishaps', NEW s \in Slot, Moving(s),
         \A t \in Slot : t # s => job'[t] = job[t],
         "together" \notin mishaps => NewestOf(s)'
  PROVE  Newest'
<1> SUFFICES ASSUME "together" \notin mishaps', NEW t \in Slot, t # s PROVE NewestOf(t)'
  BY DEF Newest
<1>1. ~Moving(t) /\ job'[t] = job[t]
  BY OnlyMoving
<1> QED
  BY <1>1 DEF Moving, NewestOf, Written

\* What has just been read is as new as any file.
LEMMA ReadNow ==
  ASSUME Shapes, FileAges, UNCHANGED disk, NEW s \in Slot, job'[s].at = "writing",
         job'[s].content = revision
  PROVE  NewestOf(s)'
  BY DEF FileAges, NewestOf, Written

\* The end of a save, seen from the jobs.
LEMMA FinishMoving ==
  ASSUME Shapes, NEW s \in Slot, Finishes(s)
  PROVE  /\ Moving(s) /\ job[s] # None /\ job[s].at = "returned"
         /\ \A t \in Slot : t # s => job'[t] = job[t]
         /\ ~Moving(s)'
         /\ \A t \in Slot : IsMove(t) /\ t # s => IsMove(t)' /\ job'[t].source = job[t].source
<1>1. Moving(s) /\ job[s] # None /\ job[s].at = "returned"
  BY DEF Finishes, HandleAutosaveFinished, HandlePageFinished, HandleSaved, HandleMoved,
     At, Moving
<1>2. Ends(s) \/ Fresh(s, "page", project_file, Home)
  BY EndsJob, PageFinishedJob DEF Finishes
<1>3. (\A t \in Slot : t # s => job'[t] = job[t]) /\ ~Moving(s)'
  BY <1>2 DEF Ends, Fresh, Moving
<1> QED
  BY <1>1, <1>3 DEF IsMove, Kind

LEMMA NewestStep ==
  ASSUME Shapes, JobAges, FileAges, Alone, Newest, [Next]_vars
  PROVE  Newest'
<1>1. CASE Calm
  <2>1. UNCHANGED disk
    BY <1>1 DEF Calm
  <2>2. \A t \in Slot : job'[t] = job[t] \/ ~Moving(t)'
    BY <1>1 DEF Calm
  <2> QED
    BY <2>1, <2>2, NewestFrame, MishapsGrow
<1>2. CASE Edit
  <2>1. UNCHANGED disk
    BY <1>2 DEF Edit
  <2>2. \A t \in Slot : job'[t] = job[t] \/ ~Moving(t)'
    BY <1>2 DEF Edit, jobs
  <2> QED
    BY <2>1, <2>2, NewestFrame, MishapsGrow
<1>3. ASSUME NEW p \in Path, Move(p) PROVE Newest'
  <2>1. PICK s \in Slot : job[s] = None /\ Fresh(s, "move", p, project_file)
    BY <1>3, MoveJob DEF Submits
  <2>2. \A t \in Slot : job'[t] = job[t] \/ ~Moving(t)'
    BY <2>1 DEF Fresh, Moving
  <2>3. UNCHANGED disk
    BY <1>3 DEF Move
  <2> QED
    BY <2>2, <2>3, NewestFrame, MishapsGrow
<1>4. ASSUME NEW s \in Slot, Begin(s) PROVE Newest'
  <2>1. UNCHANGED disk
    BY <1>4 DEF Begin
  <2>2. \A t \in Slot : t # s => job'[t] = job[t]
    BY <1>4, BeginJob DEF Goes
  <2>3. NewestOf(s)'
    <3>1. CASE job[s].kind = "move"
      BY <1>4, <3>1, BeginJob DEF NewestOf, Written
    <3>2. CASE job[s].kind # "move"
      BY <1>4, <2>1, <3>2, BeginJob, ReadNow
    <3> QED
      BY <3>1, <3>2
  <2> QED
    BY <2>1, <2>2, <2>3, NewestFrame, MishapsGrow
<1>5. ASSUME NEW s \in Slot, BackUp(s) PROVE Newest'
  <2>1. UNCHANGED disk
    BY <1>5 DEF BackUp
  <2>2. (\A t \in Slot : t # s => job'[t] = job[t]) /\ NewestOf(s)'
    BY <1>5, BackUpJob DEF Becomes, Goes, NewestOf, Written
  <2> QED
    BY <2>1, <2>2, NewestFrame, MishapsGrow
<1>6. ASSUME NEW s \in Slot, PrepareFails(s) PROVE Newest'
  <2>1. UNCHANGED disk
    BY <1>6 DEF PrepareFails
  <2>2. /\ \A t \in Slot : t # s => job'[t] = job[t]
        /\ job'[s].at = "writing" /\ job'[s].content = revision
    BY <1>6, PrepareFailsJob DEF Becomes, Goes
  <2>3. NewestOf(s)'
    BY <2>1, <2>2, ReadNow
  <2> QED
    BY <2>1, <2>2, <2>3, NewestFrame, MishapsGrow
<1>7. ASSUME NEW s \in Slot, Install(s) PROVE Newest'
  <2>1. UNCHANGED disk
    BY <1>7 DEF Install
  <2>2. /\ \A t \in Slot : t # s => job'[t] = job[t]
        /\ job'[s].at = "writing" /\ job'[s].content = revision
    BY <1>7, InstallJob DEF Becomes, Goes
  <2>3. NewestOf(s)'
    BY <2>1, <2>2, ReadNow
  <2> QED
    BY <2>1, <2>2, <2>3, NewestFrame, MishapsGrow
<1>8. ASSUME NEW s \in Slot, Write(s) PROVE Newest'
  <2>1. job[s] # None /\ job[s].at = "writing" /\ Goes(s) /\ Moving(s) /\ job[s] \in Job
    BY <1>8, WriteJob DEF Becomes, Goes, Moving
  <2>2. /\ job[s].target \in Files /\ job[s].content \in Revision
        /\ job[s].start <= job[s].content /\ job[s].content <= revision
    BY <2>1, Fields DEF JobAges, AgeOf
  <2>3. \A f \in Files : disk'[f] = IF f = job[s].target THEN job[s].content ELSE disk[f]
    BY <1>8, <2>2 DEF Write, Shapes, TypeOK
  <2>4. /\ job'[s].at = "settling" /\ job'[s].start = job[s].start
        /\ job'[s].target = job[s].target /\ job'[s].save_failed = job[s].save_failed
        /\ \A t \in Slot : t # s => job'[t] = job[t]
    BY <1>8, WriteJob DEF Becomes, Goes
  <2>5. "together" \notin mishaps =>
          \A f \in Files : disk[f] \in Revision => disk[f] <= job[s].content
    BY <2>1 DEF Newest, NewestOf
  <2>6. "together" \notin mishaps => NewestOf(s)'
    <3>1. job[s].content \in Nat
      BY <2>2 DEF Revision
    <3> QED
      BY <2>2, <2>3, <2>4, <2>5, <3>1 DEF NewestOf, Written, Holds
  <2> QED
    BY <2>1, <2>4, <2>6, NewestOfOne, MishapsGrow
<1>9. ASSUME NEW s \in Slot, Settle(s) PROVE Newest'
  <2>1. UNCHANGED disk
    BY <1>9 DEF Settle
  <2>2. /\ job[s] # None /\ job[s].at = "settling" /\ job'[s].at = "returned"
        /\ job'[s].target = job[s].target /\ job'[s].start = job[s].start
        /\ job'[s].save_failed = job[s].save_failed
        /\ \A t \in Slot : t # s => job'[t] = job[t]
    BY <1>9, SettleJob DEF Becomes, Goes
  <2>3. "together" \notin mishaps => NewestOf(s)
    BY DEF Newest
  <2>4. "together" \notin mishaps => NewestOf(s)'
    BY <2>1, <2>2, <2>3 DEF NewestOf, Written, Holds
  <2> QED
    BY <2>1, <2>2, <2>4, NewestFrame, MishapsGrow
<1>10. ASSUME NEW s \in Slot, HandleError(s) PROVE Newest'
  <2>1. UNCHANGED disk
    BY <1>10 DEF HandleError
  <2>2. NewestOf(s)'
    BY <1>10, HandleErrorJob DEF Reports, NewestOf, Written
  <2>3. \A t \in Slot : NewPage(t) => ~Moving(t)'
    BY DEF NewPage, Moving
  <2>4. \A t \in Slot : job'[t] = job[t] \/ ~Moving(t)' \/ NewestOf(t)'
    BY <1>10, <2>2, <2>3, HandleErrorJob DEF Reports
  <2> QED
    BY <2>1, <2>4, NewestFrame, MishapsGrow
<1>11. ASSUME NEW s \in Slot, HandleAutosaveFinished(s) PROVE Newest'
  <2>1. Finishes(s)
    BY <1>11 DEF Finishes
  <2>2. NewestOf(s)'
    BY <2>1, FinishMoving DEF NewestOf, Written, Moving
  <2> QED
    BY <2>1, <2>2, FinishMoving, NewestOfOne, MishapsGrow
<1>12. ASSUME NEW s \in Slot, HandlePageFinished(s) PROVE Newest'
  <2>1. Finishes(s)
    BY <1>12 DEF Finishes
  <2>2. NewestOf(s)'
    BY <2>1, FinishMoving DEF NewestOf, Written, Moving
  <2> QED
    BY <2>1, <2>2, FinishMoving, NewestOfOne, MishapsGrow
<1>13. ASSUME NEW s \in Slot, HandleSaveFailed(s) PROVE Newest'
  <2>1. UNCHANGED disk
    BY <1>13 DEF HandleSaveFailed
  <2>2. \A t \in Slot : job'[t] = job[t] \/ ~Moving(t)'
    BY <1>13, EndsJob DEF Ends, Moving
  <2> QED
    BY <2>1, <2>2, NewestFrame, MishapsGrow
<1>14. ASSUME NEW s \in Slot, HandleSaved(s) PROVE Newest'
  <2>1. Finishes(s)
    BY <1>14 DEF Finishes
  <2>2. NewestOf(s)'
    BY <2>1, FinishMoving DEF NewestOf, Written, Moving
  <2> QED
    BY <2>1, <2>2, FinishMoving, NewestOfOne, MishapsGrow
<1>15. ASSUME NEW s \in Slot, HandleMoved(s) PROVE Newest'
  <2>1. Finishes(s)
    BY <1>15 DEF Finishes
  <2>2. NewestOf(s)'
    BY <2>1, FinishMoving DEF NewestOf, Written, Moving
  <2> QED
    BY <2>1, <2>2, FinishMoving, NewestOfOne, MishapsGrow
<1>16. ASSUME NEW s \in Slot, WriteFails(s) PROVE Newest'
  <2>1. UNCHANGED disk
    BY <1>16 DEF WriteFails
  <2>2. (\A t \in Slot : t # s => job'[t] = job[t]) /\ NewestOf(s)'
    BY <1>16, WriteFailsJob DEF Becomes, Goes, NewestOf, Written
  <2> QED
    BY <2>1, <2>2, NewestFrame, MishapsGrow
<1> QED
  BY CalmStep, <1>1, <1>2, <1>3, <1>4, <1>5, <1>6, <1>7, <1>8, <1>9, <1>10, <1>11,
     <1>12, <1>13, <1>14, <1>15, <1>16 DEF Loud

\* A save that ends well has written its file.
LEMMA FinishWritten ==
  ASSUME Shapes, Marked, "unsaved" \notin mishaps, NEW s \in Slot, Finishes(s)
  PROVE  Written(s)
<1>1. job[s] # None /\ job[s].at = "returned"
  BY FinishMoving
<1>2. CASE HandleAutosaveFinished(s) \/ HandlePageFinished(s)
  BY <1>1, <1>2 DEF HandleAutosaveFinished, HandlePageFinished, Marked, MarkOf, Kind,
     Written
<1>3. CASE HandleSaved(s) \/ HandleMoved(s)
  BY <1>1, <1>3 DEF HandleSaved, HandleMoved, Written
<1> QED
  BY <1>2, <1>3 DEF Finishes

Reached(n) == \E f \in Files : Holds(f, n)
Kept == mishaps' \cap {"unsaved", "together"} = {} =>
          \A n \in Revision : Reached(n) => Reached(n)'

LEMMA KeptFrame ==
  ASSUME UNCHANGED disk
  PROVE  Kept
  BY DEF Kept, Reached, Holds

LEMMA FinishKeeps ==
  ASSUME Shapes, Marked, Newest, [Next]_vars, NEW s \in Slot, Finishes(s)
  PROVE  Kept
<1> SUFFICES ASSUME mishaps' \cap {"unsaved", "together"} = {}, NEW n \in Revision,
                    NEW f \in Files, Holds(f, n)
             PROVE  Reached(n)'
  BY DEF Kept, Reached
<1>1. Written(s) /\ NewestOf(s)
  BY FinishWritten, MishapsGrow DEF Newest
<1>2. /\ disk[job[s].target] \in Revision
      /\ disk[f] \in Revision /\ disk[f] >= n /\ disk[f] <= disk[job[s].target]
  BY <1>1 DEF NewestOf, Holds
<1>3. job[s].target \in Files /\ disk'[job[s].target] = disk[job[s].target]
  <2>1. job[s] \in Job
    BY <1>1 DEF Written, Shapes, TypeOK
  <2> QED
    BY <2>1, Fields, FinishFiles
<1>4. disk[job[s].target] \in Nat /\ disk[f] \in Nat /\ n \in Nat
  BY <1>2 DEF Revision
<1>5. /\ Holds(job[s].target, n)
      /\ Holds(job[s].target, n) =
           (disk'[job[s].target] \in Revision /\ disk'[job[s].target] >= n)
  BY <1>2, <1>3, <1>4 DEF Holds
<1> QED
  BY <1>3, <1>5 DEF Reached, Holds

\* No step takes away what has reached the disk.
LEMMA KeptStep ==
  ASSUME Shapes, JobAges, Marked, Newest, [Next]_vars
  PROVE  Kept
<1>1. CASE Calm
  BY <1>1, KeptFrame DEF Calm
<1>2. CASE Edit
  BY <1>2, KeptFrame DEF Edit
<1>3. ASSUME NEW p \in Path, Move(p) PROVE Kept
  BY <1>3, KeptFrame DEF Move
<1>4. ASSUME NEW s \in Slot, Begin(s) PROVE Kept
  BY <1>4, KeptFrame DEF Begin
<1>5. ASSUME NEW s \in Slot, BackUp(s) PROVE Kept
  BY <1>5, KeptFrame DEF BackUp
<1>6. ASSUME NEW s \in Slot, PrepareFails(s) PROVE Kept
  BY <1>6, KeptFrame DEF PrepareFails
<1>7. ASSUME NEW s \in Slot, Install(s) PROVE Kept
  BY <1>7, KeptFrame DEF Install
<1>8. ASSUME NEW s \in Slot, Write(s) PROVE Kept
  <2>1. job[s] # None /\ job[s].at = "writing" /\ Goes(s) /\ Moving(s) /\ job[s] \in Job
    BY <1>8, WriteJob DEF Becomes, Goes, Moving
  <2>2. /\ job[s].target \in Files /\ job[s].content \in Revision
        /\ job[s].start <= job[s].content /\ job[s].content <= revision
    BY <2>1, Fields DEF JobAges, AgeOf
  <2>3. \A f \in Files : disk'[f] = IF f = job[s].target THEN job[s].content ELSE disk[f]
    BY <1>8, <2>2 DEF Write, Shapes, TypeOK
  <2>4. /\ job'[s].at = "settling" /\ job'[s].start = job[s].start
        /\ job'[s].target = job[s].target /\ job'[s].save_failed = job[s].save_failed
        /\ \A t \in Slot : t # s => job'[t] = job[t]
    BY <1>8, WriteJob DEF Becomes, Goes
  <2> SUFFICES ASSUME mishaps' \cap {"unsaved", "together"} = {}, NEW n \in Revision,
                     NEW f \in Files, Holds(f, n)
              PROVE  Reached(n)'
    BY DEF Kept, Reached
  <2>5. disk[f] \in Revision /\ disk[f] >= n /\ disk[f] <= job[s].content
    BY <2>1, MishapsGrow DEF Newest, NewestOf, Holds
  <2>6. disk[f] \in Nat /\ n \in Nat /\ job[s].content \in Nat
    BY <2>2, <2>5 DEF Revision
  <2>7. Holds(job[s].target, n)'
    BY <2>2, <2>3, <2>4, <2>5, <2>6 DEF Holds
  <2> QED
    BY <2>2, <2>4, <2>7 DEF Reached
<1>9. ASSUME NEW s \in Slot, Settle(s) PROVE Kept
  BY <1>9, KeptFrame DEF Settle
<1>10. ASSUME NEW s \in Slot, HandleError(s) PROVE Kept
  BY <1>10, KeptFrame DEF HandleError
<1>11. ASSUME NEW s \in Slot, HandleAutosaveFinished(s) PROVE Kept
  <2>1. Finishes(s)
    BY <1>11 DEF Finishes
  <2> QED
    BY <2>1, FinishKeeps
<1>12. ASSUME NEW s \in Slot, HandlePageFinished(s) PROVE Kept
  <2>1. Finishes(s)
    BY <1>12 DEF Finishes
  <2> QED
    BY <2>1, FinishKeeps
<1>13. ASSUME NEW s \in Slot, HandleSaveFailed(s) PROVE Kept
  BY <1>13, KeptFrame DEF HandleSaveFailed
<1>14. ASSUME NEW s \in Slot, HandleSaved(s) PROVE Kept
  <2>1. Finishes(s)
    BY <1>14 DEF Finishes
  <2> QED
    BY <2>1, FinishKeeps
<1>15. ASSUME NEW s \in Slot, HandleMoved(s) PROVE Kept
  <2>1. Finishes(s)
    BY <1>15 DEF Finishes
  <2> QED
    BY <2>1, FinishKeeps
<1>16. ASSUME NEW s \in Slot, WriteFails(s) PROVE Kept
  BY <1>16, KeptFrame DEF WriteFails
<1> QED
  BY CalmStep, <1>1, <1>2, <1>3, <1>4, <1>5, <1>6, <1>7, <1>8, <1>9, <1>10, <1>11,
     <1>12, <1>13, <1>14, <1>15, <1>16 DEF Loud

-----------------------------------------------------------------------------
(* The window that is clean.                                                *)

\* A history without mishaps had none before.
LEMMA FaithfulBefore ==
  ASSUME mishaps \subseteq mishaps', Faithful'
  PROVE  /\ Faithful /\ "unsaved" \notin mishaps /\ "stray" \notin mishaps'
         /\ "together" \notin mishaps
  BY DEF Faithful

LEMMA StaleFrame ==
  ASSUME Stale, mishaps \subseteq mishaps', UNCHANGED <<revision, dirty>>,
         \A t \in Slot : job'[t] = job[t] \/ ~StaleOf(t)'
  PROVE  Stale'
<1> SUFFICES ASSUME Faithful', NEW t \in Slot, StaleOf(t)' PROVE dirty'
  BY DEF Stale
<1>1. StaleOf(t)
  BY DEF StaleOf
<1> QED
  BY <1>1, FaithfulBefore DEF Stale

LEMMA StaleOfNone ==
  ASSUME Alone, mishaps \subseteq mishaps', NEW s \in Slot, Moving(s), ~Moving(s)',
         \A t \in Slot : t # s => job'[t] = job[t]
  PROVE  Stale'
<1> SUFFICES ASSUME Faithful', NEW t \in Slot, StaleOf(t)' PROVE FALSE
  BY DEF Stale
<1>1. t # s
  BY DEF StaleOf, Moving
<1>2. ~Moving(t)
  BY <1>1, FaithfulBefore, OnlyMoving
<1> QED
  BY <1>1, <1>2 DEF StaleOf, Moving

LEMMA StaleStep ==
  ASSUME Shapes, Alone, Stale, [Next]_vars
  PROVE  Stale'
<1>1. CASE Calm
  <2>1. UNCHANGED <<revision, dirty>>
    BY <1>1 DEF Calm
  <2>2. \A t \in Slot : job'[t] = job[t] \/ ~StaleOf(t)'
    BY <1>1 DEF Calm, StaleOf, Moving
  <2> QED
    BY <2>1, <2>2, StaleFrame, MishapsGrow
<1>2. CASE Edit
  <2>1. dirty'
    BY <1>2 DEF Edit
  <2> QED
    BY <2>1 DEF Stale
<1>3. ASSUME NEW p \in Path, Move(p) PROVE Stale'
  <2>1. PICK s \in Slot : job[s] = None /\ Fresh(s, "move", p, project_file)
    BY <1>3, MoveJob DEF Submits
  <2>2. \A t \in Slot : job'[t] = job[t] \/ ~StaleOf(t)'
    BY <2>1 DEF Fresh, StaleOf
  <2>3. UNCHANGED <<revision, dirty>>
    BY <1>3 DEF Move, edits
  <2> QED
    BY <2>2, <2>3, StaleFrame, MishapsGrow
<1>4. ASSUME NEW s \in Slot, Begin(s) PROVE Stale'
  <2>1. UNCHANGED <<revision, dirty>> /\ revision \in Nat
    BY <1>4, Ageing DEF Begin, edits
  <2>2. \A t \in Slot : t # s => job'[t] = job[t]
    BY <1>4, BeginJob DEF Becomes, Goes
  <2>3. job'[s].at # "writing" \/ job'[s].content = revision
    BY <1>4, BeginJob DEF Becomes
  <2>4. ~StaleOf(s)'
    BY <2>1, <2>3 DEF StaleOf
  <2> QED
    BY <2>1, <2>2, <2>4, StaleFrame, MishapsGrow
<1>5. ASSUME NEW s \in Slot, BackUp(s) PROVE Stale'
  <2>1. UNCHANGED <<revision, dirty>> /\ revision \in Nat
    BY <1>5, Ageing DEF BackUp, edits
  <2>2. \A t \in Slot : job'[t] = job[t] \/ ~StaleOf(t)'
    BY <1>5, <2>1, BackUpJob DEF Becomes, Goes, StaleOf
  <2> QED
    BY <2>1, <2>2, StaleFrame, MishapsGrow
<1>6. ASSUME NEW s \in Slot, PrepareFails(s) PROVE Stale'
  <2>1. UNCHANGED <<revision, dirty>> /\ revision \in Nat
    BY <1>6, Ageing DEF PrepareFails, edits
  <2>2. \A t \in Slot : t # s => job'[t] = job[t]
    BY <1>6, PrepareFailsJob DEF Becomes, Goes
  <2>3. job'[s].at # "writing" \/ job'[s].content = revision
    BY <1>6, PrepareFailsJob DEF Becomes
  <2>4. ~StaleOf(s)'
    BY <2>1, <2>3 DEF StaleOf
  <2> QED
    BY <2>1, <2>2, <2>4, StaleFrame, MishapsGrow
<1>7. ASSUME NEW s \in Slot, Install(s) PROVE Stale'
  <2>1. UNCHANGED <<revision, dirty>> /\ revision \in Nat
    BY <1>7, Ageing DEF Install, edits
  <2>2. \A t \in Slot : t # s => job'[t] = job[t]
    BY <1>7, InstallJob DEF Becomes, Goes
  <2>3. job'[s].at # "writing" \/ job'[s].content = revision
    BY <1>7, InstallJob DEF Becomes
  <2>4. ~StaleOf(s)'
    BY <2>1, <2>3 DEF StaleOf
  <2> QED
    BY <2>1, <2>2, <2>4, StaleFrame, MishapsGrow
<1>8. ASSUME NEW s \in Slot, Write(s) PROVE Stale'
  <2>1. UNCHANGED <<revision, dirty>> /\ revision \in Nat
    BY <1>8, Ageing DEF Write, edits
  <2>2. \A t \in Slot : job'[t] = job[t] \/ ~StaleOf(t)'
    BY <1>8, <2>1, WriteJob DEF Becomes, Goes, StaleOf
  <2> QED
    BY <2>1, <2>2, StaleFrame, MishapsGrow
<1>9. ASSUME NEW s \in Slot, Settle(s) PROVE Stale'
  <2>1. UNCHANGED <<revision, dirty>> /\ revision \in Nat
    BY <1>9, Ageing DEF Settle, edits
  <2>2. \A t \in Slot : job'[t] = job[t] \/ ~StaleOf(t)'
    BY <1>9, <2>1, SettleJob DEF Becomes, Goes, StaleOf
  <2> QED
    BY <2>1, <2>2, StaleFrame, MishapsGrow
<1>10. ASSUME NEW s \in Slot, HandleError(s) PROVE Stale'
  <2>1. UNCHANGED <<revision, dirty>> /\ revision \in Nat
    BY <1>10, Ageing DEF HandleError, edits
  <2>2. \A t \in Slot : job'[t] = job[t] \/ ~StaleOf(t)'
    BY <1>10, <2>1, HandleErrorJob DEF Reports, NewPage, StaleOf
  <2> QED
    BY <2>1, <2>2, StaleFrame, MishapsGrow
<1>11. ASSUME NEW s \in Slot, HandleAutosaveFinished(s) PROVE Stale'
  <2>1. Finishes(s)
    BY <1>11 DEF Finishes
  <2> QED
    BY <2>1, FinishMoving, StaleOfNone, MishapsGrow
<1>12. ASSUME NEW s \in Slot, HandlePageFinished(s) PROVE Stale'
  <2>1. Finishes(s)
    BY <1>12 DEF Finishes
  <2> QED
    BY <2>1, FinishMoving, StaleOfNone, MishapsGrow
<1>13. ASSUME NEW s \in Slot, HandleSaveFailed(s) PROVE Stale'
  <2>1. UNCHANGED <<revision, dirty>>
    BY <1>13 DEF HandleSaveFailed, edits
  <2>2. \A t \in Slot : job'[t] = job[t] \/ ~StaleOf(t)'
    BY <1>13, EndsJob DEF Ends, StaleOf
  <2> QED
    BY <2>1, <2>2, StaleFrame, MishapsGrow
<1>14. ASSUME NEW s \in Slot, HandleSaved(s) PROVE Stale'
  <2>1. Finishes(s)
    BY <1>14 DEF Finishes
  <2> QED
    BY <2>1, FinishMoving, StaleOfNone, MishapsGrow
<1>15. ASSUME NEW s \in Slot, HandleMoved(s) PROVE Stale'
  <2>1. Finishes(s)
    BY <1>15 DEF Finishes
  <2> QED
    BY <2>1, FinishMoving, StaleOfNone, MishapsGrow
<1>16. ASSUME NEW s \in Slot, WriteFails(s) PROVE Stale'
  <2>1. UNCHANGED <<revision, dirty>> /\ revision \in Nat
    BY <1>16, Ageing DEF WriteFails, edits
  <2>2. \A t \in Slot : job'[t] = job[t] \/ ~StaleOf(t)'
    BY <1>16, <2>1, WriteFailsJob DEF Becomes, Goes, StaleOf
  <2> QED
    BY <2>1, <2>2, StaleFrame, MishapsGrow
<1> QED
  BY CalmStep, <1>1, <1>2, <1>3, <1>4, <1>5, <1>6, <1>7, <1>8, <1>9, <1>10, <1>11,
     <1>12, <1>13, <1>14, <1>15, <1>16 DEF Loud

\* The files of the project are still its files.
LEMMA CurrentFrame ==
  ASSUME UNCHANGED project_file, NEW p,
         \A t \in Slot : IsMove(t) => IsMove(t)' /\ job'[t].source = job[t].source
  PROVE  Current(p) => Current(p)'
  BY DEF Current

LEMMA CurrentGoes ==
  ASSUME UNCHANGED project_file, NEW s \in Slot, Goes(s), job[s] # None, None \notin Job
  PROVE  /\ \A p \in Path : Current(p) => Current(p)'
         /\ \A t \in Slot : IsMove(t) => IsMove(t)' /\ job'[t].source = job[t].source
<1>1. \A t \in Slot : IsMove(t) => IsMove(t)' /\ job'[t].source = job[t].source
  BY DEF Goes, IsMove, Kind
<1> QED
  BY <1>1, CurrentFrame

\* A save that is not under way has nothing to show.
LEMMA PlacedIdle ==
  ASSUME Shapes', NEW t \in Slot, ~Moving(t)'
  PROVE  PlacedOf(t)'
  BY DEF Shapes, Places, PlaceOf, PlacedOf, Written, Moving, IsMove, Kind

LEMMA PlacedFrame ==
  ASSUME Shapes, [Next]_vars, Placed,
         \A p \in Path : Current(p) => Current(p)',
         \/ project_file' = project_file
         \/ \E t \in Slot : LiveMove(t)' /\ job'[t].source = project_file,
         \A t \in Slot : LiveMove(t) => LiveMove(t)' /\ job'[t].source = job[t].source,
         \A t \in Slot : job'[t] = job[t] \/ ~Moving(t)'
                         \/ (~Written(t)' /\ ~job'[t].save_failed)
  PROVE  Placed'
<1> SUFFICES ASSUME Faithful', NEW t \in Slot PROVE PlacedOf(t)'
  BY DEF Placed
<1>1. CASE ~Moving(t)'
  BY <1>1, ShapesStep, PlacedIdle
<1>2. CASE ~Written(t)' /\ ~job'[t].save_failed
  BY <1>2 DEF PlacedOf
<1>3. CASE job'[t] = job[t]
  <2>1. PlacedOf(t)
    BY FaithfulBefore, MishapsGrow DEF Placed
  <2>2. Written(t)' = Written(t) /\ IsMove(t)' = IsMove(t)
    BY <1>3 DEF Written, IsMove, Kind
  <2>3. Written(t) /\ job[t].kind \in {"autosave", "page"} /\ job[t].target \in Path
          => Current(job[t].target)
    BY <2>1 DEF PlacedOf
  <2>4. IsMove(t) /\ job[t].save_failed =>
          \/ project_file' = job[t].source
          \/ \E u \in Slot : LiveMove(u)' /\ job'[u].source = job[t].source
    BY <2>1 DEF PlacedOf, LiveMove
  <2>5. \A q \in Path : Written(t) /\ job[t].kind \in {"autosave", "page"} /\ q =
     job[t].target
          => Current(q)'
    BY <2>3
  <2>6. (Written(t) /\ job[t].kind \in {"autosave", "page"} /\ job[t].target \in Path
          => Current(job[t].target))'
    BY <1>3, <2>2, <2>5 DEF Current
  <2> QED
    BY <1>3, <2>2, <2>4, <2>6 DEF PlacedOf, LiveMove
<1> QED
  BY <1>1, <1>2, <1>3

LEMMA PlacedOfOne ==
  ASSUME Shapes, [Next]_vars, Alone, NEW s \in Slot, Moving(s),
         \A t \in Slot : t # s => job'[t] = job[t], Faithful' => PlacedOf(s)'
  PROVE  Placed'
<1> SUFFICES ASSUME Faithful', NEW t \in Slot, t # s PROVE PlacedOf(t)'
  BY DEF Placed
<1>1. ~Moving(t)
  BY FaithfulBefore, MishapsGrow, OnlyMoving
<1>2. ~Moving(t)'
  BY <1>1 DEF Moving
<1> QED
  BY <1>2, ShapesStep, PlacedIdle

LEMMA PlacedStep ==
  ASSUME Shapes, Alone, Marked, Placed, [Next]_vars
  PROVE  Placed'
<1>1. CASE Calm
  <2>1. \A t \in Slot : IsMove(t) => IsMove(t)' /\ job'[t].source = job[t].source
    BY <1>1 DEF Calm
  <2>2. \A p \in Path : Current(p) => Current(p)'
    BY <1>1, <2>1, CurrentFrame DEF Calm
  <2>3. \A t \in Slot : LiveMove(t) => LiveMove(t)' /\ job'[t].source = job[t].source
    BY <1>1, <2>1 DEF Calm, LiveMove, OnUser, IsMove, Kind
  <2>4. UNCHANGED project_file /\ \A t \in Slot : job'[t] = job[t] \/ ~Moving(t)'
    BY <1>1 DEF Calm
  <2> QED
    BY <2>2, <2>3, <2>4, PlacedFrame
<1>2. CASE Edit
  <2>1. UNCHANGED <<project_file, job>>
    BY <1>2 DEF Edit, jobs
  <2>2. /\ \A p \in Path : Current(p) => Current(p)'
        /\ \A t \in Slot : LiveMove(t) => LiveMove(t)' /\ job'[t].source = job[t].source
    BY <2>1 DEF Current, LiveMove, OnUser, IsMove, Kind
  <2> QED
    BY <2>1, <2>2, PlacedFrame
<1>3. ASSUME NEW p \in Path, Move(p) PROVE Placed'
  <2>1. PICK s \in Slot : job[s] = None /\ Fresh(s, "move", p, project_file)
    BY <1>3, MoveJob DEF Submits
  <2>2. \A t \in Slot : IsMove(t) => IsMove(t)' /\ job'[t] = job[t]
    BY <2>1 DEF Fresh, IsMove, Kind
  <2>3. LiveMove(s)' /\ job'[s].source = project_file
    BY <2>1 DEF Fresh, LiveMove, OnUser, IsMove, Kind
  <2>4. \A q \in Path : Current(q) => Current(q)'
    BY <2>2, <2>3 DEF Current, LiveMove
  <2>5. \A t \in Slot : LiveMove(t) => LiveMove(t)' /\ job'[t].source = job[t].source
    BY <2>2 DEF LiveMove, OnUser, IsMove, Kind
  <2>6. \A t \in Slot : job'[t] = job[t] \/ ~Moving(t)'
    BY <2>1 DEF Fresh, Moving
  <2> QED
    BY <2>3, <2>4, <2>5, <2>6, PlacedFrame
<1>4. ASSUME NEW s \in Slot, Begin(s) PROVE Placed'
  <2>1. Goes(s) /\ job[s] # None /\ UNCHANGED project_file
    BY <1>4, BeginJob DEF Begin
  <2>2. \A p \in Path : Current(p) => Current(p)'
    BY <2>1, CurrentGoes
  <2>3. job'[s].save_failed = job[s].save_failed /\ ~job[s].save_failed
    BY <1>4, BeginJob DEF Shapes, Places, PlaceOf
  <2>4. \A t \in Slot : LiveMove(t) => LiveMove(t)' /\ job'[t].source = job[t].source
    BY <2>1, <2>3 DEF Goes, LiveMove, OnUser, IsMove, Kind
  <2>5. ~Written(s)'
    BY <1>4, BeginJob DEF Written
  <2>6. \A t \in Slot : t # s => job'[t] = job[t]
    BY <2>1 DEF Goes
  <2> QED
    BY <2>1, <2>2, <2>3, <2>4, <2>5, <2>6, PlacedFrame
<1>5. ASSUME NEW s \in Slot, BackUp(s) PROVE Placed'
  <2>1. /\ job[s] # None /\ ~job[s].save_failed /\ Moving(s)
        /\ \A t \in Slot : t # s => job'[t] = job[t]
    BY <1>5, BackUpJob DEF Becomes, Goes, Moving, Shapes, Places, PlaceOf
  <2>2. PlacedOf(s)'
    BY <1>5, <2>1, BackUpJob DEF Becomes, PlacedOf, Written
  <2> QED
    BY <2>1, <2>2, PlacedOfOne
<1>6. ASSUME NEW s \in Slot, PrepareFails(s) PROVE Placed'
  <2>1. /\ job[s] # None /\ ~job[s].save_failed /\ Moving(s)
        /\ \A t \in Slot : t # s => job'[t] = job[t]
    BY <1>6, PrepareFailsJob DEF Becomes, Goes, Moving, Shapes, Places, PlaceOf
  <2>2. PlacedOf(s)'
    BY <1>6, <2>1, PrepareFailsJob DEF Becomes, PlacedOf, Written
  <2> QED
    BY <2>1, <2>2, PlacedOfOne
<1>7. ASSUME NEW s \in Slot, Install(s) PROVE Placed'
  <2>1. /\ job[s] # None /\ ~job[s].save_failed /\ Moving(s)
        /\ \A t \in Slot : t # s => job'[t] = job[t]
    BY <1>7, InstallJob DEF Becomes, Goes, Moving, Shapes, Places, PlaceOf
  <2>2. PlacedOf(s)'
    BY <1>7, <2>1, InstallJob DEF Becomes, PlacedOf, Written
  <2> QED
    BY <2>1, <2>2, PlacedOfOne
<1>8. ASSUME NEW s \in Slot, Write(s) PROVE Placed'
  <2>1. /\ job[s] # None /\ ~job[s].save_failed /\ Moving(s) /\ Goes(s)
        /\ job'[s].save_failed = job[s].save_failed
    BY <1>8, WriteJob DEF Becomes, Moving, Shapes, Places, PlaceOf
  <2>2. job'[s].kind = job[s].kind /\ job'[s].target = job[s].target
    BY <2>1 DEF Goes
  <2>3. Faithful' /\ job[s].kind \in {"autosave", "page"} /\ job[s].target \in Path
          => job[s].target = project_file /\ UNCHANGED project_file
    BY <1>8 DEF Write, Faithful
  <2>4. \A q \in Path : Faithful' /\ job[s].kind \in {"autosave", "page"} /\ q =
     job[s].target
          => Current(q)'
    BY <2>3 DEF Current
  <2>5. Faithful' => PlacedOf(s)'
    BY <2>1, <2>2, <2>4 DEF PlacedOf, Current, Written
  <2> QED
    BY <2>1, <2>5, PlacedOfOne DEF Goes
<1>9. ASSUME NEW s \in Slot, Settle(s) PROVE Placed'
  <2>1. /\ job[s] # None /\ ~job[s].save_failed /\ Moving(s) /\ Written(s)
        /\ Goes(s) /\ ~job'[s].save_failed
    BY <1>9, SettleJob DEF Becomes, Moving, Written, Shapes, Places, PlaceOf
  <2>2. Faithful' => PlacedOf(s)
    BY FaithfulBefore, MishapsGrow DEF Placed
  <2>3. \A p \in Path : Current(p) => Current(p)'
    BY <1>9, <2>1, CurrentGoes DEF Settle
  <2>4. job'[s].kind = job[s].kind /\ job'[s].target = job[s].target
    BY <2>1 DEF Goes
  <2>5. \A q \in Path : Faithful' /\ job[s].kind \in {"autosave", "page"} /\ q =
     job[s].target
          => Current(q)'
    BY <2>1, <2>2, <2>3 DEF PlacedOf
  <2>6. Faithful' => PlacedOf(s)'
    BY <2>1, <2>4, <2>5 DEF PlacedOf, Current, Written
  <2> QED
    BY <2>1, <2>6, PlacedOfOne DEF Goes
<1>10. ASSUME NEW s \in Slot, HandleError(s) PROVE Placed'
  <2>1. /\ job[s] # None /\ job[s].at = "failed" /\ Moving(s) /\ Reports(s)
        /\ job[s].kind # "page" => Goes(s)
    BY <1>10, HandleErrorJob DEF Moving
  <2>2. CASE job[s].kind = "page"
    <3>1. "unsaved" \in mishaps /\ UNCHANGED mishaps
      BY <1>10, <2>1, <2>2 DEF HandleError, Marked, MarkOf, Kind
    <3> QED
      BY <3>1 DEF Placed, Faithful
  <2>3. CASE job[s].kind # "page"
    <3>1. IsMove(s) => project_file' = job[s].source
      BY <1>10 DEF HandleError, IsMove, Kind
    <3>2. PlacedOf(s)'
      BY <2>1, <3>1 DEF Reports, PlacedOf, Written, IsMove, Kind
    <3> QED
      BY <2>1, <2>3, <3>2, PlacedOfOne DEF Goes
  <2> QED
    BY <2>2, <2>3
<1>11. ASSUME NEW s \in Slot, HandleAutosaveFinished(s) PROVE Placed'
  <2>1. Finishes(s)
    BY <1>11 DEF Finishes
  <2>2. PlacedOf(s)'
    BY <2>1, FinishMoving, ShapesStep, PlacedIdle
  <2> QED
    BY <2>1, <2>2, FinishMoving, PlacedOfOne
<1>12. ASSUME NEW s \in Slot, HandlePageFinished(s) PROVE Placed'
  <2>1. Finishes(s)
    BY <1>12 DEF Finishes
  <2>2. PlacedOf(s)'
    BY <2>1, FinishMoving, ShapesStep, PlacedIdle
  <2> QED
    BY <2>1, <2>2, FinishMoving, PlacedOfOne
<1>13. ASSUME NEW s \in Slot, HandleSaveFailed(s) PROVE Placed'
  <2>1. /\ Moving(s) /\ ~Moving(s)' /\ \A t \in Slot : t # s => job'[t] = job[t]
    BY <1>13, EndsJob DEF Ends, Moving, HandleSaveFailed, At
  <2>2. PlacedOf(s)'
    BY <2>1, ShapesStep, PlacedIdle
  <2> QED
    BY <2>1, <2>2, PlacedOfOne
<1>14. ASSUME NEW s \in Slot, HandleSaved(s) PROVE Placed'
  <2>1. Finishes(s)
    BY <1>14 DEF Finishes
  <2>2. PlacedOf(s)'
    BY <2>1, FinishMoving, ShapesStep, PlacedIdle
  <2> QED
    BY <2>1, <2>2, FinishMoving, PlacedOfOne
<1>15. ASSUME NEW s \in Slot, HandleMoved(s) PROVE Placed'
  <2>1. Finishes(s)
    BY <1>15 DEF Finishes
  <2>2. PlacedOf(s)'
    BY <2>1, FinishMoving, ShapesStep, PlacedIdle
  <2> QED
    BY <2>1, <2>2, FinishMoving, PlacedOfOne
<1>16. ASSUME NEW s \in Slot, WriteFails(s) PROVE Placed'
  <2>1. /\ job[s] # None /\ ~job[s].save_failed /\ Moving(s)
        /\ \A t \in Slot : t # s => job'[t] = job[t]
    BY <1>16, WriteFailsJob DEF Becomes, Goes, Moving, Shapes, Places, PlaceOf
  <2>2. PlacedOf(s)'
    BY <1>16, <2>1, WriteFailsJob DEF Becomes, PlacedOf, Written
  <2> QED
    BY <2>1, <2>2, PlacedOfOne
<1> QED
  BY CalmStep, <1>1, <1>2, <1>3, <1>4, <1>5, <1>6, <1>7, <1>8, <1>9, <1>10, <1>11,
     <1>12, <1>13, <1>14, <1>15, <1>16 DEF Loud

-----------------------------------------------------------------------------
(* The window without unsaved changes.                                      *)

LEMMA CleanFrame ==
  ASSUME Shapes, [Next]_vars, Clean, UNCHANGED <<revision, dirty>>,
         \A p \in Path : Current(p) => Current(p)',
         \A p \in Path : disk'[p] = disk[p]
  PROVE  Clean'
<1> SUFFICES ASSUME Faithful', ~dirty' PROVE (\E p \in Path : Current(p) /\ Holds(p, revision))'
  BY DEF Clean
<1>1. PICK p \in Path : Current(p) /\ Holds(p, revision)
  <2>1. Faithful
    BY FaithfulBefore, MishapsGrow
  <2>2. ~dirty
    OBVIOUS
  <2> QED
    BY <2>1, <2>2 DEF Clean
<1>2. Current(p)' /\ Holds(p, revision)'
  BY <1>1 DEF Holds
<1> QED
  BY <1>2

\* A save that ends well has written what the project is now, or is not the newest edit.
LEMMA FinishClean ==
  ASSUME Shapes, User, Marked, Newest, Placed, Clean, [Next]_vars, NEW s \in Slot, Finishes(s)
  PROVE  Clean'
<1>1. /\ job[s] # None /\ job[s] \in Job /\ UNCHANGED <<revision, project_file>>
      /\ dirty' = dirty \/ (dirty' = (dirty /\ revision # job[s].start))
  BY DEF Finishes, HandleAutosaveFinished, HandlePageFinished, HandleSaved, HandleMoved, At,
         SetCleanIfSaved, Shapes, TypeOK
<1>2. \A p \in Path : Current(p) /\ ~IsMove(s) => Current(p)'
  BY <1>1, FinishMoving DEF Current
<1>3. CASE job[s].target \notin Path
  <2>1. UNCHANGED <<disk, dirty>> /\ ~IsMove(s)
    BY <1>1, <1>3, FinishFiles DEF IsMove, Kind, Shapes, Aims, AimOf
  <2> QED
    BY <1>1, <1>2, <2>1, CleanFrame
<1>4. CASE job[s].target \in Path
  <2> SUFFICES ASSUME Faithful', ~dirty'
               PROVE  (\E p \in Path : Current(p) /\ Holds(p, revision))'
    BY DEF Clean
  <2>1. Faithful /\ Written(s) /\ NewestOf(s) /\ PlacedOf(s)
    BY FaithfulBefore, MishapsGrow, FinishWritten DEF Newest, Placed
  <2>2. Holds(job[s].target, revision)
    <3>1. Holds(job[s].target, job[s].start)
      BY <2>1 DEF NewestOf
    <3>2. CASE ~dirty
      <4>1. PICK p \in Path : Holds(p, revision)
        BY <2>1, <3>2 DEF Clean
      <4>2. disk[p] \in Revision /\ disk[p] >= revision /\ disk[p] <= disk[job[s].target]
        BY <2>1, <4>1 DEF NewestOf, Holds, Files
      <4>3. disk[p] \in Nat /\ disk[job[s].target] \in Nat /\ revision \in Nat
        BY <3>1, <4>2, Ageing DEF Holds, Revision
      <4> QED
        BY <3>1, <4>2, <4>3 DEF Holds
    <3>3. CASE revision = job[s].start
      BY <3>1, <3>3
    <3>4. ~dirty \/ revision = job[s].start
      BY <1>1, Zenon
    <3> QED
      BY <3>2, <3>3, <3>4
  <2>3. disk'[job[s].target] = disk[job[s].target]
    BY <1>4, FinishFiles
  <2>4. \A q \in Path : q = job[s].target => Current(q)'
    <3>1. CASE job[s].kind \in {"autosave", "page"}
      BY <1>2, <2>1, <3>1 DEF PlacedOf, IsMove, Kind
    <3>2. CASE job[s].kind \in {"manual", "move"}
      <4>1. job[s].target = project_file'
        BY <1>1, <2>1, <3>2 DEF User, Ours, OnUser, Kind, Written
      <4> QED
        BY <4>1 DEF Current
    <3> QED
      BY <1>1, <3>1, <3>2, Fields
  <2>5. \A q \in Path : q = job[s].target => Holds(q, revision)'
    BY <1>1, <2>2, <2>3 DEF Holds
  <2> QED
    BY <1>4, <2>4, <2>5
<1> QED
  BY <1>3, <1>4

LEMMA CleanStep ==
  ASSUME Shapes, JobAges, User, Marked, Newest, Stale, Placed, Clean, [Next]_vars
  PROVE  Clean'
<1>1. CASE Calm
  <2>1. \A p \in Path : Current(p) => Current(p)'
    BY <1>1, CurrentFrame DEF Calm
  <2> QED
    BY <1>1, <2>1, CleanFrame DEF Calm
<1>2. CASE Edit
  <2>1. dirty'
    BY <1>2 DEF Edit
  <2> QED
    BY <2>1 DEF Clean
<1>3. ASSUME NEW p \in Path, Move(p) PROVE Clean'
  <2>1. PICK s \in Slot : job[s] = None /\ Fresh(s, "move", p, project_file)
    BY <1>3, MoveJob DEF Submits
  <2>2. \A t \in Slot : IsMove(t) => IsMove(t)' /\ job'[t] = job[t]
    BY <2>1 DEF Fresh, IsMove, Kind
  <2>3. LiveMove(s)' /\ job'[s].source = project_file
    BY <2>1 DEF Fresh, LiveMove, OnUser, IsMove, Kind
  <2>4. \A q \in Path : Current(q) => Current(q)'
    BY <2>2, <2>3 DEF Current, LiveMove
  <2>5. UNCHANGED <<revision, dirty, disk>>
    BY <1>3 DEF Move, edits
  <2> QED
    BY <2>4, <2>5, CleanFrame
<1>4. ASSUME NEW s \in Slot, Begin(s) PROVE Clean'
  <2>1. Goes(s) /\ job[s] # None
    BY <1>4, BeginJob DEF Becomes
  <2>2. UNCHANGED <<revision, dirty, project_file, disk>>
    BY <1>4 DEF Begin, edits
  <2>3. \A p \in Path : Current(p) => Current(p)'
    BY <2>1, <2>2, CurrentGoes
  <2> QED
    BY <2>2, <2>3, CleanFrame
<1>5. ASSUME NEW s \in Slot, BackUp(s) PROVE Clean'
  <2>1. Goes(s) /\ job[s] # None
    BY <1>5, BackUpJob DEF Becomes
  <2>2. UNCHANGED <<revision, dirty, project_file, disk>>
    BY <1>5 DEF BackUp, edits
  <2>3. \A p \in Path : Current(p) => Current(p)'
    BY <2>1, <2>2, CurrentGoes
  <2> QED
    BY <2>2, <2>3, CleanFrame
<1>6. ASSUME NEW s \in Slot, PrepareFails(s) PROVE Clean'
  <2>1. Goes(s) /\ job[s] # None
    BY <1>6, PrepareFailsJob DEF Becomes
  <2>2. UNCHANGED <<revision, dirty, project_file, disk>>
    BY <1>6 DEF PrepareFails, edits
  <2>3. \A p \in Path : Current(p) => Current(p)'
    BY <2>1, <2>2, CurrentGoes
  <2> QED
    BY <2>2, <2>3, CleanFrame
<1>7. ASSUME NEW s \in Slot, Install(s) PROVE Clean'
  <2>1. Goes(s) /\ job[s] # None
    BY <1>7, InstallJob DEF Becomes
  <2>2. UNCHANGED <<revision, dirty, project_file, disk>>
    BY <1>7 DEF Install, edits
  <2>3. \A p \in Path : Current(p) => Current(p)'
    BY <2>1, <2>2, CurrentGoes
  <2> QED
    BY <2>2, <2>3, CleanFrame
<1>8. ASSUME NEW s \in Slot, Write(s) PROVE Clean'
  <2>1. job[s] # None /\ job[s].at = "writing" /\ Goes(s) /\ Moving(s) /\ job[s] \in Job
    BY <1>8, WriteJob DEF Becomes, Goes, Moving
  <2>2. /\ job[s].target \in Files /\ job[s].content \in Revision
        /\ job[s].start <= job[s].content /\ job[s].content <= revision
    BY <2>1, Fields DEF JobAges, AgeOf
  <2>3. \A f \in Files : disk'[f] = IF f = job[s].target THEN job[s].content ELSE disk[f]
    BY <1>8, <2>2 DEF Write, Shapes, TypeOK
  <2>4. /\ job'[s].at = "settling" /\ job'[s].start = job[s].start
        /\ job'[s].target = job[s].target /\ job'[s].save_failed = job[s].save_failed
        /\ \A t \in Slot : t # s => job'[t] = job[t]
    BY <1>8, WriteJob DEF Becomes, Goes
  <2> SUFFICES ASSUME Faithful', ~dirty'
               PROVE  (\E p \in Path : Current(p) /\ Holds(p, revision))'
    BY DEF Clean
  <2>5. Faithful /\ UNCHANGED <<revision, dirty, project_file>>
    BY <1>8, FaithfulBefore, MishapsGrow DEF Write, edits
  <2>6. PICK p \in Path : Current(p) /\ Holds(p, revision)
    BY <2>5 DEF Clean
  <2>7. Current(p)'
    BY <2>1, <2>5, <2>6, CurrentGoes
  <2>8. job[s].content = revision
    <3>1. ~(job[s].content < revision)
      BY <2>1, <2>5 DEF Stale, StaleOf
    <3>2. job[s].content \in Nat /\ revision \in Nat
      BY <2>2, Ageing DEF Revision
    <3> QED
      BY <2>2, <3>1, <3>2
  <2>9. Holds(p, revision)'
    <3>1. revision \in Nat /\ p \in Files
      BY Ageing DEF Files
    <3> QED
      BY <2>2, <2>3, <2>5, <2>6, <2>8, <3>1 DEF Holds
  <2> QED
    BY <2>7, <2>9
<1>9. ASSUME NEW s \in Slot, Settle(s) PROVE Clean'
  <2>1. Goes(s) /\ job[s] # None
    BY <1>9, SettleJob DEF Becomes
  <2>2. UNCHANGED <<revision, dirty, project_file, disk>>
    BY <1>9 DEF Settle, edits
  <2>3. \A p \in Path : Current(p) => Current(p)'
    BY <2>1, <2>2, CurrentGoes
  <2> QED
    BY <2>2, <2>3, CleanFrame
<1>10. ASSUME NEW s \in Slot, HandleError(s) PROVE Clean'
  <2>1. /\ job[s] # None /\ job[s] \in Job /\ job[s].at = "failed" /\ ~job[s].save_failed
        /\ job[s].kind # "page" => Goes(s)
    BY <1>10, HandleErrorJob DEF Reports, Shapes, Places, PlaceOf
  <2>2. UNCHANGED <<revision, dirty, disk>>
    BY <1>10 DEF HandleError, edits
  <2>3. CASE job[s].kind \in {"autosave", "page"}
    <3>1. "unsaved" \in mishaps /\ UNCHANGED mishaps
      BY <1>10, <2>1, <2>3 DEF HandleError, Marked, MarkOf, Kind
    <3> QED
      BY <3>1 DEF Clean, Faithful
  <2>4. CASE job[s].kind = "manual"
    <3>1. UNCHANGED project_file
      BY <1>10, <2>1, <2>4 DEF HandleError, User, Ours, OnUser, Kind, Shapes, Aims, AimOf
    <3> QED
      BY <2>1, <2>2, <2>4, <3>1, CurrentGoes, CleanFrame
  <2>5. CASE job[s].kind = "move"
    <3> SUFFICES ASSUME Faithful', ~dirty'
                 PROVE  (\E p \in Path : Current(p) /\ Holds(p, revision))'
      BY DEF Clean
    <3>1. PICK p \in Path : Current(p) /\ Holds(p, revision)
      BY <2>2, FaithfulBefore, MishapsGrow DEF Clean
    <3>2. CASE p # project_file
      <4>1. PICK t \in Slot : IsMove(t) /\ job[t].source = p
        BY <3>1, <3>2 DEF Current
      <4>2. IsMove(t)' /\ job'[t].source = p
        BY <2>1, <2>5, <4>1 DEF Goes, IsMove, Kind
      <4>3. Holds(p, revision)'
        BY <2>2, <3>1 DEF Holds
      <4> QED
        BY <4>2, <4>3 DEF Current
    <3>3. CASE p = project_file
      <4>1. job[s].target = p
        BY <2>1, <2>5, <3>3 DEF User, Ours, OnUser, Kind
      <4>2. Holds(job[s].source, disk[p])
        BY <1>10, <2>1, <2>5, <3>1, <4>1 DEF HandleError, Faithful, Holds
      <4>3. job[s].source \in Path /\ disk[p] \in Nat /\ disk[p] >= revision /\ revision \in Nat
        BY <2>1, <3>1, Fields, Ageing DEF Holds, Revision
      <4>4. disk[job[s].source] \in Revision /\ disk[job[s].source] \in Nat
        BY <4>2 DEF Holds, Revision
      <4>5. \A q \in Path : q = job[s].source => Holds(q, revision)'
        BY <2>2, <4>2, <4>3, <4>4 DEF Holds
      <4>6. project_file' = job[s].source
        BY <1>10, <2>5 DEF HandleError
      <4>7. \A q \in Path : q = project_file' => Current(q)'
        BY DEF Current
      <4> QED
        BY <4>3, <4>5, <4>6, <4>7
    <3> QED
      BY <3>2, <3>3
  <2> QED
    BY <2>1, <2>3, <2>4, <2>5, Fields
<1>11. ASSUME NEW s \in Slot, HandleAutosaveFinished(s) PROVE Clean'
  <2>1. Finishes(s)
    BY <1>11 DEF Finishes
  <2> QED
    BY <2>1, FinishClean
<1>12. ASSUME NEW s \in Slot, HandlePageFinished(s) PROVE Clean'
  <2>1. Finishes(s)
    BY <1>12 DEF Finishes
  <2> QED
    BY <2>1, FinishClean
<1>13. ASSUME NEW s \in Slot, HandleSaveFailed(s) PROVE Clean'
  <2>1. /\ job[s] # None /\ job[s].save_failed
        /\ UNCHANGED <<revision, dirty, disk, project_file>>
        /\ \A t \in Slot : t # s => job'[t] = job[t]
    BY <1>13, EndsJob DEF Ends, HandleSaveFailed, At, edits
  <2>2. \A t \in Slot : t # s /\ IsMove(t) => IsMove(t)' /\ job'[t].source = job[t].source
    BY <2>1 DEF IsMove, Kind
  <2> SUFFICES ASSUME Faithful' PROVE Clean'
    BY DEF Clean
  <2>3. PlacedOf(s)
    BY FaithfulBefore, MishapsGrow DEF Placed
  <2>4. ASSUME NEW p \in Path, Current(p) PROVE Current(p)'
    <3>1. CASE p = project_file
      BY <2>1, <3>1 DEF Current
    <3>2. ASSUME NEW t \in Slot, IsMove(t), job[t].source = p PROVE Current(p)'
      <4>1. CASE t # s
        BY <2>2, <3>2, <4>1 DEF Current
      <4>2. CASE t = s
        <5>1. project_file = p \/ \E u \in Slot : LiveMove(u) /\ job[u].source = p
          BY <2>1, <2>3, <3>2, <4>2 DEF PlacedOf, LiveMove
        <5>2. \A u \in Slot : LiveMove(u) => u # s /\ IsMove(u)
          BY <2>1 DEF LiveMove, OnUser
        <5> QED
          BY <2>1, <2>2, <5>1, <5>2 DEF Current
      <4> QED
        BY <4>1, <4>2
    <3> QED
      BY <2>4, <3>1, <3>2 DEF Current
  <2> QED
    BY <2>1, <2>4, CleanFrame
<1>14. ASSUME NEW s \in Slot, HandleSaved(s) PROVE Clean'
  <2>1. Finishes(s)
    BY <1>14 DEF Finishes
  <2> QED
    BY <2>1, FinishClean
<1>15. ASSUME NEW s \in Slot, HandleMoved(s) PROVE Clean'
  <2>1. Finishes(s)
    BY <1>15 DEF Finishes
  <2> QED
    BY <2>1, FinishClean
<1>16. ASSUME NEW s \in Slot, WriteFails(s) PROVE Clean'
  <2>1. Goes(s) /\ job[s] # None
    BY <1>16, WriteFailsJob DEF Becomes
  <2>2. UNCHANGED <<revision, dirty, project_file, disk>>
    BY <1>16 DEF WriteFails, edits
  <2>3. \A p \in Path : Current(p) => Current(p)'
    BY <2>1, <2>2, CurrentGoes
  <2> QED
    BY <2>2, <2>3, CleanFrame
<1> QED
  BY CalmStep, <1>1, <1>2, <1>3, <1>4, <1>5, <1>6, <1>7, <1>8, <1>9, <1>10, <1>11,
     <1>12, <1>13, <1>14, <1>15, <1>16 DEF Loud

-----------------------------------------------------------------------------
(* The invariant, and what follows from it.                                 *)

LEMMA SaveInit == Init => SaveInv
<1> SUFFICES ASSUME Init PROVE SaveInv
  OBVIOUS
<1>1. \A s \in Slot : job[s] = None
  BY DEF Init
<1>2. revision = 0 /\ project_file = Home /\ ~save_pending /\ 0 \in Revision
  BY DEF Init, Revision
<1>3. /\ \A f \in Files : disk[f] = IF f = Home THEN 0 ELSE disk[f]
      /\ \A f \in Files : f # Home => disk[f] \in {Absent, Foreign}
      /\ \A p \in Path : disk[p] = Foreign => sidecar[p] = "foreign" \/ p = Home
      /\ sidecar[Home] = "own"
  BY NoFile DEF Init, Files
<1>4. disk[Home] = 0 /\ Home \in Files /\ Home \in Path
  BY <1>3 DEF Files
<1>5. Shapes
  BY ShapesInit
<1>6. User /\ Alone /\ Marked /\ JobAges /\ Pending
  BY <1>1, <1>2 DEF User, Ours, OneOnUser, OnUser, Kind, Alone, Moving, Marked, MarkOf,
     JobAges, AgeOf, Pending
<1>7. FileAges
  BY <1>2, <1>3, <1>4, NoFile DEF FileAges
<1>8. Sides
  <2>1. disk[Home] # Foreign
    BY <1>2, <1>4, NoFile
  <2> QED
    BY <1>1, <1>3, <2>1 DEF Sides, PutAside, BackedUp, Replacing, IsMove, Kind
<1>9. Newest /\ Stale /\ Placed
  BY <1>1 DEF Newest, NewestOf, Stale, StaleOf, Placed, PlacedOf, Written, IsMove, Kind
<1>10. Clean
  BY <1>2, <1>4 DEF Clean, Current, Holds
<1> QED
  BY <1>5, <1>6, <1>7, <1>8, <1>9, <1>10 DEF SaveInv

LEMMA SaveStep == SaveInv /\ [Next]_vars => SaveInv'
<1> SUFFICES ASSUME SaveInv, [Next]_vars PROVE SaveInv'
  OBVIOUS
<1>1. Shapes /\ User /\ Alone /\ Marked /\ JobAges /\ FileAges /\ Pending /\ Sides
  BY DEF SaveInv
<1>2. Newest /\ Stale /\ Placed /\ Clean
  BY DEF SaveInv
<1>3. Shapes' /\ User' /\ Alone' /\ Marked' /\ JobAges' /\ FileAges'
  BY <1>1, ShapesStep, UserStep, AloneStep, MarkedStep, JobAgesStep, FileAgesStep
<1>4. Pending' /\ Sides'
  BY <1>1, PendingStep, SidesStep
<1>5. Newest' /\ Stale' /\ Placed' /\ Clean'
  BY <1>1, <1>2, NewestStep, StaleStep, PlacedStep, CleanStep
<1> QED
  BY <1>3, <1>4, <1>5 DEF SaveInv

LEMMA SaveInvariance == Spec => []SaveInv
  BY SaveInit, SaveStep, PTL DEF Spec

\* The pending flag, which holds up every later autosave, is never left behind: some
\* autosave or page save is there whose callback resets it, unless a cancellation of the
\* queue forgot the save.
THEOREM PendingHasItsSave == Spec => []PendingHasSave
<1>1. SaveInv => PendingHasSave
  BY DEF SaveInv, Pending, PendingHasSave, Saves, Kind, Jobs
<1> QED
  BY <1>1, SaveInvariance, PTL

\* Another project's stage results lie beside it: only the move that is to replace that
\* project puts them aside, and its rollback brings them back.
THEOREM SidecarsFit == Spec => []SidecarFits
<1>1. SaveInv => SidecarFits
  BY DEF SaveInv, Sides, PutAside, SidecarFits, Replacing, IsMove, Kind, UnderWay, Jobs
<1> QED
  BY <1>1, SaveInvariance, PTL

\* What reached the disk is never taken away: no save, move or removal of a recovery
\* checkpoint leaves less there than before, as long as the saves took turns and no
\* autosave or page save failed.
THEOREM NothingLost == Spec => NothingIsLost
<1> DEFINE Keeps == mishaps' \cap {"unsaved", "together"} = {} =>
                      \A n \in Revision :
                        (\E f \in Files : Holds(f, n)) => (\E f \in Files : Holds(f, n)')
<1>1. SaveInv /\ [Next]_vars => [Keeps]_vars
  BY KeptStep DEF SaveInv, Kept, Reached
<1> QED
  BY <1>1, SaveInvariance, PTL DEF Spec, NothingIsLost

\* A window that shows no unsaved changes tells the truth: the project's file, or the one
\* that a move under way comes from, holds every edit, whatever edits and saves came while
\* it was written.
THEOREM CleanIsSaved == Spec => []CleanMeansSaved
<1>1. SaveInv => CleanMeansSaved
  <2> SUFFICES ASSUME SaveInv, ~dirty, mishaps \cap {"unsaved", "stray", "together"} = {}
               PROVE  \E p \in ProjectFiles : Holds(p, revision)
    BY DEF CleanMeansSaved
  <2>1. PICK p \in Path : Current(p) /\ Holds(p, revision)
    BY DEF SaveInv, Clean, Faithful
  <2>2. p \in ProjectFiles
    BY <2>1 DEF Current, ProjectFiles, IsMove, Kind, Jobs
  <2> QED
    BY <2>1, <2>2
<1> QED
  BY <1>1, SaveInvariance, PTL
=============================================================================
