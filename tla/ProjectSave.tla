---------------------------- MODULE ProjectSave ----------------------------
(***************************************************************************)
(* How edits reach the disk: ProjectController's autosave, manual save,    *)
(* page saves of a batch and move of the project file                      *)
(* (app/controllers/projects.py), the checkpoint sidecar that moves along  *)
(* (app/projects/checkpoint_store.py) and the dirty flag (controller.py).  *)
(*                                                                         *)
(* Saves are jobs: the GUI thread submits one, a worker reads the live     *)
(* state and replaces the file, and an error event, if it failed, and a    *)
(* finished event come back to the GUI thread.  A page save of a batch     *)
(* starts at once; the others take turns with the batch in the task        *)
(* runner's queue, which a failure or a cancellation lets overtake         *)
(* (TaskRunner's ConcurrencyBounded).  Automatic saves are switched on.    *)
(***************************************************************************)
EXTENDS Naturals, Sequences, FiniteSets

CONSTANTS Path,          \* where the project file may be
          Home,          \* where it is at first
          Recovery,      \* the recovery checkpoint
          Slot,          \* the jobs there may be at once
          MaxRevision,   \* edits
          MaxAccidents,  \* failing writes, copies and removals, cancellations
          Absent,        \* no file
          Foreign,       \* another project's file, which a move may replace
          None

ASSUME PathAssumption == Home \in Path /\ Recovery \notin Path
ASSUME BoundAssumption == MaxRevision \in Nat /\ MaxAccidents \in Nat
ASSUME FileAssumption == {Absent, Foreign} \cap 0..MaxRevision = {} /\ Absent # Foreign

VARIABLES
  revision,            \* _dirty_revision
  dirty,               \* has_unsaved_changes
  save_pending,        \* _autosave_save_pending
  retrigger_requested, \* _autosave_retrigger_requested
  realtime_timer,      \* whether _realtime_autosave_timer runs
  project_file,
  batch,               \* off, waiting for its turn, running, over, or forgotten
                       \* in the queue: _batch_active is never reset
  deferral,            \* _batch_autosave_deferred, and its end on the batch's thread
  job, operation_queue,
  overtaking,          \* whether the queue may run two operations at once
  disk,                \* per file: the revision it holds, Absent, or Foreign
  sidecar,             \* per path: whose stage results lie beside it
  accidents,
  mishaps              \* what befell the saves so far

edits == <<revision, dirty>>
flags == <<save_pending, retrigger_requested, realtime_timer>>
turns == <<batch, deferral>>
jobs  == <<job, operation_queue, overtaking>>
vars  == <<edits, flags, project_file, turns, jobs, disk, sidecar, accidents, mishaps>>

Revision == 0..MaxRevision
Files == Path \cup {Recovery}
\* Whose results a sidecar has: all of the project's, or not all of them because a
\* save made it or a batch recorded more elsewhere, or another project's.
Sidecars == {"none", "own", "behind", "foreign"}

Job == [kind : {"autosave", "page", "manual", "move"},
        at : {"asked", "queued", "ready", "backing up", "installing", "writing",
              "settling", "failed", "returned"},
        target : Files, source : Path, start : Revision, content : Revision,
        copy : Sidecars, backup : Sidecars, save_failed : BOOLEAN]

ASSUME NoneAssumption == None \notin Job

Mishaps == {"unsaved", "dropped", "stray", "together"}

TypeOK ==
  /\ revision \in Revision /\ dirty \in BOOLEAN
  /\ save_pending \in BOOLEAN /\ retrigger_requested \in BOOLEAN
  /\ realtime_timer \in BOOLEAN
  /\ project_file \in Path
  /\ batch \in {"off", "waiting", "running", "over", "forgotten"}
  /\ deferral \in {"off", "on", "found busy", "found idle"}
  /\ job \in [Slot -> Job \cup {None}]
  /\ operation_queue \in Seq(Slot)
  /\ overtaking \in BOOLEAN
  /\ disk \in [Files -> Revision \cup {Absent, Foreign}]
  /\ sidecar \in [Path -> Sidecars]
  /\ accidents \in 0..MaxAccidents
  /\ mishaps \subseteq Mishaps

\* A saved project with stage results; another one at every other path, or
\* nothing there.
Init ==
  /\ revision = 0 /\ dirty = FALSE
  /\ save_pending = FALSE /\ retrigger_requested = FALSE /\ realtime_timer = FALSE
  /\ project_file = Home
  /\ batch = "off" /\ deferral = "off"
  /\ job = [s \in Slot |-> None]
  /\ operation_queue = <<>>
  /\ overtaking = FALSE
  /\ \E taken \in BOOLEAN :
       /\ disk = [f \in Files |-> IF f = Home THEN 0
                                  ELSE IF f \in Path /\ taken THEN Foreign ELSE Absent]
       /\ sidecar = [p \in Path |-> IF p = Home THEN "own"
                                    ELSE IF taken THEN "foreign" ELSE "none"]
  /\ accidents = 0 /\ mishaps = {}

-----------------------------------------------------------------------------
(* Jobs.                                                                    *)

Jobs == {s \in Slot : job[s] # None}
Free == {s \in Slot : job[s] = None}
At(s, label) == job[s] # None /\ job[s].at = label
Goto(s, label) == job' = [job EXCEPT ![s].at = label]
\* The worker is done, and what it had read and put aside is forgotten.
Done(s, label) ==
  job' = [job EXCEPT ![s].at = label, ![s].content = 0, ![s].copy = "none",
                     ![s].backup = "none"]
UnderWay == {s \in Jobs : job[s].at \notin {"asked", "queued", "ready"}}
RunnerBusy ==
  batch = "running" \/ \E s \in UnderWay : job[s].kind # "page"

Accident == accidents < MaxAccidents /\ accidents' = accidents + 1

\* Mutant of NewJob: where the project came from is not kept.
NewJobSourceless(kind, at, target, source) ==
  [kind |-> kind, at |-> at, target |-> target, source |-> None,
   start |-> revision, content |-> 0, copy |-> "none",
   backup |-> "none", save_failed |-> FALSE]

NewJob(kind, at, target, source) ==
  [kind |-> kind, at |-> at, target |-> target, source |-> source,
   start |-> revision, content |-> 0, copy |-> "none",
   backup |-> "none", save_failed |-> FALSE]

\* The jobs when the one in slot s is over.
Without(s) == [job EXCEPT ![s] = None]

\* A new job beside those in `others`, in the first of the slots in `free`.
Add(others, free, new) ==
  \E s \in free :
    /\ \A t \in free : s <= t
    /\ job' = [others EXCEPT ![s] = new]
    /\ operation_queue' = IF new.at = "queued" THEN Append(operation_queue, s)
                          ELSE operation_queue

NoSubmit(others) == job' = others /\ UNCHANGED operation_queue

\* _on_batch_page_done.
PageDone(others, free, pending, retrigger) ==
  \/ /\ deferral = "on"
     /\ save_pending' = pending /\ retrigger_requested' = retrigger
     /\ NoSubmit(others)
  \/ /\ deferral # "on" /\ pending
     /\ save_pending' = TRUE /\ retrigger_requested' = TRUE
     /\ NoSubmit(others)
  \/ /\ deferral # "on" /\ ~pending
     /\ save_pending' = TRUE /\ retrigger_requested' = retrigger
     /\ Add(others, free, NewJob("page", "ready", project_file, Home))

\* Mutant of PageSaveOver: what was asked for meanwhile is forgotten.
PageSaveOverOnce(others, free) ==
  save_pending' = retrigger_requested /\ retrigger_requested' = FALSE /\ NoSubmit(others)

\* The end of a page save, well or not: what was asked for meanwhile is done now.
PageSaveOver(others, free) ==
  IF retrigger_requested
  THEN PageDone(others, free, FALSE, FALSE)
  ELSE save_pending' = FALSE /\ NoSubmit(others) /\ UNCHANGED retrigger_requested

batch_active == batch \in {"waiting", "running", "forgotten"}

\* autosave_project.
Autosave(prefer_project_file) ==
  \/ /\ save_pending
     /\ retrigger_requested' = (retrigger_requested \/ prefer_project_file)
     /\ UNCHANGED <<save_pending, job, operation_queue>>
  \/ /\ ~save_pending
     /\ batch_active \/ ~dirty
     /\ UNCHANGED <<save_pending, retrigger_requested, job, operation_queue>>
  \/ /\ ~save_pending
     /\ ~batch_active /\ dirty
     /\ save_pending' = TRUE
     /\ Add(job, Free, NewJob("autosave", "queued",
                         IF prefer_project_file THEN project_file ELSE Recovery,
                         Home))
     /\ UNCHANGED retrigger_requested

-----------------------------------------------------------------------------
(* The GUI thread: the user, the timers and the batch's pages.              *)

\* mark_project_dirty.
Edit ==
  /\ revision < MaxRevision
  /\ revision' = revision + 1 /\ dirty' = TRUE
  /\ realtime_timer' = TRUE
  /\ UNCHANGED <<save_pending, retrigger_requested, project_file, turns, jobs,
                 disk, sidecar, accidents, mishaps>>

RealtimeTimeout ==
  /\ realtime_timer /\ realtime_timer' = FALSE
  /\ Autosave(TRUE)
  /\ UNCHANGED <<edits, project_file, turns, overtaking, disk, sidecar, accidents, mishaps>>

IntervalTimeout ==
  /\ Autosave(FALSE)
  /\ UNCHANGED <<edits, realtime_timer, project_file, turns, overtaking, disk,
                 sidecar, accidents, mishaps>>

\* The busy dialog of run_save_proj takes the user's input until the save is
\* over, or has failed.
Busy == \E s \in Jobs : job[s].kind \in {"manual", "move"} /\ ~job[s].save_failed

ManualSave ==
  /\ ~Busy
  /\ Add(job, Free, NewJob("manual", "asked", project_file, project_file))
  /\ UNCHANGED <<edits, flags, project_file, turns, overtaking, disk, sidecar,
                 accidents, mishaps>>

\* thread_change_project_file, which the window refuses during a batch.
Move(target) ==
  /\ target # project_file /\ ~Busy /\ ~batch_active
  /\ Add(job, Free, NewJob("move", "asked", target, project_file))
  /\ project_file' = target
  /\ UNCHANGED <<edits, flags, turns, overtaking, disk, sidecar, accidents, mishaps>>

\* run_save_proj names the project's file and shows the dialog, which lets the
\* events that wait be handled, before the save is queued.
Queue(s) ==
  /\ At(s, "asked")
  /\ job' = [job EXCEPT ![s].at = "queued", ![s].start = revision]
  /\ operation_queue' = Append(operation_queue, s)
  /\ UNCHANGED <<edits, flags, project_file, turns, overtaking, disk, sidecar,
                 accidents, mishaps>>

\* cancel_current_task: what waits is forgotten, callbacks and all; a batch's
\* callback is what would have ended _batch_active.  It may wait behind an operation
\* of the window that is none of the saves here, as any other may.
Cancel ==
  /\ ~Busy /\ Accident
  /\ operation_queue' = <<>>
  /\ job' = [s \in Slot |-> IF At(s, "queued") THEN None ELSE job[s]]
  /\ mishaps' = IF \E s \in Slot : At(s, "queued")
                THEN mishaps \cup {"dropped"} ELSE mishaps
  /\ batch' = IF batch = "waiting" THEN "forgotten" ELSE batch
  /\ overtaking' = TRUE
  /\ UNCHANGED <<edits, flags, project_file, deferral, disk, sidecar>>

BatchStart ==
  /\ ~Busy
  /\ batch = "off" /\ batch' = "waiting"
  /\ UNCHANGED <<edits, flags, project_file, deferral, jobs, disk, sidecar,
                 accidents, mishaps>>

\* render_state_ready.
BatchPageDone ==
  /\ batch = "running"
  /\ PageDone(job, Free, save_pending, retrigger_requested)
  /\ UNCHANGED <<edits, realtime_timer, project_file, turns, overtaking, disk,
                 sidecar, accidents, mishaps>>

-----------------------------------------------------------------------------
(* The batch's thread.                                                      *)

BatchBegin ==
  /\ batch = "waiting" /\ ~RunnerBusy /\ operation_queue = <<>>
  /\ batch' = "running"
  /\ UNCHANGED <<edits, flags, project_file, deferral, jobs, disk, sidecar,
                 accidents, mishaps>>

BeginDeferral ==
  /\ batch = "running" /\ deferral = "off"
  /\ deferral' = "on"
  /\ UNCHANGED <<edits, flags, project_file, batch, jobs, disk, sidecar,
                 accidents, mishaps>>

\* The pipeline's checkpoints record a stage in the sidecar beside the project's
\* file; one left elsewhere no longer has all there is.
RecordStage ==
  /\ batch = "running" /\ sidecar[project_file] # "foreign"
  /\ sidecar' = [p \in Path |-> IF p = project_file THEN "own"
                               ELSE IF sidecar[p] = "own" THEN "behind" ELSE sidecar[p]]
  /\ UNCHANGED <<edits, flags, project_file, turns, jobs, disk, accidents, mishaps>>

\* end_batch_autosave_deferral calls _on_batch_page_done on this thread: the
\* GUI thread may go on between its look at save_pending and what it does.
EndDeferral ==
  /\ deferral = "on"
  /\ deferral' = IF save_pending THEN "found busy" ELSE "found idle"
  /\ UNCHANGED <<edits, flags, project_file, batch, jobs, disk, sidecar,
                 accidents, mishaps>>

EndDeferralSave ==
  /\ \/ /\ deferral = "found busy"
        /\ retrigger_requested' = TRUE
        /\ UNCHANGED <<save_pending, job, operation_queue>>
     \/ /\ deferral = "found idle"
        /\ save_pending' = TRUE
        /\ Add(job, Free, NewJob("page", "ready", project_file, Home))
        /\ UNCHANGED retrigger_requested
  /\ batch' = "over" /\ deferral' = "off"
  /\ UNCHANGED <<edits, realtime_timer, project_file, overtaking, disk, sidecar,
                 accidents, mishaps>>

BatchEnd ==
  /\ batch = "running" /\ deferral = "off"
  /\ batch' = "over"
  /\ UNCHANGED <<edits, flags, project_file, deferral, jobs, disk, sidecar,
                 accidents, mishaps>>

-----------------------------------------------------------------------------
(* save_project, on a worker.                                               *)

\* The live state is read when the save begins, not when it was asked for.
BeginWriting(s, j) ==
  job' = [job EXCEPT ![s] = [j EXCEPT !.at = "writing", !.content = revision]]

Begin(s) ==
  /\ \/ At(s, "ready") /\ UNCHANGED operation_queue
     \/ /\ At(s, "queued")
        /\ operation_queue # <<>> /\ s = Head(operation_queue)
        /\ ~RunnerBusy \/ overtaking
        /\ operation_queue' = Tail(operation_queue)
  /\ IF job[s].kind = "move" THEN Goto(s, "backing up") ELSE BeginWriting(s, job[s])
  /\ mishaps' = IF UnderWay = {} THEN mishaps ELSE mishaps \cup {"together"}
  /\ UNCHANGED <<edits, flags, project_file, turns, overtaking, disk, sidecar, accidents>>

\* prepare_checkpoint_sidecar: the source's sidecar is copied, one that lies at
\* the target put aside ...
BackUp(s) ==
  /\ At(s, "backing up") /\ sidecar[job[s].source] # "foreign"
  /\ job' = [job EXCEPT ![s].at = "installing",
                        ![s].copy = sidecar[job[s].source],
                        ![s].backup = sidecar[job[s].target]]
  /\ sidecar' = [sidecar EXCEPT ![job[s].target] = "none"]
  /\ UNCHANGED <<edits, flags, project_file, turns, operation_queue, overtaking,
                 disk, accidents, mishaps>>

\* ... and the copy takes its place.
Install(s) ==
  /\ At(s, "installing")
  /\ sidecar' = [sidecar EXCEPT ![job[s].target] = job[s].copy]
  /\ BeginWriting(s, job[s])
  /\ UNCHANGED <<edits, flags, project_file, turns, operation_queue, overtaking,
                 disk, accidents, mishaps>>

\* The sidecar is not the project's, or cannot be copied: the project is saved
\* without it.
PrepareFails(s) ==
  /\ At(s, "backing up") \/ At(s, "installing")
  /\ \/ At(s, "backing up") /\ sidecar[job[s].source] = "foreign" /\ UNCHANGED accidents
     \/ Accident
  /\ sidecar' = [sidecar EXCEPT ![job[s].target] =
                   IF job[s].backup # "none" THEN job[s].backup ELSE @]
  /\ BeginWriting(s, [job[s] EXCEPT !.copy = "none", !.backup = "none"])
  /\ UNCHANGED <<edits, flags, project_file, turns, operation_queue, overtaking,
                 disk, mishaps>>

\* Mutant of Write: the target is emptied and then written.
WriteInPlace(s) ==
  /\ At(s, "writing")
  /\ IF disk[job[s].target] # Absent
     THEN disk' = [disk EXCEPT ![job[s].target] = Absent] /\ UNCHANGED job
     ELSE disk' = [disk EXCEPT ![job[s].target] = job[s].content] /\ Goto(s, "settling")
  /\ UNCHANGED <<edits, flags, project_file, turns, operation_queue, overtaking,
                 sidecar, accidents, mishaps>>

\* The temporary file replaces the target.
Write(s) ==
  /\ At(s, "writing")
  /\ disk' = [disk EXCEPT ![job[s].target] = job[s].content]
  /\ Goto(s, "settling")
  /\ mishaps' = IF job[s].kind \in {"autosave", "page"}
                   /\ job[s].target \notin {project_file, Recovery}
                THEN mishaps \cup {"stray"} ELSE mishaps
  /\ UNCHANGED <<edits, flags, project_file, turns, operation_queue, overtaking,
                 sidecar, accidents>>

\* Mutant of WriteFails: the sidecar that was put aside is forgotten.
WriteFailsForgetting(s) ==
  /\ At(s, "writing")
  /\ Accident
  /\ Done(s, "failed")
  /\ overtaking' = TRUE
  /\ sidecar' = IF job[s].copy # "none"
                THEN [sidecar EXCEPT ![job[s].target] = "none"] ELSE sidecar
  /\ mishaps' = IF job[s].kind \in {"autosave", "page"}
                THEN mishaps \cup {"unsaved"} ELSE mishaps
  /\ UNCHANGED <<edits, flags, project_file, turns, operation_queue, disk>>

\* The old file stays; the prepared sidecar is rolled back.
WriteFails(s) ==
  /\ At(s, "writing")
  /\ Accident
  /\ Done(s, "failed")
  /\ overtaking' = TRUE
  /\ sidecar' = IF job[s].backup # "none" \/ job[s].copy # "none"
                THEN [sidecar EXCEPT ![job[s].target] = job[s].backup] ELSE sidecar
  /\ mishaps' = IF job[s].kind \in {"autosave", "page"}
                THEN mishaps \cup {"unsaved"} ELSE mishaps
  /\ UNCHANGED <<edits, flags, project_file, turns, operation_queue, disk>>

\* ensure_initialized makes a sidecar where there is none, unless the save is
\* a snapshot of something else than the session's file; the backup goes.
Settle(s) ==
  /\ At(s, "settling")
  /\ Done(s, "returned")
  /\ LET target == job[s].target
         makes == /\ target \in Path /\ sidecar[target] = "none"
                  /\ job[s].kind \in {"manual", "move"} \/ target = project_file
     IN sidecar' = IF makes THEN [sidecar EXCEPT ![target] = "behind"] ELSE sidecar
  /\ UNCHANGED <<edits, flags, project_file, turns, operation_queue, overtaking,
                 disk, accidents, mishaps>>

-----------------------------------------------------------------------------
(* The callbacks, on the GUI thread: a failed job has its finished event    *)
(* after its error event.                                                   *)

Holds(f, n) == disk[f] \in Revision /\ disk[f] >= n

Reported(s) == [job EXCEPT ![s].at = "returned", ![s].save_failed = TRUE]

HandleError(s) ==
  /\ At(s, "failed")
  /\ \/ /\ job[s].kind = "autosave"
        /\ NoSubmit(Reported(s))
        /\ save_pending' = FALSE /\ retrigger_requested' = FALSE
        /\ realtime_timer' = (realtime_timer \/ retrigger_requested)
        /\ UNCHANGED <<project_file, mishaps>>
     \/ /\ job[s].kind = "page"
        /\ PageSaveOver(Reported(s), Free)
        /\ UNCHANGED <<realtime_timer, project_file, mishaps>>
     \/ /\ job[s].kind \in {"manual", "move"}
        /\ NoSubmit(Reported(s))
        /\ project_file' = job[s].source
        /\ LET written == disk[job[s].target]
           IN mishaps' = IF /\ job[s].kind = "move" /\ written \in Revision
                            /\ ~Holds(job[s].source, written)
                         THEN mishaps \cup {"stray"} ELSE mishaps
        /\ UNCHANGED flags
  /\ UNCHANGED <<edits, turns, overtaking, disk, sidecar, accidents>>

\* Mutant of SetCleanIfSaved: the edits made since are taken as saved.
SetClean(s) == dirty' = FALSE

SetCleanIfSaved(s) == dirty' = (dirty /\ revision # job[s].start)

\* clear_recovery_checkpoint.
Cleared(files) == [files EXCEPT ![Recovery] = Absent]

\* After an error the autosave's on_finished does the same as after none.
HandleAutosaveFinished(s) ==
  /\ At(s, "returned") /\ job[s].kind = "autosave"
  /\ NoSubmit(Without(s))
  /\ save_pending' = FALSE
  /\ IF job[s].target # Recovery
     THEN SetCleanIfSaved(s) /\ disk' = Cleared(disk)
     ELSE UNCHANGED <<dirty, disk>>
  /\ IF retrigger_requested \/ (job[s].target # Recovery /\ dirty')
     THEN retrigger_requested' = FALSE /\ realtime_timer' = TRUE
     ELSE UNCHANGED <<retrigger_requested, realtime_timer>>
  /\ UNCHANGED <<revision, project_file, turns, overtaking, sidecar, accidents, mishaps>>

HandlePageFinished(s) ==
  /\ At(s, "returned") /\ job[s].kind = "page"
  /\ SetCleanIfSaved(s) /\ disk' = Cleared(disk)
  /\ PageSaveOver(Without(s), {s})
  /\ UNCHANGED <<revision, realtime_timer, project_file, turns, overtaking, sidecar,
                 accidents, mishaps>>

HandleSaveFailed(s) ==
  /\ At(s, "returned") /\ job[s].kind \in {"manual", "move"} /\ job[s].save_failed
  /\ NoSubmit(Without(s))
  /\ UNCHANGED <<edits, flags, project_file, turns, overtaking, disk, sidecar,
                 accidents, mishaps>>

HandleSaved(s) ==
  /\ At(s, "returned") /\ job[s].kind = "manual" /\ ~job[s].save_failed
  /\ NoSubmit(Without(s))
  /\ SetCleanIfSaved(s) /\ disk' = Cleared(disk)
  /\ UNCHANGED <<revision, flags, project_file, turns, overtaking, sidecar,
                 accidents, mishaps>>

\* finalize_checkpoint_sidecar_move: the target's metadata must be ours.
Finalized(source, target) ==
  IF sidecar[target] \in {"own", "behind"} /\ sidecar[source] \in {"own", "behind"}
  THEN [sidecar EXCEPT ![source] = "none"] ELSE sidecar

\* _post_save of a move: the old file is removed, and with it its sidecar.
HandleMoved(s) ==
  /\ At(s, "returned") /\ job[s].kind = "move" /\ ~job[s].save_failed
  /\ NoSubmit(Without(s))
  /\ SetCleanIfSaved(s)
  /\ LET source == job[s].source  target == job[s].target IN
       \/ /\ disk' = [Cleared(disk) EXCEPT ![source] = Absent]
          /\ sidecar' = Finalized(source, target)
          /\ UNCHANGED accidents
       \/ /\ disk[source] # Absent /\ Accident
          /\ disk' = Cleared(disk)
          /\ UNCHANGED sidecar
  /\ UNCHANGED <<revision, flags, project_file, turns, overtaking, mishaps>>

-----------------------------------------------------------------------------
Worker(s) ==
  \/ Begin(s) \/ BackUp(s) \/ PrepareFails(s) \/ Install(s) \/ Write(s) \/ Settle(s)

Callback(s) ==
  \/ Queue(s) \/ HandleError(s) \/ HandleAutosaveFinished(s) \/ HandlePageFinished(s)
  \/ HandleSaveFailed(s) \/ HandleSaved(s) \/ HandleMoved(s)

BatchThread ==
  \/ BatchBegin \/ EndDeferral \/ EndDeferralSave \/ BatchEnd

Next ==
  \/ Edit \/ ManualSave \/ Cancel \/ \E p \in Path : Move(p)
  \/ RealtimeTimeout \/ IntervalTimeout
  \/ BatchStart \/ BatchPageDone \/ BeginDeferral \/ RecordStage \/ BatchThread
  \/ \E s \in Slot : Worker(s) \/ Callback(s) \/ WriteFails(s)

Spec == Init /\ [][Next]_vars

-----------------------------------------------------------------------------
(* Properties.                                                              *)

\* The files that may be the project's while a move is on its way.
ProjectFiles ==
  {project_file} \cup {job[s].source : s \in {t \in Jobs : job[t].kind = "move"}}

\* A window without unsaved changes: the project file holds every edit,
\* whatever edits and saves came while it was written.  Failed saves of the
\* user keep the window dirty; the mishaps that do not are named.
CleanMeansSaved ==
  ~dirty /\ mishaps \cap {"unsaved", "stray", "together"} = {}
    => \E p \in ProjectFiles : Holds(p, revision)

\* The pending flag, which holds up every autosave, is never left behind:
\* there is a save whose callback will reset it, unless a cancellation forgot
\* the save.
PendingHasSave ==
  save_pending => \/ \E s \in Jobs : job[s].kind \in {"autosave", "page"}
                  \/ "dropped" \in mishaps

\* A project's stage results lie beside it: those of a project that a move is
\* to replace go only while the move is under way, and come back if it fails.
SidecarFits ==
  \A p \in Path :
    disk[p] = Foreign /\ sidecar[p] # "foreign" =>
      \E s \in UnderWay : job[s].kind = "move" /\ job[s].target = p

\* What has reached the disk is never taken away: no save, move or removal
\* of a recovery checkpoint leaves less there than before.
NothingIsLost ==
  [][mishaps' \cap {"unsaved", "together"} = {} =>
       \A n \in Revision :
         (\E f \in Files : Holds(f, n)) => (\E f \in Files : Holds(f, n)')]_vars

=============================================================================
