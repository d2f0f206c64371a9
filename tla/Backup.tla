------------------------------- MODULE Backup -------------------------------
(***************************************************************************)
(* `backup create` beside a running daemon.  The backup is a process of    *)
(* its own; it freezes the daemon by taking its operation gate over HTTP   *)
(* (internal/api/backup_freeze.go), checkpoints and pins the database,     *)
(* ends the freeze and then captures the attachments while the daemon      *)
(* writes again (cmd/backup.go, internal/backupapp/content_source.go).     *)
(* The backup may die or hang anywhere, its last request may arrive late,  *)
(* and the watchdog of the daemon may fire at any time.                    *)
(*                                                                         *)
(* The gate is a holder; OperationGate shows what it promises in detail.   *)
(***************************************************************************)
EXTENDS Naturals

CONSTANTS Run,       \* runs of backup create
          Writer,    \* other holders of the gate: requests, jobs, commands
          Blob,      \* attachments
          NoOne,     \* nobody holds the gate, no token, no blob
          MaxWrites  \* bound: changes of the database

ASSUME BackupAssumption ==
  /\ NoOne \notin Run \cup Writer \cup Blob
  /\ Run \cap Writer = {}
  /\ MaxWrites \in Nat

VARIABLES
  holder,    \* who holds the operation gate
  closed,    \* the daemon is shutting down
  active,    \* backupFreezeState.active
  token,     \* backupFreezeState.token: the run it was given to
  watchdog,  \* per run: "off", "armed" or "fired" and not yet run
  beginning, \* per run: where its Begin request stands in the daemon
  endSent,   \* runs whose End request is on its way
  releasing, \* release functions in hand: who calls, for whom, whose hold
  pc,        \* per run: where the backup process stands
  archive,   \* the database: its version, the attachments it names, and those
             \* among them whose row records a path outside the blob store
  where,     \* per attachment: the places that hold its bytes
  task,      \* what the writer at work has begun and not finished
  checked,   \* per run: the version its checkpoint put into the main file
  pinned,    \* per run: the database its read transaction sees
  left,      \* per run: the attachments it has still to capture
  seek       \* per run: the attachment it looks for, and where

freeze == <<active, token, watchdog>>
gate == <<holder, closed>>
data == <<archive, where, task>>
image == <<checked, pinned>>
capture == <<left, seek>>
backupVars == <<gate, freeze, beginning, endSent, releasing, pc, data, image,
                capture>>

Nowhere == [blob |-> NoOne, at |-> "store"]
NoTask == [kind |-> "none", blob |-> NoOne]

\* The pack catalog or the canonical loose path, what the blob store knows.
InStore(b) == where[b] \cap {"packed", "canonical"} # {}

BackupInit ==
  /\ holder = NoOne /\ closed = FALSE
  /\ active = FALSE /\ token = NoOne
  /\ watchdog = [r \in Run |-> "off"]
  /\ beginning = [r \in Run |-> "none"]
  /\ endSent = {}
  /\ releasing = {}
  /\ pc = [r \in Run |-> "off"]
  /\ \E legacy \in SUBSET Blob :
       /\ archive = [version |-> 0, names |-> Blob, legacy |-> legacy]
       /\ where = [b \in Blob |-> {IF b \in legacy THEN "legacy" ELSE "canonical"}]
  /\ task = NoTask
  /\ checked = [r \in Run |-> 0]
  /\ pinned = [r \in Run |-> archive]
  /\ left = [r \in Run |-> {}]
  /\ seek = [r \in Run |-> Nowhere]

----------------------------------------------------------------------------
(* The daemon's side of the freeze. *)

\* Mutant: the CLI run that starts the backup goes through the gate itself.
StartCreateGated(r) ==
  /\ pc[r] = "off" /\ holder = NoOne
  /\ pc' = [pc EXCEPT ![r] = "asking"]
  /\ holder' = r
  /\ UNCHANGED <<closed, freeze, beginning, endSent, releasing, data, image, capture>>

\* The daemon spawns the backup; the CLI run does not hold the gate meanwhile.
StartCreate(r) ==
  /\ pc[r] = "off"
  /\ pc' = [pc EXCEPT ![r] = "asking"]
  /\ UNCHANGED <<gate, freeze, beginning, endSent, releasing, data, image, capture>>

\* The window is reserved before the gate is asked for; a second Begin is
\* refused at once, and that run fails.
BeginReserves(r) ==
  /\ pc[r] = "asking" /\ beginning[r] = "none"
  /\ IF active
     THEN /\ pc' = [pc EXCEPT ![r] = "failed"]
          /\ UNCHANGED <<active, beginning>>
     ELSE /\ active' = TRUE
          /\ beginning' = [beginning EXCEPT ![r] = "waiting"]
          /\ UNCHANGED pc
  /\ UNCHANGED <<gate, token, watchdog, endSent, releasing, data, image, capture>>

BeginAcquires(r) ==
  /\ beginning[r] = "waiting"
  /\ holder = NoOne /\ ~closed
  /\ holder' = r
  /\ beginning' = [beginning EXCEPT ![r] = "granted"]
  /\ UNCHANGED <<closed, freeze, endSent, releasing, pc, data, image, capture>>

\* The wait has a limit, ends with the connection and with the daemon.  The
\* client asks again while the gate is busy.
BeginGivesUp(r) ==
  /\ beginning[r] = "waiting"
  /\ holder # NoOne \/ closed \/ pc[r] # "asking"
  /\ active' = FALSE
  /\ beginning' = [beginning EXCEPT ![r] = "none"]
  /\ pc' = IF closed /\ pc[r] = "asking"
           THEN [pc EXCEPT ![r] = "failed"] ELSE pc
  /\ UNCHANGED <<gate, token, watchdog, endSent, releasing, data, image, capture>>

\* Mutant: nothing bounds the freeze.
BeginAnswersUnwatched(r) ==
  /\ beginning[r] = "granted"
  /\ token' = r
  /\ beginning' = [beginning EXCEPT ![r] = "done"]
  /\ pc' = IF pc[r] = "asking" THEN [pc EXCEPT ![r] = "frozen"] ELSE pc
  /\ UNCHANGED <<gate, active, watchdog, endSent, releasing, data, image, capture>>

BeginAnswers(r) ==
  /\ beginning[r] = "granted"
  /\ token' = r
  /\ watchdog' = [watchdog EXCEPT ![r] = "armed"]
  /\ beginning' = [beginning EXCEPT ![r] = "done"]
  /\ pc' = IF pc[r] = "asking" THEN [pc EXCEPT ![r] = "frozen"] ELSE pc
  /\ UNCHANGED <<gate, active, endSent, releasing, data, image, capture>>

\* A timer that has fired can no longer be stopped.
WatchdogFires(r) ==
  /\ watchdog[r] = "armed"
  /\ watchdog' = [watchdog EXCEPT ![r] = "fired"]
  /\ UNCHANGED <<gate, active, token, beginning, endSent, releasing, pc, data,
                 image, capture>>

\* Mutant: the token is not compared.
OpenToAnyToken(r) == active /\ token # NoOne

\* What clearBackupFreeze checks.
Open(r) == active /\ token = r

\* Whoever closes the window takes the release function out of it.
ClearBackupFreeze(r, by) ==
  /\ Open(r)
  /\ active' = FALSE /\ token' = NoOne
  /\ releasing' = releasing \cup {[by |-> by, run |-> r, hold |-> token]}

ReleaseOnWatchdog(r) ==
  /\ watchdog[r] = "fired"
  /\ watchdog' = [watchdog EXCEPT ![r] = "off"]
  /\ \/ ClearBackupFreeze(r, "watchdog")
     \/ ~Open(r) /\ UNCHANGED <<active, token, releasing>>
  /\ UNCHANGED <<gate, beginning, endSent, pc, data, image, capture>>

\* Mutant: an End that comes after the watchdog is answered like any other.
HandleEndLate(r) ==
  /\ r \in endSent
  /\ endSent' = endSent \ {r}
  /\ \/ /\ ClearBackupFreeze(r, "end")
        /\ watchdog' = [watchdog EXCEPT ![r] = IF @ = "armed" THEN "off" ELSE @]
        /\ UNCHANGED pc
     \/ /\ ~Open(r)
        /\ pc' = IF pc[r] = "ending" THEN [pc EXCEPT ![r] = "scanning"] ELSE pc
        /\ UNCHANGED <<freeze, releasing>>
  /\ UNCHANGED <<gate, beginning, data, image, capture>>

\* The End request arrives, perhaps after its sender has gone.  Stopping a
\* watchdog that has fired has no effect.  A token whose window has closed is
\* refused, and that backup fails.
HandleEnd(r) ==
  /\ r \in endSent
  /\ endSent' = endSent \ {r}
  /\ \/ /\ ClearBackupFreeze(r, "end")
        /\ watchdog' = [watchdog EXCEPT ![r] = IF @ = "armed" THEN "off" ELSE @]
        /\ UNCHANGED pc
     \/ /\ ~Open(r)
        /\ pc' = IF pc[r] = "ending" THEN [pc EXCEPT ![r] = "failed"] ELSE pc
        /\ UNCHANGED <<freeze, releasing>>
  /\ UNCHANGED <<gate, beginning, data, image, capture>>

\* The release function works once, and outside the lock; End answers after it.
Release(x) ==
  /\ x \in releasing
  /\ releasing' = releasing \ {x}
  /\ holder' = IF holder = x.hold THEN NoOne ELSE holder
  /\ pc' = IF x.by = "end" /\ pc[x.run] = "ending"
           THEN [pc EXCEPT ![x.run] = "scanning"] ELSE pc
  /\ UNCHANGED <<closed, freeze, beginning, endSent, data, image, capture>>

Close == /\ ~closed
         /\ closed' = TRUE
         /\ UNCHANGED <<holder, freeze, beginning, endSent, releasing, pc, data,
                        image, capture>>

----------------------------------------------------------------------------
(* The backup. *)

Checkpoint(r) ==
  /\ pc[r] = "frozen"
  /\ checked' = [checked EXCEPT ![r] = archive.version]
  /\ pc' = [pc EXCEPT ![r] = "checkpointed"]
  /\ UNCHANGED <<gate, freeze, beginning, endSent, releasing, data, pinned, capture>>

Pin(r) ==
  /\ pc[r] = "checkpointed"
  /\ pinned' = [pinned EXCEPT ![r] = archive]
  /\ pc' = [pc EXCEPT ![r] = "pinned"]
  /\ UNCHANGED <<gate, freeze, beginning, endSent, releasing, data, checked, capture>>

End(r) ==
  /\ pc[r] = "pinned"
  /\ pc' = [pc EXCEPT ![r] = "ending"]
  /\ endSent' = endSent \cup {r}
  /\ UNCHANGED <<gate, freeze, beginning, releasing, data, image, capture>>

\* The page scan, and the attachments the pinned database names.
Scan(r) ==
  /\ pc[r] = "scanning"
  /\ left' = [left EXCEPT ![r] = pinned[r].names]
  /\ pc' = [pc EXCEPT ![r] = "capturing"]
  /\ UNCHANGED <<gate, freeze, beginning, endSent, releasing, data, image, seek>>

Captured(r, b) ==
  /\ left' = [left EXCEPT ![r] = @ \ {b}]
  /\ seek' = [seek EXCEPT ![r] = Nowhere]
  /\ UNCHANGED pc

NotFound(r) ==
  /\ pc' = [pc EXCEPT ![r] = "missing"]
  /\ UNCHANGED capture

\* blobSource.Open looks in the blob store first.
OpenBlob(r, b) ==
  /\ pc[r] = "capturing" /\ seek[r] = Nowhere /\ b \in left[r]
  /\ \/ InStore(b) /\ Captured(r, b)
     \/ ~InStore(b) /\ b \notin pinned[r].legacy /\ NotFound(r)
     \/ /\ ~InStore(b) /\ b \in pinned[r].legacy
        /\ seek' = [seek EXCEPT ![r] = [blob |-> b, at |-> "path"]]
        /\ UNCHANGED <<left, pc>>
  /\ UNCHANGED <<gate, freeze, beginning, endSent, releasing, data, image>>

\* Mutant: a recorded path that has gone is the end of the search.
OpenRecordedPathOnce(r) ==
  /\ pc[r] = "capturing" /\ seek[r].at = "path"
  /\ \/ "legacy" \in where[seek[r].blob] /\ Captured(r, seek[r].blob)
     \/ "legacy" \notin where[seek[r].blob] /\ NotFound(r)
  /\ UNCHANGED <<gate, freeze, beginning, endSent, releasing, data, image>>

\* Then at the path the pinned row records.
OpenRecordedPath(r) ==
  /\ pc[r] = "capturing" /\ seek[r].at = "path"
  /\ \/ "legacy" \in where[seek[r].blob] /\ Captured(r, seek[r].blob)
     \/ /\ "legacy" \notin where[seek[r].blob]
        /\ seek' = [seek EXCEPT ![r].at = "retry"]
        /\ UNCHANGED <<left, pc>>
  /\ UNCHANGED <<gate, freeze, beginning, endSent, releasing, data, image>>

\* Then once more in the store: the packer may have moved it between the two.
OpenAgain(r) ==
  /\ pc[r] = "capturing" /\ seek[r].at = "retry"
  /\ \/ InStore(seek[r].blob) /\ Captured(r, seek[r].blob)
     \/ ~InStore(seek[r].blob) /\ NotFound(r)
  /\ UNCHANGED <<gate, freeze, beginning, endSent, releasing, data, image>>

Publish(r) ==
  /\ pc[r] = "capturing" /\ left[r] = {}
  /\ pc' = [pc EXCEPT ![r] = "published"]
  /\ UNCHANGED <<gate, freeze, beginning, endSent, releasing, data, image, capture>>

\* Killed, cancelled, or given up after an error of its own.
Die(r) ==
  /\ pc[r] \notin {"off", "published", "failed", "missing", "dead"}
  /\ pc' = [pc EXCEPT ![r] = "dead"]
  /\ UNCHANGED <<gate, freeze, beginning, endSent, releasing, data, image, capture>>

----------------------------------------------------------------------------
(* The others.  Every change of the archive is made under the gate. *)

Elsewhere == <<closed, freeze, beginning, endSent, releasing, pc, image, capture>>
Changed(names, legacy) ==
  /\ archive.version < MaxWrites
  /\ archive' = [version |-> archive.version + 1, names |-> names,
                 legacy |-> legacy]
At(w, kind) == holder = w /\ task.kind = kind

WriterBegins(w) ==
  /\ holder = NoOne /\ ~closed
  /\ archive.version < MaxWrites
  /\ holder' = w
  /\ UNCHANGED <<data, Elsewhere>>

\* An ingested attachment is stored at its canonical path, then named.
Ingest(w, b) ==
  /\ At(w, "none") /\ b \notin archive.names
  /\ Changed(archive.names \cup {b}, archive.legacy)
  /\ where' = [where EXCEPT ![b] = @ \cup {"canonical"}]
  /\ UNCHANGED <<holder, task, Elsewhere>>

\* The packer commits the mapping, which makes the path canonical, and then
\* removes the loose files.
CommitPack(w, b) ==
  /\ At(w, "none") /\ b \in archive.names /\ "packed" \notin where[b]
  /\ Changed(archive.names, archive.legacy \ {b})
  /\ where' = [where EXCEPT ![b] = @ \cup {"packed"}]
  /\ task' = [kind |-> "pack", blob |-> b]
  /\ UNCHANGED <<holder, Elsewhere>>

RemoveLoose(w) ==
  /\ At(w, "pack")
  /\ where' = [where EXCEPT ![task.blob] = {"packed"}]
  /\ task' = NoTask
  /\ UNCHANGED <<holder, archive, Elsewhere>>

\* remove-account, and the sweep of what nothing names any more.
RemoveRows(w, b) ==
  /\ At(w, "none") /\ b \in archive.names
  /\ Changed(archive.names \ {b}, archive.legacy \ {b})
  /\ task' = [kind |-> "remove", blob |-> b]
  /\ UNCHANGED <<holder, where, Elsewhere>>

RemoveFiles(w) ==
  /\ At(w, "remove")
  /\ where' = [where EXCEPT ![task.blob] = {}]
  /\ task' = NoTask
  /\ UNCHANGED <<holder, archive, Elsewhere>>

WriterEnds(w) ==
  /\ At(w, "none")
  /\ holder' = NoOne
  /\ UNCHANGED <<data, Elsewhere>>

----------------------------------------------------------------------------
DaemonStep ==
  \/ \E r \in Run : \/ BeginReserves(r) \/ BeginAcquires(r) \/ BeginGivesUp(r)
                    \/ BeginAnswers(r) \/ WatchdogFires(r)
                    \/ ReleaseOnWatchdog(r) \/ HandleEnd(r)
  \/ \E x \in releasing : Release(x)
  \/ Close

BackupStep(r) ==
  \/ StartCreate(r) \/ Checkpoint(r) \/ Pin(r) \/ End(r) \/ Scan(r)
  \/ \E b \in Blob : OpenBlob(r, b)
  \/ OpenRecordedPath(r) \/ OpenAgain(r) \/ Publish(r) \/ Die(r)

WriterStep(w) ==
  \/ WriterBegins(w) \/ RemoveLoose(w) \/ RemoveFiles(w) \/ WriterEnds(w)
  \/ \E b \in Blob : Ingest(w, b) \/ CommitPack(w, b) \/ RemoveRows(w, b)

BackupNext == \/ DaemonStep
              \/ \E r \in Run : BackupStep(r)
              \/ \E w \in Writer : WriterStep(w)

\* The daemon runs its handlers and timers, and writers finish what they hold
\* the gate for; a backup may hang.
BackupFairness ==
  /\ \A r \in Run : /\ WF_backupVars(BeginReserves(r))
                    /\ WF_backupVars(BeginAcquires(r) \/ BeginGivesUp(r))
                    /\ WF_backupVars(BeginAnswers(r))
                    /\ WF_backupVars(WatchdogFires(r))
                    /\ WF_backupVars(ReleaseOnWatchdog(r))
                    /\ WF_backupVars(HandleEnd(r))
  /\ WF_backupVars(\E x \in releasing : Release(x))
  /\ \A w \in Writer : WF_backupVars(RemoveLoose(w) \/ RemoveFiles(w) \/ WriterEnds(w))

BackupSpec == BackupInit /\ [][BackupNext]_backupVars /\ BackupFairness

----------------------------------------------------------------------------
(* Properties *)

\* Every variable has its type, and the window is reserved exactly from the
\* moment a Begin has claimed it until its token is cleared.
BackupTypeOK ==
  /\ holder \in Run \cup Writer \cup {NoOne}
  /\ closed \in BOOLEAN /\ active \in BOOLEAN
  /\ token \in Run \cup {NoOne}
  /\ watchdog \in [Run -> {"off", "armed", "fired"}]
  /\ beginning \in [Run -> {"none", "waiting", "granted", "done"}]
  /\ endSent \subseteq Run
  /\ releasing \subseteq [by : {"end", "watchdog"}, run : Run, hold : Run]
  /\ pc \in [Run -> {"off", "asking", "frozen", "checkpointed", "pinned", "ending",
                     "scanning", "capturing", "published", "failed", "missing",
                     "dead"}]
  /\ archive \in [version : 0..MaxWrites, names : SUBSET Blob, legacy : SUBSET Blob]
  /\ where \in [Blob -> SUBSET {"legacy", "canonical", "packed"}]
  /\ checked \in [Run -> 0..MaxWrites]
  /\ left \in [Run -> SUBSET Blob]
  /\ active = (token # NoOne
               \/ \E r \in Run : beginning[r] \in {"waiting", "granted"})

\* No backup past its freeze has an image in which a write fell between the
\* checkpoint and the pin: the scan of the main file would miss it.  The
\* watchdog may well have fired in between; then End must have failed.
FrozenSnapshot ==
  \A r \in Run : pc[r] \in {"scanning", "capturing", "published"} =>
                  checked[r] = pinned[r].version

\* A backup reports an attachment missing only when no copy is left, never
\* because the packer moved it under the search (content_source.go).
MissingIsGone ==
  [][\A r \in Run : pc[r] # "missing" /\ pc'[r] = "missing" =>
       \E b \in left[r] : where[b] = {}]_backupVars

\* The hold of a run on the gate is ended by its own End or its own watchdog:
\* a late request, or the timer of an earlier run, does not thaw another's.
OwnThaw ==
  [][\A r \in Run : holder = r /\ holder' # r =>
       \E x \in releasing : x.run = r]_backupVars

\* Whatever becomes of the backup, the daemon gets its gate back.
GateComesBack == \A r \in Run : holder = r ~> holder # r

\* A backup that asks is not kept out by its own CLI run or a window nobody
\* will close: if the others are done at some time, it gets an answer.
AskingIsAnswered ==
  \A r \in Run : (<>[](holder \notin Writer)) => (pc[r] = "asking" ~> pc[r] # "asking")
=============================================================================
