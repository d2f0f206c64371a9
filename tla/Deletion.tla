------------------------------ MODULE Deletion ------------------------------
(***************************************************************************)
(* Staged deletion (internal/deletion, cmd/msgvault/cmd/deletions.go): a   *)
(* manifest lists messages to delete on the mail server, its file moves    *)
(* between one directory per status, delete-staged executes it with        *)
(* checkpoints in the file, cancel-deletion withdraws it.                  *)
(*                                                                         *)
(* Both commands run under the daemon's operation gate, so one runs at a   *)
(* time; either may be interrupted or killed and run again.  One manifest  *)
(* is modelled: commands handle each manifest on its own.                  *)
(***************************************************************************)
EXTENDS Naturals, Sequences, SequencesExt, FiniteSets

CONSTANTS
  MessageCount,  \* messages the manifest lists
  CheckpointAt,  \* Execute saves after every so many messages (100)
  BatchLimit,    \* messages of one batch call (1000)
  Permanent,     \* values of the --permanent flag
  FaultKinds,    \* kinds of faults explored
  MaxFaults      \* bound on their number

ASSUME DeletionAssumption ==
  /\ MessageCount \in Nat /\ MaxFaults \in Nat
  /\ CheckpointAt \in Nat \ {0} /\ BatchLimit \in Nat \ {0}
  /\ Permanent \subseteq BOOLEAN
  /\ FaultKinds \subseteq {"call", "scope", "interrupt", "db", "write", "kill"}

Message == 1..MessageCount
Status == {"pending", "in_progress", "completed", "failed", "cancelled"}

VARIABLES
  file,       \* the manifest's file in each status directory
  remote,     \* each message on the mail server
  local,      \* each message's row in the archive
  markErrors, \* messages whose row could not be updated
  step,       \* where the running command stands
  phase,      \* what the executor works through
  ctxDone,    \* the command's context is cancelled
  manifest,   \* the manifest in memory
  index,      \* messages of the list passed so far
  batchEnd,   \* end of the batch that is deleted one by one
  retry,      \* failed messages of earlier runs still to be tried again
  tally,      \* succeeded, and the failed messages of this run
  tried,      \* messages a call was made for in this run
  pending,    \* the write under way: directory, content, next step
  faults      \* faults so far

disk == <<file, remote, local, markErrors>>
memory == <<phase, ctxDone, manifest, index, batchEnd, retry, tally, tried>>
vars == <<file, remote, local, markErrors, step, phase, ctxDone, manifest, index,
          batchEnd, retry, tally, tried, pending, faults>>

NoExecution == [method |-> "none", lastIndex |-> 0, succeeded |-> 0,
                failed |-> 0, failedIDs |-> <<>>]
Manifest(status, execution) == [status |-> status, execution |-> execution]
Absent == Manifest("absent", NoExecution)
Torn == Manifest("torn", NoExecution)  \* truncated: it does not load
Loads(m) == m.status \in Status

NoWrite == [dir |-> "pending", content |-> Absent, next |-> "idle"]
NoTally == [succeeded |-> 0, failed |-> 0, failedIDs |-> <<>>]

IsFailedList(s) == s \in Seq(Message) /\ Len(s) <= 2 * MessageCount
IsManifest(m) ==
  /\ m.status \in Status \cup {"absent", "torn"}
  /\ m.execution.method \in {"none", "trash", "delete"}
  /\ m.execution.lastIndex \in 0..MessageCount
  /\ m.execution.succeeded \in Nat /\ m.execution.failed \in Nat
  /\ IsFailedList(m.execution.failedIDs)

DeletionTypeOK ==
  /\ DOMAIN file = Status /\ \A d \in Status : IsManifest(file[d])
  /\ remote \in [Message -> {"live", "trashed", "deleted"}]
  /\ local \in [Message -> {"live", "marked", "removed"}]
  /\ markErrors \subseteq Message
  /\ step \in {"idle", "begin", "check", "call", "mark", "final", "move",
               "write", "cancel"}
  /\ phase \in {"none", "trash", "retry", "batch", "single"}
  /\ ctxDone \in BOOLEAN
  /\ IsManifest(manifest)
  /\ index \in 0..MessageCount /\ batchEnd \in 0..MessageCount
  /\ IsFailedList(retry)
  /\ tally.succeeded \in Nat /\ tally.failed \in Nat /\ IsFailedList(tally.failedIDs)
  /\ tried \subseteq Message
  /\ pending.dir \in Status /\ IsManifest(pending.content)
  /\ faults \in 0..MaxFaults

\* The batch is staged (CreateManifest); some of its messages may already be
\* gone from the server.
DeletionInit ==
  /\ file = [d \in Status |-> IF d = "pending" THEN Manifest("pending", NoExecution)
                                               ELSE Absent]
  /\ remote \in [Message -> {"live", "deleted"}]
  /\ local = [m \in Message |-> "live"]
  /\ markErrors = {}
  /\ step = "idle" /\ phase = "none" /\ ctxDone = FALSE
  /\ manifest = Absent
  /\ index = 0 /\ batchEnd = 0 /\ retry = <<>>
  /\ tally = NoTally /\ tried = {}
  /\ pending = NoWrite
  /\ faults = 0

Fault(kind) == kind \in FaultKinds /\ faults < MaxFaults /\ faults' = faults + 1

Least(a, b) == IF a < b THEN a ELSE b

\* The command is over: what it kept in memory is gone.
Forget ==
  /\ phase' = "none" /\ ctxDone' = FALSE /\ manifest' = Absent
  /\ index' = 0 /\ batchEnd' = 0 /\ retry' = <<>>
  /\ tally' = NoTally /\ tried' = {}

(***************************************************************************)
(* Manifest.Save opens the file, truncates it and writes it.  Cut short by *)
(* an error or a kill it leaves what was there, if it has not opened the   *)
(* file yet, or a file that does not load.                                 *)
(***************************************************************************)
Save(dir, content, then) ==
  /\ pending' = [dir |-> dir, content |-> content, next |-> then]
  /\ step' = "write"
  /\ UNCHANGED file

CutShort == file' \in {file, [file EXCEPT ![pending.dir] = Torn]}

EndsAt(then) == IF then = "idle" THEN Forget ELSE UNCHANGED memory

Write ==
  /\ step = "write"
  /\ file' = [file EXCEPT ![pending.dir] = pending.content]
  /\ step' = pending.next
  /\ EndsAt(pending.next)
  /\ pending' = NoWrite
  /\ UNCHANGED <<remote, local, markErrors, faults>>

\* A failed save is logged; only the first save of ExecuteBatch ends the run.
WriteFails ==
  /\ step = "write"
  /\ Fault("write")
  /\ LET next == IF phase = "retry" /\ tried = {} THEN "idle" ELSE pending.next
     IN step' = next /\ EndsAt(next)
  /\ CutShort
  /\ pending' = NoWrite
  /\ UNCHANGED <<remote, local, markErrors>>

(***************************************************************************)
(* delete-staged: start.                                                   *)
(***************************************************************************)
\* GetManifest: the first file that loads, directories in order of status.
Found ==
  LET loads(d) == Loads(file[d])
  IN CASE loads("pending")     -> file["pending"]
       [] loads("in_progress") -> file["in_progress"]
       [] loads("completed")   -> file["completed"]
       [] loads("failed")      -> file["failed"]
       [] loads("cancelled")   -> file["cancelled"]
       [] OTHER                -> Absent

\* A manifest in progress keeps the method it was started with.
Method(permanent) ==
  IF Found.status = "in_progress" /\ Found.execution.method # "none"
  THEN Found.execution.method
  ELSE IF permanent THEN "delete" ELSE "trash"

\* Mutant: every manifest is taken for a pending one.
PrepareByMove(method) ==
  /\ manifest' = Manifest("in_progress", [NoExecution EXCEPT !.method = method])
  /\ file["pending"] # Absent
  /\ file' = [file EXCEPT !["in_progress"] = file["pending"], !["pending"] = Absent]

\* prepareExecution: a pending manifest moves to in_progress, unwritten.
Prepare(method) ==
  LET execution == IF Found.status = "pending" \/ Found.execution.method = "none"
                   THEN [NoExecution EXCEPT !.method = method]
                   ELSE Found.execution
  IN /\ manifest' = Manifest("in_progress", execution)
     /\ IF Found.status = "pending"
        THEN /\ file["pending"] # Absent
             /\ file' = [file EXCEPT !["in_progress"] = file["pending"],
                                     !["pending"] = Absent]
        ELSE Found.status = "in_progress" /\ UNCHANGED file

\* Execute resumes at the checkpoint with its counts.
StartTrash ==
  /\ step = "idle"
  /\ \E permanent \in Permanent :
       Method(permanent) = "trash" /\ Prepare("trash")
  /\ LET e == manifest'.execution
     IN /\ index' = e.lastIndex
        /\ tally' = [succeeded |-> e.succeeded, failed |-> e.failed,
                     failedIDs |-> e.failedIDs]
  /\ step' = "check" /\ phase' = "trash"
  /\ UNCHANGED <<remote, local, markErrors, ctxDone, batchEnd, retry, tried,
                 pending, faults>>

\* ExecuteBatch saves the manifest, then tries the failed messages of earlier
\* runs again before it continues at the checkpoint.
StartDelete ==
  /\ step = "idle"
  /\ \E permanent \in Permanent :
       Method(permanent) = "delete" /\ Prepare("delete")
  /\ step' = "begin" /\ phase' = "retry"
  /\ UNCHANGED <<remote, local, markErrors, ctxDone, index, batchEnd, retry,
                 tally, tried, pending, faults>>

\* Mutant: the failures of earlier runs are carried along, not tried again.
BeginWithoutRetry ==
  /\ step = "begin"
  /\ Save("in_progress", manifest, "check")
  /\ LET e == manifest.execution
     IN /\ index' = e.lastIndex
        /\ tally' = [succeeded |-> e.succeeded, failed |-> e.failed,
                     failedIDs |-> e.failedIDs]
  /\ UNCHANGED <<remote, local, markErrors, phase, ctxDone, manifest, batchEnd,
                 retry, tried, faults>>

Begin ==
  /\ step = "begin"
  /\ Save("in_progress", manifest, "check")
  /\ LET e == manifest.execution
     IN /\ index' = e.lastIndex
        /\ retry' = e.failedIDs
        /\ tally' = [succeeded |-> e.succeeded,
                     failed |-> IF e.failedIDs = <<>> THEN e.failed ELSE 0,
                     failedIDs |-> <<>>]
  /\ UNCHANGED <<remote, local, markErrors, phase, ctxDone, manifest, batchEnd,
                 tried, faults>>

(***************************************************************************)
(* delete-staged: the loops.  Execute passes the list message by message   *)
(* (phase trash).  ExecuteBatch first passes the failures of earlier runs  *)
(* (retry), then the rest of the list in batch calls (batch), and message  *)
(* by message the batches whose call fails (single).                       *)
(***************************************************************************)
Left == CASE phase = "retry"  -> retry # <<>>
          [] phase = "single" -> index < batchEnd
          [] OTHER            -> index < MessageCount

\* Mutant: failures that were not tried again are dropped.
SaveCheckpointOfRun(at, count, then) ==
  LET execution == [manifest.execution EXCEPT
                      !.lastIndex = at, !.succeeded = count.succeeded,
                      !.failed = count.failed, !.failedIDs = count.failedIDs]
  IN Save("in_progress", Manifest(manifest.status, execution), then)

\* saveCheckpoint: failures of earlier runs that were not tried again in this
\* one stay on the list.
SaveCheckpoint(at, count, then) ==
  LET failedIDs == count.failedIDs \o retry
      execution == [manifest.execution EXCEPT
                      !.lastIndex = at, !.succeeded = count.succeeded,
                      !.failed = IF phase = "retry" THEN Len(failedIDs)
                                                    ELSE count.failed,
                      !.failedIDs = failedIDs]
  IN Save("in_progress", Manifest(manifest.status, execution), then)

Interrupt ==
  /\ phase # "none" /\ ~ctxDone
  /\ Fault("interrupt")
  /\ ctxDone' = TRUE
  /\ UNCHANGED <<disk, step, phase, manifest, index, batchEnd, retry, tally,
                 tried, pending>>

Check ==
  /\ step = "check" /\ Left
  /\ IF ctxDone THEN SaveCheckpoint(index, tally, "idle")
                ELSE step' = "call" /\ UNCHANGED <<file, pending>>
  /\ UNCHANGED <<remote, local, markErrors, memory, faults>>

LoopEnds ==
  /\ step = "check" /\ ~Left
  /\ IF phase \in {"retry", "single"}
     THEN phase' = "batch" /\ UNCHANGED step
     ELSE step' = "final" /\ UNCHANGED phase
  /\ UNCHANGED <<disk, ctxDone, manifest, index, batchEnd, retry, tally, tried,
                 pending, faults>>

NextMessage == IF phase = "retry" THEN Head(retry) ELSE index + 1
Targets == IF phase = "batch" THEN index + 1..Least(index + BatchLimit, MessageCount)
                              ELSE {NextMessage}

\* What the server does with the targets; 404 counts as success.
Effect == [m \in Message |->
             IF m \notin Targets \/ remote[m] = "deleted" THEN remote[m]
             ELSE IF phase = "trash" THEN "trashed" ELSE "deleted"]

\* One message is passed; Execute saves after every CheckpointAt of them.
Pass(count) ==
  /\ tally' = count
  /\ tried' = tried \cup Targets
  /\ IF phase = "retry" THEN retry' = Tail(retry) /\ UNCHANGED index
                        ELSE index' = index + 1 /\ UNCHANGED retry
  /\ IF phase = "trash" /\ (index + 1) % CheckpointAt = 0
     THEN SaveCheckpoint(index + 1, count, "check")
     ELSE step' = "check" /\ UNCHANGED <<file, pending>>
  /\ UNCHANGED <<phase, ctxDone, manifest, batchEnd>>

CallSucceeds ==
  /\ step = "call"
  /\ remote' = Effect
  /\ step' = "mark"
  /\ UNCHANGED <<file, local, markErrors, memory, pending, faults>>

\* The call fails, also because it is cancelled, and may have had its effect.
\* A failed batch call falls back to single calls.
CallFails ==
  /\ step = "call"
  /\ IF ctxDone THEN UNCHANGED faults ELSE Fault("call")
  /\ remote' \in {remote, Effect}
  /\ IF phase = "batch"
     THEN /\ phase' = "single" /\ step' = "check"
          /\ batchEnd' = Least(index + BatchLimit, MessageCount)
          /\ UNCHANGED <<file, pending, ctxDone, manifest, index, retry, tally, tried>>
     ELSE Pass([tally EXCEPT !.failed = @ + 1,
                             !.failedIDs = Append(@, NextMessage)])
  /\ UNCHANGED <<local, markErrors>>

\* Missing permissions end the run.
ScopeMissing ==
  /\ step = "call"
  /\ Fault("scope")
  /\ SaveCheckpoint(index, tally, "idle")
  /\ UNCHANGED <<remote, local, markErrors, memory>>

\* Mutant: single deletions are not recorded in the archive.
MarkDeletedBatchOnly ==
  /\ step = "mark"
  /\ local' = [m \in Message |-> IF phase = "batch" /\ m \in Targets THEN "marked"
                                                                    ELSE local[m]]
  /\ LET count == [tally EXCEPT !.succeeded = @ + Cardinality(Targets)]
     IN IF phase = "batch"
        THEN /\ index' = index + Cardinality(Targets)
             /\ tally' = count /\ tried' = tried \cup Targets
             /\ step' = "check"
             /\ UNCHANGED <<file, pending, phase, ctxDone, manifest, batchEnd, retry>>
        ELSE Pass(count)
  /\ UNCHANGED <<remote, markErrors, faults>>

\* A single permanent deletion removes the row, any other one marks it; rows
\* that cannot be updated are logged.
MarkDeleted ==
  /\ step = "mark"
  /\ \E missed \in SUBSET Targets :
       /\ IF missed = {} THEN UNCHANGED faults ELSE Fault("db")
       /\ markErrors' = markErrors \cup missed
       /\ local' = [m \in Message |->
            IF m \notin Targets \ missed \/ local[m] = "removed" THEN local[m]
            ELSE IF phase \in {"retry", "single"} THEN "removed" ELSE "marked"]
  /\ LET count == [tally EXCEPT !.succeeded = @ + Cardinality(Targets)]
     IN IF phase = "batch"
        THEN /\ index' = index + Cardinality(Targets)
             /\ tally' = count /\ tried' = tried \cup Targets
             /\ step' = "check"
             /\ UNCHANGED <<file, pending, phase, ctxDone, manifest, batchEnd, retry>>
        ELSE Pass(count)
  /\ UNCHANGED remote

(***************************************************************************)
(* finalizeExecution: save the outcome, then move the file.                *)
(***************************************************************************)
Outcome == IF tally.failed = 0 \/ tally.succeeded > 0 \/ phase # "trash"
           THEN "completed" ELSE "failed"

Finalize ==
  /\ step = "final"
  /\ manifest' = Manifest(Outcome,
       [manifest.execution EXCEPT
          !.lastIndex = MessageCount, !.succeeded = tally.succeeded,
          !.failed = tally.failed, !.failedIDs = tally.failedIDs])
  /\ Save("in_progress", manifest', "move")
  /\ UNCHANGED <<remote, local, markErrors, phase, ctxDone, index, batchEnd,
                 retry, tally, tried, faults>>

\* Without a file, when every write has failed, the move fails and is logged.
MoveToOutcome ==
  /\ step = "move"
  /\ IF file["in_progress"] = Absent
     THEN UNCHANGED file
     ELSE file' = [file EXCEPT ![manifest.status] = file["in_progress"],
                               !["in_progress"] = Absent]
  /\ step' = "idle"
  /\ Forget
  /\ UNCHANGED <<remote, local, markErrors, pending, faults>>

(***************************************************************************)
(* cancel-deletion: move the file, then rewrite the status in it.          *)
(***************************************************************************)
\* Mutant: the file is copied to cancelled instead of moved.
CancelCopies ==
  /\ step = "idle"
  /\ \E from \in {"pending", "in_progress"} :
       /\ Loads(file[from])
       /\ file' = [file EXCEPT !["cancelled"] = file[from]]
       /\ step' = "cancel"
       /\ manifest' = Manifest("cancelled", file[from].execution)
  /\ UNCHANGED <<remote, local, markErrors, phase, ctxDone, index, batchEnd,
                 retry, tally, tried, pending, faults>>

Cancel ==
  /\ step = "idle"
  /\ \E from \in {"pending", "in_progress"} :
       /\ file[from] # Absent
       /\ from = "in_progress" => file["pending"] = Absent
       /\ file' = [file EXCEPT !["cancelled"] = file[from], ![from] = Absent]
       /\ IF Loads(file[from])
          THEN step' = "cancel"
               /\ manifest' = Manifest("cancelled", file[from].execution)
          ELSE UNCHANGED <<step, manifest>>
  /\ UNCHANGED <<remote, local, markErrors, phase, ctxDone, index, batchEnd,
                 retry, tally, tried, pending, faults>>

CancelSaves ==
  /\ step = "cancel"
  /\ Save("cancelled", manifest, "idle")
  /\ UNCHANGED <<remote, local, markErrors, memory, faults>>

Kill ==
  /\ step # "idle"
  /\ Fault("kill")
  /\ IF step = "write" THEN CutShort ELSE UNCHANGED file
  /\ step' = "idle"
  /\ Forget
  /\ pending' = NoWrite
  /\ UNCHANGED <<remote, local, markErrors>>

CommandStep ==
  \/ Write \/ WriteFails
  \/ Begin \/ Check \/ LoopEnds
  \/ CallSucceeds \/ CallFails \/ ScopeMissing \/ MarkDeleted
  \/ Finalize \/ MoveToOutcome
  \/ CancelSaves

DeletionNext ==
  \/ StartTrash \/ StartDelete \/ Cancel
  \/ CommandStep
  \/ Interrupt \/ Kill

DeletionSpec == DeletionInit /\ [][DeletionNext]_vars

\* A command in progress goes on, and the user runs delete-staged again as
\* long as the batch is listed.  Nobody has to cancel it.
FairDeletionSpec ==
  DeletionSpec /\ WF_vars(CommandStep) /\ WF_vars(StartTrash \/ StartDelete)
-----------------------------------------------------------------------------
(***************************************************************************)
(* Properties                                                              *)
(***************************************************************************)
\* The execution record in a file tells the truth whenever a run may resume
\* from it: every message before the checkpoint is gone from the server or on
\* the list of failures, and the counts add up to the checkpoint.
ProgressIsTrue ==
  \A d \in Status :
    LET e == file[d].execution
    IN /\ \A m \in 1..e.lastIndex : remote[m] # "live" \/ m \in ToSet(e.failedIDs)
       /\ e.succeeded + e.failed = e.lastIndex
       /\ e.failed = Len(e.failedIDs)

\* The archive's deletion marks agree with the server: no message is taken for
\* deleted that is still there, and what was passed without a failure is marked,
\* also when the run that deleted it was killed before it could record it.
MarksAreTrue ==
  /\ \A m \in Message : local[m] # "live" => remote[m] # "live"
  /\ \A d \in Status : \A m \in 1..file[d].execution.lastIndex :
       \/ local[m] # "live"
       \/ m \in ToSet(file[d].execution.failedIDs)
       \/ m \in markErrors

\* Once the batch is cancelled nothing more is deleted, unless a file in one of
\* the final directories says otherwise inside: cancel-deletion, or the last save
\* of an execution, was killed or could not write, and the file carries the
\* status it had before.  delete-staged goes by that status.
Stale(d) == Loads(file[d]) /\ file[d].status # d
CancelledIsFinal ==
  [][/\ file["cancelled"] # Absent
     /\ ~\E d \in {"completed", "failed", "cancelled"} : Stale(d)
     => UNCHANGED remote]_vars

\* A run that completes a permanent batch has tried again every message that
\* failed in an earlier run.  (A trash batch carries its failures along.)
FailuresTriedAgain ==
  [][step = "final" /\ phase # "trash" =>
       ToSet(manifest.execution.failedIDs) \subseteq tried]_vars

\* Repeated runs bring the batch to an end, through failed calls, missing
\* permissions and interruptions.  Only a kill or a failed write can leave a
\* file no run takes up: cut off, or in progress with another inline status.
Stranded ==
  step = "idle" /\ file["in_progress"].status \notin {"absent", "in_progress"}
EveryBatchEnds ==
  <>(Stranded \/ \E d \in {"completed", "failed", "cancelled"} : file[d] # Absent)
=============================================================================
