----------------------------- MODULE Embedding -----------------------------
(***************************************************************************)
(* The vector index: the scan-and-fill worker (internal/vector/embed), the *)
(* scheduler's job around it, the life of the generations (sqlitevec) and  *)
(* what happens to messages meanwhile: syncs rewrite them, repair-encoding *)
(* repairs them, operators rebuild, retire and activate generations.       *)
(*                                                                         *)
(* The stamps live in the main database, the vectors, watermarks and       *)
(* generations in vectors.db: no transaction spans both.  A stamp is       *)
(* guarded by last_modified, which counts seconds: `fresh` holds the rows  *)
(* in the worker's hands that still have the one it read, `unseen` those   *)
(* of them that changed all the same.                                      *)
(*                                                                         *)
(* One worker at a time, as the operation gate and the job's lock allow.   *)
(***************************************************************************)
EXTENDS Naturals, FiniteSets, FiniteSetsExt

CONSTANTS MessageCount, \* ids of messages
          GenCount,     \* bound: generations ever created
          BatchSize,    \* rows per scan
          MaxFailures,  \* MaxConsecutiveFailures
          MaxEdits,     \* bound: changes of stored messages
          MaxEvents     \* bound: operator commands, failing calls and kills

ASSUME EmbeddingAssumption ==
  /\ {MessageCount, GenCount, BatchSize, MaxFailures} \subseteq Nat \ {0}
  /\ MaxEdits \in Nat /\ MaxEvents \in Nat

Message == 1 .. MessageCount
Gen == 1 .. GenCount

VARIABLES
  text,      \* messages: what the embedder will say of the row, or no row
  stamp,     \* messages.embed_gen, 0 for NULL
  state,     \* index_generations.state
  vector,    \* per generation and message: the vectors, of which text
  watermark, \* embed_watermark
  job,       \* the run of the worker and where it stands
  fresh,     \* rows whose last_modified is the one the worker read
  unseen,    \* ... that were rewritten since, in the second of the read
  recent,    \* generations whose backstop is not due (lastBackstop)
  storing,   \* row whose body is stored and whose stamp is not cleared yet
  repair,    \* the repair-encoding command: where it stands, what it rewrote
  command,   \* an operator's retire or activate between its check and its tx
  changed,   \* history: unstamped rows that changed after they were stored,
             \* or took over the id of a removed row
  lies,      \* history: stamped rows whose change no guard has caught
  edits,     \* changes so far
  events     \* commands and faults so far

rows == <<text, stamp>>
index == <<state, vector, watermark>>
held == <<fresh, unseen>>
work == <<job, held, recent>>
history == <<changed, lies>>
bounds == <<edits, events>>
embedVars == <<rows, index, work, storing, repair, command, history, bounds>>

Kind == {"plain", "blank", "refused"}
NoJob == [pc |-> "idle", gen |-> 0, mode |-> "once", via |-> "daemon",
          building |-> FALSE, after |-> 0, ids |-> {}, left |-> {}, skip |-> {},
          drops |-> {}, ok |-> FALSE, safe |-> 0, broke |-> FALSE, fails |-> 0]
NoRepair == [pc |-> "off", ids |-> {}]
NoCommand == [kind |-> "none", gen |-> 0, force |-> FALSE]

Live(m) == text[m] \in Kind
Missing(g) == {m \in Message : Live(m) /\ stamp[m] # g}
InState(s) == {g \in Gen : state[g] = s}

\* The building generation if there is one, else the active one, else none.
Target == CHOOSE g \in Gen \cup {0} :
            IF InState("building") # {} THEN g \in InState("building")
            ELSE IF InState("active") # {} THEN g \in InState("active")
            ELSE g = 0

EmbeddingInit ==
  /\ text = [m \in Message |-> "absent"]
  /\ stamp = [m \in Message |-> 0]
  /\ state \in {[g \in Gen |-> IF g = 1 THEN "building" ELSE "none"],
                [g \in Gen |-> IF g = 1 THEN "active"
                               ELSE IF g = 2 THEN "building" ELSE "none"]}
  /\ vector = [g \in Gen |-> [m \in Message |-> "none"]]
  /\ watermark = [g \in Gen |-> 0]
  /\ job = NoJob /\ fresh = {} /\ unseen = {} /\ recent = {}
  /\ storing = 0 /\ repair = NoRepair /\ command = NoCommand
  /\ changed = {} /\ lies = {} /\ edits = 0 /\ events = 0

-----------------------------------------------------------------------------
(* Messages come, change and go.                                           *)

Edit == edits < MaxEdits /\ edits' = edits + 1 /\ UNCHANGED events
Event == events < MaxEvents /\ events' = events + 1 /\ UNCHANGED edits

\* Any update of a row sets its last_modified to the present second (the
\* triggers), which may be the one in which the worker read the row.
Touch(ids, rewritten) ==
  \E moved \in SUBSET (ids \cap fresh) :
    /\ fresh' = fresh \ moved
    /\ unseen' = (unseen \cup rewritten) \cap fresh'

\* A row gets the id above the highest there is: without AUTOINCREMENT, one
\* that a removed row had, while its vectors and the watermarks are still there.
Arrive(m, k) ==
  /\ \A n \in Message : n >= m => ~Live(n)
  /\ \A n \in Message : n + 1 = m => Live(n)
  /\ text' = [text EXCEPT ![m] = k]
  /\ Touch({m} \cap unseen, {m})
  /\ changed' = IF text[m] = "gone" THEN changed \cup {m} ELSE changed
  /\ UNCHANGED <<stamp, index, job, recent, storing, repair, command, lies, bounds>>

\* What a change of a stored row does, its text's included.
RowChanges(m, rewritten) ==
  /\ Live(m) /\ m # storing
  /\ Edit
  /\ Touch({m}, rewritten)
  /\ changed' = IF stamp'[m] = 0 THEN changed \cup {m} ELSE changed
  /\ lies' = {n \in lies : stamp'[n] # 0}
  /\ UNCHANGED <<state, watermark, job, recent, command>>

Outdated(m) ==
  [g \in Gen |-> [vector[g] EXCEPT ![m] = IF @ = "none" THEN "none" ELSE "stale"]]

\* A sync stores the message again, with the same text or with another, which
\* clears the stamp in the same transaction.
UpsertMessage(m, k, same) ==
  /\ text' = [text EXCEPT ![m] = IF same THEN @ ELSE k]
  /\ stamp' = IF same THEN stamp ELSE [stamp EXCEPT ![m] = 0]
  /\ RowChanges(m, IF same THEN {} ELSE {m})
  /\ vector' = IF same THEN vector ELSE Outdated(m)
  /\ UNCHANGED <<storing, repair>>

\* Most importers store the body outside a transaction and clear the stamp in
\* a statement of its own, ...
UpsertMessageBody(m, k) ==
  /\ storing = 0 /\ storing' = m
  /\ text' = [text EXCEPT ![m] = k]
  /\ UNCHANGED stamp
  /\ RowChanges(m, {m})
  /\ vector' = Outdated(m)
  /\ UNCHANGED repair

ClearStamp ==
  /\ storing # 0 /\ storing' = 0
  /\ stamp' = [stamp EXCEPT ![storing] = 0]
  /\ Touch(IF stamp[storing] = 0 THEN {} ELSE {storing}, {})
  /\ changed' = changed \cup {storing}
  /\ lies' = lies \ {storing}
  /\ UNCHANGED <<text, index, job, recent, repair, command, bounds>>

\* ... which a kill or an error can prevent; the next sync finds the body as it
\* is and does not clear the stamp either.
ClearStampFails ==
  /\ storing # 0 /\ storing' = 0
  /\ Event
  /\ lies' = IF stamp[storing] = 0 THEN lies ELSE lies \cup {storing}
  /\ UNCHANGED <<rows, index, work, repair, command, changed>>

\* A source is removed with its rows; the vectors stay.
RemoveMessage(m) ==
  /\ Live(m) /\ m # storing
  /\ Edit
  /\ text' = [text EXCEPT ![m] = "gone"]
  /\ stamp' = [stamp EXCEPT ![m] = 0]
  /\ vector' = Outdated(m)
  /\ unseen' = (unseen \cup {m}) \cap fresh
  /\ changed' = changed \ {m} /\ lies' = lies \ {m}
  /\ UNCHANGED <<state, watermark, job, fresh, recent, storing, repair, command>>

\* repair-encoding commits the repaired texts batch by batch and resets the
\* stamps of all it rewrote at the end, ...
RepairText(m) ==
  /\ repair.pc \in {"off", "texts"}
  /\ UNCHANGED <<stamp, storing>>
  /\ RowChanges(m, {m})
  /\ text' = [text EXCEPT ![m] = "plain"]
  /\ vector' = Outdated(m)
  /\ repair' = [pc |-> "texts", ids |-> repair.ids \cup {m}]

ResetEmbedGen ==
  /\ repair.pc = "texts"
  /\ stamp' = [m \in Message |-> IF m \in repair.ids THEN 0 ELSE stamp[m]]
  /\ Touch({m \in repair.ids : Live(m)}, {})
  /\ changed' = changed \cup {m \in repair.ids : Live(m)}
  /\ lies' = lies \ repair.ids
  /\ repair' = [repair EXCEPT !.pc = "lower"]
  /\ UNCHANGED <<text, index, job, recent, storing, command, bounds>>

\* ... then lowers every watermark below the first row it rewrote.
ResetWatermarkBelow ==
  /\ repair.pc = "lower"
  /\ LET floor == Min(repair.ids) - 1
     IN watermark' = [g \in Gen |-> Min({watermark[g], floor})]
  /\ repair' = NoRepair
  /\ UNCHANGED <<rows, state, vector, work, storing, command, history, bounds>>

-----------------------------------------------------------------------------
(* The life of the generations.                                            *)

\* One transaction: the active generation retires, g becomes active, unless it
\* is not being built any more: then nothing happens.
Promoted(g) ==
  IF state[g] # "building" THEN state
  ELSE [h \in Gen |-> IF h = g THEN "active"
                      ELSE IF state[h] = "active" THEN "retired" ELSE state[h]]

\* The checks before the transaction.
MayActivate(g, force) == state[g] = "building" /\ (force \/ Missing(g) = {})

MayRetire(g, force) == state[g] = "building" \/ (state[g] = "active" /\ force)

EmbeddingsCommand(kind, g, force) ==
  /\ command = NoCommand
  /\ IF kind = "retire" THEN MayRetire(g, force) ELSE MayActivate(g, force)
  /\ command' = [kind |-> kind, gen |-> g, force |-> force]
  /\ Event
  /\ UNCHANGED <<rows, index, work, storing, repair, history>>

ActivateGeneration ==
  /\ command.kind = "activate"
  /\ state' = Promoted(command.gen)
  /\ command' = NoCommand
  /\ UNCHANGED <<rows, vector, watermark, work, storing, repair, history, bounds>>

\* Mutant: the guard on a serving generation is only in the command's check.
RetireUnguarded ==
  /\ command.kind = "retire"
  /\ state' = [state EXCEPT ![command.gen] = "retired"]
  /\ command' = NoCommand
  /\ UNCHANGED <<rows, vector, watermark, work, storing, repair, history, bounds>>

RetireGeneration ==
  /\ command.kind = "retire"
  /\ state' = [state EXCEPT ![command.gen] =
                 IF @ = "active" /\ ~command.force THEN @ ELSE "retired"]
  /\ command' = NoCommand
  /\ UNCHANGED <<rows, vector, watermark, work, storing, repair, history, bounds>>

-----------------------------------------------------------------------------
(* The run of the worker: it begins, it ends.                              *)

\* Mutant: the backstop resumes from the watermark as well.
RunningOnward(g, via, mode, building) ==
  [NoJob EXCEPT !.pc = "scan", !.gen = g, !.via = via, !.mode = mode,
                !.building = building, !.after = watermark[g]]

Running(g, via, mode, building) ==
  [NoJob EXCEPT !.pc = "scan", !.gen = g, !.via = via, !.mode = mode,
                !.building = building,
                !.after = IF mode = "once" THEN watermark[g] ELSE 0]

\* A tick of the scheduler, or the hook after a sync: RunOnce on the target.
EmbedJobRun ==
  /\ job = NoJob /\ Target # 0
  /\ job' = Running(Target, "daemon", "once", state[Target] = "building")
  /\ UNCHANGED <<rows, index, held, recent, storing, repair, command, history, bounds>>

\* embeddings build: on the target, or on a generation of its own, which is
\* the one already being built when there is one.
BuildCommand(full, mode) ==
  /\ job = NoJob /\ Event
  /\ LET new == full /\ InState("building") = {}
         g == IF new THEN Min(InState("none")) ELSE Target
     IN /\ IF new THEN InState("none") # {} ELSE Target # 0
        /\ state' = IF new THEN [state EXCEPT ![g] = "building"] ELSE state
        /\ job' = Running(g, "cli", mode, state'[g] = "building")
  /\ UNCHANGED <<rows, vector, watermark, held, recent, storing, repair, command,
                 history>>

LetGo == fresh' = {} /\ unseen' = {}

AfterRuns == IF job.building THEN [NoJob EXCEPT !.pc = "count", !.gen = job.gen,
                                                !.via = job.via]
             ELSE NoJob

\* A run that ends well: the scheduler's job goes on to the backstop if it is
\* due, and to the activation.
RunEnds ==
  /\ LetGo
  /\ IF job.via = "daemon" /\ job.mode = "once" /\ job.gen \notin recent
     THEN job' = Running(job.gen, "daemon", "backstop", job.building)
     ELSE job' = AfterRuns
  /\ recent' = IF job.via = "daemon" /\ job.mode = "backstop"
               THEN recent \cup {job.gen} ELSE recent

\* A run that fails: no backstop, no activation; a failed backstop is only
\* logged and stays due.
RunFails ==
  /\ LetGo
  /\ job' = IF job.via = "daemon" /\ job.mode = "backstop" THEN AfterRuns
            ELSE NoJob
  /\ UNCHANGED recent

\* A failed batch counts; too many in a row fail the run.
FailOrRescan(j) ==
  IF j.fails >= MaxFailures THEN RunFails
  ELSE job' = [j EXCEPT !.pc = "scan"] /\ LetGo /\ UNCHANGED recent

\* The backstop's interval is over, one generation at a time.
BackstopDue(g) ==
  /\ g \in recent
  /\ recent' = recent \ {g}
  /\ UNCHANGED <<rows, index, job, held, storing, repair, command, history, bounds>>

CountMissing ==
  /\ job.pc = "count"
  /\ job' = IF MayActivate(job.gen, FALSE) THEN [job EXCEPT !.pc = "promote"]
            ELSE NoJob
  /\ UNCHANGED <<rows, index, held, recent, storing, repair, command, history, bounds>>

PromoteBuilt ==
  /\ job.pc = "promote"
  /\ state' = Promoted(job.gen)
  /\ job' = NoJob
  /\ UNCHANGED <<rows, vector, watermark, held, recent, storing, repair, command,
                 history, bounds>>

-----------------------------------------------------------------------------
(* A batch.                                                                *)

\* A batch leaves alone what the database's other writers work on.
BatchLeaves == UNCHANGED <<text, state, storing, repair, command>>

\* Most of its steps stamp nothing.
BatchFrame == BatchLeaves /\ UNCHANGED <<stamp, history>>

\* The guarded updates: what is stamped rests on a text the row has no more
\* where the change was not seen.
Stamp(ids) ==
  /\ stamp' = [m \in Message |-> IF m \in ids THEN job.gen ELSE stamp[m]]
  /\ changed' = changed \ ids
  /\ lies' = (lies \ ids) \cup (ids \cap unseen)

\* The worker has read these rows.
Read(ids) == fresh' = fresh \cup ids /\ unseen' = unseen \ ids

\* The stamp finds the row as it was read, so far as last_modified tells, or
\* the row was not there when it was read: then nothing guards the stamp.
Lands(m) == m \in fresh /\ (Live(m) \/ m \notin unseen)

ScanForEmbedding ==
  /\ job.pc = "scan"
  /\ LET found == {m \in Missing(job.gen) : m > job.after}
         ids == {m \in found : Cardinality({n \in found : n < m}) < BatchSize}
     IN IF ids = {} THEN RunEnds
        ELSE /\ job' = [job EXCEPT !.pc = "embed", !.ids = ids]
             /\ UNCHANGED <<held, recent>>
  /\ UNCHANGED <<vector, watermark, bounds>> /\ BatchFrame

Vectorised(ids) ==
  [vector EXCEPT ![job.gen] = [m \in Message |-> IF m \in ids THEN "current" ELSE @[m]]]

\* The worker reads the rows, has their texts embedded and stores the vectors.
\* A text the endpoint refuses fails the whole batch, which is then drained row
\* by row; a retired generation takes no vectors and ends the run.
EmbedBatch ==
  /\ job.pc = "embed"
  /\ LET plain == {m \in job.ids : text[m] = "plain"}
         refused == {m \in job.ids : text[m] = "refused"}
     IN \/ /\ refused # {}
           /\ job' = [job EXCEPT !.pc = "drain", !.left = job.ids, !.drops = {},
                        !.ok = FALSE, !.safe = 0, !.broke = FALSE, !.fails = @ + 1]
           /\ UNCHANGED <<held, recent, vector>>
        \/ /\ refused = {} /\ plain # {} /\ state[job.gen] = "retired"
           /\ RunEnds /\ UNCHANGED vector
        \/ /\ refused = {} /\ (plain = {} \/ state[job.gen] # "retired")
           /\ vector' = Vectorised(plain)
           /\ job' = [job EXCEPT !.left = plain, !.skip = job.ids \ plain,
                        !.pc = IF job.ids = plain THEN "stamp" ELSE "skip"]
           /\ Read(job.ids)
           /\ UNCHANGED recent
  /\ UNCHANGED <<watermark, bounds>> /\ BatchFrame

\* Stamps the rows without text and deletes their vectors, only where the row
\* is unchanged.
StampSkipped(ids) ==
  LET landed == {m \in ids : Lands(m)}
  IN /\ Stamp({m \in landed : Live(m)})
     /\ vector' = [vector EXCEPT ![job.gen] =
                     [m \in Message |-> IF m \in landed THEN "none" ELSE @[m]]]

StampSkippedBatch ==
  /\ job.pc = "skip"
  /\ StampSkipped(job.skip)
  /\ job' = [job EXCEPT !.skip = {}, !.fails = IF job.left = {} THEN 0 ELSE @,
                        !.pc = IF job.left = {} THEN "advance" ELSE "stamp"]
  /\ BatchLeaves /\ UNCHANGED <<watermark, held, recent, bounds>>

\* Mutant: the stamp does not ask whether the row is the one that was read.
SetEmbedGen(m) == Stamp({n \in {m} : Live(n)})

SetEmbedGenIfUnchanged(m) == Stamp({n \in {m} : Lands(n)})

\* Row by row; a row that changed is left to the backstop.
StampCovered ==
  /\ job.pc = "stamp"
  /\ SetEmbedGenIfUnchanged(Min(job.left))
  /\ LET more == job.left \ {Min(job.left)}
     IN job' = [job EXCEPT !.left = more, !.fails = IF more = {} THEN 0 ELSE @,
                           !.pc = IF more = {} THEN "advance" ELSE "stamp"]
  /\ BatchLeaves /\ UNCHANGED <<vector, watermark, held, recent, bounds>>

SetWatermark(id) ==
  watermark' = IF job.mode = "once" THEN [watermark EXCEPT ![job.gen] = id]
               ELSE watermark

AdvanceWatermark ==
  /\ job.pc = "advance"
  /\ SetWatermark(Max(job.ids))
  /\ job' = [job EXCEPT !.pc = "scan", !.after = Max(job.ids), !.ids = {}]
  /\ LetGo
  /\ UNCHANGED <<vector, recent, bounds>> /\ BatchFrame

\* The endpoint, the upsert or a stamp fails.
BatchFails ==
  /\ job.pc \in {"embed", "skip", "stamp"}
  /\ Event
  /\ FailOrRescan([job EXCEPT !.fails = @ + 1, !.ids = {}, !.left = {}, !.skip = {}])
  /\ UNCHANGED <<vector, watermark>> /\ BatchFrame

-----------------------------------------------------------------------------
(* The drain of a refused batch, row by row.                               *)

Next1 == Min(job.left)

\* Mutant: a drain that fails passes the whole batch.
AdvancePastBatch == SetWatermark(Max(job.ids))

\* The watermark and the cursor pass the rows stamped without a gap.
AdvanceSafely ==
  IF job.safe > job.after THEN SetWatermark(job.safe) ELSE UNCHANGED watermark

\* One row is read and embedded: refused, it waits for the end of the drain;
\* without text, or embedded, it is stamped next.
DrainEmbed ==
  /\ job.pc = "drain" /\ job.left # {}
  /\ \/ /\ text[Next1] = "refused"
        /\ job' = [job EXCEPT !.left = @ \ {Next1}, !.drops = @ \cup {Next1},
                              !.broke = TRUE]
        /\ Read({Next1})
        /\ UNCHANGED <<recent, vector, watermark>>
     \/ /\ text[Next1] = "plain" /\ state[job.gen] = "retired"
        /\ RunEnds /\ AdvanceSafely
        /\ UNCHANGED vector
     \/ /\ text[Next1] = "plain" /\ state[job.gen] # "retired"
        /\ vector' = Vectorised({Next1})
        /\ job' = [job EXCEPT !.pc = "drainStamp", !.ok = TRUE]
        /\ Read({Next1})
        /\ UNCHANGED <<recent, watermark>>
     \/ /\ text[Next1] \in {"blank", "gone"}
        /\ job' = [job EXCEPT !.pc = "drainSkip"]
        /\ Read({Next1})
        /\ UNCHANGED <<recent, vector, watermark>>
  /\ UNCHANGED bounds /\ BatchFrame

\* A row that changed since it was read breaks the prefix the watermark may
\* pass on a failure.
DrainStamp ==
  /\ job.pc \in {"drainStamp", "drainSkip"}
  /\ IF job.pc = "drainSkip" THEN StampSkipped({Next1})
     ELSE SetEmbedGenIfUnchanged(Next1) /\ UNCHANGED vector
  /\ job' = [job EXCEPT !.pc = "drain", !.left = @ \ {Next1},
               !.safe = IF Lands(Next1) /\ ~job.broke THEN Next1 ELSE @,
               !.broke = @ \/ ~Lands(Next1)]
  /\ BatchLeaves /\ UNCHANGED <<watermark, held, recent, bounds>>

\* Something was embedded, so the refused rows are to blame for themselves:
\* they are stamped and drop out.  Otherwise the endpoint may be the one: they
\* stay, and the failures in a row will fail the run.
DrainEnds ==
  /\ job.pc = "drain" /\ job.left = {}
  /\ IF job.ok \/ job.drops = {}
     THEN /\ StampSkipped(job.drops)
          /\ job' = [job EXCEPT !.pc = "advance", !.drops = {},
                                !.fails = IF job.ok THEN 0 ELSE @]
          /\ UNCHANGED <<held, recent, watermark>>
     ELSE /\ AdvanceSafely
          /\ FailOrRescan([job EXCEPT !.after = Max({@, job.safe}),
                                      !.ids = {}, !.drops = {}])
          /\ UNCHANGED <<stamp, history, vector>>
  /\ BatchLeaves /\ UNCHANGED bounds

\* Any other error ends the run behind the prefix.
DrainFails ==
  /\ job.pc \in {"drain", "drainStamp", "drainSkip"}
  /\ Event
  /\ AdvanceSafely
  /\ RunFails
  /\ UNCHANGED vector /\ BatchFrame

\* The process that runs the worker dies; what the scheduler remembers goes
\* with the daemon.
Kill ==
  /\ job # NoJob
  /\ Event
  /\ job' = NoJob /\ LetGo
  /\ recent' = IF job.via = "daemon" THEN {} ELSE recent
  /\ UNCHANGED <<vector, watermark>> /\ BatchFrame

-----------------------------------------------------------------------------
WorkerStep ==
  \/ ScanForEmbedding \/ EmbedBatch \/ StampSkippedBatch \/ StampCovered
  \/ AdvanceWatermark \/ DrainEmbed \/ DrainStamp \/ DrainEnds
  \/ CountMissing \/ PromoteBuilt

RepairStep == ResetEmbedGen \/ ResetWatermarkBelow

EmbeddingNext ==
  \/ \E m \in Message, k \in Kind :
       \/ Arrive(m, k)
       \/ \E same \in BOOLEAN : UpsertMessage(m, k, same)
       \/ UpsertMessageBody(m, k)
  \/ \E m \in Message : RemoveMessage(m) \/ RepairText(m)
  \/ ClearStamp \/ ClearStampFails
  \/ RepairStep
  \/ \E kind \in {"retire", "activate"}, g \in Gen, force \in BOOLEAN :
       EmbeddingsCommand(kind, g, force)
  \/ ActivateGeneration \/ RetireGeneration
  \/ EmbedJobRun
  \/ \E full \in BOOLEAN, mode \in {"once", "backstop"} : BuildCommand(full, mode)
  \/ \E g \in Gen : BackstopDue(g)
  \/ WorkerStep \/ BatchFails \/ DrainFails \/ Kill

\* The schedule ticks, intervals pass, and what has begun goes on.
EmbeddingSpec ==
  /\ EmbeddingInit /\ [][EmbeddingNext]_embedVars
  /\ WF_embedVars(EmbedJobRun) /\ WF_embedVars(WorkerStep)
  /\ WF_embedVars(RepairStep)
  /\ \A g \in Gen : WF_embedVars(BackstopDue(g))

-----------------------------------------------------------------------------
(* Properties.                                                             *)

\* The parts of the state have their types; at most one generation serves and
\* at most one is being built (index_generations).
EmbeddingTypeOK ==
  /\ text \in [Message -> Kind \cup {"absent", "gone"}]
  /\ stamp \in [Message -> Gen \cup {0}]
  /\ state \in [Gen -> {"none", "building", "active", "retired"}]
  /\ vector \in [Gen -> [Message -> {"none", "current", "stale"}]]
  /\ watermark \in [Gen -> Message \cup {0}]
  /\ job.gen \in Gen \cup {0} /\ unseen \subseteq fresh /\ fresh \subseteq Message
  /\ storing \in Message \cup {0}
  /\ Cardinality(InState("building")) <= 1 /\ Cardinality(InState("active")) <= 1

\* A stamp lies only where the code says or shows that it may: the generation
\* a live message is stamped with holds vectors of its present text, or none when
\* there is nothing to embed, however syncs, repairs, kills and failing calls
\* fall between the read, the upsert and the stamp.  Excused are rows whose
\* change is still being stored or repaired, and, until their stamp is next
\* cleared or set, rows that changed in the second in which the worker read
\* them, and rows whose stamp a killed sync has not cleared (worker.go
\* stampCovered, stampSkipped; embed_gen.go SetEmbedGenIfUnchanged).
CoveredIsCurrent ==
  \A m \in Message :
    Live(m) /\ stamp[m] # 0 /\ m \notin repair.ids \cup {storing} \cup lies
      => vector[stamp[m]][m] = IF text[m] = "plain" THEN "current" ELSE "none"

\* The forward scan leaves nobody behind: a row the watermark of a generation
\* in use has passed and nothing stamps was changed since it came or took over
\* the id of a removed row, and only such rows wait for the backstop (worker.go
\* run, downshiftDrain).
StragglersExcused ==
  \A g \in InState("building") \cup InState("active"), m \in Message :
    Live(m) /\ m <= watermark[g] /\ stamp[m] = 0 => m \in changed

\* A generation that serves stops serving only when another takes over or the
\* operator forces it out, whatever a retire command had seen before
\* (backend.go RetireGeneration, ActivateGeneration).
ServesUntilReplaced ==
  [][\A g \in Gen : state[g] = "active" /\ state'[g] = "retired"
       => command.force \/ \E h \in Gen : state'[h] = "active"]_embedVars

\* While a refused row is left unstamped its run fails before the backstop.
Poisoned == \E m \in Message : text[m] = "refused" /\ stamp[m] # Target

Complete ==
  Target # 0 => state[Target] = "active" /\ Missing(Target) = {}

\* Once changes, commands and faults cease, the generation in use ends up
\* serving with every live message covered, the rows the watermark passed
\* included, unless a refused row keeps failing every run (embed_job.go Run,
\* maybeRunBackstop).
IndexCatchesUp == <>[]Complete \/ []<>Poisoned

=============================================================================
