--------------------------- MODULE AnalyticsCache ---------------------------
(***************************************************************************)
(* The Parquet cache of the analytics: what a build exports from the       *)
(* archive, and the check that decides whether a cache is still true.      *)
(*                                                                         *)
(* A sync run writes messages, their attachments and changes of labels and *)
(* counts them in memory.  Its row in sync_runs gets the counters with a   *)
(* checkpoint, and they count once the run has ended.  Deletions and       *)
(* hidden duplicates carry a time in seconds.  A build notes the second it *)
(* begins in, reads the greatest id and the counters, exports table by     *)
(* table and writes its state file last.  The check compares that file     *)
(* with the archive.                                                       *)
(*                                                                         *)
(* One account; every message has attachments.  Builds do not overlap (the *)
(* mutex of one process).                                                  *)
(***************************************************************************)
EXTENDS Naturals, Sequences, FiniteSets, FiniteSetsExt

CONSTANTS
  MaxId,      \* messages
  MaxTime,    \* seconds
  MaxRuns,    \* sync runs
  Changing,   \* the messages that change: labels, deletion, hiding
  MaxChanges, \* changes of one of them
  MaxFaults   \* failed or killed runs and builds, failed checkpoints

ASSUME CacheBounds ==
  /\ {MaxId, MaxTime, MaxRuns} \subseteq Nat \ {0}
  /\ {MaxChanges, MaxFaults} \subseteq Nat /\ Changing \subseteq 1..MaxId

VARIABLES
  messages,   \* the message rows of the archive, by id
  runs,       \* sync_runs
  current,    \* the run in progress, 0 for none
  tally,      \* its counters in memory
  pending,    \* the message whose attachments are still being stored, or 0
  shards,     \* messages/: the base file and what was appended to it
  related,    \* message_labels/ and attachments/: what is exported, by message
  tables,     \* the other tables have a file
  stateFile,  \* _last_sync.json
  phase,      \* the next step of the build
  build,      \* its local variables
  missed,     \* messages with a change that no build will be asked for
  torn,       \* a build ended between its first change and its state file
  clock,
  faults

database == <<messages, runs, current, tally, pending>>
parquet == <<shards, related, tables>>
ghosts == <<missed, torn>>
vars == <<database, parquet, stateFile, phase, build, ghosts, clock, faults>>

Id == 1..MaxId
RunId == 1..MaxRuns
Null == 0
NoRow == [there |-> FALSE, gone |-> Null, hidden |-> Null, into |-> 0,
          labels |-> 0, files |-> FALSE]
NoTally == [added |-> {}, updated |-> {}]
NoRun == [status |-> "none", counters |-> NoTally, lost |-> {}]
NoState == [last |-> 0, at |-> 0, counters |-> [added |-> {}, updated |-> {}, failed |-> {}]]
NoBuild == [full |-> FALSE, at |-> 0, previous |-> NoState, maxId |-> 0,
            exportable |-> 0, counters |-> NoState.counters]

Greatest(S) == Max(S \cup {0})
-----------------------------------------------------------------------------
(* What the archive shows. *)

\* sent_at is set, and the row is not hidden: deleted rows are exported too.
Exportable(i) == messages[i].there /\ messages[i].hidden = Null
Live(i) == Exportable(i) /\ messages[i].gone = Null
MaxLiveId == Greatest({i \in Id : Live(i)})

EndedRuns == {r \in RunId : runs[r].status \in {"completed", "failed"}}
Running == {r \in RunId : runs[r].status = "running"}

\* Runs that have ended only.  The code compares sums and counts: of sets that
\* only grow, and in which no member is counted twice, they tell the same.
SyncCounters ==
  [added   |-> UNION {runs[r].counters.added : r \in EndedRuns},
   updated |-> UNION {runs[r].counters.updated : r \in EndedRuns},
   failed  |-> {r \in EndedRuns : runs[r].status = "failed"}]

\* What the export of the messages writes of one, and that of the junction
\* tables.
Row(i) == [gone |-> messages[i].gone # Null]
Junctions(i) == [labels |-> messages[i].labels, files |-> messages[i].files]
-----------------------------------------------------------------------------
(* What the cache holds, and the check of it. *)

Holding(i) == {k \in DOMAIN shards : i \in DOMAIN shards[k]}

HasParquetData == \E i \in Id : Holding(i) # {}
HasCompleteParquetData == HasParquetData /\ tables
MissingRequiredParquet ==
  ~HasCompleteParquetData /\ (HasParquetData \/ tables)

HasNew == MaxLiveId > stateFile.last
DeletedSince(at) == {i \in Id : messages[i].gone # Null /\ messages[i].gone >= at}
HiddenSince(at) == {i \in Id : /\ messages[i].hidden # Null /\ messages[i].hidden >= at
                               /\ messages[i].gone = Null}
HasUpdated ==
  LET old == stateFile.counters
      now == SyncCounters
  IN \/ now.updated # old.updated
     \/ now.failed # old.failed
     \/ ~(old.added \subseteq now.added)
     \/ (now.added # old.added /\ MaxLiveId <= stateFile.last)

\* FullRebuild and NeedsBuild of what cacheNeedsBuild returns.
FullRebuild ==
  \/ stateFile = NoState
  \/ (~HasParquetData /\ MaxLiveId > 0)
  \/ /\ HasParquetData
     /\ \/ DeletedSince(stateFile.at) \cup HiddenSince(stateFile.at) # {}
        \/ HasUpdated
        \/ MissingRequiredParquet
NeedsBuild == FullRebuild \/ (HasParquetData /\ HasNew)
-----------------------------------------------------------------------------
CacheInit ==
  /\ messages = [i \in Id |-> NoRow]
  /\ runs = [r \in RunId |-> NoRun] /\ current = 0 /\ tally = NoTally /\ pending = 0
  /\ shards = <<>> /\ related = <<>> /\ tables = FALSE /\ stateFile = NoState
  /\ phase = "idle" /\ build = NoBuild
  /\ missed = {} /\ torn = FALSE
  /\ clock = 1 /\ faults = 0

Fault == faults < MaxFaults /\ faults' = faults + 1

Tick ==
  /\ clock < MaxTime /\ clock' = clock + 1
  /\ UNCHANGED <<database, parquet, stateFile, phase, build, ghosts, faults>>
-----------------------------------------------------------------------------
(* The archive changes. *)

CacheStays == UNCHANGED <<parquet, stateFile, phase, build, torn, clock>>

Ended(r, status) == [runs[r] EXCEPT !.status = status, !.lost = {}]

\* An incremental sync, or a full one that does not resume.  A row that a
\* killed or cancelled run has left is failed first.
StartSync ==
  LET next == Greatest({r \in RunId : runs[r].status # "none"}) + 1
  IN /\ current = 0 /\ next \in RunId
     /\ runs' = [r \in RunId |->
          CASE r = next -> [NoRun EXCEPT !.status = "running"]
            [] runs[r].status = "running" -> Ended(r, "failed")
            [] OTHER -> runs[r]]
     /\ current' = next /\ tally' = NoTally
     /\ UNCHANGED <<messages, pending, missed, faults>> /\ CacheStays

\* A full sync goes on with such a row, whatever kind of run has left it, from
\* the counters of its last checkpoint.
ResumeSync(r) ==
  /\ current = 0 /\ runs[r].status = "running"
  /\ current' = r /\ tally' = runs[r].counters
  /\ UNCHANGED <<messages, runs, pending, missed, faults>> /\ CacheStays

Count(added, updated) ==
  tally' = [added |-> tally.added \cup added, updated |-> tally.updated \cup updated]

\* Message, labels and recipients in one transaction.
PersistMessage ==
  LET i == Greatest({j \in Id : messages[j].there}) + 1
  IN /\ current # 0 /\ pending = 0 /\ i \in Id
     /\ messages' = [messages EXCEPT ![i].there = TRUE]
     /\ pending' = i
     /\ UNCHANGED <<runs, current, tally, missed, faults>> /\ CacheStays

\* The attachments follow outside of it, and then the message is counted.
StoreAttachments ==
  /\ pending # 0
  /\ messages' = [messages EXCEPT ![pending].files = TRUE]
  /\ Count({pending}, {}) /\ pending' = 0
  /\ UNCHANGED <<runs, current, missed, faults>> /\ CacheStays

\* A bound, no guard of the code; the two marks of a message are one change.
Marked(i) == messages[i].gone # Null \/ messages[i].hidden # Null
Changes(i) == messages[i].labels + Cardinality({j \in {i} : Marked(j)})
MayRelabel(i) == i \in Changing /\ Changes(i) < MaxChanges
MayMark(i) == i \in Changing /\ messages[i].labels < MaxChanges

ChangeLabels(i) ==
  /\ MayRelabel(i)
  /\ current # 0 /\ pending = 0 /\ messages[i].there
  /\ messages' = [messages EXCEPT ![i].labels = @ + 1]
  /\ Count({}, {<<i, messages[i].labels>>})
  /\ UNCHANGED <<runs, current, pending, missed, faults>> /\ CacheStays

\* By a sync or by the execution of a staged batch.  No mark is set in the last
\* second: nothing follows it, and the check counts marks of the second in
\* which a build began.
MarkDeleted(i) ==
  /\ MayMark(i) /\ clock < MaxTime
  /\ messages[i].there
  /\ messages' = [messages EXCEPT ![i].gone = clock]
  /\ UNCHANGED <<runs, current, tally, pending, missed, faults>> /\ CacheStays

\* MergeDuplicates: the survivor gets the labels of the duplicate.  Nothing
\* counts that; the mark of the duplicate tells of it, unless the duplicate was
\* deleted before: then it is counted nowhere.
HideDuplicate(i, survivor) ==
  /\ MayMark(i) /\ clock < MaxTime
  /\ messages[i].there /\ messages[i].hidden = Null
  /\ survivor # i /\ messages[survivor].there /\ messages[survivor].hidden = Null
  /\ messages' = [messages EXCEPT ![i] = [@ EXCEPT !.hidden = clock, !.into = survivor],
                                 ![survivor].labels = @ + 1]
  /\ missed' = IF messages[i].gone # Null THEN missed \cup {i, survivor} ELSE missed
  /\ UNCHANGED <<runs, current, tally, pending, faults>> /\ CacheStays

\* What the run has written since the counters of its row were.
Touched(counters) == counters.added \cup {x[1] : x \in counters.updated}
Uncounted == Touched([added |-> tally.added \ runs[current].counters.added,
                      updated |-> tally.updated \ runs[current].counters.updated])

\* After each page, as far as that write succeeds.
SaveCheckpoint ==
  /\ current # 0 /\ pending = 0 /\ tally # runs[current].counters
  /\ runs' = [runs EXCEPT ![current].counters = tally]
  /\ UNCHANGED <<messages, current, tally, pending, missed, faults>> /\ CacheStays

EndRun(status) ==
  /\ current # 0 /\ pending = 0
  /\ runs' = [runs EXCEPT ![current] = Ended(current, status)]
  /\ current' = 0 /\ tally' = NoTally
  /\ UNCHANGED <<messages, pending>> /\ CacheStays

\* Writes no counters: what its row does not count by now, as the last
\* checkpoint failed or a killed process took it along, nothing will count.
CompleteSync ==
  /\ EndRun("completed")
  /\ IF Uncounted = {} THEN UNCHANGED faults ELSE Fault
  /\ LET forgotten == runs[current].lost \cup Uncounted
     IN missed' = missed \cup
          {i \in forgotten : i \in DOMAIN related /\ related[i] # Junctions(i)}

FailSync == EndRun("failed") /\ Fault /\ UNCHANGED missed

\* The process dies, the run is cancelled, or the write of its end fails: its row
\* stays as it is.
KillSync ==
  /\ current # 0 /\ Fault
  /\ runs' = [runs EXCEPT ![current].lost = @ \cup Uncounted]
  /\ current' = 0 /\ tally' = NoTally /\ pending' = 0
  /\ UNCHANGED <<messages, missed>> /\ CacheStays
-----------------------------------------------------------------------------
(* A build. *)

Go(next) == phase' = next /\ UNCHANGED <<database, clock>>

\* The second is noted before anything is read.
Begin(full) ==
  /\ phase = "idle" /\ Go("decide")
  /\ build' = [full |-> full, at |-> clock,
               previous   |-> IF full THEN NoState ELSE stateFile,
               maxId      |-> Greatest({i \in Id : messages[i].there}),
               exportable |-> Greatest({i \in Id : Exportable(i)}),
               counters   |-> NoState.counters]
  /\ UNCHANGED <<parquet, stateFile, ghosts, faults>>

\* After a scheduled sync, or for an SQL query.
RebuildIfStale == NeedsBuild /\ Begin(FullRebuild)
\* After a command that writes.
RebuildAfterWrite == Begin(FullRebuild)
\* build-cache does not ask for the check, or it was asked some time ago.
BuildCacheCommand(full) == Begin(full)

CachedMessagesChanged(now) ==
  LET old == build.previous
  IN /\ old # NoState
     /\ \/ now.updated # old.counters.updated
        \/ (now.added # old.counters.added /\ build.maxId <= old.last)
        \/ now.failed # old.counters.failed

Last == IF build.full THEN 0 ELSE build.previous.last

RemoveParquet == /\ shards' = <<>> /\ related' = <<>> /\ tables' = FALSE
                 /\ missed' = {} /\ torn' = FALSE

\* Reads the counters, decides for a full or an incremental build, or to skip
\* it, and clears the cache before a full one.
Decide ==
  LET now == SyncCounters
      full == \/ build.full
              \/ CachedMessagesChanged(now)
              \/ (build.exportable > 0 /\ MissingRequiredParquet)
  IN /\ phase = "decide"
     /\ IF full THEN RemoveParquet ELSE UNCHANGED <<parquet, ghosts>>
     /\ IF ~full /\ build.maxId <= Last
          THEN Go("idle") /\ build' = NoBuild
          ELSE Go("messages") /\ build' = [build EXCEPT !.full = full, !.counters = now]
     /\ UNCHANGED <<stateFile, faults>>

Exported == {i \in Id : Exportable(i) /\ i <= build.maxId /\ i > Last}

\* An incremental build appends a file, any other one writes the base file.
ExportMessages ==
  /\ phase = "messages" /\ Go("rest")
  /\ LET file == [i \in Exported |-> Row(i)]
     IN shards' = IF Exported = {} THEN shards
                  ELSE IF Last > 0 \/ shards = <<>> THEN Append(shards, file)
                  ELSE [shards EXCEPT ![1] = file]
  /\ UNCHANGED <<related, tables, stateFile, build, ghosts, faults>>

\* The tables that hang on messages, named for the lower bound, and then all
\* the others, written anew.
ExportRest ==
  /\ phase = "rest" /\ Go("save")
  /\ LET kept == {i \in DOMAIN related : i <= Last}
     IN related' = [i \in kept \cup Exported |->
                      IF i \in Exported THEN Junctions(i) ELSE related[i]]
  /\ tables' = TRUE
  /\ UNCHANGED <<shards, stateFile, build, ghosts, faults>>

\* What an incremental build leaves as it was among the older messages: marks
\* set before it began, with the labels of hidden duplicates, attachments stored
\* behind an earlier export, and what a full build had cleared that then failed.
Unseen ==
  LET marked(t) == t # Null /\ t < build.at /\ t >= build.previous.at
  IN {i \in Id : /\ i <= Last
                 /\ \/ marked(messages[i].gone) \/ marked(messages[i].hidden)
                    \/ \E j \in Id : messages[j].into = i /\ marked(messages[j].hidden)
                    \/ i \in DOMAIN related /\ related[i].files # messages[i].files
                    \/ torn /\ Holding(i) = {}}

\* Nothing exported is an error; a run that ended meanwhile discards the cache.
\* The write reads nothing of the archive, so it is one step with the recheck.
SaveState(at, counters) ==
  LET failed == build.exportable > 0 /\ ~HasParquetData
      changed == SyncCounters # build.counters
  IN /\ phase = "save" /\ Go("idle") /\ build' = NoBuild
     /\ \/ failed /\ UNCHANGED <<parquet, stateFile, ghosts>>
        \/ ~failed /\ changed /\ RemoveParquet /\ stateFile' = NoState
        \/ /\ ~failed /\ ~changed
           /\ stateFile' = [last |-> build.maxId, at |-> at, counters |-> counters]
           /\ missed' = missed \cup Unseen
           /\ UNCHANGED <<parquet, torn>>
     /\ UNCHANGED faults

\* Mutant: the state carries the second in which it is written.
WriteStateLate == SaveState(clock, build.counters)

\* Mutant: the failed runs are not recorded.
WriteStateWithoutFailed == SaveState(build.at, [build.counters EXCEPT !.failed = {}])

WriteState == SaveState(build.at, build.counters)

\* An export fails, the state cannot be written, or the process is killed.  The
\* files stay as they are.
BuildFails ==
  /\ phase # "idle" /\ Fault /\ Go("idle") /\ build' = NoBuild
  /\ torn' = (torn \/ phase \in {"rest", "save"} \/ (phase = "messages" /\ build.full))
  /\ UNCHANGED <<parquet, stateFile, missed>>
-----------------------------------------------------------------------------
RunEnds == StoreAttachments \/ SaveCheckpoint \/ CompleteSync \/ FailSync
BuildStep == \/ Decide \/ ExportMessages \/ ExportRest \/ WriteState \/ BuildFails

CacheNext ==
  \/ Tick \/ StartSync \/ PersistMessage \/ RunEnds \/ KillSync
  \/ \E r \in RunId : ResumeSync(r)
  \/ \E i \in Id : ChangeLabels(i) \/ MarkDeleted(i)
  \/ \E i, survivor \in Id : HideDuplicate(i, survivor)
  \/ RebuildIfStale \/ RebuildAfterWrite \/ \E full \in BOOLEAN : BuildCacheCommand(full)
  \/ BuildStep

\* A run and a build that have begun go on.  Scheduled syncs ask for a rebuild
\* again and again, and are not passed over for ever by the mutex.
CacheSpec ==
  /\ CacheInit /\ [][CacheNext]_vars
  /\ WF_vars(Tick) /\ WF_vars(RunEnds) /\ WF_vars(BuildStep) /\ SF_vars(RebuildIfStale)
-----------------------------------------------------------------------------
(* Properties. *)

\* Every variable has its type.
MessageRow == [there : BOOLEAN, gone : 0..MaxTime, hidden : 0..MaxTime,
               into : 0..MaxId, labels : Nat, files : BOOLEAN]
Tally == [added : SUBSET Id, updated : SUBSET (Id \X Nat)]
RunRow == [status : {"none", "running", "completed", "failed"}, counters : Tally,
           lost : SUBSET Id]
Counters == [added : SUBSET Id, updated : SUBSET (Id \X Nat), failed : SUBSET RunId]
CacheState == [last : 0..MaxId, at : 0..MaxTime, counters : Counters]
ParquetFile == UNION {[S -> [gone : BOOLEAN]] : S \in SUBSET Id}
CacheTypeOK ==
  /\ messages \in [Id -> MessageRow] /\ runs \in [RunId -> RunRow]
  /\ current \in 0..MaxRuns /\ tally \in Tally /\ pending \in 0..MaxId
  /\ shards \in Seq(ParquetFile) /\ tables \in BOOLEAN
  /\ related \in UNION {[S -> [labels : Nat, files : BOOLEAN]] : S \in SUBSET Id}
  /\ stateFile \in CacheState
  /\ phase \in {"idle", "decide", "messages", "rest", "save"}
  /\ build \in [full : BOOLEAN, at : 0..MaxTime, previous : CacheState, maxId : 0..MaxId,
                exportable : 0..MaxId, counters : Counters]
  /\ missed \subseteq Id /\ torn \in BOOLEAN
  /\ clock \in 1..MaxTime /\ faults \in 0..MaxFaults

\* Messages that a run not yet ended has written.
Unfinished ==
  Touched(tally) \cup UNION {Touched(runs[r].counters) \cup runs[r].lost : r \in Running}

\* A cache that the check calls fresh shows of every message what the archive
\* has, once, whatever syncs, deletions and hidden duplicates came before,
\* during and after its builds, and wherever a build or a run ended.
\* Excepted are the changes of a run in progress, those that nothing tells of,
\* named by missed, and what torn names.
FreshIsTrue ==
  ~NeedsBuild /\ HasCompleteParquetData =>
    \A i \in Id \ (missed \cup Unfinished) :
      LET view == {shards[k][i] : k \in Holding(i)}
          truth == IF Exportable(i) THEN {Row(i)} ELSE {}
      IN /\ truth \subseteq view
         /\ ~torn => view = truth /\ Cardinality(Holding(i)) <= 1
         /\ Exportable(i) => i \in DOMAIN related /\ related[i] = Junctions(i)

\* A build that has written its state file satisfies the check, failed runs and
\* an archive without a message to export included: when no run has ended, no
\* message has arrived and no mark has been set since the second it began in,
\* the check that follows asks for no other.
BuildSettles ==
  [][/\ phase = "save" /\ stateFile' \notin {stateFile, NoState}
     /\ MaxLiveId <= build.maxId
     /\ DeletedSince(build.at) \cup HiddenSince(build.at) = {}
     => ~NeedsBuild']_vars

\* Again and again the cache is found fresh: no check asks for rebuilds that do
\* not satisfy it.
CacheCatchesUp == []<>~NeedsBuild
=============================================================================
