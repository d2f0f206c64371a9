------------------------------ MODULE GmailSync ------------------------------
(***************************************************************************)
(* Synchronisation of one Gmail source (internal/sync, internal/store):    *)
(* full syncs that resume from a checkpoint, incremental syncs that replay *)
(* the mailbox history from a cursor, and the sync_runs row and cursor     *)
(* they leave in the database, while the mailbox keeps changing and runs   *)
(* are cancelled, fail or are killed.                                      *)
(*                                                                         *)
(* The mailbox is its history: a sequence of records, each adding a        *)
(* message, deleting one, or setting or clearing its label.  Messages are  *)
(* numbered in the order they arrive; Gmail lists them newest first, and a *)
(* list page token continues below the last message it has returned.  The  *)
(* operation gate lets one run at a time work on the archive, so the       *)
(* process state below is that of the one run.                             *)
(***************************************************************************)
EXTENDS Integers, Sequences, FiniteSets

CONSTANTS
  MaxHistory,  \* bound: records the mailbox history grows to
  PageSize,    \* messages in a list page, records in a history page
  MaxFaults,   \* bound: failed calls, cancellations and kills
  NoResume,    \* values the --noresume flag takes
  Queries      \* what a full sync's query may match: sets of messages

ASSUME SyncAssumption ==
  /\ MaxHistory \in Nat /\ PageSize \in Nat \ {0} /\ MaxFaults \in Nat
  /\ NoResume \subseteq BOOLEAN
  /\ Queries \subseteq SUBSET (1..MaxHistory)

Message == 1..MaxHistory
NoCursor == -1

VARIABLES
  hist,          \* the mailbox history
  expired,       \* history up to here can no longer be listed
  cursor,        \* sources.sync_cursor
  run,           \* the source's latest sync_runs row: status and page token
  archived,      \* messages in the archive with their raw content
  marked,        \* archived messages with deleted_from_source_at set
  labelled,      \* archived messages that carry the label
  failedItems,   \* sync_run_items of status error: phase and message
  canceledItems, \* ... of fetches that failed because the run was cancelled
  lostItems,     \* errors whose item could not be written: only logged
  staleLabels,   \* messages whose last replayed label change was not written:
                 \* only logged
  pc,            \* where the run stands
  ctxDone,       \* the run's context is cancelled
  query,         \* what the full sync's query matches
  startHistory,  \* the cursor the incremental sync started from
  profile,       \* the history id the profile call returned
  token,         \* the page token of the next list call
  page,          \* what the last list call returned: a set of messages, or
                 \* the first and last record of a history page
  next,          \* the page token the last list call returned
  faults,        \* faults so far
  fulls          \* full syncs begun so far: 0, 1 or more (2)

mailbox == <<hist, expired>>
items == <<failedItems, canceledItems, lostItems, staleLabels>>
store == <<cursor, run, archived, marked, labelled, items>>
process == <<ctxDone, query, startHistory, profile, token, page, next>>
vars == <<hist, expired, cursor, run, archived, marked, labelled, failedItems,
          canceledItems, lostItems, staleLabels, pc, ctxDone, query,
          startHistory, profile, token, page, next, faults, fulls>>

NoToken == [of |-> "none", at |-> 0]
ListToken(m) == [of |-> "list", at |-> m]
HistoryToken(h) == [of |-> "history", at |-> h]
Token == {NoToken} \cup {ListToken(m) : m \in Message}
                   \cup {HistoryToken(h) : h \in 0..MaxHistory}

Item(phase, m) == [phase |-> phase, msg |-> m]
Record(op, m) == [op |-> op, msg |-> m]
NoPage == [msgs |-> {}, from |-> 1, to |-> 0]

SyncTypeOK ==
  /\ hist \in Seq([op : {"added", "deleted", "labelled", "unlabelled"}, msg : Message])
  /\ expired \in 0..Len(hist)
  /\ cursor \in {NoCursor} \cup 0..Len(hist)
  /\ run \in [status : {"none", "running", "completed", "failed"}, token : Token]
  /\ archived \subseteq Message
  /\ marked \subseteq archived /\ labelled \subseteq archived
  /\ failedItems \subseteq [phase : {"fetch", "delete"}, msg : Message]
  /\ canceledItems \subseteq Message
  /\ lostItems \subseteq [phase : {"fetch", "delete"}, msg : Message]
  /\ staleLabels \subseteq Message
  /\ pc \in {"idle", "fallback", "fullProfile", "fullList", "fullFetch",
             "fullCheckpoint", "fullCursor", "fullComplete", "incProfile",
             "incList", "incLabels", "incFetch", "incMark", "incCheckpoint",
             "incCursor", "incComplete"}
  /\ ctxDone \in BOOLEAN
  /\ query \subseteq Message
  /\ startHistory \in 0..Len(hist) /\ profile \in 0..Len(hist)
  /\ token \in Token /\ next \in Token
  /\ page.msgs \subseteq Message /\ page.from \in 1..MaxHistory + 1
  /\ page.to \in 0..Len(hist)
  /\ faults \in 0..MaxFaults /\ fulls \in 0..2

SyncInit ==
  /\ hist = <<>> /\ expired = 0
  /\ cursor = NoCursor
  /\ run = [status |-> "none", token |-> NoToken]
  /\ archived = {} /\ marked = {} /\ labelled = {}
  /\ failedItems = {} /\ canceledItems = {} /\ lostItems = {} /\ staleLabels = {}
  /\ pc = "idle" /\ ctxDone = FALSE
  /\ query = Message
  /\ startHistory = 0 /\ profile = 0
  /\ token = NoToken /\ page = NoPage /\ next = NoToken
  /\ faults = 0 /\ fulls = 0

(***************************************************************************)
(* The mailbox (external): what the syncer can observe of Gmail.           *)
(***************************************************************************)
Has(op, m) == \E i \in DOMAIN hist : hist[i] = Record(op, m)
Arrived == {m \in Message : Has("added", m)}
Gone == {m \in Message : Has("deleted", m)}
Live == Arrived \ Gone
LabelOps(m) == {i \in DOMAIN hist : hist[i].op \in {"labelled", "unlabelled"}
                                    /\ hist[i].msg = m}
LastOf(S) == CHOOSE i \in S : \A j \in S : j <= i
Labelled == {m \in Arrived : LabelOps(m) # {}
                             /\ hist[LastOf(LabelOps(m))].op = "labelled"}

MailboxChanges ==
  /\ Len(hist) < MaxHistory
  /\ \/ hist' = Append(hist, Record("added", Cardinality(Arrived) + 1))
     \/ \E m \in Live : hist' = Append(hist, Record("deleted", m))
     \/ \E m \in Live :
          hist' = Append(hist, Record(IF m \in Labelled THEN "unlabelled"
                                                        ELSE "labelled", m))
  /\ UNCHANGED <<expired, store, pc, process, faults, fulls>>

\* Only the expiry of what the cursor still needs can be observed.
HistoryExpires ==
  /\ expired <= cursor /\ cursor < Len(hist)
  /\ expired' = Len(hist)
  /\ UNCHANGED <<hist, store, pc, process, faults, fulls>>

(***************************************************************************)
(* Faults.  A cancellation (Ctrl-C, daemon shutdown, a yield to a waiting  *)
(* request) closes the context.                                            *)
(***************************************************************************)
Fault == faults < MaxFaults /\ faults' = faults + 1

\* Behind the last list call nothing looks at the context any more.
Cancel ==
  /\ Fault
  /\ pc \notin {"idle", "fullCursor", "fullComplete", "incCursor", "incComplete"}
  /\ ~ctxDone
  /\ ctxDone' = TRUE
  /\ UNCHANGED <<mailbox, store, pc, query, startHistory, profile, token, page,
                 next, fulls>>

\* Messages of the page a fetch asks Gmail for.
ToFetch ==
  IF pc = "fullFetch" THEN page.msgs \ archived
  ELSE {m \in Message : \E i \in page.from..page.to :
                          hist[i] = Record("added", m)} \ archived

\* PersistMessage is one transaction; the labels are those of the fetched copy.
Ingest(S) == archived' = archived \cup S
             /\ labelled' = (labelled \ S) \cup (S \cap Labelled)

\* The run is over: what it kept in memory is gone.
Ends(to) ==
  /\ pc' = to
  /\ ctxDone' = (to = "fallback" /\ ctxDone)
  /\ query' = Message /\ startHistory' = 0 /\ profile' = 0
  /\ token' = NoToken /\ page' = NoPage /\ next' = NoToken

\* The sync_runs row.  StartSync fails every running row of the source and
\* inserts a new one; only a running row is resumed.
StartSync == run' = [status |-> "running", token |-> NoToken]
HasActiveSync == run.status = "running"
UpdateSyncCheckpoint(t) == run' = [run EXCEPT !.token = t]
CompleteSync == run' = [run EXCEPT !.status = "completed"]
\* FailSync's error is dropped: unwritten, it leaves the row as a kill does.
FailSync == run' = [run EXCEPT !.status = "failed"]

\* An API call returns an error.  A full sync keeps its run resumable when the
\* error is the cancellation; an incremental sync always fails its run.
CallFails ==
  /\ pc \in {"fullProfile", "fullList", "incProfile", "incList"}
  /\ Ends("idle")
  /\ \/ ctxDone /\ UNCHANGED faults
     \/ ~ctxDone /\ Fault
  /\ IF ctxDone /\ pc \in {"fullProfile", "fullList"} THEN UNCHANGED run
                                                      ELSE FailSync
  /\ UNCHANGED <<mailbox, cursor, archived, marked, labelled, items, fulls>>

Calls == ~ctxDone

(***************************************************************************)
(* Batch fetch and ingest of the messages of a page.  A message is         *)
(* ingested, found deleted (404, skipped) or recorded as an error item.    *)
(* With the context cancelled the calls in flight fail one by one; the     *)
(* batch as a whole fails only when some message was still queued, and     *)
(* then nothing of it is ingested.                                         *)
(***************************************************************************)
Items(phase, S) == {Item(phase, m) : m \in S}

\* recordSyncItem only logs the error of its own write: of a failed fetch whose
\* item is lost nothing in the database says anything.
RecordErrors(S, lost) ==
  /\ lostItems' = lostItems \cup Items("fetch", lost)
  /\ IF ctxDone
     THEN canceledItems' = canceledItems \cup (S \ lost) /\ UNCHANGED failedItems
     ELSE /\ failedItems' = failedItems \cup Items("fetch", S \ lost)
          /\ UNCHANGED canceledItems

\* Calls fail with the cancellation, or by a fault of their own; a write to the
\* database fails by a fault.  One fault is one bad spell: it may take several
\* calls and writes of the step.
MayFail(failed, unwritten) ==
  \/ unwritten = {} /\ (failed = {} \/ ctxDone) /\ UNCHANGED faults
  \/ (unwritten # {} \/ (failed # {} /\ ~ctxDone)) /\ Fault

FetchPage ==
  \E failed \in SUBSET ToFetch : \E lost \in SUBSET failed :
    /\ MayFail(failed, lost)
    /\ Ingest((ToFetch \ failed) \cap Live)
    /\ RecordErrors(failed, lost)
    /\ UNCHANGED staleLabels

\* The error of a bookkeeping write is logged and the run goes on.
BestEffort(write, keep) == \/ write /\ UNCHANGED faults
                           \/ keep /\ Fault

(***************************************************************************)
(* Full sync.                                                              *)
(***************************************************************************)
\* initSyncState: resume the running row, or start a new one.
FullStart ==
  /\ pc \in {"idle", "fallback"}
  /\ pc' = "fullProfile"
  /\ ctxDone' = IF pc = "idle" THEN FALSE ELSE ctxDone
  /\ query' \in Queries
  /\ \E noResume \in NoResume :
       IF ~noResume /\ HasActiveSync
       THEN token' = run.token /\ UNCHANGED run
       ELSE token' = NoToken /\ StartSync
  /\ page' = NoPage
  /\ fulls' = IF fulls < 2 THEN fulls + 1 ELSE fulls
  /\ UNCHANGED <<mailbox, cursor, archived, marked, labelled, items,
                 startHistory, profile, next, faults>>

FullProfile ==
  /\ pc = "fullProfile" /\ Calls
  /\ profile' = Len(hist)
  /\ pc' = "fullList"
  /\ UNCHANGED <<mailbox, store, ctxDone, query, startHistory, token, page,
                 next, faults, fulls>>

\* A list call with a token of another call is rejected.
ListRejected == token.of = "history"

Below == {m \in Live \cap query : token.of = "list" => m < token.at}
Newest(S) == {m \in S : Cardinality({n \in S : n > m}) < PageSize}

FullList ==
  /\ pc = "fullList" /\ Calls
  /\ ~ListRejected
  /\ page' = [NoPage EXCEPT !.msgs = Newest(Below)]
  /\ next' = IF Below = Newest(Below) THEN NoToken
             ELSE ListToken(CHOOSE m \in Newest(Below) :
                              \A n \in Newest(Below) : m <= n)
  /\ pc' = IF Below = {} THEN "fullCursor" ELSE "fullFetch"
  /\ UNCHANGED <<mailbox, store, ctxDone, query, startHistory, profile, token,
                 faults, fulls>>

FullListRejected ==
  /\ pc = "fullList" /\ Calls
  /\ ListRejected
  /\ FailSync
  /\ Ends("idle")
  /\ UNCHANGED <<mailbox, cursor, archived, marked, labelled, items, faults,
                 fulls>>

FullFetch ==
  /\ pc = "fullFetch"
  /\ FetchPage
  /\ pc' = "fullCheckpoint"
  /\ UNCHANGED <<mailbox, cursor, run, marked, process, fulls>>

\* The batch call fails with the cancellation: the page is not passed.
FullFetchCanceled ==
  /\ pc = "fullFetch" /\ ctxDone /\ ToFetch # {}
  /\ \E lost \in SUBSET ToFetch :
       MayFail(ToFetch, lost) /\ RecordErrors(ToFetch, lost)
  /\ Ends("idle")
  /\ UNCHANGED <<mailbox, cursor, run, archived, marked, labelled, staleLabels,
                 fulls>>

FullCheckpoint ==
  /\ pc = "fullCheckpoint"
  /\ token' = next /\ page' = NoPage /\ next' = NoToken
  /\ BestEffort(UpdateSyncCheckpoint(next), UNCHANGED run)
  /\ pc' = IF next = NoToken THEN "fullCursor" ELSE "fullList"
  /\ UNCHANGED <<mailbox, cursor, archived, marked, labelled, items, ctxDone,
                 query, startHistory, profile, fulls>>

\* Mutant: the cursor is taken after the list instead of before it.
FullCursorLate ==
  /\ pc = "fullCursor"
  /\ cursor' = Len(hist)
  /\ pc' = "fullComplete"
  /\ UNCHANGED <<mailbox, run, archived, marked, labelled, items, process,
                 faults, fulls>>

FullCursor ==
  /\ pc = "fullCursor"
  /\ BestEffort(cursor' = profile, UNCHANGED cursor)
  /\ pc' = "fullComplete"
  /\ UNCHANGED <<mailbox, run, archived, marked, labelled, items, process,
                 fulls>>

Complete(at) ==
  /\ pc = at
  /\ BestEffort(CompleteSync, UNCHANGED run)
  /\ Ends("idle")
  /\ UNCHANGED <<mailbox, cursor, archived, marked, labelled, items, fulls>>

FullComplete == Complete("fullComplete")

(***************************************************************************)
(* Incremental sync.                                                       *)
(***************************************************************************)
\* A new run, from the cursor; a running row is not looked at.
IncStart ==
  /\ pc = "idle"
  /\ cursor # NoCursor
  /\ pc' = "incProfile"
  /\ ctxDone' = FALSE
  /\ startHistory' = cursor
  /\ token' = NoToken
  /\ page' = NoPage
  /\ StartSync
  /\ UNCHANGED <<mailbox, cursor, archived, marked, labelled, items, query,
                 profile, next, faults, fulls>>

IncProfile ==
  /\ pc = "incProfile" /\ Calls
  /\ profile' = Len(hist)
  /\ pc' = IF startHistory >= Len(hist) THEN "incComplete" ELSE "incList"
  /\ UNCHANGED <<mailbox, store, ctxDone, query, startHistory, token, page,
                 next, faults, fulls>>

PageFrom == IF token.of = "history" THEN token.at + 1 ELSE startHistory + 1

IncList ==
  /\ pc = "incList" /\ Calls
  /\ startHistory >= expired
  /\ LET to == IF PageFrom + PageSize - 1 < Len(hist) THEN PageFrom + PageSize - 1
               ELSE Len(hist)
     IN /\ page' = [NoPage EXCEPT !.from = PageFrom, !.to = to]
        /\ next' = IF to = Len(hist) THEN NoToken ELSE HistoryToken(to)
  /\ pc' = "incLabels"
  /\ UNCHANGED <<mailbox, store, ctxDone, query, startHistory, profile, token,
                 faults, fulls>>

\* Mutant: an expired history fails the run, and nothing falls back.
IncExpiredFails ==
  /\ pc = "incList" /\ Calls
  /\ startHistory < expired
  /\ FailSync
  /\ Ends("idle")
  /\ UNCHANGED <<mailbox, cursor, archived, marked, labelled, items, faults,
                 fulls>>

\* 404: the history is gone; the caller falls back to a full sync.
IncExpired ==
  /\ pc = "incList" /\ Calls
  /\ startHistory < expired
  /\ FailSync
  /\ Ends("fallback")
  /\ UNCHANGED <<mailbox, cursor, archived, marked, labelled, items, faults,
                 fulls>>

\* processLabelChanges, for the records of the page up to the given one: an
\* archived message takes the changes in order; a message that is labelled but
\* neither archived nor added by the page is fetched with the labels it has.
PageOps(m, to) == {i \in LabelOps(m) : i \in page.from..to}
LabelFetches(to) ==
  {m \in Message \ archived :
     /\ \E i \in PageOps(m, to) : hist[i].op = "labelled"
     /\ ~\E i \in page.from..page.to : hist[i] = Record("added", m)}

\* A change of an archived message whose write fails is logged and passed over.
ArchivedOps(to) == UNION {PageOps(m, to) : m \in archived}

ApplyLabels(to, failed, skipped) ==
  LET changed == {m \in archived : PageOps(m, to) \ skipped # {}}
      fetched == (LabelFetches(to) \ failed) \cap Live
  IN /\ archived' = archived \cup fetched
     /\ labelled' = (labelled \ changed)
                    \cup {m \in changed :
                            hist[LastOf(PageOps(m, to) \ skipped)].op = "labelled"}
                    \cup (fetched \cap Labelled)
     /\ staleLabels' = {m \in archived :
                         IF PageOps(m, to) = {} THEN m \in staleLabels
                         ELSE LastOf(PageOps(m, to)) \in skipped}

IncLabels ==
  /\ pc = "incLabels"
  /\ \E failed \in SUBSET LabelFetches(page.to),
        skipped \in SUBSET ArchivedOps(page.to) :
       \E lost \in SUBSET failed :
         /\ MayFail(failed, lost \cup skipped)
         /\ RecordErrors(failed, lost)
         /\ ApplyLabels(page.to, failed, skipped)
  /\ pc' = "incFetch"
  /\ UNCHANGED <<mailbox, cursor, run, marked, process, fulls>>

IncFetch ==
  /\ pc = "incFetch"
  /\ FetchPage
  /\ pc' = "incMark"
  /\ UNCHANGED <<mailbox, cursor, run, marked, process, fulls>>

\* A failed batch is logged and counted: the page goes on without it.
IncFetchCanceled ==
  /\ pc = "incFetch" /\ ctxDone /\ ToFetch # {}
  /\ \E lost \in SUBSET ToFetch :
       MayFail(ToFetch, lost) /\ RecordErrors(ToFetch, lost)
  /\ pc' = "incMark"
  /\ UNCHANGED <<mailbox, cursor, run, archived, marked, labelled, staleLabels,
                 process, fulls>>

DeletedByPage == {m \in Message : \E i \in page.from..page.to :
                                     hist[i] = Record("deleted", m)}

\* MarkMessagesDeletedBatch is one statement; its error is logged and recorded.
IncMark ==
  /\ pc = "incMark"
  /\ \/ /\ marked' = marked \cup (DeletedByPage \cap archived)
        /\ UNCHANGED <<failedItems, lostItems, faults>>
     \/ /\ DeletedByPage # {} /\ Fault
        /\ \E lost \in SUBSET DeletedByPage :
             /\ failedItems' = failedItems \cup Items("delete", DeletedByPage \ lost)
             /\ lostItems' = lostItems \cup Items("delete", lost)
        /\ UNCHANGED marked
  /\ pc' = "incCheckpoint"
  /\ UNCHANGED <<mailbox, cursor, run, archived, labelled, canceledItems,
                 staleLabels, process, fulls>>

IncCheckpoint ==
  /\ pc = "incCheckpoint"
  /\ token' = next /\ page' = NoPage /\ next' = NoToken
  /\ BestEffort(UpdateSyncCheckpoint(next), UNCHANGED run)
  /\ pc' = IF next = NoToken THEN "incCursor" ELSE "incList"
  /\ UNCHANGED <<mailbox, cursor, archived, marked, labelled, items, ctxDone,
                 query, startHistory, profile, fulls>>

\* Mutant: the cursor is taken after the list instead of before it.
IncCursorLate ==
  /\ pc = "incCursor"
  /\ cursor' = Len(hist)
  /\ pc' = "incComplete"
  /\ UNCHANGED <<mailbox, run, archived, marked, labelled, items, process,
                 faults, fulls>>

IncCursor ==
  /\ pc = "incCursor"
  /\ BestEffort(cursor' = profile, UNCHANGED cursor)
  /\ pc' = "incComplete"
  /\ UNCHANGED <<mailbox, run, archived, marked, labelled, items, process,
                 fulls>>

IncComplete == Complete("incComplete")

\* A kill loses the process and leaves the page half applied: any part of the
\* fetched messages, the label changes of any of its first records.
Kill ==
  /\ Fault
  /\ pc # "idle"
  /\ Ends("idle")
  /\ \/ pc \notin {"fullFetch", "incFetch", "incLabels"}
        /\ UNCHANGED <<archived, labelled, staleLabels>>
     \/ /\ pc \in {"fullFetch", "incFetch"}
        /\ \E S \in SUBSET (ToFetch \cap Live) : Ingest(S)
        /\ UNCHANGED staleLabels
     \/ /\ pc = "incLabels"
        /\ \E to \in page.from - 1..page.to :
             \E failed \in SUBSET LabelFetches(to),
                skipped \in SUBSET ArchivedOps(to) : ApplyLabels(to, failed, skipped)
  /\ UNCHANGED <<mailbox, cursor, run, marked, failedItems, canceledItems,
                 lostItems, fulls>>

SyncStep ==
  \/ CallFails
  \/ FullProfile \/ FullList \/ FullListRejected
  \/ FullFetch \/ FullFetchCanceled
  \/ FullCheckpoint \/ FullCursor \/ FullComplete
  \/ IncProfile \/ IncList \/ IncExpired \/ IncLabels \/ IncFetch
  \/ IncFetchCanceled \/ IncMark \/ IncCheckpoint \/ IncCursor \/ IncComplete
  \/ pc = "fallback" /\ FullStart

SyncNext ==
  \/ MailboxChanges \/ HistoryExpires
  \/ Cancel \/ Kill
  \/ SyncStep
  \/ FullStart \/ IncStart

SyncSpec == SyncInit /\ [][SyncNext]_vars

\* A run in progress goes on, and the schedule starts incremental syncs again
\* and again.  Nobody has to run a full sync by hand.
FairSyncSpec == SyncSpec /\ WF_vars(SyncStep) /\ WF_vars(IncStart)
-----------------------------------------------------------------------------
(***************************************************************************)
(* Properties                                                              *)
(***************************************************************************)
Covered == {m \in Message : \E i \in DOMAIN hist :
                               i <= cursor /\ hist[i] = Record("added", m)}

\* The cursor is the starting point of later incremental syncs, so whatever
\* arrived before it is archived, gone, or on record as a failed item; what even
\* the record of the failure could not be written for is in the log alone.
Failed(phase) == {m \in Message : Item(phase, m) \in failedItems}
Lost(phase) == {m \in Message : Item(phase, m) \in lostItems}
NoSilentLoss == Covered \subseteq archived \cup Gone \cup Failed("fetch")
                                \cup canceledItems \cup Lost("fetch")

\* As long as no full sync goes on from a list token of an earlier one, nothing
\* is lost: not after a resumed row of an incremental sync either, whose history
\* token Gmail rejects.
ResumesList == pc = "fullProfile" /\ token.of = "list"
NothingLostAfresh == []~ResumesList => []NoSilentLoss

\* After one full sync and any number of interrupted, failed or repeated
\* incremental syncs: where the archive disagrees with the mailbox about a
\* label or a deletion, the change lies ahead of the cursor, or it could not be
\* written.  Of a deletion that could not be written there is a record, or the
\* write of that has failed too; of a label change there is only the log.
ChangesLieAhead ==
  fulls = 1 /\ cursor # NoCursor =>
    \A m \in archived :
      /\ m \notin staleLabels /\ (m \in labelled) # (m \in Labelled) =>
           \E i \in LabelOps(m) : i > cursor
      /\ m \in Gone \ (marked \cup Failed("delete") \cup Lost("delete")) =>
           \E i \in DOMAIN hist : i > cursor /\ hist[i] = Record("deleted", m)
      /\ m \in marked => m \in Gone

\* Once an account has a cursor, scheduled syncs bring it past the last change
\* of the mailbox (which stops changing at its bound), through finitely many
\* faults and an expired history.
CatchesUp == cursor # NoCursor ~> cursor = Len(hist)
=============================================================================
