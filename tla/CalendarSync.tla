---------------------------- MODULE CalendarSync ----------------------------
(***************************************************************************)
(* Synchronisation of the calendars of one account (internal/calsync):     *)
(* one pass visits every calendar and brings its events into the archive,  *)
(* by a full listing or by the changes since a stored sync token, while    *)
(* the calendars keep changing, tokens expire, writes fail and passes are  *)
(* cancelled or killed.                                                    *)
(*                                                                         *)
(* A calendar is the list of its events in the order the API returns them, *)
(* each with the time of its last change and its status.  A sync token is  *)
(* the time at which its listing began; a page token carries that time and *)
(* the last event returned.  The operation gate lets one pass at a time    *)
(* work on the archive.                                                    *)
(***************************************************************************)
EXTENDS Integers, FiniteSets

CONSTANTS
  Calendar,    \* the registered calendars of the account
  NoCalendar,
  MaxEvents,   \* bound: events of a calendar
  MaxClock,    \* bound: changes of a calendar
  PageSize,    \* events on a page
  MaxFaults,   \* bound: failed calls and writes, expiries, cancellations, kills
  MaxManual,   \* bound: passes asked for by the user
  Poison,      \* calendars whose events can never be stored
  Options      \* what the user may ask of a full sync

ASSUME CalendarAssumption ==
  /\ NoCalendar \notin Calendar /\ Poison \subseteq Calendar
  /\ MaxEvents \in Nat /\ MaxClock \in Nat /\ PageSize \in Nat \ {0}
  /\ MaxFaults \in Nat /\ MaxManual \in Nat
  /\ Options \subseteq [limited : BOOLEAN, noResume : BOOLEAN]

Event == 1..MaxEvents
Time == 0..MaxClock
NoCursor == -1
NoToken == [start |-> -1, after |-> 0]
Scheduled == [limited |-> FALSE, noResume |-> FALSE]
Unseen == [exists |-> FALSE, status |-> "none", content |-> 0]
NoRun == [status |-> "none", kind |-> "none", token |-> NoToken]

VARIABLES
  clock,    \* changes of each calendar so far
  changed,  \* the time of an event's last change, 0 before it exists
  status,   \* an event's status on the server
  expired,  \* the server rejects the stored sync token
  cursor,   \* sources.sync_cursor
  run,      \* the latest sync_runs row: status, checkpoint and its kind
  rows,     \* the event's messages row, metadata.status and stored version
  pc,       \* where the pass stands
  mode,     \* Full or Incremental
  opts,     \* TimeMin or TimeMax given or Limit reached; NoResume, which a
            \* Limit that is not reached amounts to
  todo,     \* calendars the pass has not come to
  cal,      \* the calendar it works on
  kind,     \* the kind of listing it runs there
  token,    \* position in the listing
  page,     \* events of the page not yet stored, as the server returned them
  next,     \* last event of the page, 0 if there is no further page
  errors,   \* ErrorsCount > 0
  ctxDone,  \* the context is cancelled
  faults,   \* faults so far
  manual    \* passes the user has asked for so far

server == <<clock, changed, status>>
store == <<cursor, expired, run, rows>>
listing == <<cal, kind, token, page, next, errors>>
vars == <<clock, changed, status, expired, cursor, run, rows, pc, mode, opts,
          todo, cal, kind, token, page, next, errors, ctxDone, faults, manual>>

Item == [event : Event, version : Time, status : {"confirmed", "cancelled"}]
Token == [start : {-1} \cup Time, after : 0..MaxEvents]

CalTypeOK ==
  /\ clock \in [Calendar -> Time]
  /\ changed \in [Calendar -> [Event -> Time]]
  /\ status \in [Calendar -> [Event -> {"none", "confirmed", "cancelled"}]]
  /\ expired \in [Calendar -> BOOLEAN]
  /\ cursor \in [Calendar -> {NoCursor} \cup Time]
  /\ run \in [Calendar -> [status : {"none", "running", "completed", "failed"},
                           kind : {"none", "full", "raw"}, token : Token]]
  /\ rows \in [Calendar -> [Event ->
                 [exists : BOOLEAN, status : {"none", "confirmed", "cancelled"},
                  content : Time]]]
  /\ pc \in {"idle", "next", "list", "items", "finish", "complete", "gone", "resync"}
  /\ mode \in {"full", "incremental"} /\ kind \in {"full", "incremental"}
  /\ opts \in [limited : BOOLEAN, noResume : BOOLEAN]
  /\ todo \subseteq Calendar
  /\ cal \in Calendar \cup {NoCalendar}
  /\ pc \notin {"idle", "next"} => cal \in Calendar
  /\ token \in Token /\ page \subseteq Item /\ next \in 0..MaxEvents
  /\ errors \in BOOLEAN /\ ctxDone \in BOOLEAN
  /\ faults \in 0..MaxFaults /\ manual \in 0..MaxManual

CalInit ==
  /\ clock = [c \in Calendar |-> 0]
  /\ changed = [c \in Calendar |-> [e \in Event |-> 0]]
  /\ status = [c \in Calendar |-> [e \in Event |-> "none"]]
  /\ expired = [c \in Calendar |-> FALSE]
  /\ cursor = [c \in Calendar |-> NoCursor]
  /\ run = [c \in Calendar |-> NoRun]
  /\ rows = [c \in Calendar |-> [e \in Event |-> Unseen]]
  /\ pc = "idle" /\ mode = "incremental" /\ opts = Scheduled
  /\ todo = {} /\ cal = NoCalendar /\ kind = "full"
  /\ token = NoToken /\ page = {} /\ next = 0
  /\ errors = FALSE /\ ctxDone = FALSE
  /\ faults = 0 /\ manual = 0

(***************************************************************************)
(* The calendar service (external).                                        *)
(***************************************************************************)
EventChanges(c) ==
  /\ clock[c] < MaxClock
  /\ \E e \in Event, s \in {"confirmed", "cancelled"} :
       /\ s = "cancelled" => status[c][e] = "confirmed"
       /\ clock' = [clock EXCEPT ![c] = @ + 1]
       /\ changed' = [changed EXCEPT ![c][e] = clock[c] + 1]
       /\ status' = [status EXCEPT ![c][e] = s]
  /\ UNCHANGED <<store, pc, mode, opts, todo, listing, ctxDone, faults, manual>>

Fault == faults < MaxFaults /\ faults' = faults + 1

TokenExpires(c) ==
  /\ Fault
  /\ cursor[c] # NoCursor /\ ~expired[c]
  /\ expired' = [expired EXCEPT ![c] = TRUE]
  /\ UNCHANGED <<server, cursor, run, rows, pc, mode, opts, todo, listing,
                 ctxDone, manual>>

(***************************************************************************)
(* A pass over the calendars.                                              *)
(***************************************************************************)
Begin(m, o, S) ==
  /\ pc = "idle"
  /\ pc' = "next" /\ mode' = m /\ opts' = o
  /\ todo' = S /\ ctxDone' = FALSE
  /\ UNCHANGED <<server, store, listing, faults>>

ScheduledSync == Begin("incremental", Scheduled, Calendar) /\ UNCHANGED manual

\* sync-calendar with its flags; a limit or a time window asks for a full sync.
ManualSync ==
  /\ \E m \in {"full", "incremental"}, o \in Options, S \in SUBSET Calendar :
       (o.limited => m = "full") /\ Begin(m, o, S)
  /\ manual < MaxManual /\ manual' = manual + 1

\* On to the next calendar: what was kept in memory about this one is gone.
Leave ==
  /\ pc' = "next"
  /\ cal' = NoCalendar /\ kind' = "full"
  /\ token' = NoToken /\ page' = {} /\ next' = 0 /\ errors' = FALSE

PassEnds ==
  /\ pc = "next" /\ (ctxDone \/ todo = {})
  /\ pc' = "idle" /\ todo' = {} /\ ctxDone' = FALSE
  /\ mode' = "incremental" /\ opts' = Scheduled
  /\ UNCHANGED <<server, store, listing, faults, manual>>

(***************************************************************************)
(* The sync_runs row.  StartSync fails a running row and inserts a new one *)
(* without a checkpoint; FailSync's own error is ignored, so the row may   *)
(* stay running.                                                           *)
(***************************************************************************)
StartSync(c) == run' = [run EXCEPT ![c] = [NoRun EXCEPT !.status = "running"]]
FailSync(c) == \/ run' = [run EXCEPT ![c].status = "failed"]
               \/ UNCHANGED run

\* Mutant: any running row's page token is resumed from.
ResumeTokenOfAnyKind(c) ==
  IF ~opts.limited /\ ~opts.noResume /\ run[c].status = "running"
  THEN run[c].token ELSE NoToken

ResumeToken(c) ==
  IF /\ ~opts.limited /\ ~opts.noResume
     /\ run[c].status = "running" /\ run[c].kind = "full"
  THEN run[c].token ELSE NoToken

BeginListing(c, k) ==
  /\ cal' = c /\ kind' = k
  /\ token' = IF k = "full" THEN ResumeToken(c) ELSE NoToken
  /\ page' = {} /\ next' = 0 /\ errors' = FALSE
  /\ StartSync(c)
  /\ pc' = "list"

NextCalendar ==
  /\ pc = "next" /\ ~ctxDone
  /\ \E c \in todo :
       /\ todo' = todo \ {c}
       /\ BeginListing(c, IF mode = "full" \/ cursor[c] = NoCursor THEN "full"
                                                          ELSE "incremental")
  /\ UNCHANGED <<server, cursor, expired, rows, mode, opts, ctxDone, faults, manual>>

\* The source row, its configuration or the run cannot be written: the error
\* is recorded and the pass goes on.
CalendarSkipped ==
  /\ \/ /\ pc = "next" /\ ~ctxDone
        /\ \E c \in todo : todo' = todo \ {c}
     \/ pc = "resync" /\ UNCHANGED todo
  /\ Fault
  /\ Leave
  /\ UNCHANGED <<server, store, mode, opts, ctxDone, manual>>

(***************************************************************************)
(* One list call.                                                          *)
(***************************************************************************)
Calls == pc = "list" /\ ~ctxDone
Gone == kind = "incremental" /\ expired[cal]

Start == IF token = NoToken THEN clock[cal] ELSE token.start

Since == IF kind = "full" THEN 0 ELSE cursor[cal]
Remaining == {e \in Event : e > token.after /\ changed[cal][e] > Since}
OnPage == {e \in Remaining :
             Cardinality({f \in Remaining : f < e}) < PageSize}
LastOnPage == {e \in OnPage : \A f \in OnPage : f <= e}
ItemOf(e) == [event |-> e, version |-> changed[cal][e], status |-> status[cal][e]]

\* TimeMin, TimeMax and Limit leave out any of the events.
Wanted(S) == IF opts.limited THEN SUBSET S ELSE {S}

ListEvents ==
  /\ Calls /\ ~Gone
  /\ \E S \in Wanted(OnPage) : page' = {ItemOf(e) : e \in S}
  /\ token' = [token EXCEPT !.start = Start]
  /\ next' \in IF OnPage = Remaining THEN {0} ELSE LastOnPage
  /\ pc' = "items"
  /\ UNCHANGED <<server, store, mode, opts, todo, cal, kind, errors, ctxDone,
                 faults, manual>>

\* A cancelled full listing keeps its run running, with its checkpoint.
ListCancelled ==
  /\ pc = "list" /\ ctxDone
  /\ IF kind = "full" THEN UNCHANGED run ELSE FailSync(cal)
  /\ Leave
  /\ UNCHANGED <<server, cursor, expired, rows, mode, opts, todo, ctxDone,
                 faults, manual>>

ListFails ==
  /\ Calls
  /\ Fault
  /\ FailSync(cal)
  /\ Leave
  /\ UNCHANGED <<server, cursor, expired, rows, mode, opts, todo, ctxDone, manual>>

(***************************************************************************)
(* One event.  ingestEvent writes the row, its metadata, its body and its  *)
(* recipients in steps; a failure or a kill leaves the first of them.  A   *)
(* cancellation of a row that exists changes its status only; one of an    *)
(* event never seen is ingested as a row without content.                  *)
(***************************************************************************)
ContentOf(item) == IF item.status = "confirmed" THEN item.version ELSE 0

IngestEvent(row, item) ==
  [exists |-> TRUE, status |-> item.status, content |-> ContentOf(item)]

PartlyIngested(row, item) ==
  {row, [row EXCEPT !.exists = TRUE],
   [row EXCEPT !.exists = TRUE, !.status = item.status],
   IngestEvent(row, item)}

FlagsCancelled(row, item) == item.status = "cancelled" /\ row.exists

\* Mutant: a cancellation is ingested like any other change.
PersistAsChange(row, item) == IngestEvent(row, item)

PersistOne(row, item) ==
  IF FlagsCancelled(row, item) THEN [row EXCEPT !.status = "cancelled"]
  ELSE IngestEvent(row, item)

PartlyPersisted(row, item) ==
  IF FlagsCancelled(row, item) THEN {row} ELSE PartlyIngested(row, item)

FirstOnPage == {i \in page : \A j \in page : i.event <= j.event}

StoreRow(item, row) == rows' = [rows EXCEPT ![cal][item.event] = row]
StoredInPart(item) ==
  \E row \in PartlyPersisted(rows[cal][item.event], item) : StoreRow(item, row)

EventStored ==
  /\ pc = "items" /\ cal \notin Poison
  /\ \E i \in FirstOnPage :
       /\ StoreRow(i, PersistOne(rows[cal][i.event], i))
       /\ page' = page \ {i}
  /\ UNCHANGED <<server, cursor, expired, run, pc, mode, opts, todo, cal, kind,
                 token, next, errors, ctxDone, faults, manual>>

\* A full listing stops at the first error; an incremental one counts it and
\* goes on with the next event.
EventFails ==
  /\ pc = "items"
  /\ IF cal \in Poison THEN UNCHANGED faults ELSE Fault
  /\ \E i \in FirstOnPage :
       /\ StoredInPart(i)
       /\ IF kind = "full"
          THEN FailSync(cal) /\ Leave
          ELSE /\ errors' = TRUE /\ page' = page \ {i}
               /\ UNCHANGED <<run, pc, cal, kind, token, next>>
  /\ UNCHANGED <<server, cursor, expired, mode, opts, todo, ctxDone, manual>>

(***************************************************************************)
(* Behind a page: checkpoint, next page or end of the listing.             *)
(***************************************************************************)
NextToken == IF next = 0 THEN NoToken ELSE [token EXCEPT !.after = next]

\* A limited listing leaves no checkpoint a later one could resume from.
NoCheckpoint == kind = "full" /\ (opts.limited \/ opts.noResume)

UpdateSyncCheckpoint ==
  IF NoCheckpoint THEN UNCHANGED run
  ELSE run' = [run EXCEPT ![cal].token = NextToken,
                          ![cal].kind = IF kind = "full" THEN "full" ELSE "raw"]

PageDone ==
  /\ pc = "items" /\ page = {}
  /\ UpdateSyncCheckpoint
  /\ \/ /\ next # 0
        /\ token' = NextToken /\ pc' = "list"
     \/ /\ next = 0 \/ opts.limited
        /\ pc' = "finish" /\ UNCHANGED token
  /\ next' = 0
  /\ UNCHANGED <<server, cursor, expired, rows, mode, opts, todo, cal, kind,
                 page, errors, ctxDone, faults, manual>>

\* A write of the run or the cursor fails.
WriteFails ==
  /\ \/ pc = "items" /\ page = {} /\ ~NoCheckpoint
     \/ pc = "finish" /\ ~errors /\ ~opts.limited
     \/ pc = "complete"
  /\ Fault
  /\ FailSync(cal)
  /\ Leave
  /\ UNCHANGED <<server, cursor, expired, rows, mode, opts, todo, ctxDone, manual>>

AdvanceCursor ==
  /\ pc = "finish" /\ ~errors
  /\ IF opts.limited THEN UNCHANGED <<cursor, expired>>
     ELSE /\ cursor' = [cursor EXCEPT ![cal] = token.start]
          /\ expired' = [expired EXCEPT ![cal] = FALSE]
  /\ pc' = "complete"
  /\ UNCHANGED <<server, run, rows, mode, opts, todo, listing, ctxDone, faults, manual>>

\* Some event failed: the cursor stays, so that the next pass gets it again.
FailForErrors ==
  /\ pc = "finish" /\ errors
  /\ FailSync(cal)
  /\ Leave
  /\ UNCHANGED <<server, cursor, expired, rows, mode, opts, todo, ctxDone,
                 faults, manual>>

CompleteSync ==
  /\ pc = "complete"
  /\ run' = [run EXCEPT ![cal].status = "completed"]
  /\ Leave
  /\ UNCHANGED <<server, cursor, expired, rows, mode, opts, todo, ctxDone,
                 faults, manual>>

(***************************************************************************)
(* An expired sync token (410): clear it and list everything.              *)
(***************************************************************************)
\* Mutant: the calendar is left to the next pass, its token untouched.
TokenRejectedLeft ==
  /\ Calls /\ Gone
  /\ FailSync(cal)
  /\ Leave
  /\ UNCHANGED <<server, cursor, expired, rows, mode, opts, todo, ctxDone,
                 faults, manual>>

TokenRejected ==
  /\ Calls /\ Gone
  /\ FailSync(cal)
  /\ pc' = "gone"
  /\ UNCHANGED <<server, cursor, expired, rows, mode, opts, todo, listing,
                 ctxDone, faults, manual>>

\* The error of the write is ignored.
ClearCursor ==
  /\ pc = "gone"
  /\ \/ /\ cursor' = [cursor EXCEPT ![cal] = NoCursor]
        /\ expired' = [expired EXCEPT ![cal] = FALSE]
        /\ UNCHANGED faults
     \/ Fault /\ UNCHANGED <<cursor, expired>>
  /\ pc' = "resync"
  /\ UNCHANGED <<server, run, rows, mode, opts, todo, listing, ctxDone, manual>>

Resync ==
  /\ pc = "resync"
  /\ BeginListing(cal, "full")
  /\ UNCHANGED <<server, cursor, expired, rows, mode, opts, todo, ctxDone,
                 faults, manual>>

(***************************************************************************)
(* Cancellation and kill.                                                  *)
(***************************************************************************)
Cancel ==
  /\ Fault
  /\ pc # "idle" /\ ~ctxDone
  /\ ctxDone' = TRUE
  /\ UNCHANGED <<server, store, pc, mode, opts, todo, listing, manual>>

Kill ==
  /\ Fault
  /\ pc # "idle"
  /\ \/ UNCHANGED rows
     \/ \E i \in FirstOnPage : StoredInPart(i)
  /\ pc' = "idle" /\ mode' = "incremental" /\ opts' = Scheduled
  /\ todo' = {} /\ ctxDone' = FALSE
  /\ cal' = NoCalendar /\ kind' = "full"
  /\ token' = NoToken /\ page' = {} /\ next' = 0 /\ errors' = FALSE
  /\ UNCHANGED <<server, cursor, expired, run, manual>>

PassStep ==
  \/ NextCalendar \/ CalendarSkipped \/ PassEnds
  \/ ListEvents \/ ListCancelled \/ ListFails
  \/ EventStored \/ EventFails \/ PageDone \/ WriteFails
  \/ AdvanceCursor \/ FailForErrors \/ CompleteSync
  \/ TokenRejected \/ ClearCursor \/ Resync

CalNext ==
  \/ \E c \in Calendar : EventChanges(c) \/ TokenExpires(c)
  \/ ScheduledSync \/ ManualSync
  \/ PassStep
  \/ Cancel \/ Kill

CalSpec == CalInit /\ [][CalNext]_vars

\* The scheduler starts its passes, and a pass that has begun goes on.
CalFairSpec == CalSpec /\ WF_vars(ScheduledSync) /\ WF_vars(PassStep)

(***************************************************************************)
(* Properties.                                                             *)
(***************************************************************************)
\* What the archive has of an event is the event as the server has it; of a
\* cancelled one it keeps whatever content it had.
Reflects(c, e) ==
  /\ rows[c][e].status = status[c][e]
  /\ status[c][e] = "confirmed" => rows[c][e].content = changed[c][e]

\* The stored sync token lies behind no change the archive has missed: the
\* next incremental pass is told of changes after the token only, so an event
\* skipped behind it would never be seen again (incremental.go:157, calsync.go:
\* 336).  Passes that are cut short, resumed, limited or failed keep to it.
NothingMissedBehindCursor ==
  \A c \in Calendar, e \in Event :
    cursor[c] # NoCursor /\ changed[c][e] <= cursor[c] => Reflects(c, e)

\* No step wipes the content of an archived event or puts an older version in
\* its place: a cancellation, a listing that is resumed and an event delivered
\* twice leave it or renew it (persist.go:203).
ContentKept ==
  [][\A c \in Calendar, e \in Event :
       rows'[c][e].content >= rows[c][e].content]_vars

\* Scheduled passes bring every calendar up to date, whatever interrupted
\* them, even when its token has expired (incremental.go:16).
CatchesUp ==
  \A c \in Calendar \ Poison : <>[](\A e \in Event : Reflects(c, e))

=============================================================================
