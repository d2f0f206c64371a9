------------------------- MODULE CalendarSync_proofs -------------------------
(***************************************************************************)
(* Proofs about CalendarSync: the stored sync token never lies in front of *)
(* a change the archive has missed, and stored content is never wiped, for *)
(* any set of calendars, any number of events and changes and any page     *)
(* size.                                                                   *)
(***************************************************************************)
EXTENDS CalendarSync, FiniteSetTheorems, TLAPS

-----------------------------------------------------------------------------
(* Types.  An item on a page has a status because events that have changed *)
(* exist and an incremental listing starts from a token.                   *)

EventsExist ==
  \A c \in Calendar, e \in Event : changed[c][e] > 0 => status[c][e] # "none"
IncrementalFromToken ==
  pc \in {"list", "items"} /\ kind = "incremental" => cursor[cal] # NoCursor
PageOfItems == page # {} => pc = "items"
TypeInv == CalTypeOK /\ EventsExist /\ IncrementalFromToken /\ PageOfItems

LEMMA TokensTyped ==
  /\ NoToken \in Token /\ Scheduled \in [limited : BOOLEAN, noResume : BOOLEAN]
  /\ NoRun \in [status : {"none", "running", "completed", "failed"},
                kind : {"none", "full", "raw"}, token : Token]
  /\ Unseen \in [exists : BOOLEAN, status : {"none", "confirmed", "cancelled"},
                 content : Time]
BY CalendarAssumption DEF NoToken, Scheduled, NoRun, Unseen, Token, Time

\* The page is that of the calendar in hand.
LEMMA PageInItems ==
  ASSUME TypeInv, page # {}
  PROVE  cal \in Calendar
BY DEF TypeInv, PageOfItems, CalTypeOK

\* The row an event is left with, whole or in part, is one.
Row == [exists : BOOLEAN, status : {"none", "confirmed", "cancelled"}, content : Time]

LEMMA RowsTyped ==
  ASSUME NEW row \in Row, NEW i \in Item
  PROVE  /\ PersistOne(row, i) \in Row
         /\ PartlyPersisted(row, i) \subseteq Row
<1>1. 0 \in Time
  BY CalendarAssumption DEF Time
<1>2. IngestEvent(row, i) \in Row
  BY <1>1 DEF Row, Item, IngestEvent, ContentOf
<1>3. [row EXCEPT !.exists = TRUE] \in Row
  BY DEF Row
<1>4. [row EXCEPT !.exists = TRUE, !.status = i.status] \in Row
  BY DEF Row, Item
<1>5. [row EXCEPT !.status = "cancelled"] \in Row
  BY DEF Row
<1> QED
  BY <1>2, <1>3, <1>4, <1>5 DEF PersistOne, PartlyPersisted, PartlyIngested

LEMMA LeaveTyped ==
  ASSUME CalTypeOK, Leave
  PROVE  /\ cal' \in Calendar \cup {NoCalendar} /\ pc' = "next"
         /\ kind' \in {"full", "incremental"} /\ token' \in Token
         /\ page' \subseteq Item /\ next' \in 0..MaxEvents /\ errors' \in BOOLEAN
<1>1. next' \in 0..MaxEvents
  BY CalendarAssumption DEF Leave
<1>2. token' \in Token
  BY TokensTyped DEF Leave
<1>3. errors' \in BOOLEAN /\ page' \subseteq Item /\ pc' = "next"
  BY Zenon DEF Leave
<1>4. cal' \in Calendar \cup {NoCalendar} /\ kind' \in {"full", "incremental"}
  BY Zenon DEF Leave
<1> QED
  BY <1>1, <1>2, <1>3, <1>4

RunRow == [status : {"none", "running", "completed", "failed"},
           kind : {"none", "full", "raw"}, token : Token]

LEMMA FailSyncTyped ==
  ASSUME CalTypeOK, NEW c \in Calendar, FailSync(c)
  PROVE  run' \in [Calendar -> RunRow]
<1>1. run \in [Calendar -> RunRow]
  BY DEF CalTypeOK, RunRow
<1>2. [run[c] EXCEPT !.status = "failed"] \in RunRow
  BY <1>1 DEF RunRow
<1> QED
  BY <1>1, <1>2 DEF FailSync

LEMMA StoreTyped ==
  ASSUME CalTypeOK, cal \in Calendar, NEW i \in Item, NEW row \in Row, StoreRow(i, row)
  PROVE  rows' \in [Calendar -> [Event -> Row]]
<1>1. rows \in [Calendar -> [Event -> Row]] /\ i.event \in Event
  BY DEF CalTypeOK, Row, Item
<1> QED
  BY <1>1 DEF StoreRow

LEMMA StoredInPartTyped ==
  ASSUME CalTypeOK, cal \in Calendar, NEW i \in Item, StoredInPart(i)
  PROVE  rows' \in [Calendar -> [Event -> Row]]
<1>1. PICK row \in PartlyPersisted(rows[cal][i.event], i) : StoreRow(i, row)
  BY DEF StoredInPart
<1>2. rows[cal][i.event] \in Row
  BY DEF CalTypeOK, Row, Item
<1>3. row \in Row
  BY <1>1, <1>2, RowsTyped
<1> QED
  BY <1>1, <1>3, StoreTyped

LEMMA BeginListingTyped ==
  ASSUME CalTypeOK, NEW c \in Calendar, NEW k \in {"full", "incremental"},
         BeginListing(c, k)
  PROVE  /\ cal' = c /\ pc' = "list" /\ kind' = k /\ token' \in Token
         /\ page' \subseteq Item /\ next' \in 0..MaxEvents /\ errors' \in BOOLEAN
         /\ run' \in [Calendar -> RunRow]
<1>1. run \in [Calendar -> RunRow]
  BY DEF CalTypeOK, RunRow
<1>2. [NoRun EXCEPT !.status = "running"] \in RunRow
  BY TokensTyped DEF NoRun, RunRow
<1>3. run' \in [Calendar -> RunRow]
  BY <1>1, <1>2 DEF BeginListing, StartSync
<1>4. ResumeToken(c) \in Token
  BY <1>1, TokensTyped DEF ResumeToken, RunRow
<1>5. next' \in 0..MaxEvents
  BY CalendarAssumption DEF BeginListing
<1>6. token' \in Token
  BY <1>4, TokensTyped DEF BeginListing
<1>7. cal' = c /\ pc' = "list" /\ kind' = k /\ page' \subseteq Item /\ errors' \in BOOLEAN
  BY Zenon DEF BeginListing
<1> QED
  BY <1>3, <1>5, <1>6, <1>7

LEMMA FirstTyped ==
  ASSUME CalTypeOK, NEW i \in FirstOnPage
  PROVE  i \in Item /\ i \in page
BY DEF CalTypeOK, FirstOnPage

LEMMA TypeStep ==
  ASSUME TypeInv, [CalNext]_vars
  PROVE  CalTypeOK'
<1>0. CalTypeOK
  BY DEF TypeInv
<1> USE <1>0, CalendarAssumption, TokensTyped DEF CalTypeOK, Fault, server, store, listing
<1>1. CASE UNCHANGED vars
  BY <1>1 DEF vars
<1>2. ASSUME NEW c \in Calendar, EventChanges(c) PROVE CalTypeOK'
  <2>1. PICK e \in Event, s \in {"confirmed", "cancelled"} :
          /\ clock' = [clock EXCEPT ![c] = @ + 1]
          /\ changed' = [changed EXCEPT ![c][e] = clock[c] + 1]
          /\ status' = [status EXCEPT ![c][e] = s]
    BY <1>2, ZenonT(60) DEF EventChanges
  <2>2. clock[c] + 1 \in Time
    BY <1>2 DEF EventChanges, Time
  <2>3. clock' \in [Calendar -> Time] /\ changed' \in [Calendar -> [Event -> Time]]
    BY <2>1, <2>2
  <2>4. status' \in [Calendar -> [Event -> {"none", "confirmed", "cancelled"}]]
    BY <2>1
  <2> QED
    BY <1>2, <2>3, <2>4 DEF EventChanges
<1>3. ASSUME NEW c \in Calendar, TokenExpires(c) PROVE CalTypeOK'
  BY <1>3 DEF TokenExpires
<1>4. CASE ScheduledSync
  BY <1>4 DEF ScheduledSync, Begin
<1>5. CASE ManualSync
  <2>1. PICK m \in {"full", "incremental"}, o \in Options, S \in SUBSET Calendar :
          Begin(m, o, S)
    BY <1>5, Zenon DEF ManualSync
  <2>2. o \in [limited : BOOLEAN, noResume : BOOLEAN]
    OBVIOUS
  <2>3. manual' \in 0..MaxManual
    BY <1>5 DEF ManualSync
  <2> QED
    BY <2>1, <2>2, <2>3 DEF Begin
<1>6. CASE PassEnds
  BY <1>6 DEF PassEnds
<1>7. CASE NextCalendar
  <2>1. PICK c \in todo, k \in {"full", "incremental"} :
          todo' = todo \ {c} /\ BeginListing(c, k)
    BY <1>7 DEF NextCalendar
  <2> QED
    BY <1>7, <2>1, BeginListingTyped DEF NextCalendar, RunRow
<1>8. CASE CalendarSkipped
  BY <1>8, LeaveTyped DEF CalendarSkipped
<1>9. CASE ListEvents
  <2>1. cal \in Calendar
    BY <1>9 DEF ListEvents, Calls
  <2>2. PICK S \in Wanted(OnPage) : page' = {ItemOf(e) : e \in S}
    BY <1>9 DEF ListEvents
  <2>3. S \subseteq OnPage /\ OnPage \subseteq Event
    BY <2>2 DEF Wanted, OnPage, Remaining
  <2>4. token.start \in {-1} \cup Time /\ Start \in {-1} \cup Time
    BY <2>1 DEF Start, Token, Time
  <2>5. token' \in Token
    BY <1>9, <2>4 DEF ListEvents, Token
  <2>6. next' \in 0..MaxEvents
    BY <1>9, <2>3 DEF ListEvents, LastOnPage, Event
  <2>7. ASSUME NEW e \in S PROVE ItemOf(e) \in Item
    <3>1. changed[cal][e] > Since /\ e \in Event
      BY <2>3 DEF OnPage, Remaining
    <3>2. kind = "incremental" => cursor[cal] # NoCursor
      BY <1>9 DEF TypeInv, IncrementalFromToken, ListEvents, Calls
    <3>3. Since \in Nat
      BY <2>1, <3>2 DEF Since, Time
    <3>4. changed[cal][e] > 0
      BY <2>1, <3>1, <3>3 DEF Time
    <3> QED
      BY <2>1, <3>1, <3>4 DEF ItemOf, Item, TypeInv, EventsExist
  <2>8. page' \subseteq Item
    BY <2>2, <2>7
  <2>9. /\ UNCHANGED <<clock, changed, status, cursor, expired, run, rows, mode, opts,
                        todo, cal, kind, errors, ctxDone, faults, manual>>
        /\ pc' = "items"
    BY <1>9 DEF ListEvents
  <2> QED
    BY <2>1, <2>5, <2>6, <2>8, <2>9
<1>10. CASE ListCancelled
  <2>1. run' \in [Calendar -> RunRow]
    BY <1>10, FailSyncTyped DEF ListCancelled, RunRow
  <2> QED
    BY <1>10, <2>1, LeaveTyped DEF ListCancelled, RunRow
<1>11. CASE ListFails
  BY <1>11, FailSyncTyped, LeaveTyped DEF ListFails, Calls, RunRow
<1>12. CASE EventStored
  <2>1. PICK i \in FirstOnPage :
          /\ StoreRow(i, PersistOne(rows[cal][i.event], i))
          /\ page' = page \ {i}
    BY <1>12 DEF EventStored
  <2>2. cal \in Calendar /\ i \in Item
    BY <1>12, FirstTyped DEF EventStored
  <2>3. rows[cal][i.event] \in Row
    BY <2>2 DEF Row, Item
  <2>4. rows' \in [Calendar -> [Event -> Row]]
    BY <2>1, <2>2, <2>3, RowsTyped, StoreTyped
  <2> QED
    BY <1>12, <2>1, <2>4 DEF EventStored, Row
<1>13. CASE EventFails
  <2>1. PICK i \in FirstOnPage :
          /\ StoredInPart(i)
          /\ IF kind = "full"
             THEN FailSync(cal) /\ Leave
             ELSE /\ errors' = TRUE /\ page' = page \ {i}
                  /\ UNCHANGED <<run, pc, cal, kind, token, next>>
    BY <1>13 DEF EventFails
  <2>2. cal \in Calendar /\ i \in Item
    BY <1>13, FirstTyped DEF EventFails
  <2>3. rows' \in [Calendar -> [Event -> Row]]
    BY <2>1, <2>2, StoredInPartTyped
  <2>4. CASE kind = "full"
    BY <1>13, <2>1, <2>2, <2>3, <2>4, FailSyncTyped, LeaveTyped DEF EventFails, Row, RunRow
  <2>5. CASE kind # "full"
    BY <1>13, <2>1, <2>3, <2>5 DEF EventFails, Row
  <2> QED
    BY <2>4, <2>5
<1>14. CASE PageDone
  <2>1. NextToken \in Token
    BY DEF NextToken, Token
  <2>2. cal \in Calendar /\ run \in [Calendar -> RunRow]
    BY <1>14 DEF PageDone, RunRow
  <2>3. run' \in [Calendar -> RunRow]
    <3>1. [run[cal] EXCEPT !.token = NextToken,
                           !.kind = IF kind = "full" THEN "full" ELSE "raw"] \in RunRow
      BY <2>1, <2>2, ZenonT(60) DEF RunRow
    <3> QED
      BY <1>14, <2>2, <3>1, ZenonT(60) DEF PageDone, UpdateSyncCheckpoint
  <2> QED
    BY <1>14, <2>1, <2>3 DEF PageDone, RunRow
<1>15. CASE WriteFails
  BY <1>15, FailSyncTyped, LeaveTyped DEF WriteFails, RunRow
<1>16. CASE AdvanceCursor
  <2>1. cal \in Calendar /\ token.start \in {NoCursor} \cup Time
    BY <1>16 DEF AdvanceCursor, Token, NoCursor
  <2> QED
    BY <1>16, <2>1, ZenonT(60) DEF AdvanceCursor
<1>17. CASE FailForErrors
  BY <1>17, FailSyncTyped, LeaveTyped DEF FailForErrors, RunRow
<1>18. CASE CompleteSync
  <2>1. cal \in Calendar /\ run \in [Calendar -> RunRow]
    BY <1>18 DEF CompleteSync, RunRow
  <2>2. [run[cal] EXCEPT !.status = "completed"] \in RunRow
    BY <2>1, ZenonT(60) DEF RunRow
  <2>3. run' \in [Calendar -> RunRow]
    BY <1>18, <2>1, <2>2 DEF CompleteSync
  <2> QED
    BY <1>18, <2>3, LeaveTyped DEF CompleteSync, RunRow
<1>19. CASE TokenRejected
  BY <1>19, FailSyncTyped DEF TokenRejected, Calls, RunRow
<1>20. CASE ClearCursor
  <2>1. faults' \in 0..MaxFaults
    BY <1>20 DEF ClearCursor
  <2>2. /\ cursor' \in [Calendar -> {NoCursor} \cup Time]
        /\ expired' \in [Calendar -> BOOLEAN]
    BY <1>20 DEF ClearCursor
  <2> QED
    BY <1>20, <2>1, <2>2 DEF ClearCursor
<1>21. CASE Resync
  BY <1>21, BeginListingTyped DEF Resync, RunRow
<1>22. CASE Cancel
  BY <1>22 DEF Cancel
<1>23. CASE Kill
  <2>1. rows' \in [Calendar -> [Event -> Row]]
    <3>1. CASE UNCHANGED rows
      BY <3>1 DEF Row
    <3>2. ASSUME NEW i \in FirstOnPage, StoredInPart(i)
          PROVE  rows' \in [Calendar -> [Event -> Row]]
      <4>1. i \in Item /\ i \in page
        BY FirstTyped
      <4>2. cal \in Calendar
        BY <4>1, PageInItems DEF TypeInv
      <4> QED
        BY <3>2, <4>1, <4>2, StoredInPartTyped
    <3> QED
      BY <1>23, <3>1, <3>2 DEF Kill
  <2>2. next' \in 0..MaxEvents /\ faults' \in 0..MaxFaults
    BY <1>23 DEF Kill
  <2>5. /\ page' \subseteq Item /\ errors' \in BOOLEAN /\ ctxDone' \in BOOLEAN
        /\ todo' \subseteq Calendar /\ cal' \in Calendar \cup {NoCalendar}
    BY <1>23, Zenon DEF Kill
  <2>3. /\ token' \in Token /\ opts' \in [limited : BOOLEAN, noResume : BOOLEAN]
        /\ pc' = "idle" /\ mode' = "incremental" /\ kind' = "full"
    BY <1>23 DEF Kill
  <2>4. /\ UNCHANGED <<clock, changed, status, cursor, expired, run, manual>>
    BY <1>23 DEF Kill
  <2> QED
    BY <2>1, <2>2, <2>3, <2>4, <2>5 DEF Row
<1> QED
  BY <1>1, <1>2, <1>3, <1>4, <1>5, <1>6, <1>7, <1>8, <1>9, <1>10, <1>11, <1>12,
     <1>13, <1>14, <1>15, <1>16, <1>17, <1>18, <1>19, <1>20, <1>21, <1>22, <1>23
     DEF CalNext, PassStep

LEMMA HelperStep ==
  ASSUME TypeInv, [CalNext]_vars
  PROVE  EventsExist' /\ IncrementalFromToken' /\ PageOfItems'
<1>0. CalTypeOK
  BY DEF TypeInv
<1>1. EventsExist'
  <2>1. CASE UNCHANGED server
    BY <2>1 DEF TypeInv, EventsExist, server
  <2>2. ASSUME NEW c \in Calendar, EventChanges(c) PROVE EventsExist'
    BY <1>0, <2>2 DEF TypeInv, EventsExist, EventChanges, CalTypeOK, Time
  <2> QED
    BY <2>1, <2>2 DEF CalNext, vars, server, TokenExpires, ScheduledSync, ManualSync,
       Begin, PassStep, NextCalendar, CalendarSkipped, PassEnds, ListEvents,
       ListCancelled, ListFails, EventStored, EventFails, PageDone, WriteFails,
       AdvanceCursor, FailForErrors, CompleteSync, TokenRejected, ClearCursor,
       Resync, Cancel, Kill
<1>2. IncrementalFromToken'
  BY <1>0 DEF TypeInv, IncrementalFromToken, CalTypeOK, CalNext, vars, server, store,
     listing, EventChanges, TokenExpires, ScheduledSync, ManualSync, Begin, PassStep,
     NextCalendar, BeginListing, CalendarSkipped, PassEnds, ListEvents, Calls,
     ListCancelled, ListFails, EventStored, EventFails, PageDone, WriteFails,
     AdvanceCursor, FailForErrors, CompleteSync, TokenRejected, ClearCursor, Resync,
     Cancel, Kill, Leave
<1>3. PageOfItems'
  BY DEF TypeInv, PageOfItems, CalNext, vars, server, store,
     listing, EventChanges, TokenExpires, ScheduledSync, ManualSync, Begin, PassStep,
     NextCalendar, BeginListing, CalendarSkipped, PassEnds, ListEvents, Calls,
     ListCancelled, ListFails, EventStored, EventFails, PageDone, WriteFails,
     AdvanceCursor, FailForErrors, CompleteSync, TokenRejected, ClearCursor, Resync,
     Cancel, Kill, Leave
<1> QED
  BY <1>1, <1>2, <1>3

LEMMA TypeInit == CalInit => TypeInv
<1> SUFFICES ASSUME CalInit PROVE TypeInv
  OBVIOUS
<1>1. CalTypeOK
  <2>1. 0 \in Time /\ 0 \in 0..MaxEvents /\ 0 \in 0..MaxFaults /\ 0 \in 0..MaxManual
    BY CalendarAssumption DEF Time
  <2>2. clock \in [Calendar -> Time] /\ changed \in [Calendar -> [Event -> Time]]
    BY <2>1 DEF CalInit
  <2>3. /\ status \in [Calendar -> [Event -> {"none", "confirmed", "cancelled"}]]
        /\ expired \in [Calendar -> BOOLEAN]
        /\ cursor \in [Calendar -> {NoCursor} \cup Time]
    BY DEF CalInit
  <2>4. /\ run \in [Calendar -> RunRow]
        /\ rows \in [Calendar -> [Event -> Row]]
    BY TokensTyped DEF CalInit, RunRow, Row
  <2>5. /\ errors \in BOOLEAN /\ ctxDone \in BOOLEAN /\ todo \subseteq Calendar
        /\ page \subseteq Item /\ cal \in Calendar \cup {NoCalendar} /\ pc = "idle"
        /\ mode = "incremental" /\ kind = "full"
    BY Zenon DEF CalInit
  <2>6. /\ token \in Token /\ opts \in [limited : BOOLEAN, noResume : BOOLEAN]
    BY TokensTyped DEF CalInit
  <2>7. next \in 0..MaxEvents /\ faults \in 0..MaxFaults /\ manual \in 0..MaxManual
    BY <2>1 DEF CalInit
  <2> QED
    BY <2>2, <2>3, <2>4, <2>5, <2>6, <2>7 DEF CalTypeOK, RunRow, Row
<1>2. EventsExist /\ IncrementalFromToken /\ PageOfItems
  BY DEF CalInit, EventsExist, IncrementalFromToken, PageOfItems
<1> QED
  BY <1>1, <1>2 DEF TypeInv

\* The type invariant holds, for any calendars, events, clocks and faults.
THEOREM CalTypeCorrect == CalSpec => []CalTypeOK
<1>1. TypeInv /\ [CalNext]_vars => TypeInv'
  BY TypeStep, HelperStep DEF TypeInv
<1>2. TypeInv => CalTypeOK
  BY DEF TypeInv
<1> QED
  BY TypeInit, <1>1, <1>2, PTL DEF CalSpec

-----------------------------------------------------------------------------
(* The inductive invariant.                                                *)

\* Nothing is newer than its calendar's clock.
ClockLeads ==
  \A c \in Calendar :
    /\ cursor[c] <= clock[c] /\ run[c].token.start <= clock[c]
    /\ \A e \in Event : changed[c][e] <= clock[c]

TokenBehindClock == cal \in Calendar => token.start <= clock[cal]

\* An event that does not exist has no row.
UnseenHasNoRow ==
  \A c \in Calendar, e \in Event :
    changed[c][e] = 0 => status[c][e] = "none" /\ rows[c][e].status = "none"

\* The stored version is at most the event's, and a row has none before it exists.
ContentBehind ==
  \A c \in Calendar, e \in Event :
    /\ rows[c][e].content <= changed[c][e]
    /\ ~rows[c][e].exists => rows[c][e].content = 0

CoveredUpTo(c, S, t) == \A e \in S : changed[c][e] <= t => Reflects(c, e)

\* What a full listing may resume behind is in the archive.
CheckpointCovered ==
  \A c \in Calendar :
    run[c].status = "running" /\ run[c].kind = "full" =>
      CoveredUpTo(c, {e \in Event : e <= run[c].token.after}, run[c].token.start)

\* So is what the listing under way has passed.
Passed ==
  CASE pc = "list" -> {e \in Event : e <= token.after}
    [] pc = "items" -> {e \in Event : (next = 0 \/ e <= next)
                                      /\ \A i \in page : i.event # e}
    [] pc = "finish" -> Event
    [] OTHER -> {}
PassedCovered ==
  ~opts.limited /\ ~errors => CoveredUpTo(cal, Passed, token.start)

\* An item on the page is the event as it is, unless the event has changed
\* since it was listed: later than any token issued until then.
Current(i) == i = ItemOf(i.event)
PageFresh ==
  \A i \in page :
    /\ i.version > 0 /\ i.version <= changed[cal][i.event]
    /\ rows[cal][i.event].content <= i.version
    /\ \/ Current(i)
       \/ /\ changed[cal][i.event] > cursor[cal]
          /\ changed[cal][i.event] > token.start
          /\ changed[cal][i.event] > run[cal].token.start
OneItemEach == \A i, j \in page : i.event = j.event => i = j
FullHasNoErrors == errors => kind = "incremental"

CalInv ==
  /\ TypeInv
  /\ ClockLeads /\ TokenBehindClock
  /\ UnseenHasNoRow /\ ContentBehind
  /\ NothingMissedBehindCursor
  /\ CheckpointCovered /\ PassedCovered
  /\ PageFresh /\ OneItemEach
  /\ FullHasNoErrors


-----------------------------------------------------------------------------
(* What a step on the run and a step on a row leave alone.                 *)

\* Runs may end, their checkpoints stay as they are.
RunsOnlyEnd ==
  \A c \in Calendar :
    /\ run'[c].token = run[c].token /\ run'[c].kind = run[c].kind
    /\ run'[c].status = "running" => run[c].status = "running"

LEMMA FailSyncEnds ==
  ASSUME CalTypeOK, NEW c \in Calendar, FailSync(c)
  PROVE  RunsOnlyEnd
<1>1. run \in [Calendar -> RunRow]
  BY DEF CalTypeOK, RunRow
<1>2. CASE run' = [run EXCEPT ![c].status = "failed"]
  BY <1>1, <1>2 DEF RunsOnlyEnd, RunRow
<1>3. CASE UNCHANGED run
  BY <1>3 DEF RunsOnlyEnd
<1> QED
  BY <1>2, <1>3 DEF FailSync

LEMMA CompleteSyncEnds ==
  ASSUME CalTypeOK, NEW c \in Calendar,
         run' = [run EXCEPT ![c].status = "completed"]
  PROVE  RunsOnlyEnd
BY DEF CalTypeOK, RunsOnlyEnd

LEMMA LeaveKeeps ==
  ASSUME CalInv, Leave, RunsOnlyEnd, UNCHANGED <<server, cursor, rows>>
  PROVE  /\ ClockLeads' /\ TokenBehindClock' /\ UnseenHasNoRow' /\ ContentBehind'
         /\ NothingMissedBehindCursor' /\ CheckpointCovered' /\ PassedCovered'
         /\ PageFresh' /\ OneItemEach' /\ FullHasNoErrors'
<1> USE DEF CalInv, server, Leave
<1>1. ClockLeads'
  BY DEF ClockLeads, RunsOnlyEnd
<1>2. TokenBehindClock'
  BY CalendarAssumption DEF TokenBehindClock
<1>3. UnseenHasNoRow' /\ ContentBehind'
  BY DEF UnseenHasNoRow, ContentBehind
<1>4. \A c \in Calendar, e \in Event : Reflects(c, e)' <=> Reflects(c, e)
  BY DEF Reflects
<1>5. NothingMissedBehindCursor'
  BY <1>4 DEF NothingMissedBehindCursor
<1>6. CheckpointCovered'
  BY <1>4 DEF CheckpointCovered, CoveredUpTo, RunsOnlyEnd
<1>7. PassedCovered'
  BY DEF PassedCovered, CoveredUpTo, Passed
<1>8. PageFresh' /\ OneItemEach' /\ FullHasNoErrors'
  BY DEF PageFresh, OneItemEach, FullHasNoErrors
<1> QED
  BY <1>1, <1>2, <1>3, <1>5, <1>6, <1>7, <1>8

\* Storing an item, whole or in part, touches its row only, never loses
\* content, and leaves a row that reflects a current item reflecting it.
LEMMA StoreKeepsRows ==
  ASSUME CalInv, NEW i \in page, NEW row,
         row = PersistOne(rows[cal][i.event], i)
           \/ row \in PartlyPersisted(rows[cal][i.event], i),
         StoreRow(i, row), UNCHANGED server
  PROVE  /\ cal \in Calendar /\ i \in Item
         /\ \A c \in Calendar, e \in Event :
              (c # cal \/ e # i.event) => rows'[c][e] = rows[c][e]
         /\ rows'[cal][i.event] = row
         /\ row.content >= rows[cal][i.event].content
         /\ row.content <= changed[cal][i.event]
         /\ ~row.exists => row.content = 0
         /\ \A c \in Calendar : c = cal /\ Current(i) =>
              /\ row = PersistOne(rows[cal][i.event], i) => Reflects(c, i.event)'
              /\ Reflects(c, i.event) => Reflects(c, i.event)'
<1> USE DEF CalInv
<1>1. cal \in Calendar /\ i \in Item
  BY PageInItems DEF TypeInv, CalTypeOK
<1>2. /\ i.event \in Event /\ i.version \in Nat /\ i.status \in {"confirmed", "cancelled"}
      /\ rows \in [Calendar -> [Event -> Row]]
      /\ rows[cal][i.event] \in Row /\ changed[cal][i.event] \in Nat
  BY <1>1, CalendarAssumption DEF TypeInv, CalTypeOK, Item, Row, Time
<1>3. /\ rows'[cal][i.event] = row
      /\ \A c \in Calendar, e \in Event :
           (c # cal \/ e # i.event) => rows'[c][e] = rows[c][e]
  BY <1>1, <1>2 DEF StoreRow
<1>4. /\ i.version <= changed[cal][i.event]
      /\ rows[cal][i.event].content <= i.version
      /\ rows[cal][i.event].content \in Nat
      /\ ~rows[cal][i.event].exists => rows[cal][i.event].content = 0
      /\ row \in Row /\ row.content \in Nat
  <2>1. row \in Row
    BY <1>1, <1>2, RowsTyped
  <2> QED
    BY <1>1, <1>2, <2>1, CalendarAssumption DEF PageFresh, ContentBehind, Row, Time
<1> DEFINE old == rows[cal][i.event]
<1>5. /\ row.content >= old.content /\ row.content <= i.version
      /\ ~row.exists => row.content = 0
      /\ Current(i) /\ row = PersistOne(old, i) =>
           row.status = i.status /\ (i.status = "confirmed" => row.content = i.version)
      /\ old.status = i.status /\ (i.status = "confirmed" => old.content = i.version) =>
           row.status = i.status /\ (i.status = "confirmed" => row.content = i.version)
  <2> HIDE DEF CalInv
  <2>1. CASE FlagsCancelled(old, i)
    <3>1. row = [old EXCEPT !.status = "cancelled"] \/ row = old
      BY <2>1 DEF PersistOne, PartlyPersisted
    <3>2. row.content = old.content /\ row.exists = old.exists
      BY <1>2, <3>1 DEF Row
    <3>3. PersistOne(old, i).status = "cancelled"
      BY <1>2, <2>1 DEF PersistOne, Row
    <3>4. i.status = "cancelled"
      BY <2>1 DEF FlagsCancelled
    <3>5. old.status = "cancelled" => row.status = "cancelled"
      BY <1>2, <3>1 DEF Row
    <3> HIDE DEF old
    <3> QED
      BY <1>4, <3>2, <3>3, <3>4, <3>5 DEF old
  <2>2. CASE ~FlagsCancelled(old, i)
    <3>1. \/ row = old
          \/ row = [old EXCEPT !.exists = TRUE]
          \/ row = [old EXCEPT !.exists = TRUE, !.status = i.status]
          \/ row = IngestEvent(old, i)
      BY <2>2 DEF PersistOne, PartlyPersisted, PartlyIngested
    <3>2. i.status = "cancelled" => old.content = 0
      BY <1>2, <1>4, <2>2 DEF FlagsCancelled
    <3>3. PersistOne(old, i) = IngestEvent(old, i)
      BY <2>2 DEF PersistOne
    <3>4. /\ IngestEvent(old, i).exists /\ IngestEvent(old, i).status = i.status
          /\ IngestEvent(old, i).content = ContentOf(i)
      BY DEF IngestEvent
    <3>5. ContentOf(i) >= old.content /\ ContentOf(i) <= i.version
      BY <1>2, <1>4, <3>2 DEF ContentOf
    <3>6. /\ row.content >= old.content /\ row.content <= i.version
          /\ ~row.exists => row.content = 0
      <4>1. CASE row = IngestEvent(old, i)
        BY <3>4, <3>5, <4>1
      <4>2. CASE row # IngestEvent(old, i)
        <5>1. row.content = old.content /\ (~row.exists => ~old.exists)
          BY <1>2, <3>1, <4>2 DEF Row
        <5> HIDE DEF old
        <5> QED
          BY <1>4, <5>1 DEF old
      <4> QED
        BY <4>1, <4>2
    <3>7. Current(i) /\ row = PersistOne(old, i) =>
            row.status = i.status /\ (i.status = "confirmed" => row.content = i.version)
      BY <3>3, <3>4 DEF ContentOf
    <3>8. old.status = i.status /\ (i.status = "confirmed" => old.content = i.version) =>
            row.status = i.status /\ (i.status = "confirmed" => row.content = i.version)
      BY <1>2, <3>1, <3>4 DEF ContentOf, Row
    <3> QED
      BY <3>6, <3>7, <3>8
  <2> QED
    BY <2>1, <2>2
<1>6. Current(i) => i.version = changed[cal][i.event] /\ i.status = status[cal][i.event]
  <2>1. ItemOf(i.event).version = changed[cal][i.event]
        /\ ItemOf(i.event).status = status[cal][i.event]
    BY DEF ItemOf
  <2> QED
    BY <2>1 DEF Current
<1>7. \A c \in Calendar : c = cal =>
        (Reflects(c, i.event)' <=>
           /\ row.status = status[cal][i.event]
           /\ status[cal][i.event] = "confirmed" => row.content = changed[cal][i.event])
  <2>1. status' = status /\ changed' = changed
    BY DEF server
  <2> HIDE DEF CalInv
  <2> QED
    BY <1>3, <2>1 DEF Reflects
<1>8. row.content <= changed[cal][i.event]
  BY <1>2, <1>4, <1>5
<1> HIDE DEF old
<1>9. \A c \in Calendar : c = cal /\ Current(i) =>
        (row = PersistOne(rows[cal][i.event], i) => Reflects(c, i.event)')
  BY <1>5, <1>6, <1>7 DEF old
<1>10. \A c \in Calendar : c = cal /\ Current(i) =>
         (Reflects(c, i.event) => Reflects(c, i.event)')
  BY <1>5, <1>6, <1>7 DEF old, Reflects
<1> QED
  BY <1>1, <1>3, <1>5, <1>8, <1>9, <1>10 DEF old

\* Hence the rows keep everything said of them, whatever is stored.
LEMMA StoreKeeps ==
  ASSUME CalInv, NEW i \in page, NEW row,
         row = PersistOne(rows[cal][i.event], i)
           \/ row \in PartlyPersisted(rows[cal][i.event], i),
         StoreRow(i, row), UNCHANGED <<server, cursor>>, RunsOnlyEnd
  PROVE  /\ ClockLeads' /\ UnseenHasNoRow' /\ ContentBehind'
         /\ NothingMissedBehindCursor' /\ CheckpointCovered'
         /\ \A c \in Calendar, e \in Event :
              rows'[c][e].content >= rows[c][e].content
<1>1. /\ cal \in Calendar /\ i \in Item
      /\ \A c \in Calendar, e \in Event :
           (c # cal \/ e # i.event) => rows'[c][e] = rows[c][e]
      /\ rows'[cal][i.event] = row
      /\ row.content >= rows[cal][i.event].content
      /\ row.content <= changed[cal][i.event]
      /\ ~row.exists => row.content = 0
      /\ \A c \in Calendar : c = cal /\ Current(i) =>
           /\ row = PersistOne(rows[cal][i.event], i) => Reflects(c, i.event)'
           /\ Reflects(c, i.event) => Reflects(c, i.event)'
  BY StoreKeepsRows DEF server
<1>2. server' = server /\ cursor' = cursor /\ clock' = clock /\ changed' = changed
      /\ status' = status
  BY DEF server
<1>3. \A c \in Calendar, e \in Event :
        c # cal \/ e # i.event => (Reflects(c, e)' <=> Reflects(c, e))
  BY <1>1, <1>2 DEF Reflects
<1>4. ~Current(i) => /\ changed[cal][i.event] > cursor[cal]
                     /\ changed[cal][i.event] > run[cal].token.start
  BY DEF CalInv, PageFresh
<1>5. /\ \A c \in Calendar : cursor[c] \in Int /\ run[c].token.start \in Int
      /\ \A c \in Calendar, e \in Event : changed[c][e] \in Nat /\ rows[c][e].content \in Nat
  BY CalendarAssumption DEF CalInv, TypeInv, CalTypeOK, Time, NoCursor, Token
<1>6. changed[cal][i.event] > 0 /\ i.event \in Event
  BY <1>1, <1>5 DEF CalInv, PageFresh, Item, Time
<1>7. ClockLeads'
  BY <1>2 DEF CalInv, ClockLeads, RunsOnlyEnd
<1>8. UnseenHasNoRow'
  <2>1. ASSUME NEW c \in Calendar, NEW e \in Event, changed[c][e] = 0
        PROVE  status[c][e] = "none" /\ rows'[c][e].status = "none"
    <3>1. c # cal \/ e # i.event
      BY <1>6, <2>1
    <3> QED
      BY <1>1, <2>1, <3>1 DEF CalInv, UnseenHasNoRow
  <2> QED
    BY <1>2, <2>1 DEF UnseenHasNoRow
<1>9. ContentBehind'
  <2>1. ASSUME NEW c \in Calendar, NEW e \in Event
        PROVE  /\ rows'[c][e].content <= changed[c][e]
               /\ ~rows'[c][e].exists => rows'[c][e].content = 0
    BY <1>1 DEF CalInv, ContentBehind
  <2> QED
    BY <1>2, <2>1 DEF ContentBehind
<1>10. NothingMissedBehindCursor'
  <2>1. ASSUME NEW c \in Calendar, NEW e \in Event,
               cursor[c] # NoCursor, changed[c][e] <= cursor[c]
        PROVE  Reflects(c, e)'
    <3>1. Reflects(c, e)
      BY <2>1 DEF CalInv, NothingMissedBehindCursor
    <3>2. CASE c = cal /\ e = i.event
      <4>1. Current(i)
        BY <1>4, <1>5, <2>1, <3>2
      <4> QED
        BY <1>1, <3>1, <3>2, <4>1
    <3> QED
      BY <1>3, <3>1, <3>2
  <2> QED
    BY <1>2, <2>1 DEF NothingMissedBehindCursor
<1>11. CheckpointCovered'
  <2>1. ASSUME NEW c \in Calendar, NEW e \in Event,
               run[c].status = "running", run[c].kind = "full",
               e <= run[c].token.after, changed[c][e] <= run[c].token.start
        PROVE  Reflects(c, e)'
    <3>1. Reflects(c, e)
      BY <2>1 DEF CalInv, CheckpointCovered, CoveredUpTo
    <3>2. CASE c = cal /\ e = i.event
      <4>1. Current(i)
        BY <1>4, <1>5, <2>1, <3>2
      <4> QED
        BY <1>1, <3>1, <3>2, <4>1
    <3> QED
      BY <1>3, <3>1, <3>2
  <2> QED
    BY <1>2, <2>1 DEF CheckpointCovered, CoveredUpTo, RunsOnlyEnd
<1>12. \A c \in Calendar, e \in Event : rows'[c][e].content >= rows[c][e].content
  BY <1>1, <1>5
<1> QED
  BY <1>7, <1>8, <1>9, <1>10, <1>11, <1>12

-----------------------------------------------------------------------------
(* What a list call returns.                                               *)

\* Up to the last event of a page, all that is left is on the page.
LEMMA PageComplete ==
  ASSUME CalTypeOK, NEW last \in (IF OnPage = Remaining THEN {0} ELSE LastOnPage),
         NEW e \in Remaining, last = 0 \/ e <= last
  PROVE  e \in OnPage
<1>1. IsFiniteSet(Event)
  BY CalendarAssumption, FS_Interval DEF Event
<1>2. CASE OnPage = Remaining
  BY <1>2
<1>3. CASE OnPage # Remaining
  <2>1. last \in OnPage /\ last \in Event /\ e \in Event
    BY <1>3 DEF LastOnPage, OnPage, Remaining
  <2>2. e <= last
    BY <2>1 DEF Event
  <2> DEFINE Below(x) == {f \in Remaining : f < x}
  <2>3. Below(last) \subseteq Event /\ Below(e) \subseteq Below(last)
    BY <2>1, <2>2 DEF Remaining, Event
  <2>4. IsFiniteSet(Below(last))
    BY <1>1, <2>3, FS_Subset
  <2>5. IsFiniteSet(Below(e)) /\ Cardinality(Below(e)) <= Cardinality(Below(last))
    BY <2>3, <2>4, FS_Subset
  <2>6. Cardinality(Below(e)) \in Nat /\ Cardinality(Below(last)) \in Nat
    BY <2>4, <2>5, FS_CardinalityType
  <2>7. Cardinality(Below(last)) < PageSize
    BY <2>1 DEF OnPage
  <2> HIDE DEF Below
  <2>8. Cardinality(Below(e)) < PageSize
    BY <2>5, <2>6, <2>7, CalendarAssumption
  <2> QED
    BY <2>8 DEF Below, OnPage
<1> QED
  BY <1>2, <1>3

LEMMA ListEventsKeeps ==
  ASSUME CalInv, ListEvents
  PROVE  /\ ClockLeads' /\ TokenBehindClock' /\ UnseenHasNoRow' /\ ContentBehind'
         /\ NothingMissedBehindCursor' /\ CheckpointCovered' /\ PassedCovered'
         /\ PageFresh' /\ OneItemEach' /\ FullHasNoErrors'
<1>1. /\ UNCHANGED <<clock, changed, status, cursor, expired, run, rows, mode, opts,
                     todo, cal, kind, errors, ctxDone, faults, manual>>
      /\ pc = "list" /\ pc' = "items"
      /\ token' = [token EXCEPT !.start = Start]
      /\ next' \in IF OnPage = Remaining THEN {0} ELSE LastOnPage
  BY DEF ListEvents, Calls, server, store
<1>2. PICK S \in Wanted(OnPage) : page' = {ItemOf(e) : e \in S}
  BY DEF ListEvents
<1>3. CalTypeOK /\ cal \in Calendar
  BY <1>1 DEF CalInv, TypeInv, CalTypeOK
<1>4. S \subseteq OnPage /\ OnPage \subseteq Remaining /\ Remaining \subseteq Event
  BY <1>2 DEF Wanted, OnPage, Remaining
<1>5. /\ token \in Token /\ token.start \in Int /\ token.after \in Int
      /\ token'.start = Start /\ token'.after = token.after
      /\ clock[cal] \in Nat /\ \A e \in Event : changed[cal][e] \in Nat
  BY <1>1, <1>3, CalendarAssumption DEF CalTypeOK, Token, Time
<1>6. Start <= clock[cal] /\ Start \in Int
  BY <1>3, <1>5 DEF Start, CalInv, TokenBehindClock
<1>7. Since \in Nat
  BY <1>1, <1>3, CalendarAssumption
     DEF Since, CalInv, TypeInv, IncrementalFromToken, CalTypeOK, Time
<1>8. /\ ClockLeads' /\ UnseenHasNoRow' /\ ContentBehind' /\ FullHasNoErrors'
  BY <1>1 DEF CalInv, ClockLeads, UnseenHasNoRow, ContentBehind, FullHasNoErrors
<1>9. TokenBehindClock'
  BY <1>1, <1>5, <1>6 DEF TokenBehindClock
<1>10. \A c \in Calendar, e \in Event : Reflects(c, e)' <=> Reflects(c, e)
  BY <1>1 DEF Reflects
<1>11. NothingMissedBehindCursor' /\ CheckpointCovered'
  BY <1>1, <1>10 DEF CalInv, NothingMissedBehindCursor, CheckpointCovered, CoveredUpTo
<1>12. ASSUME ~opts.limited, ~errors, NEW e \in Event, changed[cal][e] <= Start,
              next' = 0 \/ e <= next', \A i \in page' : i.event # e
       PROVE  Reflects(cal, e)
  <2>1. CASE e <= token.after
    <3>1. token # NoToken
      BY <2>1 DEF NoToken, Event
    <3>2. changed[cal][e] <= token.start
      BY <1>12, <3>1 DEF Start
    <3> QED
      BY <1>1, <1>12, <2>1, <3>2 DEF CalInv, PassedCovered, Passed, CoveredUpTo
  <2>2. CASE ~(e <= token.after)
    <3>1. e \notin OnPage
      <4>1. CASE e \in OnPage
        <5>1. S = OnPage
          BY <1>2, <1>12 DEF Wanted
        <5>2. ItemOf(e) \in page' /\ ItemOf(e).event = e
          BY <1>2, <4>1, <5>1 DEF ItemOf
        <5> QED
          BY <1>12, <5>2
      <4> QED
        BY <4>1
    <3>2. e \notin Remaining
      BY <1>1, <1>3, <1>12, <3>1, PageComplete
    <3>3. changed[cal][e] <= Since
      BY <1>5, <1>7, <1>12, <2>2, <3>2 DEF Remaining, Event
    <3>4. CASE kind = "full"
      <4>1. changed[cal][e] = 0
        BY <1>5, <3>3, <3>4 DEF Since
      <4> QED
        BY <1>3, <4>1 DEF CalInv, UnseenHasNoRow, Reflects
    <3>5. CASE kind # "full"
      <4>1. Since = cursor[cal] /\ cursor[cal] # NoCursor
        BY <1>7, <3>5 DEF Since, NoCursor
      <4> QED
        BY <1>3, <3>3, <4>1 DEF CalInv, NothingMissedBehindCursor
    <3> QED
      BY <3>4, <3>5
  <2> QED
    BY <2>1, <2>2
<1>13. PassedCovered'
  <2>2. Passed' = {e \in Event : (next' = 0 \/ e <= next') /\ \A i \in page' : i.event # e}
    BY <1>1 DEF Passed
  <2>3. ASSUME ~opts.limited, ~errors, NEW e \in Passed', changed[cal][e] <= Start
        PROVE  Reflects(cal, e)
    BY <1>12, <2>2, <2>3
  <2>4. ASSUME ~opts.limited, ~errors, NEW e \in Passed', changed'[cal'][e] <= token'.start
        PROVE  Reflects(cal, e)' 
    <3>1. e \in Event
      BY <2>2
    <3>2. Reflects(cal, e)
      BY <1>1, <1>5, <2>3, <2>4
    <3> QED
      BY <1>1, <3>2 DEF Reflects
  <2> QED
    BY <1>1, <2>4 DEF PassedCovered, CoveredUpTo
<1>14. PageFresh'
  <2>1. ASSUME NEW i \in page'
        PROVE  /\ i.version > 0 /\ i.version <= changed[cal][i.event]
               /\ rows[cal][i.event].content <= i.version
               /\ i = ItemOf(i.event)
    <3>1. PICK e \in S : i = ItemOf(e)
      BY <1>2
    <3>2. e \in Event /\ changed[cal][e] > Since
      BY <1>4 DEF Remaining
    <3>3. i.event = e /\ i.version = changed[cal][e]
      BY <3>1 DEF ItemOf
    <3>4. changed[cal][e] > 0
      BY <1>5, <1>7, <3>2
    <3>5. rows[cal][e].content <= changed[cal][e]
      BY <1>3, <3>2 DEF CalInv, ContentBehind
    <3> QED
      BY <1>5, <3>1, <3>2, <3>3, <3>4, <3>5
  <2>2. \A e : ItemOf(e)' = ItemOf(e)
    BY <1>1 DEF ItemOf
  <2> QED
    BY <1>1, <2>1, <2>2 DEF PageFresh, Current
<1>15. OneItemEach'
  <2>1. ASSUME NEW i \in page', NEW j \in page', i.event = j.event PROVE i = j
    <3>1. PICK e \in S, f \in S : i = ItemOf(e) /\ j = ItemOf(f)
      BY <1>2
    <3> QED
      BY <2>1, <3>1 DEF ItemOf
  <2> QED
    BY <2>1 DEF OneItemEach
<1> QED
  BY <1>8, <1>9, <1>11, <1>13, <1>14, <1>15

-----------------------------------------------------------------------------
(* The other steps.                                                        *)

\* A change is newer than every token.
LEMMA EventChangesKeeps ==
  ASSUME CalInv, NEW c \in Calendar, EventChanges(c)
  PROVE  /\ ClockLeads' /\ TokenBehindClock' /\ UnseenHasNoRow' /\ ContentBehind'
         /\ NothingMissedBehindCursor' /\ CheckpointCovered' /\ PassedCovered'
         /\ PageFresh' /\ OneItemEach' /\ FullHasNoErrors'
<1>1. PICK e \in Event, s \in {"confirmed", "cancelled"} :
        /\ clock' = [clock EXCEPT ![c] = @ + 1]
        /\ changed' = [changed EXCEPT ![c][e] = clock[c] + 1]
        /\ status' = [status EXCEPT ![c][e] = s]
  BY DEF EventChanges
<1>2. UNCHANGED <<cursor, expired, run, rows, pc, mode, opts, todo, cal, kind,
                  token, page, next, errors>>
  BY DEF EventChanges, store, listing
<1>3. CalTypeOK
  BY DEF CalInv, TypeInv
<1>4. /\ \A d \in Calendar : clock[d] \in Nat /\ clock'[d] \in Nat /\ clock[d] <= clock'[d]
      /\ \A d \in Calendar : cursor[d] \in Int /\ run[d].token.start \in Int
      /\ \A d \in Calendar, f \in Event : changed[d][f] \in Nat /\ rows[d][f].content \in Nat
      /\ token.start \in Int
  BY <1>1, <1>3, CalendarAssumption DEF CalTypeOK, Time, Token, NoCursor
<1>5. /\ changed'[c][e] = clock[c] + 1 /\ status'[c][e] = s
      /\ \A d \in Calendar, f \in Event : d # c \/ f # e =>
           changed'[d][f] = changed[d][f] /\ status'[d][f] = status[d][f]
  BY <1>1, <1>3 DEF CalTypeOK
<1>6. \A d \in Calendar, f \in Event : d # c \/ f # e => (Reflects(d, f)' <=> Reflects(d, f))
  BY <1>2, <1>5 DEF Reflects
<1>7. clock'[c] = clock[c] + 1 /\ clock[c] \in Nat
  BY <1>1, <1>3, <1>4 DEF CalTypeOK
<1>8. ClockLeads'
  BY <1>2, <1>4, <1>5, <1>7 DEF CalInv, ClockLeads
<1>9. TokenBehindClock'
  BY <1>2, <1>4 DEF CalInv, TokenBehindClock
<1>10. UnseenHasNoRow' /\ ContentBehind'
  <2>1. UnseenHasNoRow'
    BY <1>2, <1>5, <1>7 DEF CalInv, UnseenHasNoRow
  <2>2. ASSUME NEW d \in Calendar, NEW f \in Event
        PROVE  rows[d][f].content <= changed'[d][f]
    BY <1>4, <1>5, <1>7 DEF CalInv, ContentBehind, ClockLeads
  <2> QED
    BY <1>2, <2>1, <2>2 DEF CalInv, ContentBehind
<1>11. NothingMissedBehindCursor'
  <2>1. ASSUME NEW d \in Calendar, NEW f \in Event,
               cursor[d] # NoCursor, changed'[d][f] <= cursor[d]
        PROVE  Reflects(d, f)'
    <3>1. d # c \/ f # e
      BY <1>4, <1>5, <1>7, <2>1 DEF CalInv, ClockLeads
    <3> QED
      BY <1>5, <1>6, <2>1, <3>1 DEF CalInv, NothingMissedBehindCursor
  <2> QED
    BY <1>2, <2>1 DEF NothingMissedBehindCursor
<1>12. CheckpointCovered'
  <2>1. ASSUME NEW d \in Calendar, NEW f \in Event,
               run[d].status = "running", run[d].kind = "full",
               f <= run[d].token.after, changed'[d][f] <= run[d].token.start
        PROVE  Reflects(d, f)'
    <3>1. d # c \/ f # e
      BY <1>4, <1>5, <1>7, <2>1 DEF CalInv, ClockLeads
    <3> QED
      BY <1>5, <1>6, <2>1, <3>1 DEF CalInv, CheckpointCovered, CoveredUpTo
  <2> QED
    BY <1>2, <2>1 DEF CheckpointCovered, CoveredUpTo
<1>13. PassedCovered'
  <2>1. Passed' = Passed
    BY <1>2 DEF Passed
  <2>2. ASSUME ~opts.limited, ~errors, NEW f \in Passed, changed'[cal][f] <= token.start
        PROVE  Reflects(cal, f)'
    <3>1. cal \in Calendar /\ f \in Event
      BY <1>3 DEF Passed, CalTypeOK
    <3>2. cal # c \/ f # e
      BY <1>4, <1>5, <1>7, <2>2, <3>1 DEF CalInv, TokenBehindClock
    <3>3. Reflects(cal, f)
      BY <1>5, <2>2, <3>1, <3>2 DEF CalInv, PassedCovered, CoveredUpTo
    <3> QED
      BY <1>2, <1>5, <3>1, <3>2, <3>3 DEF Reflects
  <2> QED
    BY <1>2, <2>1, <2>2 DEF PassedCovered, CoveredUpTo
<1>14. PageFresh'
  <2>1. ASSUME NEW i \in page
        PROVE  /\ i.version > 0 /\ i.version <= changed'[cal][i.event]
               /\ rows[cal][i.event].content <= i.version
               /\ \/ Current(i)'
                  \/ /\ changed'[cal][i.event] > cursor[cal]
                     /\ changed'[cal][i.event] > token.start
                     /\ changed'[cal][i.event] > run[cal].token.start
    <3>1. i \in Item /\ i.event \in Event /\ i.version \in Nat
      BY <1>3, CalendarAssumption DEF CalTypeOK, Item, Time
    <3>2. cal \in Calendar
      BY PageInItems DEF CalInv
    <3>3. CASE cal = c /\ i.event = e
      BY <1>4, <1>5, <1>7, <3>1, <3>2, <3>3 DEF CalInv, PageFresh, ClockLeads, TokenBehindClock
    <3>4. CASE cal # c \/ i.event # e
      <4>1. Current(i)' <=> Current(i)
        BY <1>2, <1>5, <3>1, <3>2, <3>4 DEF Current, ItemOf
      <4> QED
        BY <1>5, <3>1, <3>2, <3>4, <4>1 DEF CalInv, PageFresh
    <3> QED
      BY <3>3, <3>4
  <2> QED
    BY <1>2, <2>1 DEF PageFresh
<1>15. OneItemEach' /\ FullHasNoErrors'
  BY <1>2 DEF CalInv, OneItemEach, FullHasNoErrors
<1> QED
  BY <1>8, <1>9, <1>10, <1>11, <1>12, <1>13, <1>14, <1>15

\* A listing begins behind what a full run's checkpoint covers, or at the start.
LEMMA BeginListingKeeps ==
  ASSUME CalInv, NEW c \in Calendar, NEW k \in {"full", "incremental"},
         BeginListing(c, k), UNCHANGED <<server, cursor, rows, opts>>
  PROVE  /\ ClockLeads' /\ TokenBehindClock' /\ UnseenHasNoRow' /\ ContentBehind'
         /\ NothingMissedBehindCursor' /\ CheckpointCovered' /\ PassedCovered'
         /\ PageFresh' /\ OneItemEach' /\ FullHasNoErrors'
<1>1. CalTypeOK
  BY DEF CalInv, TypeInv
<1>2. /\ cal' = c /\ kind' = k /\ pc' = "list" /\ page' = {} /\ errors' = FALSE
      /\ token' = IF k = "full" THEN ResumeToken(c) ELSE NoToken
      /\ clock' = clock /\ changed' = changed /\ status' = status
      /\ cursor' = cursor /\ rows' = rows /\ opts' = opts
  BY DEF BeginListing, server
<1>3. /\ run'[c] = [NoRun EXCEPT !.status = "running"]
      /\ \A d \in Calendar : d # c => run'[d] = run[d]
  BY <1>1 DEF BeginListing, StartSync, CalTypeOK
<1>4. run'[c].kind = "none" /\ run'[c].token = NoToken /\ NoToken.start = -1 /\ NoToken.after = 0
  BY <1>3 DEF NoRun, NoToken
<1>5. \A d \in Calendar, e \in Event : Reflects(d, e)' <=> Reflects(d, e)
  BY <1>2 DEF Reflects
<1>6. \A d \in Calendar : clock[d] \in Nat
  BY <1>1, CalendarAssumption DEF CalTypeOK, Time
<1>7. ClockLeads'
  <2>1. ASSUME NEW d \in Calendar PROVE run'[d].token.start <= clock[d]
    <3>1. CASE d = c
      <4>1. run'[d].token.start = -1
        BY <1>4, <3>1
      <4> QED
        BY <1>6, <4>1
    <3>2. CASE d # c
      BY <1>3, <3>2 DEF CalInv, ClockLeads
    <3> QED
      BY <3>1, <3>2
  <2> QED
    BY <1>2, <2>1 DEF CalInv, ClockLeads
<1>8. token'.start <= clock[c]
  <2>1. CASE token' = NoToken
    BY <1>4, <1>6, <2>1
  <2>2. CASE token' = run[c].token
    BY <2>2 DEF CalInv, ClockLeads
  <2> QED
    BY <1>2, <2>1, <2>2 DEF ResumeToken
<1>9. TokenBehindClock' /\ UnseenHasNoRow' /\ ContentBehind'
  BY <1>2, <1>8 DEF CalInv, TokenBehindClock, UnseenHasNoRow, ContentBehind
<1>10. NothingMissedBehindCursor'
  BY <1>2, <1>5 DEF CalInv, NothingMissedBehindCursor
<1>11. CheckpointCovered'
  <2>1. ASSUME NEW d \in Calendar, NEW e \in Event,
               run'[d].status = "running", run'[d].kind = "full",
               e <= run'[d].token.after, changed[d][e] <= run'[d].token.start
        PROVE  Reflects(d, e)
    <3>1. d # c
      BY <1>4, <2>1
    <3> QED
      BY <1>3, <2>1, <3>1 DEF CalInv, CheckpointCovered, CoveredUpTo
  <2> QED
    BY <1>2, <1>5, <2>1 DEF CheckpointCovered, CoveredUpTo
<1>12. PassedCovered'
  <2>1. ASSUME NEW e \in Event, e <= token'.after, changed[c][e] <= token'.start
        PROVE  Reflects(c, e)
    <3>1. CASE token' = NoToken
      BY <1>4, <2>1, <3>1 DEF Event
    <3>2. CASE token' # NoToken
      <4>1. /\ token' = run[c].token /\ run[c].status = "running" /\ run[c].kind = "full"
        BY <1>2, <3>2 DEF ResumeToken
      <4> QED
        BY <2>1, <4>1 DEF CalInv, CheckpointCovered, CoveredUpTo
    <3> QED
      BY <3>1, <3>2
  <2>2. Passed' = {e \in Event : e <= token'.after}
    BY <1>2 DEF Passed
  <2>3. ASSUME NEW e \in Passed', changed'[cal'][e] <= token'.start PROVE Reflects(cal, e)'
    <3>1. e \in Event /\ e <= token'.after /\ changed[c][e] <= token'.start
      BY <1>2, <2>2, <2>3
    <3>2. Reflects(c, e)
      BY <2>1, <3>1
    <3> QED
      BY <1>2, <3>2 DEF Reflects
  <2> QED
    BY <2>3 DEF PassedCovered, CoveredUpTo
<1>13. PageFresh' /\ OneItemEach' /\ FullHasNoErrors'
  BY <1>2 DEF PageFresh, OneItemEach, FullHasNoErrors
<1> QED
  BY <1>7, <1>9, <1>10, <1>11, <1>12, <1>13

\* A checkpoint is saved, or the listing ends, behind events that are covered.
LEMMA PageDoneKeeps ==
  ASSUME CalInv, PageDone
  PROVE  /\ ClockLeads' /\ TokenBehindClock' /\ UnseenHasNoRow' /\ ContentBehind'
         /\ NothingMissedBehindCursor' /\ CheckpointCovered' /\ PassedCovered'
         /\ PageFresh' /\ OneItemEach' /\ FullHasNoErrors'
<1>1. CalTypeOK
  BY DEF CalInv, TypeInv
<1>2. /\ pc = "items" /\ page = {} /\ next' = 0
      /\ UNCHANGED <<clock, changed, status, cursor, expired, rows, mode, opts, todo,
                     cal, kind, page, errors>>
      /\ UpdateSyncCheckpoint
      /\ \/ next # 0 /\ token' = NextToken /\ pc' = "list"
         \/ (next = 0 \/ opts.limited) /\ pc' = "finish" /\ token' = token
  BY DEF PageDone, server
<1>3. cal \in Calendar /\ token.start \in Int /\ clock[cal] \in Nat /\ next \in Nat
  BY <1>1, <1>2, CalendarAssumption DEF CalTypeOK, Token, Time
<1>4. \A c \in Calendar, e \in Event : Reflects(c, e)' <=> Reflects(c, e)
  BY <1>2 DEF Reflects
<1>5. NextToken.start <= clock[cal] /\ token.start <= clock[cal]
  BY <1>1, <1>3 DEF NextToken, NoToken, CalInv, TokenBehindClock, CalTypeOK, Token
<1>6. /\ next # 0 => NextToken.after = next /\ NextToken.start = token.start
      /\ next = 0 => NextToken.after = 0
  BY <1>1 DEF NextToken, NoToken, CalTypeOK, Token
<1>7. /\ \A c \in Calendar : c # cal => run'[c] = run[c]
      /\ \/ run'[cal] = run[cal]
         \/ /\ run'[cal].token = NextToken /\ run'[cal].status = run[cal].status
            /\ run'[cal].kind = (IF kind = "full" THEN "full" ELSE "raw")
            /\ ~NoCheckpoint
  <2>1. run \in [Calendar -> RunRow]
    BY <1>1 DEF CalTypeOK, RunRow
  <2> QED
    BY <1>2, <1>3, <2>1 DEF UpdateSyncCheckpoint, RunRow
<1>8. ASSUME ~opts.limited, ~errors, NEW e \in Event, next = 0 \/ e <= next,
             changed[cal][e] <= token.start
      PROVE  Reflects(cal, e)
  <2>1. e \in Passed
    BY <1>2, <1>8 DEF Passed
  <2> QED
    BY <1>8, <2>1 DEF CalInv, PassedCovered, CoveredUpTo
<1>9. ClockLeads'
  <2>1. ASSUME NEW c \in Calendar PROVE run'[c].token.start <= clock[c]
    BY <1>5, <1>7 DEF CalInv, ClockLeads
  <2> QED
    BY <1>2, <2>1 DEF CalInv, ClockLeads
<1>10. TokenBehindClock' /\ UnseenHasNoRow' /\ ContentBehind'
  BY <1>2, <1>5 DEF CalInv, TokenBehindClock, UnseenHasNoRow, ContentBehind
<1>11. NothingMissedBehindCursor'
  BY <1>2, <1>4 DEF CalInv, NothingMissedBehindCursor
<1>12. CheckpointCovered'
  <2>1. ASSUME NEW c \in Calendar, NEW e \in Event,
               run'[c].status = "running", run'[c].kind = "full",
               e <= run'[c].token.after, changed[c][e] <= run'[c].token.start
        PROVE  Reflects(c, e)
    <3>1. CASE run'[c] = run[c]
      BY <2>1, <3>1 DEF CalInv, CheckpointCovered, CoveredUpTo
    <3>2. CASE run'[c] # run[c]
      <4>1. c = cal /\ run'[c].token = NextToken /\ kind = "full" /\ ~NoCheckpoint
        BY <1>7, <2>1, <3>2
      <4>2. ~opts.limited /\ ~errors
        BY <4>1 DEF NoCheckpoint, CalInv, FullHasNoErrors
      <4>3. next # 0 /\ e <= next /\ changed[cal][e] <= token.start
        BY <1>6, <2>1, <4>1 DEF Event
      <4> QED
        BY <1>8, <4>1, <4>2, <4>3
    <3> QED
      BY <3>1, <3>2
  <2> QED
    BY <1>2, <1>4, <2>1 DEF CheckpointCovered, CoveredUpTo
<1>13. PassedCovered'
  <2>1. ASSUME ~opts.limited, ~errors, NEW e \in Passed', changed[cal][e] <= token'.start
        PROVE  Reflects(cal, e)
    <3>1. CASE next # 0 /\ token' = NextToken /\ pc' = "list"
      <4>1. e \in Event /\ e <= token'.after
        BY <2>1, <3>1 DEF Passed
      <4> QED
        BY <1>6, <1>8, <2>1, <3>1, <4>1
    <3>2. CASE next = 0 /\ pc' = "finish" /\ token' = token
      <4>1. e \in Event
        BY <2>1, <3>2 DEF Passed
      <4> QED
        BY <1>8, <2>1, <3>2, <4>1
    <3> QED
      BY <1>2, <2>1, <3>1, <3>2
  <2>2. \A e : Reflects(cal, e) => Reflects(cal, e)'
    BY <1>2 DEF Reflects
  <2> QED
    BY <1>2, <2>1, <2>2 DEF PassedCovered, CoveredUpTo
<1>14. PageFresh' /\ OneItemEach' /\ FullHasNoErrors'
  BY <1>2 DEF CalInv, PageFresh, OneItemEach, FullHasNoErrors
<1> QED
  BY <1>9, <1>10, <1>11, <1>12, <1>13, <1>14

\* The token that is stored is that of a listing whose every event is covered.
LEMMA AdvanceCursorKeeps ==
  ASSUME CalInv, AdvanceCursor
  PROVE  /\ ClockLeads' /\ TokenBehindClock' /\ UnseenHasNoRow' /\ ContentBehind'
         /\ NothingMissedBehindCursor' /\ CheckpointCovered' /\ PassedCovered'
         /\ PageFresh' /\ OneItemEach' /\ FullHasNoErrors'
<1>1. CalTypeOK
  BY DEF CalInv, TypeInv
<1>2. /\ pc = "finish" /\ pc' = "complete" /\ ~errors
      /\ UNCHANGED <<clock, changed, status, run, rows, mode, opts, todo, cal, kind,
                     token, page, next, errors>>
      /\ IF opts.limited THEN cursor' = cursor
         ELSE cursor' = [cursor EXCEPT ![cal] = token.start]
  BY DEF AdvanceCursor, server, listing
<1>3. cal \in Calendar /\ page = {}
  BY <1>1, <1>2 DEF CalTypeOK, CalInv, TypeInv, PageOfItems
<1>4. \A c \in Calendar, e \in Event : Reflects(c, e)' <=> Reflects(c, e)
  BY <1>2 DEF Reflects
<1>5. /\ \A c \in Calendar : c # cal => cursor'[c] = cursor[c]
      /\ cursor'[cal] = cursor[cal] \/ (~opts.limited /\ cursor'[cal] = token.start)
  BY <1>1, <1>2, <1>3 DEF CalTypeOK
<1>6. ClockLeads'
  <2>1. ASSUME NEW c \in Calendar PROVE cursor'[c] <= clock[c]
    BY <1>3, <1>5 DEF CalInv, ClockLeads, TokenBehindClock
  <2> QED
    BY <1>2, <2>1 DEF CalInv, ClockLeads
<1>7. NothingMissedBehindCursor'
  <2>1. ASSUME NEW c \in Calendar, NEW e \in Event,
               cursor'[c] # NoCursor, changed[c][e] <= cursor'[c]
        PROVE  Reflects(c, e)
    <3>1. CASE cursor'[c] = cursor[c]
      BY <2>1, <3>1 DEF CalInv, NothingMissedBehindCursor
    <3>2. CASE cursor'[c] # cursor[c]
      <4>1. c = cal /\ ~opts.limited /\ cursor'[c] = token.start
        BY <1>5, <3>2
      <4>2. e \in Passed
        BY <1>2 DEF Passed
      <4> QED
        BY <1>2, <2>1, <4>1, <4>2 DEF CalInv, PassedCovered, CoveredUpTo
    <3> QED
      BY <3>1, <3>2
  <2> QED
    BY <1>2, <1>4, <2>1 DEF NothingMissedBehindCursor
<1>8. CheckpointCovered'
  BY <1>2, <1>4 DEF CalInv, CheckpointCovered, CoveredUpTo
<1>9. PassedCovered'
  <2>1. Passed' = {}
    BY <1>2 DEF Passed
  <2> QED
    BY <2>1 DEF PassedCovered, CoveredUpTo
<1>10. /\ TokenBehindClock' /\ UnseenHasNoRow' /\ ContentBehind'
       /\ PageFresh' /\ OneItemEach' /\ FullHasNoErrors'
  BY <1>2, <1>3 DEF CalInv, TokenBehindClock, UnseenHasNoRow, ContentBehind, PageFresh,
     OneItemEach, FullHasNoErrors
<1> QED
  BY <1>6, <1>7, <1>8, <1>9, <1>10

\* An item is stored: it is as the server has it, or has changed since.
LEMMA EventStoredKeeps ==
  ASSUME CalInv, EventStored
  PROVE  /\ ClockLeads' /\ TokenBehindClock' /\ UnseenHasNoRow' /\ ContentBehind'
         /\ NothingMissedBehindCursor' /\ CheckpointCovered' /\ PassedCovered'
         /\ PageFresh' /\ OneItemEach' /\ FullHasNoErrors'
<1>1. PICK i \in FirstOnPage : /\ StoreRow(i, PersistOne(rows[cal][i.event], i))
                               /\ page' = page \ {i}
  BY DEF EventStored
<1>2. /\ pc = "items"
      /\ UNCHANGED <<clock, changed, status, cursor, run, pc, opts, cal, kind, token,
                     next, errors>>
  BY DEF EventStored, server
<1>3. i \in page
  BY DEF FirstOnPage
<1>4. RunsOnlyEnd
  BY <1>2 DEF RunsOnlyEnd
<1>5. UNCHANGED <<server, cursor>>
  BY <1>2 DEF server
<1>6. /\ ClockLeads' /\ UnseenHasNoRow' /\ ContentBehind'
      /\ NothingMissedBehindCursor' /\ CheckpointCovered'
  BY <1>1, <1>3, <1>4, <1>5, StoreKeeps
<1>7. /\ cal \in Calendar /\ i \in Item
      /\ \A c \in Calendar, e \in Event :
           (c # cal \/ e # i.event) => rows'[c][e] = rows[c][e]
      /\ \A c \in Calendar : c = cal /\ Current(i) => Reflects(c, i.event)'
  BY <1>1, <1>3, <1>5, StoreKeepsRows
<1>8. TokenBehindClock'
  BY <1>2 DEF CalInv, TokenBehindClock
<1>9. PassedCovered'
  <2>1. ASSUME ~opts.limited, ~errors, NEW e \in Passed', changed[cal][e] <= token.start
        PROVE  Reflects(cal, e)'
    <3>1. e \in Event /\ (next = 0 \/ e <= next) /\ \A j \in page' : j.event # e
      BY <1>2, <2>1 DEF Passed
    <3>2. CASE e = i.event
      <4>1. token.start \in Int /\ changed[cal][e] \in Int
        BY <1>7, <3>1, CalendarAssumption DEF CalInv, TypeInv, CalTypeOK, Token, Time
      <4>2. Current(i)
        BY <1>3, <2>1, <3>2, <4>1 DEF CalInv, PageFresh
      <4>3. Reflects(cal, i.event)' <=> \A c \in Calendar : c = cal => Reflects(c, i.event)'
        BY <1>2, <1>7 DEF Reflects
      <4> QED
        BY <1>7, <3>2, <4>2, <4>3
    <3>3. CASE e # i.event
      <4>1. e \in Passed
        BY <1>1, <1>2, <3>1, <3>3 DEF Passed
      <4>2. Reflects(cal, e)
        BY <2>1, <4>1 DEF CalInv, PassedCovered, CoveredUpTo
      <4> QED
        BY <1>2, <1>7, <3>1, <3>3, <4>2 DEF Reflects
    <3> QED
      BY <3>2, <3>3
  <2> QED
    BY <1>2, <2>1 DEF PassedCovered, CoveredUpTo
<1>10. PageFresh'
  <2>1. ASSUME NEW j \in page'
        PROVE  /\ j \in page /\ rows'[cal][j.event] = rows[cal][j.event]
               /\ Current(j)' <=> Current(j)
    <3>1. j \in page /\ j.event # i.event
      BY <1>1, <1>3 DEF CalInv, OneItemEach
    <3>2. j.event \in Event
      BY <3>1 DEF CalInv, TypeInv, CalTypeOK, Item
    <3> QED
      BY <1>2, <1>7, <3>1, <3>2 DEF Current, ItemOf
  <2> QED
    BY <1>2, <2>1 DEF CalInv, PageFresh
<1>11. OneItemEach' /\ FullHasNoErrors'
  BY <1>1, <1>2 DEF CalInv, OneItemEach, FullHasNoErrors
<1> QED
  BY <1>6, <1>8, <1>9, <1>10, <1>11

\* Nothing is on the page and no listing is under way.
Rest == page' = {} /\ pc' \in {"idle", "next"} /\ token' = NoToken /\ errors' = FALSE

LEMMA RestKeeps ==
  ASSUME CalInv, Rest, UNCHANGED clock
  PROVE  /\ TokenBehindClock' /\ PassedCovered' /\ PageFresh' /\ OneItemEach'
         /\ FullHasNoErrors'
<1>1. \A c \in Calendar : clock[c] \in Nat
  BY CalendarAssumption DEF CalInv, TypeInv, CalTypeOK, Time
<1>2. TokenBehindClock'
  BY <1>1 DEF Rest, TokenBehindClock, NoToken
<1>3. Passed' = {}
  BY DEF Rest, Passed
<1>4. PassedCovered'
  BY <1>3 DEF PassedCovered, CoveredUpTo
<1>5. PageFresh' /\ OneItemEach' /\ FullHasNoErrors'
  BY DEF Rest, PageFresh, OneItemEach, FullHasNoErrors
<1> QED
  BY <1>2, <1>4, <1>5

\* An event fails: a full listing ends, an incremental one remembers the error.
LEMMA EventFailsKeeps ==
  ASSUME CalInv, EventFails
  PROVE  /\ ClockLeads' /\ TokenBehindClock' /\ UnseenHasNoRow' /\ ContentBehind'
         /\ NothingMissedBehindCursor' /\ CheckpointCovered' /\ PassedCovered'
         /\ PageFresh' /\ OneItemEach' /\ FullHasNoErrors'
<1>1. PICK i \in FirstOnPage :
        /\ StoredInPart(i)
        /\ IF kind = "full"
           THEN FailSync(cal) /\ Leave
           ELSE /\ errors' = TRUE /\ page' = page \ {i}
                /\ UNCHANGED <<run, pc, cal, kind, token, next>>
  BY DEF EventFails
<1>2. PICK row \in PartlyPersisted(rows[cal][i.event], i) : StoreRow(i, row)
  BY <1>1 DEF StoredInPart
<1>3. i \in page
  BY DEF FirstOnPage
<1>4. UNCHANGED <<server, cursor>> /\ opts' = opts
  BY DEF EventFails
<1>5. cal \in Calendar /\ CalTypeOK
  BY <1>3, PageInItems DEF CalInv, TypeInv
<1>6. RunsOnlyEnd
  <2>1. CASE UNCHANGED run
    BY <2>1 DEF RunsOnlyEnd
  <2>2. CASE FailSync(cal)
    BY <1>5, <2>2, FailSyncEnds
  <2> QED
    BY <1>1, <2>1, <2>2
<1>7. /\ ClockLeads' /\ UnseenHasNoRow' /\ ContentBehind'
      /\ NothingMissedBehindCursor' /\ CheckpointCovered'
  BY <1>2, <1>3, <1>4, <1>6, StoreKeeps
<1>8. CASE kind = "full"
  <2>1. Rest
    BY <1>1, <1>8 DEF Leave, Rest
  <2> QED
    BY <1>4, <1>7, <2>1, RestKeeps DEF server
<1>9. CASE kind # "full"
  <2>1. /\ errors' = TRUE /\ page' = page \ {i}
        /\ UNCHANGED <<clock, changed, status, run, pc, cal, kind, token, next, cursor>>
    BY <1>1, <1>4, <1>9 DEF server
  <2>2. PassedCovered' /\ TokenBehindClock'
    BY <2>1 DEF PassedCovered, CalInv, TokenBehindClock
  <2>3. FullHasNoErrors'
    BY <1>5, <1>9, <2>1 DEF FullHasNoErrors, CalTypeOK
  <2>4. OneItemEach'
    BY <2>1 DEF CalInv, OneItemEach
  <2>5. \A c \in Calendar, e \in Event :
          (c # cal \/ e # i.event) => rows'[c][e] = rows[c][e]
    BY <1>2, <1>3, <1>4, StoreKeepsRows
  <2>6. PageFresh'
    <3>1. ASSUME NEW j \in page'
          PROVE  /\ j \in page /\ rows'[cal][j.event] = rows[cal][j.event]
                 /\ Current(j)' <=> Current(j)
      <4>1. j \in page /\ j.event # i.event
        BY <1>3, <2>1 DEF CalInv, OneItemEach
      <4>2. j.event \in Event
        BY <4>1 DEF CalInv, TypeInv, CalTypeOK, Item
      <4> QED
        BY <1>5, <2>1, <2>5, <4>1, <4>2 DEF Current, ItemOf
    <3> QED
      BY <2>1, <3>1 DEF CalInv, PageFresh
  <2> QED
    BY <1>7, <2>2, <2>3, <2>4, <2>6
<1> QED
  BY <1>8, <1>9

LEMMA KillKeeps ==
  ASSUME CalInv, Kill
  PROVE  /\ ClockLeads' /\ TokenBehindClock' /\ UnseenHasNoRow' /\ ContentBehind'
         /\ NothingMissedBehindCursor' /\ CheckpointCovered' /\ PassedCovered'
         /\ PageFresh' /\ OneItemEach' /\ FullHasNoErrors'
<1>1. UNCHANGED <<server, cursor, run>> /\ clock' = clock
  BY DEF Kill, server
<1>2. Rest
  BY DEF Kill, Rest
<1>3. RunsOnlyEnd
  BY <1>1 DEF RunsOnlyEnd
<1>4. /\ ClockLeads' /\ UnseenHasNoRow' /\ ContentBehind'
      /\ NothingMissedBehindCursor' /\ CheckpointCovered'
  <2>1. CASE UNCHANGED rows
    <3>1. \A c \in Calendar, e \in Event : Reflects(c, e)' <=> Reflects(c, e)
      BY <1>1, <2>1 DEF Reflects, server
    <3> QED
      BY <1>1, <2>1, <3>1 DEF CalInv, server, ClockLeads, UnseenHasNoRow, ContentBehind,
         NothingMissedBehindCursor, CheckpointCovered, CoveredUpTo
  <2>2. ASSUME NEW i \in FirstOnPage, StoredInPart(i)
        PROVE  /\ ClockLeads' /\ UnseenHasNoRow' /\ ContentBehind'
               /\ NothingMissedBehindCursor' /\ CheckpointCovered'
    <3>1. PICK row \in PartlyPersisted(rows[cal][i.event], i) : StoreRow(i, row)
      BY <2>2 DEF StoredInPart
    <3>2. i \in page
      BY DEF FirstOnPage
    <3> QED
      BY <1>1, <1>3, <3>1, <3>2, StoreKeeps
  <2> QED
    BY <2>1, <2>2 DEF Kill
<1> QED
  BY <1>1, <1>2, <1>4, RestKeeps

\* Steps that write nothing an invariant speaks of.
LEMMA IdleStepKeeps ==
  ASSUME CalInv, page' = page, token' = token, next' = next, errors' = errors, cal' = cal,
         kind' = kind, UNCHANGED <<server, rows>>, RunsOnlyEnd,
         \A c \in Calendar : cursor'[c] = cursor[c] \/ cursor'[c] = NoCursor,
         \/ pc' = pc /\ opts' = opts
         \/ page = {} /\ pc' \in {"idle", "next", "gone", "resync"}
  PROVE  /\ ClockLeads' /\ TokenBehindClock' /\ UnseenHasNoRow' /\ ContentBehind'
         /\ NothingMissedBehindCursor' /\ CheckpointCovered' /\ PassedCovered'
         /\ PageFresh' /\ OneItemEach' /\ FullHasNoErrors'
<1>1. \A c \in Calendar, e \in Event : Reflects(c, e)' <=> Reflects(c, e)
  BY DEF Reflects, server
<1>2. \A c \in Calendar : clock[c] \in Nat /\ cursor[c] \in Int /\ NoCursor <= cursor[c]
  BY CalendarAssumption DEF CalInv, TypeInv, CalTypeOK, Time, NoCursor
<1>3. ClockLeads'
  <2>1. ASSUME NEW c \in Calendar PROVE cursor'[c] <= clock[c]
    BY <1>2 DEF CalInv, ClockLeads, NoCursor
  <2> QED
    BY <2>1 DEF CalInv, ClockLeads, server, RunsOnlyEnd
<1>4. TokenBehindClock' /\ UnseenHasNoRow' /\ ContentBehind'
  BY DEF CalInv, TokenBehindClock, UnseenHasNoRow, ContentBehind, server
<1>5. NothingMissedBehindCursor'
  BY <1>1 DEF CalInv, NothingMissedBehindCursor, server
<1>6. CheckpointCovered'
  BY <1>1 DEF CalInv, CheckpointCovered, CoveredUpTo, RunsOnlyEnd, server
<1>7. PassedCovered'
  <2>1. CASE pc' = pc /\ opts' = opts
    <3>1. Passed' = Passed
      BY <2>1 DEF Passed
    <3>2. \A e : Reflects(cal, e)' <=> Reflects(cal, e)
      BY DEF Reflects, server
    <3> QED
      BY <2>1, <3>1, <3>2 DEF CalInv, PassedCovered, CoveredUpTo, server
  <2>2. CASE pc' \in {"idle", "next", "gone", "resync"}
    <3>1. Passed' = {}
      BY <2>2 DEF Passed
    <3> QED
      BY <3>1 DEF PassedCovered, CoveredUpTo
  <2> QED
    BY <2>1, <2>2
<1>8. PageFresh'
  <2>1. ASSUME NEW i \in page PROVE Current(i)' <=> Current(i)
    BY DEF Current, ItemOf, server
  <2>2. ASSUME NEW i \in page
        PROVE  /\ cal \in Calendar /\ changed[cal][i.event] \in Int
    <3>1. cal \in Calendar /\ i.event \in Event
      BY PageInItems DEF CalInv, TypeInv, CalTypeOK, Item
    <3> QED
      BY <3>1, CalendarAssumption DEF CalInv, TypeInv, CalTypeOK, Time
  <2>3. ASSUME NEW i \in page, changed[cal][i.event] > cursor[cal]
        PROVE  changed[cal][i.event] > cursor'[cal]
    BY <1>2, <2>2, <2>3 DEF NoCursor
  <2> QED
    BY <2>1, <2>2, <2>3 DEF CalInv, PageFresh, RunsOnlyEnd, server
<1>9. OneItemEach' /\ FullHasNoErrors'
  BY DEF CalInv, OneItemEach, FullHasNoErrors
<1> QED
  BY <1>3, <1>4, <1>5, <1>6, <1>7, <1>8, <1>9

-----------------------------------------------------------------------------
(* The invariant and what follows from it.                                 *)

LEMMA InvInit == CalInit => CalInv
<1> SUFFICES ASSUME CalInit PROVE CalInv
  OBVIOUS
<1>1. TypeInv
  BY TypeInit
<1>2. /\ \A c \in Calendar, e \in Event :
           /\ changed[c][e] = 0 /\ status[c][e] = "none" /\ rows[c][e] = Unseen
           /\ clock[c] = 0 /\ cursor[c] = -1 /\ run[c] = NoRun
      /\ \A c \in Calendar : clock[c] = 0 /\ cursor[c] = -1 /\ run[c] = NoRun
      /\ page = {} /\ token = NoToken /\ pc = "idle" /\ errors = FALSE
  BY DEF CalInit, NoCursor
<1>3. /\ NoRun.token.start = -1 /\ NoRun.status = "none" /\ NoToken.start = -1
      /\ Unseen.status = "none" /\ Unseen.content = 0
  BY DEF NoRun, NoToken, Unseen
<1>4. ClockLeads /\ TokenBehindClock
  BY <1>2, <1>3 DEF ClockLeads, TokenBehindClock
<1>5. UnseenHasNoRow /\ ContentBehind
  BY <1>2, <1>3 DEF UnseenHasNoRow, ContentBehind
<1>6. NothingMissedBehindCursor /\ CheckpointCovered
  BY <1>2, <1>3 DEF NothingMissedBehindCursor, CheckpointCovered, NoCursor
<1>7. Passed = {}
  BY <1>2 DEF Passed
<1>8. PassedCovered /\ PageFresh /\ OneItemEach /\ FullHasNoErrors
  BY <1>2, <1>7 DEF PassedCovered, CoveredUpTo, PageFresh, OneItemEach, FullHasNoErrors
<1> QED
  BY <1>1, <1>4, <1>5, <1>6, <1>8 DEF CalInv

LEMMA InvStep ==
  ASSUME CalInv, [CalNext]_vars
  PROVE  CalInv'
<1>1. TypeInv'
  BY TypeStep, HelperStep DEF CalInv, TypeInv
<1>2. CalTypeOK
  BY DEF CalInv, TypeInv
<1> DEFINE Kept ==
      /\ ClockLeads' /\ TokenBehindClock' /\ UnseenHasNoRow' /\ ContentBehind'
      /\ NothingMissedBehindCursor' /\ CheckpointCovered' /\ PassedCovered'
      /\ PageFresh' /\ OneItemEach' /\ FullHasNoErrors'
<1> SUFFICES Kept
  BY <1>1 DEF CalInv
<1>3. UNCHANGED run => RunsOnlyEnd
  BY DEF RunsOnlyEnd
<1>4. pc \in {"idle", "next", "list", "complete", "finish", "gone", "resync"} => page = {}
  BY DEF CalInv, TypeInv, PageOfItems
<1>5. CASE UNCHANGED vars
  BY <1>3, <1>5, IdleStepKeeps DEF vars, server
<1>6. ASSUME NEW c \in Calendar, EventChanges(c) PROVE Kept
  BY <1>6, EventChangesKeeps
<1>7. ASSUME NEW c \in Calendar, TokenExpires(c) PROVE Kept
  BY <1>3, <1>7, IdleStepKeeps DEF TokenExpires, server, listing
<1>8. CASE ScheduledSync
  BY <1>3, <1>4, <1>8, IdleStepKeeps DEF ScheduledSync, Begin, server, store, listing
<1>9. CASE ManualSync
  BY <1>3, <1>4, <1>9, IdleStepKeeps DEF ManualSync, Begin, server, store, listing
<1>10. CASE NextCalendar
  <2>1. PICK c \in Calendar, k \in {"full", "incremental"} : BeginListing(c, k)
    BY <1>2, <1>10 DEF NextCalendar, CalTypeOK
  <2>2. UNCHANGED <<server, cursor, rows, opts>>
    BY <1>10 DEF NextCalendar
  <2> QED
    BY <2>1, <2>2, BeginListingKeeps
<1>11. CASE CalendarSkipped
  BY <1>3, <1>11, LeaveKeeps DEF CalendarSkipped, store
<1>12. CASE PassEnds
  BY <1>3, <1>4, <1>12, IdleStepKeeps DEF PassEnds, server, store, listing
<1>13. CASE ListEvents
  BY <1>13, ListEventsKeeps
<1>14. CASE ListCancelled
  <2>1. Leave /\ UNCHANGED <<server, cursor, rows>> /\ (UNCHANGED run \/ FailSync(cal))
        /\ cal \in Calendar
    BY <1>2, <1>14 DEF ListCancelled, CalTypeOK
  <2> QED
    BY <1>2, <1>3, <2>1, FailSyncEnds, LeaveKeeps
<1>15. CASE ListFails \/ WriteFails \/ FailForErrors
  <2>1. Leave /\ UNCHANGED <<server, cursor, rows>> /\ FailSync(cal) /\ cal \in Calendar
    BY <1>2, <1>15 DEF ListFails, Calls, WriteFails, FailForErrors, CalTypeOK
  <2> QED
    BY <1>2, <2>1, FailSyncEnds, LeaveKeeps
<1>16. CASE EventStored
  BY <1>16, EventStoredKeeps
<1>17. CASE EventFails
  BY <1>17, EventFailsKeeps
<1>18. CASE PageDone
  BY <1>18, PageDoneKeeps
<1>19. CASE AdvanceCursor
  BY <1>19, AdvanceCursorKeeps
<1>20. CASE CompleteSync
  <2>1. Leave /\ UNCHANGED <<server, cursor, rows>> /\ cal \in Calendar
        /\ run' = [run EXCEPT ![cal].status = "completed"]
    BY <1>2, <1>20 DEF CompleteSync, CalTypeOK
  <2> QED
    BY <1>2, <2>1, CompleteSyncEnds, LeaveKeeps
<1>21. CASE TokenRejected
  <2>1. /\ UNCHANGED <<server, rows, cursor>> /\ FailSync(cal) /\ cal \in Calendar /\ pc = "list"
        /\ page' = page /\ token' = token /\ next' = next /\ errors' = errors
        /\ cal' = cal /\ kind' = kind /\ pc' = "gone"
    BY <1>2, <1>21 DEF TokenRejected, Calls, CalTypeOK, listing
  <2> QED
    BY <1>2, <1>4, <2>1, FailSyncEnds, IdleStepKeeps
<1>22. CASE ClearCursor
  <2>1. \A c \in Calendar : cursor'[c] = cursor[c] \/ cursor'[c] = NoCursor
    BY <1>2, <1>22 DEF ClearCursor, CalTypeOK
  <2> QED
    BY <1>3, <1>4, <1>22, <2>1, IdleStepKeeps DEF ClearCursor, server, listing
<1>23. CASE Resync
  BY <1>2, <1>23, BeginListingKeeps DEF Resync, CalTypeOK
<1>24. CASE Cancel
  BY <1>3, <1>24, IdleStepKeeps DEF Cancel, server, store, listing
<1>25. CASE Kill
  BY <1>25, KillKeeps
<1> QED
  BY <1>5, <1>6, <1>7, <1>8, <1>9, <1>10, <1>11, <1>12, <1>13, <1>14, <1>15, <1>16,
     <1>17, <1>18, <1>19, <1>20, <1>21, <1>22, <1>23, <1>24, <1>25 DEF CalNext, PassStep

\* For any calendars, pages and changes: the stored sync token lies behind no
\* change the archive has missed, however passes fail, resume and are killed.
THEOREM NothingIsMissed == CalSpec => []NothingMissedBehindCursor
<1>1. CalInv => NothingMissedBehindCursor
  BY DEF CalInv
<1> QED
  BY InvInit, InvStep, <1>1, PTL DEF CalSpec

LEMMA ContentKeptByStep ==
  ASSUME CalInv, [CalNext]_vars
  PROVE  \A c \in Calendar, e \in Event : rows'[c][e].content >= rows[c][e].content
<1>1. \A c \in Calendar, e \in Event : rows[c][e].content \in Nat
  BY CalendarAssumption DEF CalInv, TypeInv, CalTypeOK, Time
<1>2. CASE UNCHANGED rows
  BY <1>1, <1>2
<1>3. CASE EventStored
  <2>1. PICK i \in FirstOnPage : StoreRow(i, PersistOne(rows[cal][i.event], i))
    BY <1>3 DEF EventStored
  <2>2. i \in page /\ UNCHANGED <<server, cursor>> /\ RunsOnlyEnd
    BY <1>3 DEF EventStored, FirstOnPage, RunsOnlyEnd
  <2> QED
    BY <2>1, <2>2, StoreKeeps
<1>4. ASSUME NEW i \in page, StoredInPart(i), UNCHANGED server
      PROVE  \A c \in Calendar, e \in Event : rows'[c][e].content >= rows[c][e].content
  <2>1. PICK row \in PartlyPersisted(rows[cal][i.event], i) : StoreRow(i, row)
    BY <1>4 DEF StoredInPart
  <2>2. /\ \A c \in Calendar, e \in Event :
             (c # cal \/ e # i.event) => rows'[c][e] = rows[c][e]
        /\ rows'[cal][i.event] = row /\ row.content >= rows[cal][i.event].content
    BY <1>4, <2>1, StoreKeepsRows
  <2> QED
    BY <1>1, <2>2
<1>5. CASE EventFails \/ Kill
  <2>1. UNCHANGED rows \/ \E i \in page : StoredInPart(i)
    BY <1>5 DEF EventFails, Kill, FirstOnPage
  <2>2. UNCHANGED server
    BY <1>5 DEF EventFails, Kill
  <2> QED
    BY <1>2, <1>4, <2>1, <2>2
<1> QED
  BY <1>2, <1>3, <1>5 DEF CalNext, PassStep, vars, store, EventChanges, TokenExpires,
     ScheduledSync, ManualSync, Begin, NextCalendar, CalendarSkipped, PassEnds,
     ListEvents, ListCancelled, ListFails, PageDone, WriteFails, AdvanceCursor,
     FailForErrors, CompleteSync, TokenRejected, ClearCursor, Resync, Cancel

\* For any calendars, pages and changes: no step wipes the stored content of an
\* event or puts an older version in its place.
THEOREM ContentIsKept == CalSpec => ContentKept
<1>1. CalInv /\ [CalNext]_vars =>
        [\A c \in Calendar, e \in Event :
           rows'[c][e].content >= rows[c][e].content]_vars
  BY ContentKeptByStep
<1> QED
  BY InvInit, InvStep, <1>1, PTL DEF CalSpec, ContentKept

-----------------------------------------------------------------------------
(* The stored token does not go back.                                      *)

\* A listing or a checkpoint that could still set the token is not behind it,
\* and the checkpoint of the listing under way is of that listing.
AheadOf(c, t) == t.start = -1 \/ cursor[c] <= t.start
TokensAhead ==
  /\ \A c \in Calendar :
       run[c].status = "running" /\ run[c].kind = "full" => AheadOf(c, run[c].token)
  /\ cal \in Calendar =>
       /\ AheadOf(cal, token)
       /\ run[cal].status = "running" /\ run[cal].kind = "full" =>
            run[cal].token.start \in {-1, token.start}

LEMMA AheadOnceEnded ==
  ASSUME CalTypeOK, TokensAhead, RunsOnlyEnd,
         \A c \in Calendar : cursor'[c] = cursor[c] \/ cursor'[c] = NoCursor,
         cal' \notin Calendar \/ (cal' = cal /\ token' = token)
  PROVE  TokensAhead'
<1>1. token \in Token /\ \A c \in Calendar : run[c].token \in Token
  BY DEF CalTypeOK
<1>2. ASSUME NEW c \in Calendar, run'[c].status = "running", run'[c].kind = "full"
      PROVE  AheadOf(c, run[c].token)'
  <2>1. run[c].status = "running" /\ run[c].kind = "full" /\ run'[c].token = run[c].token
    BY <1>2 DEF RunsOnlyEnd
  <2>2. AheadOf(c, run[c].token)
    BY <2>1 DEF TokensAhead
  <2>3. cursor'[c] = cursor[c] \/ cursor'[c] = NoCursor
    OBVIOUS
  <2> QED
    BY <1>1, <2>1, <2>2, <2>3 DEF AheadOf, CalTypeOK, Token, Time, NoCursor
<1>3. ASSUME cal' \in Calendar
      PROVE  /\ AheadOf(cal, token)'
             /\ run'[cal'].status = "running" /\ run'[cal'].kind = "full" =>
                  run'[cal'].token.start \in {-1, token'.start}
  <2>1. cal' = cal /\ token' = token /\ cal \in Calendar
    BY <1>3
  <2>2. AheadOf(cal, token)
    BY <2>1 DEF TokensAhead
  <2>3. AheadOf(cal, token)'
    <3>1. token.start \in Int /\ -1 <= token.start
      BY <1>1 DEF Token, Time
    <3>2. cursor'[cal] = cursor[cal] \/ cursor'[cal] = -1
      BY <2>1 DEF NoCursor
    <3> QED
      BY <2>1, <2>2, <3>1, <3>2 DEF AheadOf
  <2>4. ASSUME run'[cal].status = "running", run'[cal].kind = "full"
        PROVE  run'[cal].token.start \in {-1, token.start}
    BY <2>1, <2>4 DEF TokensAhead, RunsOnlyEnd
  <2> QED
    BY <2>1, <2>3, <2>4
<1> QED
  BY <1>2, <1>3 DEF TokensAhead, AheadOf

LEMMA AheadOnceBegun ==
  ASSUME CalInv, TokensAhead, NEW c \in Calendar, NEW k, BeginListing(c, k), UNCHANGED cursor
  PROVE  TokensAhead'
<1>1. /\ cal' = c /\ cursor' = cursor /\ token' \in {NoToken, ResumeToken(c)}
      /\ run' = [run EXCEPT ![c] = [NoRun EXCEPT !.status = "running"]]
  BY DEF BeginListing, StartSync
<1>2. run'[c].kind = "none" /\ \A d \in Calendar \ {c} : run'[d] = run[d]
  BY <1>1 DEF NoRun, CalInv, TypeInv, CalTypeOK
<1>3. token'.start = -1 \/ cursor[c] <= token'.start
  BY <1>1 DEF ResumeToken, NoToken, TokensAhead, AheadOf
<1> QED
  BY <1>1, <1>2, <1>3 DEF TokensAhead, AheadOf

LEMMA TokensAheadStep ==
  ASSUME CalInv, TokensAhead, [CalNext]_vars
  PROVE  TokensAhead' /\ \A c \in Calendar : cursor'[c] = NoCursor \/ cursor'[c] >= cursor[c]
<1> DEFINE Holds ==
      TokensAhead' /\ \A c \in Calendar : cursor'[c] = NoCursor \/ cursor'[c] >= cursor[c]
<1>1. CalTypeOK /\ \A c \in Calendar : cursor[c] \in Int /\ cursor[c] <= clock[c]
  BY DEF CalInv, TypeInv, CalTypeOK, Time, NoCursor, ClockLeads
<1>2. ASSUME RunsOnlyEnd,
             \A c \in Calendar : cursor'[c] = cursor[c] \/ cursor'[c] = NoCursor,
             cal' \notin Calendar \/ (cal' = cal /\ token' = token)
      PROVE  Holds
  BY <1>1, <1>2, AheadOnceEnded
<1>3. UNCHANGED run => RunsOnlyEnd
  BY DEF RunsOnlyEnd
<1>4. Leave \/ cal' = NoCalendar => cal' \notin Calendar
  BY CalendarAssumption DEF Leave
<1>5. CASE UNCHANGED <<cursor, run, cal, token>>
  BY <1>2, <1>3, <1>5
<1>6. ASSUME NEW c \in Calendar, EventChanges(c) \/ TokenExpires(c) PROVE Holds
  BY <1>5, <1>6 DEF EventChanges, TokenExpires, store, listing
<1>7. CASE ScheduledSync \/ ManualSync \/ PassEnds \/ Cancel \/ EventStored
  BY <1>5, <1>7 DEF ScheduledSync, ManualSync, Begin, PassEnds, Cancel, EventStored,
     store, listing
<1>8. CASE CalendarSkipped \/ Kill
  BY <1>2, <1>3, <1>4, <1>8 DEF CalendarSkipped, Kill, store
<1>9. CASE NextCalendar \/ Resync
  <2>1. PICK c \in Calendar, k \in {"full", "incremental"} : BeginListing(c, k)
    BY <1>1, <1>9 DEF NextCalendar, Resync, CalTypeOK
  <2>2. UNCHANGED cursor
    BY <1>9 DEF NextCalendar, Resync
  <2>3. TokensAhead'
    BY <2>1, <2>2, AheadOnceBegun
  <2> QED
    BY <1>1, <2>2, <2>3
<1>10. CASE ListCancelled \/ ListFails \/ WriteFails \/ FailForErrors
  <2>1. Leave /\ UNCHANGED cursor /\ (UNCHANGED run \/ FailSync(cal)) /\ cal \in Calendar
    BY <1>1, <1>10 DEF ListCancelled, ListFails, Calls, WriteFails, FailForErrors, CalTypeOK
  <2> QED
    BY <1>1, <1>2, <1>3, <1>4, <2>1, FailSyncEnds
<1>11. CASE CompleteSync
  <2>1. Leave /\ UNCHANGED cursor /\ cal \in Calendar
        /\ run' = [run EXCEPT ![cal].status = "completed"]
    BY <1>1, <1>11 DEF CompleteSync, CalTypeOK
  <2> QED
    BY <1>1, <1>2, <1>4, <2>1, CompleteSyncEnds
<1>12. CASE EventFails
  <2>1. /\ UNCHANGED cursor /\ cal \in Calendar
        /\ \/ FailSync(cal) /\ Leave
           \/ UNCHANGED <<run, cal, token>>
    BY <1>1, <1>12 DEF EventFails, CalTypeOK
  <2> QED
    BY <1>1, <1>2, <1>3, <1>4, <2>1, FailSyncEnds
<1>13. CASE TokenRejected
  <2>1. UNCHANGED <<cursor, cal, token>> /\ FailSync(cal) /\ cal \in Calendar
    BY <1>1, <1>13 DEF TokenRejected, Calls, CalTypeOK, listing
  <2> QED
    BY <1>1, <1>2, <2>1, FailSyncEnds
<1>14. CASE ClearCursor
  <2>1. UNCHANGED <<run, cal, token>>
        /\ \A c \in Calendar : cursor'[c] = cursor[c] \/ cursor'[c] = NoCursor
    BY <1>1, <1>14 DEF ClearCursor, CalTypeOK, listing
  <2> QED
    BY <1>2, <1>3, <2>1
<1>15. CASE ListEvents
  <2>1. cal \in Calendar /\ UNCHANGED <<cursor, run, cal>>
        /\ token' = [token EXCEPT !.start = Start] /\ token \in Token
    BY <1>1, <1>15 DEF ListEvents, Calls, CalTypeOK, store
  <2>2. token'.start = Start
    BY <2>1 DEF Token
  <2>3. token = NoToken => token.start = -1
    BY DEF NoToken
  <2>4. AheadOf(cal, token) /\ cursor[cal] <= clock[cal]
    BY <1>1, <2>1 DEF TokensAhead
  <2>5. token'.start = -1 \/ cursor[cal] <= token'.start
    BY <2>2, <2>4 DEF Start, AheadOf
  <2>6. run[cal].status = "running" /\ run[cal].kind = "full" =>
          run[cal].token.start \in {-1, token'.start}
    BY <2>1, <2>2, <2>3 DEF TokensAhead, Start
  <2>7. TokensAhead'
    BY <2>1, <2>5, <2>6 DEF TokensAhead, AheadOf
  <2> QED
    BY <1>1, <2>1, <2>7
<1>16. CASE PageDone
  <2>1. cal \in Calendar /\ UNCHANGED <<cursor, cal>> /\ UpdateSyncCheckpoint
        /\ ((token' = NextToken /\ next # 0) \/ token' = token)
    BY <1>1, <1>16 DEF PageDone, CalTypeOK
  <2>2. NextToken.start \in {-1, token.start} /\ token'.start = token.start
    BY <1>1, <2>1 DEF NextToken, NoToken, CalTypeOK, Token
  <2>3. AheadOf(cal, token)
    BY <2>1 DEF TokensAhead
  <2>4. ASSUME UNCHANGED run PROVE TokensAhead'
    BY <2>1, <2>2, <2>4 DEF TokensAhead, AheadOf
  <2>5. ASSUME run' = [run EXCEPT ![cal].token = NextToken,
                                  ![cal].kind = IF kind = "full" THEN "full" ELSE "raw"]
        PROVE  TokensAhead'
    <3>1. run'[cal].token = NextToken /\ \A d \in Calendar \ {cal} : run'[d] = run[d]
      BY <1>1, <2>1, <2>5, ZenonT(60) DEF CalTypeOK
    <3> QED
      BY <2>1, <2>2, <2>3, <3>1 DEF TokensAhead, AheadOf
  <2>6. TokensAhead'
    BY <2>1, <2>4, <2>5 DEF UpdateSyncCheckpoint
  <2> QED
    BY <1>1, <2>1, <2>6
<1>17. CASE AdvanceCursor
  <2>1. cal \in Calendar /\ UNCHANGED <<run, cal, token>>
        /\ (UNCHANGED cursor \/ cursor' = [cursor EXCEPT ![cal] = token.start])
    BY <1>1, <1>17 DEF AdvanceCursor, CalTypeOK, listing
  <2>2. CASE UNCHANGED cursor
    BY <1>5, <2>1, <2>2
  <2>3. CASE cursor' = [cursor EXCEPT ![cal] = token.start]
    <3>1. cursor'[cal] = token.start /\ \A d \in Calendar \ {cal} : cursor'[d] = cursor[d]
      BY <1>1, <2>1, <2>3 DEF CalTypeOK
    <3>2. token.start \in Int
      BY <1>1 DEF CalTypeOK, Token, Time
    <3>3. cursor'[cal] = NoCursor \/ cursor'[cal] >= cursor[cal]
      BY <1>1, <2>1, <3>1, <3>2 DEF TokensAhead, AheadOf, NoCursor
    <3>4. TokensAhead'
      BY <2>1, <3>1, <3>2 DEF TokensAhead, AheadOf
    <3> QED
      BY <1>1, <3>1, <3>3, <3>4
  <2> QED
    BY <2>1, <2>2, <2>3
<1> QED
  BY <1>5, <1>6, <1>7, <1>8, <1>9, <1>10, <1>11, <1>12, <1>13, <1>14, <1>15, <1>16, <1>17
     DEF CalNext, PassStep, vars, store, listing

LEMMA TokensAheadInit == CalInit => TokensAhead
BY CalendarAssumption DEF CalInit, TokensAhead, NoRun

\* The stored sync token of a calendar never goes back to an older one: it is
\* kept, renewed, or cleared when the server has rejected it, although a full
\* listing may resume with the start of an earlier pass.
THEOREM TokenNeverGoesBack ==
  CalSpec => [][\A c \in Calendar : cursor'[c] = NoCursor \/ cursor'[c] >= cursor[c]]_cursor
<1>1. CalInv /\ TokensAhead /\ [CalNext]_vars => TokensAhead'
  BY TokensAheadStep
<1>2. CalInv /\ TokensAhead /\ [CalNext]_vars =>
        [\A c \in Calendar : cursor'[c] = NoCursor \/ cursor'[c] >= cursor[c]]_cursor
  BY TokensAheadStep
<1> QED
  BY InvInit, InvStep, TokensAheadInit, <1>1, <1>2, PTL DEF CalSpec

=============================================================================
