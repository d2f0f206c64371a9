-------------------------- MODULE GmailSync_proofs --------------------------
(***************************************************************************)
(* Proofs about GmailSync, for histories, pages and numbers of faults of   *)
(* any size: the type invariant, that no message is lost behind the cursor *)
(* by full syncs that start afresh, and that what the archive has not yet  *)
(* taken from the mailbox lies ahead of the cursor.                        *)
(***************************************************************************)
EXTENDS GmailSync, FiniteSetTheorems, SequenceTheorems, NaturalsInduction, TLAPS

Stage == {"idle", "fallback", "fullProfile", "fullList", "fullFetch",
          "fullCheckpoint", "fullCursor", "fullComplete", "incProfile",
          "incList", "incLabels", "incFetch", "incMark", "incCheckpoint",
          "incCursor", "incComplete"}
HistoryOp == {"added", "deleted", "labelled", "unlabelled"}

TypeInv == SyncTypeOK /\ Len(hist) <= MaxHistory

\* What is archived has arrived, what is marked is gone.
ArchiveTrue == archived \subseteq Arrived /\ marked \subseteq Gone

\* Smallest and largest elements of sets of numbers.
LEMMA SmallestOf ==
  ASSUME NEW R, IsWellFoundedOn(R, Nat),
         \A x, y \in Nat : y < x => <<y, x>> \in R,
         NEW S \in SUBSET Nat, S # {}
  PROVE  \E x \in S : \A y \in S : x <= y
<1>1. PICK x \in S : \A y \in S : ~(<<y, x>> \in R)
  BY WFMin
<1>2. ASSUME NEW y \in S PROVE x <= y
  <2>1. x \in Nat /\ y \in Nat /\ ~(y < x)
    BY <1>1
  <2> QED
    BY <2>1
<1> QED
  BY <1>2

LEMMA Smallest ==
  ASSUME NEW S \in SUBSET Nat, S # {}
  PROVE  \E x \in S : \A y \in S : x <= y
<1>1. IsWellFoundedOn(OpToRel(<, Nat), Nat)
  BY NatLessThanWellFounded, Zenon
<1>2. \A x, y \in Nat : y < x => <<y, x>> \in OpToRel(<, Nat)
  BY Zenon DEF OpToRel
<1> QED
  BY <1>1, <1>2, SmallestOf, Zenon

LEMMA Largest ==
  ASSUME NEW N \in Nat, NEW S \in SUBSET (0..N), S # {}
  PROVE  \E x \in S : \A y \in S : y <= x
<1> DEFINE T == {N - x : x \in S}
<1>1. T \in SUBSET Nat
  BY SMT
<1>2. T # {}
  OBVIOUS
<1>3. PICK t \in T : \A y \in T : t <= y
  BY <1>1, <1>2, Smallest
<1>4. PICK x \in S : t = N - x
  BY <1>3
<1>5. \A y \in S : y <= x
  BY <1>3, <1>4
<1> QED
  BY <1>5

-----------------------------------------------------------------------------
(* The mailbox.                                                            *)

\* Every arrival has a record of its own.
LEMMA ArrivalsCounted ==
  ASSUME TypeInv
  PROVE  IsFiniteSet(Arrived) /\ Cardinality(Arrived) \in 0..Len(hist)
<1> DEFINE n == Len(hist)
           f == [m \in Arrived |-> CHOOSE i \in 1..n : hist[i] = Record("added", m)]
<1>1. n \in Nat /\ DOMAIN hist = 1..n
  BY LenProperties DEF TypeInv, SyncTypeOK
<1>2. ASSUME NEW m \in Arrived
      PROVE  f[m] \in 1..n /\ hist[f[m]] = Record("added", m)
  BY <1>1 DEF Arrived, Has
<1>3. f \in Injection(Arrived, 1..n)
  <2>1. f \in [Arrived -> 1..n]
    BY <1>2
  <2>2. ASSUME NEW a \in Arrived, NEW b \in Arrived, f[a] = f[b] PROVE a = b
    BY <1>2, <2>2 DEF Record
  <2> HIDE DEF f
  <2> QED
    BY <2>1, <2>2 DEF Injection, IsInjective
<1> HIDE DEF n, f
<1>4. IsFiniteSet(1..n) /\ Cardinality(1..n) = n
  <2>1. 1 \in Int /\ n \in Int
    BY <1>1
  <2> QED
    BY <1>1, <2>1, FS_Interval
<1>5. IsFiniteSet(Arrived) /\ Cardinality(Arrived) <= n
  BY <1>3, <1>4, FS_Injection
<1>6. Cardinality(Arrived) \in Nat
  BY <1>5, FS_CardinalityType
<1> QED
  BY <1>1, <1>5, <1>6 DEF n

\* The history grows by one record, about a message that has arrived unless
\* the record says that it arrives.
LEMMA HistoryGrows ==
  ASSUME TypeInv, MailboxChanges
  PROVE  /\ Len(hist) \in Nat /\ Len(hist') = Len(hist) + 1 /\ Len(hist') <= MaxHistory
         /\ DOMAIN hist = 1..Len(hist) /\ DOMAIN hist' = 1..Len(hist) + 1
         /\ hist' \in Seq([op : HistoryOp, msg : Message])
         /\ \A i \in 1..Len(hist) : hist'[i] = hist[i]
         /\ \E op \in HistoryOp, m \in Message :
              /\ hist'[Len(hist) + 1] = Record(op, m)
              /\ op # "added" => m \in Arrived
<1> USE SyncAssumption
<1>1. /\ hist \in Seq([op : HistoryOp, msg : Message])
      /\ Len(hist) \in Nat /\ DOMAIN hist = 1..Len(hist)
  BY LenProperties DEF TypeInv, SyncTypeOK, HistoryOp
<1>2. PICK op \in HistoryOp, m \in Message :
        /\ hist' = Append(hist, Record(op, m))
        /\ op # "added" => m \in Arrived
  <2>1. CASE hist' = Append(hist, Record("added", Cardinality(Arrived) + 1))
    <3>1. Cardinality(Arrived) + 1 \in Message
      BY <1>1, ArrivalsCounted DEF MailboxChanges, Message
    <3> QED
      BY <2>1, <3>1 DEF HistoryOp
  <2>2. CASE \E m \in Live : hist' = Append(hist, Record("deleted", m))
    BY <2>2 DEF Live, Arrived, HistoryOp
  <2>3. CASE \E m \in Live : hist' = Append(hist, Record(IF m \in Labelled THEN "unlabelled"
                                                         ELSE "labelled", m))
    BY <2>3 DEF Live, Arrived, HistoryOp
  <2> QED
    BY <2>1, <2>2, <2>3 DEF MailboxChanges
<1>3. Record(op, m) \in [op : HistoryOp, msg : Message]
  BY DEF Record
<1>4. /\ Len(hist') = Len(hist) + 1
      /\ hist' \in Seq([op : HistoryOp, msg : Message])
      /\ \A i \in 1..Len(hist) : hist'[i] = hist[i]
      /\ hist'[Len(hist) + 1] = Record(op, m)
  BY <1>1, <1>2, <1>3, AppendProperties
<1>5. DOMAIN hist' = 1..Len(hist) + 1
  BY <1>1, <1>4, LenProperties
<1>6. Len(hist) < MaxHistory
  BY DEF MailboxChanges
<1> QED
  BY <1>1, <1>2, <1>4, <1>5, <1>6

-----------------------------------------------------------------------------
(* Types.                                                                  *)

\* A list page holds the newest messages; the others come below its last one.
LEMMA NewestIsTop ==
  ASSUME NEW S \in SUBSET Message, S # {}
  PROVE  LET last == CHOOSE m \in Newest(S) : \A n \in Newest(S) : m <= n IN
         last \in Message /\ \A m \in S \ Newest(S) : m < last
<1> USE SyncAssumption
<1> DEFINE above(m) == {n \in S : n > m}
<1>1. /\ MaxHistory \in Nat /\ S \subseteq Nat /\ S \subseteq 0..MaxHistory
      /\ \A m \in S : m \in Nat
  BY DEF Message
<1>2. ASSUME NEW m
      PROVE  IsFiniteSet(above(m)) /\ Cardinality(above(m)) \in Nat
  <2>1. IsFiniteSet(1..MaxHistory)
    BY <1>1, FS_Interval
  <2>2. above(m) \in SUBSET (1..MaxHistory)
    BY DEF Message
  <2>3. IsFiniteSet(above(m))
    BY <2>1, <2>2, FS_Subset
  <2> QED
    BY <2>3, FS_CardinalityType
<1>3. PICK top \in S : \A n \in S : n <= top
  BY <1>1, Largest, ZenonT(60)
<1>4. above(top) = {}
  <2>1. ASSUME NEW n \in S, n > top PROVE FALSE
    <3>1. n \in Nat /\ top \in Nat /\ n <= top
      BY <1>1, <1>3
    <3> QED
      BY <2>1, <3>1
  <2> QED
    BY <2>1
<1>5. Cardinality(above(top)) = 0
  BY <1>4, FS_EmptySet
<1>6. top \in Newest(S)
  BY <1>5 DEF Newest
<1>7. Newest(S) \subseteq S
  BY DEF Newest
<1>8. PICK low \in Newest(S) : \A n \in Newest(S) : low <= n
  BY <1>1, <1>6, <1>7, Smallest
<1> DEFINE last == CHOOSE m \in Newest(S) : \A n \in Newest(S) : m <= n
<1>9. last \in Newest(S) /\ \A n \in Newest(S) : last <= n
  BY <1>8
<1>10. last \in S /\ last \in Nat /\ last \in Message
  BY <1>1, <1>7, <1>9
<1>11. ASSUME NEW m \in S, m \notin Newest(S) PROVE m < last
  <2> SUFFICES ASSUME last <= m PROVE FALSE
    BY <1>1, <1>10
  <2>1. ASSUME NEW n \in S, n > m PROVE n > last
    <3>1. n \in Nat /\ m \in Nat /\ last \in Nat
      BY <1>1, <1>10
    <3> HIDE DEF last
    <3> QED
      BY <2>1, <3>1
  <2>2. Cardinality(above(m)) <= Cardinality(above(last))
    <3>1. above(m) \in SUBSET above(last)
      BY <2>1
    <3>2. IsFiniteSet(above(last))
      BY <1>2
    <3> HIDE DEF above, last
    <3> QED
      BY <3>1, <3>2, FS_Subset
  <2>3. Cardinality(above(last)) < PageSize
    BY <1>9 DEF Newest
  <2>4. Cardinality(above(m)) < PageSize
    <3>1. Cardinality(above(m)) \in Nat /\ Cardinality(above(last)) \in Nat
      BY <1>2
    <3> HIDE DEF above, last
    <3> QED
      BY <2>2, <2>3, <3>1
  <2> QED
    BY <2>4, <1>11 DEF Newest
<1> QED
  BY <1>10, <1>11

\* A run that ends leaves its variables as they were at the start.
LEMMA EndsTyped ==
  ASSUME TypeInv, NEW to \in {"idle", "fallback"}, Ends(to), UNCHANGED hist
  PROVE  /\ pc' \in Stage /\ ctxDone' \in BOOLEAN /\ query' \subseteq Message
         /\ startHistory' \in 0..Len(hist)' /\ profile' \in 0..Len(hist)'
         /\ token' \in Token /\ next' \in Token
         /\ page'.msgs \subseteq Message /\ page'.from \in 1..MaxHistory + 1
         /\ page'.to \in 0..Len(hist)'
BY SyncAssumption, LenProperties
   DEF Ends, TypeInv, SyncTypeOK, Stage, Token, NoPage

\* The row of the run has its type whatever is written to it.
LEMMA RunTyped ==
  ASSUME TypeInv
  PROVE  /\ UNCHANGED run \/ StartSync \/ CompleteSync \/ FailSync =>
              run' \in [status : {"none", "running", "completed", "failed"}, token : Token]
         /\ \A t \in Token : UpdateSyncCheckpoint(t) =>
              run' \in [status : {"none", "running", "completed", "failed"}, token : Token]
BY DEF TypeInv, SyncTypeOK, StartSync, CompleteSync, FailSync, UpdateSyncCheckpoint, Token

\* Faults stay within their number, items within their types.
LEMMA MayFailTyped ==
  ASSUME TypeInv, NEW failed, NEW unwritten, MayFail(failed, unwritten)
  PROVE  faults' \in 0..MaxFaults
BY SyncAssumption DEF MayFail, Fault, TypeInv, SyncTypeOK

LEMMA RecordsTyped ==
  ASSUME TypeInv, NEW S \in SUBSET Message, NEW lost \in SUBSET Message, RecordErrors(S, lost)
  PROVE  /\ failedItems' \subseteq [phase : {"fetch", "delete"}, msg : Message]
         /\ canceledItems' \subseteq Message
         /\ lostItems' \subseteq [phase : {"fetch", "delete"}, msg : Message]
BY DEF TypeInv, SyncTypeOK, RecordErrors, Items, Item

\* What a page brings into the archive, and the errors on record.
LEMMA FetchTyped ==
  ASSUME TypeInv, FetchPage
  PROVE  /\ archived' \subseteq Message /\ archived \subseteq archived'
         /\ labelled' \subseteq archived'
         /\ failedItems' \subseteq [phase : {"fetch", "delete"}, msg : Message]
         /\ canceledItems' \subseteq Message
         /\ lostItems' \subseteq [phase : {"fetch", "delete"}, msg : Message]
         /\ staleLabels' \subseteq Message
         /\ faults' \in 0..MaxFaults
<1> USE SyncAssumption
<1>1. PICK failed \in SUBSET ToFetch, lost \in SUBSET ToFetch :
        /\ MayFail(failed, lost) /\ Ingest((ToFetch \ failed) \cap Live)
        /\ RecordErrors(failed, lost) /\ UNCHANGED staleLabels
  BY DEF FetchPage
<1>2. ToFetch \subseteq Message
  BY DEF ToFetch, TypeInv, SyncTypeOK
<1>3. faults' \in 0..MaxFaults
  BY <1>1, MayFailTyped
<1>4. /\ failedItems' \subseteq [phase : {"fetch", "delete"}, msg : Message]
      /\ canceledItems' \subseteq Message
      /\ lostItems' \subseteq [phase : {"fetch", "delete"}, msg : Message]
  BY <1>1, <1>2, RecordsTyped
<1> QED
  BY <1>1, <1>2, <1>3, <1>4, SMTT(30) DEF TypeInv, SyncTypeOK, Ingest

\* What a run starts from.
LEMMA StartValues ==
  /\ NoToken \in Token /\ NoToken.of = "none"
  /\ NoPage.msgs = {} /\ NoPage.from = 1 /\ NoPage.to = 0
  /\ 1 \in 1..MaxHistory + 1
BY SyncAssumption DEF Token, NoToken, NoPage

LEMMA TypeInvInit == SyncInit => TypeInv
<1> SUFFICES ASSUME SyncInit PROVE TypeInv
  OBVIOUS
<1>1. /\ hist \in Seq([op : HistoryOp, msg : Message]) /\ Len(hist) = 0
      /\ DOMAIN hist = {}
  BY DEF SyncInit
<1> QED
  <2>1. run \in [status : {"none", "running", "completed", "failed"}, token : Token]
    BY StartValues DEF SyncInit
  <2>2. ctxDone \in BOOLEAN
    BY Zenon DEF SyncInit
  <2>3. /\ page.msgs \subseteq Message /\ page.from \in 1..MaxHistory + 1
        /\ page.to \in 0..Len(hist)
    BY <1>1, StartValues DEF SyncInit
  <2>4. faults \in 0..MaxFaults /\ fulls \in 0..2 /\ cursor \in {NoCursor} \cup 0..Len(hist)
    BY <1>1, SyncAssumption DEF SyncInit
  <2>5. /\ archived \subseteq Message /\ query \subseteq Message
        /\ marked \subseteq archived /\ labelled \subseteq archived
        /\ canceledItems \subseteq Message /\ staleLabels \subseteq Message
        /\ lostItems \subseteq [phase : {"fetch", "delete"}, msg : Message]
        /\ failedItems \subseteq [phase : {"fetch", "delete"}, msg : Message]
    BY DEF SyncInit
  <2>6. /\ expired \in 0..Len(hist) /\ Len(hist) <= MaxHistory
        /\ startHistory \in 0..Len(hist) /\ profile \in 0..Len(hist)
    BY <1>1, SyncAssumption DEF SyncInit
  <2>7. token \in Token /\ next \in Token /\ pc = "idle"
    BY StartValues DEF SyncInit
  <2> QED
    BY <1>1, <2>1, <2>2, <2>3, <2>4, <2>5, <2>6, <2>7 DEF TypeInv, SyncTypeOK, HistoryOp

\* Label changes keep what is archived and labelled within their types.
LEMMA LabelsTyped ==
  ASSUME TypeInv, NEW to, NEW failed, NEW skipped, ApplyLabels(to, failed, skipped)
  PROVE  /\ archived' \subseteq Message /\ archived \subseteq archived'
         /\ labelled' \subseteq archived' /\ staleLabels' \subseteq Message
BY DEF TypeInv, SyncTypeOK, ApplyLabels, LabelFetches

\* Types that a step on the run's own variables leaves alone.
LEMMA MailboxTyped ==
  ASSUME TypeInv, UNCHANGED hist
  PROVE  /\ hist' \in Seq([op : HistoryOp, msg : Message])
         /\ Len(hist) \in Nat /\ Len(hist') = Len(hist) /\ Len(hist') <= MaxHistory
         /\ Len(hist) \in 0..MaxHistory
BY SyncAssumption, LenProperties DEF TypeInv, SyncTypeOK, HistoryOp

\* The page a listing asks for starts behind a recorded place of the history.
LEMMA PageFromTyped ==
  ASSUME TypeInv
  PROVE  PageFrom \in 1..MaxHistory + 1
<1>1. token \in Token /\ startHistory \in 0..Len(hist)
  BY DEF TypeInv, SyncTypeOK
<1>2. Len(hist) \in Nat /\ Len(hist) <= MaxHistory /\ MaxHistory \in Nat
  BY SyncAssumption, LenProperties DEF TypeInv, SyncTypeOK
<1>3. token.of = "history" => token.at \in 0..MaxHistory
  BY <1>1 DEF Token, NoToken, ListToken, HistoryToken
<1>4. startHistory \in 0..MaxHistory
  BY <1>1, <1>2
<1> QED
  BY <1>2, <1>3, <1>4 DEF PageFrom

LEMMA TypeInvStep ==
  ASSUME TypeInv, [SyncNext]_vars
  PROVE  TypeInv'
<1> USE SyncAssumption DEF TypeInv, SyncTypeOK, mailbox, store, items, process
<1> DEFINE Ops == {"added", "deleted", "labelled", "unlabelled"}
<1>0. Ops = HistoryOp
  BY DEF HistoryOp
<1>1. CASE MailboxChanges
  <2>1. /\ hist' \in Seq([op : HistoryOp, msg : Message]) /\ Len(hist) \in Nat
        /\ Len(hist') = Len(hist) + 1 /\ Len(hist') <= MaxHistory
    BY <1>1, HistoryGrows
  <2> QED
    BY <1>1, <2>1, SMTT(30) DEF MailboxChanges, HistoryOp
<1>2. CASE HistoryExpires
  BY <1>2, MailboxTyped DEF HistoryExpires, HistoryOp
<1>3. CASE Cancel
  BY <1>3, MailboxTyped DEF Cancel, HistoryOp, Fault
<1>4. CASE Kill
  <2>1. UNCHANGED hist /\ Ends("idle")
    BY <1>4 DEF Kill
  <2>2. /\ archived' \subseteq Message /\ archived \subseteq archived'
        /\ labelled' \subseteq archived' /\ staleLabels' \subseteq Message
    <3>1. CASE UNCHANGED <<archived, labelled, staleLabels>>
      BY <3>1
    <3>2. CASE (\E S \in SUBSET (ToFetch \cap Live) : Ingest(S)) /\ UNCHANGED staleLabels
      BY <3>2 DEF Ingest, Live, Arrived
    <3>3. CASE \E to, failed, skipped : ApplyLabels(to, failed, skipped)
      BY <3>3, LabelsTyped
    <3> QED
      BY <1>4, <3>1, <3>2, <3>3 DEF Kill
  <2> QED
    BY <1>4, <2>1, <2>2, EndsTyped, MailboxTyped, SMTT(30) DEF Kill, HistoryOp, Fault, Stage
<1>5. CASE CallFails
  <2>1. UNCHANGED hist /\ Ends("idle") /\ (UNCHANGED run \/ FailSync)
    BY <1>5 DEF CallFails
  <2>2. faults' \in 0..MaxFaults
    BY <1>5 DEF CallFails, Fault
  <2> QED
    BY <1>5, <2>1, <2>2, EndsTyped, RunTyped, MailboxTyped DEF CallFails, HistoryOp, Stage
<1>6. CASE FullStart
  <2>1. token' \in Token /\ (UNCHANGED run \/ StartSync)
    BY <1>6 DEF FullStart, Token
  <2>2. query' \subseteq Message
    BY <1>6 DEF FullStart, Message
  <2>3. fulls' \in 0..2 /\ pc' = "fullProfile"
    BY <1>6 DEF FullStart
  <2>5. ctxDone' \in BOOLEAN
    BY <1>6, Zenon DEF FullStart
  <2>6. /\ page'.msgs \subseteq Message /\ page'.from \in 1..MaxHistory + 1
        /\ page'.to \in 0..Len(hist)
    BY <1>6, StartValues, MailboxTyped DEF FullStart
  <2>4. run' \in [status : {"none", "running", "completed", "failed"}, token : Token]
    BY <2>1, RunTyped
  <2> QED
    BY <1>6, <2>1, <2>2, <2>3, <2>4, <2>5, <2>6, MailboxTyped DEF FullStart, HistoryOp
<1>7. CASE FullProfile
  BY <1>7, MailboxTyped DEF FullProfile, HistoryOp
<1>8. CASE FullList
  <2>1. Below \in SUBSET Message /\ Newest(Below) \subseteq Message
    BY DEF Below, Live, Arrived, Newest
  <2>2. next' \in Token
    <3>1. CASE Below = Newest(Below)
      BY <1>8, <3>1 DEF FullList, Token
    <3>2. CASE Below # Newest(Below)
      <4>1. Below # {}
        BY <3>2 DEF Newest
      <4> QED
        BY <1>8, <2>1, <3>2, <4>1, NewestIsTop DEF FullList, Token
    <3> QED
      BY <3>1, <3>2
  <2>3. /\ page'.msgs \subseteq Message /\ page'.from \in 1..MaxHistory + 1
        /\ page'.to \in 0..Len(hist)
    BY <1>8, <2>1, MailboxTyped DEF FullList, NoPage
  <2>4. pc' \in {"fullCursor", "fullFetch"}
    BY <1>8 DEF FullList
  <2> QED
    BY <1>8, <2>2, <2>3, <2>4, MailboxTyped, SMTT(30) DEF FullList, HistoryOp
<1>9. CASE FullListRejected
  BY <1>9, EndsTyped, RunTyped, MailboxTyped DEF FullListRejected, HistoryOp, Stage
<1>10. CASE FullFetch
  BY <1>10, FetchTyped, MailboxTyped DEF FullFetch, HistoryOp
<1>11. CASE FullFetchCanceled
  <2>1. PICK lost \in SUBSET ToFetch : MayFail(ToFetch, lost) /\ RecordErrors(ToFetch, lost)
    BY <1>11 DEF FullFetchCanceled
  <2>2. ToFetch \subseteq Message
    BY DEF ToFetch
  <2>3. /\ failedItems' \subseteq [phase : {"fetch", "delete"}, msg : Message]
        /\ canceledItems' \subseteq Message /\ faults' \in 0..MaxFaults
        /\ lostItems' \subseteq [phase : {"fetch", "delete"}, msg : Message]
    BY <2>1, <2>2, MayFailTyped, RecordsTyped
  <2> QED
    BY <1>11, <2>3, EndsTyped, MailboxTyped DEF FullFetchCanceled, HistoryOp, Stage
<1>12. CASE FullCheckpoint \/ IncCheckpoint
  <2>1. (UNCHANGED run \/ UpdateSyncCheckpoint(next)) /\ faults' \in 0..MaxFaults
    BY <1>12, SMTT(30) DEF FullCheckpoint, IncCheckpoint, BestEffort, Fault
  <2>2. run' \in [status : {"none", "running", "completed", "failed"}, token : Token]
    BY <2>1, RunTyped
  <2>3. token' \in Token /\ next' \in Token
    BY <1>12 DEF FullCheckpoint, IncCheckpoint, Token
  <2>4. /\ page'.msgs \subseteq Message /\ page'.from \in 1..MaxHistory + 1
        /\ page'.to \in 0..Len(hist)
    BY <1>12, MailboxTyped DEF FullCheckpoint, IncCheckpoint, NoPage
  <2>5. pc' \in {"fullCursor", "fullList", "incCursor", "incList"}
    BY <1>12 DEF FullCheckpoint, IncCheckpoint
  <2>6. UNCHANGED <<mailbox, cursor, archived, marked, labelled, items, ctxDone, query,
                    startHistory, profile, fulls>>
    BY <1>12 DEF FullCheckpoint, IncCheckpoint
  <2> QED
    BY <2>1, <2>2, <2>3, <2>4, <2>5, <2>6, MailboxTyped DEF HistoryOp
<1>13. CASE FullCursor \/ IncCursor
  <2>1. (UNCHANGED cursor \/ cursor' = profile) /\ faults' \in 0..MaxFaults
    BY <1>13, SMTT(30) DEF FullCursor, IncCursor, BestEffort, Fault
  <2> QED
    BY <1>13, <2>1, MailboxTyped DEF FullCursor, IncCursor, HistoryOp
<1>14. CASE FullComplete \/ IncComplete
  <2>1. /\ UNCHANGED hist /\ Ends("idle") /\ (UNCHANGED run \/ CompleteSync)
        /\ faults' \in 0..MaxFaults
    BY <1>14, SMTT(30) DEF FullComplete, IncComplete, Complete, BestEffort, Fault
  <2> QED
    BY <1>14, <2>1, EndsTyped, RunTyped, MailboxTyped
       DEF FullComplete, IncComplete, Complete, HistoryOp, Stage
<1>15. CASE IncStart
  <2>1. run' \in [status : {"none", "running", "completed", "failed"}, token : Token]
    BY <1>15, RunTyped DEF IncStart
  <2>2. startHistory' \in 0..Len(hist)
    BY <1>15 DEF IncStart
  <2>3. /\ page'.msgs \subseteq Message /\ page'.from \in 1..MaxHistory + 1
        /\ page'.to \in 0..Len(hist) /\ token' \in Token
    BY <1>15, StartValues, MailboxTyped DEF IncStart
  <2>4. ctxDone' \in BOOLEAN
    BY <1>15, Zenon DEF IncStart
  <2> QED
    BY <1>15, <2>1, <2>2, <2>3, <2>4, MailboxTyped DEF IncStart, HistoryOp
<1>16. CASE IncProfile
  BY <1>16, MailboxTyped DEF IncProfile, HistoryOp
<1>17. CASE IncList
  <2>1. PageFrom \in 1..MaxHistory + 1
    BY PageFromTyped
  <2> DEFINE to == IF PageFrom + PageSize - 1 < Len(hist) THEN PageFrom + PageSize - 1
                   ELSE Len(hist)
  <2>2. to \in 0..Len(hist) /\ to \in 0..MaxHistory
    BY <2>1, <1>17, MailboxTyped, SMTT(30) DEF IncList
  <2>3. page' = [NoPage EXCEPT !.from = PageFrom, !.to = to]
    BY <1>17 DEF IncList
  <2>4. next' \in Token
    BY <1>17, <2>2 DEF IncList, Token
  <2> HIDE DEF to
  <2>5. /\ page'.msgs \subseteq Message /\ page'.from \in 1..MaxHistory + 1
        /\ page'.to \in 0..Len(hist)
    BY <2>1, <2>2, <2>3 DEF NoPage
  <2> QED
    BY <1>17, <2>4, <2>5, MailboxTyped DEF IncList, HistoryOp
<1>18. CASE IncExpired
  BY <1>18, EndsTyped, RunTyped, MailboxTyped DEF IncExpired, HistoryOp, Stage
<1>19. CASE IncLabels
  <2>1. PICK failed \in SUBSET LabelFetches(page.to), skipped \in SUBSET ArchivedOps(page.to) :
          \E lost \in SUBSET failed :
            /\ MayFail(failed, lost \cup skipped) /\ RecordErrors(failed, lost)
            /\ ApplyLabels(page.to, failed, skipped)
    BY <1>19 DEF IncLabels
  <2>2. failed \subseteq Message
    BY <2>1 DEF LabelFetches
  <2>3. /\ archived' \subseteq Message /\ archived \subseteq archived'
        /\ labelled' \subseteq archived' /\ staleLabels' \subseteq Message
    BY <2>1, LabelsTyped
  <2>4. /\ failedItems' \subseteq [phase : {"fetch", "delete"}, msg : Message]
        /\ canceledItems' \subseteq Message /\ faults' \in 0..MaxFaults
        /\ lostItems' \subseteq [phase : {"fetch", "delete"}, msg : Message]
    BY <2>1, <2>2, MayFailTyped, RecordsTyped
  <2> QED
    BY <1>19, <2>3, <2>4, MailboxTyped DEF IncLabels, HistoryOp
<1>20. CASE IncFetch
  BY <1>20, FetchTyped, MailboxTyped DEF IncFetch, HistoryOp
<1>21. CASE IncFetchCanceled
  <2>1. PICK lost \in SUBSET ToFetch : MayFail(ToFetch, lost) /\ RecordErrors(ToFetch, lost)
    BY <1>21 DEF IncFetchCanceled
  <2>2. ToFetch \subseteq Message
    BY DEF ToFetch
  <2>3. /\ failedItems' \subseteq [phase : {"fetch", "delete"}, msg : Message]
        /\ canceledItems' \subseteq Message /\ faults' \in 0..MaxFaults
        /\ lostItems' \subseteq [phase : {"fetch", "delete"}, msg : Message]
    BY <2>1, <2>2, MayFailTyped, RecordsTyped
  <2> QED
    BY <1>21, <2>3, MailboxTyped DEF IncFetchCanceled, HistoryOp
<1>22. CASE IncMark
  <2>1. /\ marked' \subseteq archived /\ faults' \in 0..MaxFaults
        /\ failedItems' \subseteq [phase : {"fetch", "delete"}, msg : Message]
        /\ lostItems' \subseteq [phase : {"fetch", "delete"}, msg : Message]
    BY <1>22, SMTT(30) DEF IncMark, DeletedByPage, Fault, Items, Item
  <2> QED
    BY <1>22, <2>1, MailboxTyped DEF IncMark, HistoryOp
<1>23. CASE UNCHANGED vars
  BY <1>23 DEF vars
<1> QED
  BY <1>1, <1>2, <1>3, <1>4, <1>5, <1>6, <1>7, <1>8, <1>9, <1>10, <1>11, <1>12,
     <1>13, <1>14, <1>15, <1>16, <1>17, <1>18, <1>19, <1>20, <1>21, <1>22, <1>23
     DEF SyncNext, SyncStep

LEMMA AlwaysTyped == SyncSpec => []TypeInv
<1>1. SyncInit => TypeInv
  BY TypeInvInit
<1>2. TypeInv /\ [SyncNext]_vars => TypeInv'
  BY TypeInvStep
<1> QED
  BY <1>1, <1>2, PTL DEF SyncSpec

\* The parts of the state have their types, whatever the sizes: every position
\* in the history lies in it.
THEOREM SyncTypeCorrect == SyncSpec => []SyncTypeOK
<1>1. TypeInv => SyncTypeOK
  BY DEF TypeInv
<1> QED
  BY <1>1, AlwaysTyped, PTL

-----------------------------------------------------------------------------
(* What no step takes back.                                                *)

\* Messages a run may leave behind: archived, gone, or on record as failed, if
\* the record could be written.
Safe(m) == m \in archived \cup Gone \cup Failed("fetch") \cup canceledItems \cup Lost("fetch")

\* The first h records of the history tell of the message's arrival.
ArrivedBy(h, m) == \E i \in 1..h : i \in DOMAIN hist /\ hist[i] = Record("added", m)

LEMMA HistoryKept ==
  ASSUME TypeInv, [SyncNext]_vars
  PROVE  /\ Len(hist) \in Nat /\ Len(hist') \in Nat /\ Len(hist) <= Len(hist')
         /\ DOMAIN hist = 1..Len(hist) /\ DOMAIN hist' = 1..Len(hist')
         /\ \A i \in 1..Len(hist) : hist'[i] = hist[i]
<1>1. Len(hist) \in Nat /\ DOMAIN hist = 1..Len(hist)
  BY LenProperties DEF TypeInv, SyncTypeOK
<1>2. CASE MailboxChanges
  BY <1>1, <1>2, HistoryGrows
<1>3. CASE UNCHANGED hist
  BY <1>1, <1>3
<1>4. MailboxChanges \/ UNCHANGED hist
  BY DEF SyncNext, SyncStep, HistoryExpires, Cancel, Kill, CallFails, FullStart,
         FullProfile, FullList, FullListRejected, FullFetch, FullFetchCanceled,
         FullCheckpoint, FullCursor, FullComplete, IncStart, IncProfile, IncList,
         IncExpired, IncLabels, IncFetch, IncFetchCanceled, IncMark,
         IncCheckpoint, IncCursor, IncComplete, Complete, mailbox, vars
<1> QED
  BY <1>2, <1>3, <1>4

LEMMA RecordsKept ==
  ASSUME TypeInv, [SyncNext]_vars
  PROVE  /\ Arrived \subseteq Arrived' /\ Gone \subseteq Gone'
         /\ \A h \in 0..Len(hist), m \in Message : ArrivedBy(h, m)' <=> ArrivedBy(h, m)
<1>1. /\ Len(hist) \in Nat /\ Len(hist') \in Nat /\ Len(hist) <= Len(hist')
      /\ DOMAIN hist = 1..Len(hist) /\ DOMAIN hist' = 1..Len(hist')
      /\ \A i \in 1..Len(hist) : hist'[i] = hist[i]
  BY HistoryKept
<1>2. \A i \in DOMAIN hist : i \in DOMAIN hist' /\ hist'[i] = hist[i]
  BY <1>1
<1>3. Arrived \subseteq Arrived' /\ Gone \subseteq Gone'
  BY <1>2 DEF Arrived, Gone, Has, Record
<1>4. ASSUME NEW h \in 0..Len(hist), NEW m \in Message PROVE ArrivedBy(h, m)' <=> ArrivedBy(h, m)
  <2>1. \A i \in 1..h : i \in DOMAIN hist /\ i \in DOMAIN hist' /\ hist'[i] = hist[i]
    BY <1>1
  <2> QED
    BY <2>1 DEF ArrivedBy, Record
<1> QED
  BY <1>3, <1>4

\* Steps that leave the archive as it is.
Aside ==
  \/ MailboxChanges \/ HistoryExpires \/ Cancel \/ CallFails
  \/ FullStart \/ FullProfile \/ FullList \/ FullListRejected \/ FullFetchCanceled
  \/ FullCheckpoint \/ FullCursor \/ FullComplete
  \/ IncStart \/ IncProfile \/ IncList \/ IncExpired \/ IncFetchCanceled
  \/ IncMark \/ IncCheckpoint \/ IncCursor \/ IncComplete
  \/ UNCHANGED vars

LEMMA AsideKeeps ==
  ASSUME Aside
  PROVE  UNCHANGED <<archived, labelled, staleLabels>>
BY DEF Aside, MailboxChanges, HistoryExpires, Cancel, CallFails, FullStart,
       FullProfile, FullList, FullListRejected, FullFetchCanceled,
       FullCheckpoint, FullCursor, FullComplete, IncStart, IncProfile, IncList,
       IncExpired, IncFetchCanceled, IncMark, IncCheckpoint, IncCursor,
       IncComplete, Complete, store, items, vars

\* Only messages the mailbox holds are archived, and they stay.
LEMMA ArchiveGrows ==
  ASSUME TypeInv, [SyncNext]_vars
  PROVE  archived \subseteq archived' /\ archived' \subseteq archived \cup Live
<1>1. CASE Aside
  BY <1>1, AsideKeeps
<1>2. CASE FullFetch \/ IncFetch
  BY <1>2 DEF FullFetch, IncFetch, FetchPage, Ingest
<1>3. CASE IncLabels
  BY <1>3 DEF IncLabels, ApplyLabels
<1>4. CASE Kill
  BY <1>4 DEF Kill, Ingest, ApplyLabels
<1> QED
  BY <1>1, <1>2, <1>3, <1>4 DEF Aside, SyncNext, SyncStep

\* Error items are never taken back.
LEMMA ErrorsKept ==
  ASSUME TypeInv, [SyncNext]_vars
  PROVE  /\ failedItems \subseteq failedItems' /\ canceledItems \subseteq canceledItems'
         /\ lostItems \subseteq lostItems'
<1>1. ASSUME NEW S, NEW lost, RecordErrors(S, lost)
      PROVE  /\ failedItems \subseteq failedItems' /\ canceledItems \subseteq canceledItems'
             /\ lostItems \subseteq lostItems'
  BY <1>1 DEF RecordErrors
<1>2. CASE FullFetch \/ IncFetch
  BY <1>1, <1>2 DEF FullFetch, IncFetch, FetchPage
<1>3. CASE IncLabels
  BY <1>1, <1>3 DEF IncLabels
<1>4. CASE FullFetchCanceled \/ IncFetchCanceled
  BY <1>1, <1>4 DEF FullFetchCanceled, IncFetchCanceled
<1>5. CASE IncMark
  BY <1>5 DEF IncMark
<1>6. CASE MailboxChanges \/ HistoryExpires \/ Cancel \/ CallFails \/ Kill
           \/ FullStart \/ FullProfile \/ FullList \/ FullListRejected
           \/ FullCheckpoint \/ FullCursor \/ FullComplete
           \/ IncStart \/ IncProfile \/ IncList \/ IncExpired
           \/ IncCheckpoint \/ IncCursor \/ IncComplete \/ UNCHANGED vars
  BY <1>6 DEF MailboxChanges, HistoryExpires, Cancel, CallFails, Kill, FullStart,
       FullProfile, FullList, FullListRejected,
       FullCheckpoint, FullCursor, FullComplete, IncStart, IncProfile, IncList,
       IncExpired, IncCheckpoint, IncCursor, IncComplete, Complete, store, items, vars
<1> QED
  BY <1>2, <1>3, <1>4, <1>5, <1>6 DEF SyncNext, SyncStep

LEMMA SafeStays ==
  ASSUME TypeInv, [SyncNext]_vars
  PROVE  /\ Failed("fetch") \subseteq Failed("fetch")'
         /\ Failed("delete") \subseteq Failed("delete")'
         /\ \A m : Safe(m) => Safe(m)'
<1>1. failedItems \subseteq failedItems' /\ lostItems \subseteq lostItems'
  BY ErrorsKept
<1>2. /\ Failed("fetch") \subseteq Failed("fetch")'
      /\ Failed("delete") \subseteq Failed("delete")'
      /\ Lost("fetch") \subseteq Lost("fetch")'
  BY <1>1 DEF Failed, Lost
<1>3. ASSUME NEW m, Safe(m) PROVE Safe(m)'
  BY <1>2, <1>3, ErrorsKept, RecordsKept, ArchiveGrows DEF Safe
<1> QED
  BY <1>2, <1>3

\* Marks are set on messages the history tells are gone.
LEMMA ArchiveTrueStep ==
  ASSUME TypeInv, ArchiveTrue, [SyncNext]_vars
  PROVE  ArchiveTrue'
<1>1. archived' \subseteq Arrived'
  BY ArchiveGrows, RecordsKept DEF ArchiveTrue, Live
<1>2. marked' \subseteq Gone'
  <2>1. CASE IncMark
    <3>1. page.from >= 1 /\ page.to <= Len(hist) /\ page.from \in Int /\ page.to \in Int
          /\ DOMAIN hist = 1..Len(hist) /\ Len(hist) \in Nat
      BY HistoryKept, SyncAssumption DEF TypeInv, SyncTypeOK
    <3>2. DeletedByPage \subseteq Gone
      BY <3>1 DEF DeletedByPage, Gone, Has
    <3>3. marked' \subseteq marked \cup DeletedByPage
      BY <2>1 DEF IncMark
    <3> QED
      BY <3>2, <3>3, RecordsKept DEF ArchiveTrue
  <2>2. CASE UNCHANGED marked
    BY <2>2, RecordsKept DEF ArchiveTrue
  <2>3. IncMark \/ UNCHANGED marked
    BY DEF SyncNext, SyncStep, MailboxChanges, HistoryExpires, Cancel, Kill, CallFails,
         FullStart, FullProfile, FullList, FullListRejected, FullFetch, FullFetchCanceled,
         FullCheckpoint, FullCursor, FullComplete, IncStart, IncProfile, IncList,
         IncExpired, IncLabels, IncFetch, IncFetchCanceled,
         IncCheckpoint, IncCursor, IncComplete, Complete, store, vars
  <2> QED
    BY <2>1, <2>2, <2>3
<1> QED
  BY <1>1, <1>2 DEF ArchiveTrue

-----------------------------------------------------------------------------
(* The pages of the history follow one another without a gap.              *)

IncPage == {"incLabels", "incFetch", "incMark", "incCheckpoint"}

PagesInOrder ==
  /\ pc = "incProfile" => token = NoToken
  /\ pc = "incList" => startHistory < PageFrom /\ PageFrom <= Len(hist) + 1
  /\ pc \in IncPage =>
       /\ startHistory < page.from /\ page.from <= page.to + 1
       /\ \/ next = NoToken /\ profile <= page.to
          \/ next = HistoryToken(page.to)

\* Steps within an incremental sync that leave its page alone.
LEMMA PageKept ==
  ASSUME IncLabels \/ IncFetch \/ IncFetchCanceled \/ IncMark
  PROVE  /\ pc \in IncPage /\ pc' \in IncPage
         /\ UNCHANGED <<startHistory, profile, token, page, next>>
BY DEF IncLabels, IncFetch, IncFetchCanceled, IncMark, IncPage, process

LEMMA PagesInOrderStep ==
  ASSUME TypeInv, PagesInOrder, [SyncNext]_vars
  PROVE  PagesInOrder'
<1> USE SyncAssumption
<1>0. /\ Len(hist) \in Nat /\ Len(hist') \in Nat /\ Len(hist) <= Len(hist')
      /\ startHistory \in 0..Len(hist) /\ profile \in 0..Len(hist)
      /\ page.from \in Int /\ page.to \in 0..Len(hist)
  BY HistoryKept DEF TypeInv, SyncTypeOK
<1>1. CASE UNCHANGED <<pc, startHistory, profile, token, page, next>>
  <2>1. UNCHANGED PageFrom
    BY <1>1 DEF PageFrom
  <2>2. pc = "incList" => PageFrom \in Int
    <3>1. token.of = "history" => token.at \in Int
      BY DEF TypeInv, SyncTypeOK, Token, NoToken, ListToken, HistoryToken
    <3> QED
      BY <1>0, <3>1 DEF PageFrom
  <2> QED
    BY <1>0, <1>1, <2>1, <2>2 DEF PagesInOrder
<1>2. CASE IncLabels \/ IncFetch \/ IncFetchCanceled \/ IncMark
  BY <1>2, PageKept DEF PagesInOrder, IncPage
<1>3. CASE pc' \in {"idle", "fallback", "fullProfile", "fullList", "fullFetch",
                    "fullCheckpoint", "fullCursor", "fullComplete", "incCursor",
                    "incComplete"}
  BY <1>3 DEF PagesInOrder, IncPage
<1>4. CASE IncStart
  BY <1>4 DEF IncStart, PagesInOrder, IncPage
<1>5. CASE IncProfile /\ pc' = "incList"
  <2>1. PageFrom' = startHistory + 1
    BY <1>5 DEF IncProfile, PageFrom, PagesInOrder, NoToken
  <2>2. startHistory' = startHistory /\ startHistory < Len(hist) /\ hist' = hist
    BY <1>0, <1>5 DEF IncProfile, mailbox
  <2> QED
    BY <1>0, <1>5, <2>1, <2>2 DEF PagesInOrder, IncPage
<1>6. CASE IncList
  <2> DEFINE to == IF PageFrom + PageSize - 1 < Len(hist) THEN PageFrom + PageSize - 1
                   ELSE Len(hist)
  <2>1. PageFrom \in Int
    <3>1. token.of = "history" => token.at \in Int
      BY DEF TypeInv, SyncTypeOK, Token, NoToken, ListToken, HistoryToken
    <3> QED
      BY <1>0, <3>1 DEF PageFrom
  <2>2. startHistory < PageFrom /\ PageFrom <= Len(hist) + 1
    BY <1>6 DEF IncList, PagesInOrder
  <2>3. to \in Int /\ PageFrom <= to + 1 /\ (to = Len(hist) \/ to < Len(hist))
    BY <1>0, <2>1, <2>2
  <2>4. /\ page'.from = PageFrom /\ page'.to = to
        /\ next' = IF to = Len(hist) THEN NoToken ELSE HistoryToken(to)
        /\ pc' = "incLabels" /\ UNCHANGED <<startHistory, profile>>
    BY <1>6 DEF IncList, NoPage, process
  <2> HIDE DEF to
  <2> QED
    BY <1>0, <2>2, <2>3, <2>4 DEF PagesInOrder, IncPage
<1>7. CASE IncCheckpoint /\ pc' = "incList"
  <2>1. next # NoToken /\ next = HistoryToken(page.to) /\ token' = next
        /\ startHistory < page.from /\ page.from <= page.to + 1
        /\ UNCHANGED <<startHistory, hist>>
    BY <1>7 DEF IncCheckpoint, PagesInOrder, IncPage, mailbox
  <2>2. PageFrom' = page.to + 1
    BY <2>1 DEF PageFrom, HistoryToken
  <2> QED
    BY <1>0, <1>7, <2>1, <2>2 DEF PagesInOrder, IncPage
<1> QED
  BY <1>1, <1>2, <1>3, <1>4, <1>5, <1>6, <1>7
     DEF SyncNext, SyncStep, MailboxChanges, HistoryExpires, Cancel, Kill, CallFails,
         FullStart, FullProfile, FullList, FullListRejected, FullFetch, FullFetchCanceled,
         FullCheckpoint, FullCursor, FullComplete, IncProfile, IncExpired,
         IncCheckpoint, IncCursor, IncComplete, Complete, Ends, process, vars

-----------------------------------------------------------------------------
(* Nothing is lost by full syncs that start afresh and list everything.    *)

\* How far the cursor and the run under way have come in the history: what
\* arrived by then has been dealt with.
Reached(h) ==
  \/ h = cursor
  \/ pc = "incProfile" /\ h = startHistory
  \/ pc = "incList" /\ h = PageFrom - 1
  \/ pc \in {"incLabels", "incFetch"} /\ h = page.from - 1
  \/ pc \in {"incMark", "incCheckpoint"} /\ h = page.to
  \/ pc \in {"fullCursor", "incCursor"} /\ h = profile

\* What a full sync still has in front of it: in its page, or below it.
Listing == {"fullList", "fullFetch", "fullCheckpoint"}
Further(t, m) == t.of = "list" /\ m < t.at
StillListed(m) ==
  \/ pc = "fullList" /\ (token.of # "list" \/ Further(token, m))
  \/ pc = "fullFetch" /\ (m \in page.msgs \/ Further(next, m))
  \/ pc = "fullCheckpoint" /\ Further(next, m)

ListsAll ==
  /\ ~ResumesList
  /\ pc \in Listing \cup {"fullProfile"} => query = Message

NothingBehind ==
  \A h \in 0..MaxHistory, m \in Message : Reached(h) /\ ArrivedBy(h, m) => Safe(m)

ListedOrSafe ==
  pc \in Listing =>
    \A h \in 0..MaxHistory, m \in Message :
      h = profile /\ ArrivedBy(h, m) => Safe(m) \/ StillListed(m)

LossInv == TypeInv /\ PagesInOrder /\ ListsAll /\ NothingBehind /\ ListedOrSafe

LEMMA ReachedInHistory ==
  ASSUME TypeInv, PagesInOrder, NEW h, Reached(h)
  PROVE  h <= Len(hist)
<1>1. /\ Len(hist) \in Nat /\ page.from \in Int /\ page.to \in 0..Len(hist)
      /\ startHistory \in 0..Len(hist) /\ profile \in 0..Len(hist)
      /\ cursor \in {NoCursor} \cup 0..Len(hist)
  BY LenProperties DEF TypeInv, SyncTypeOK
<1>2. pc = "incList" => PageFrom \in Int
  <2>1. token.of = "history" => token.at \in Int
    BY DEF TypeInv, SyncTypeOK, Token, NoToken, ListToken, HistoryToken
  <2> QED
    BY <1>1, <2>1 DEF PageFrom
<1> QED
  BY <1>1, <1>2 DEF Reached, PagesInOrder, IncPage, NoCursor

\* The page is passed: each of its messages is in the archive, gone, or on
\* record as failed.
LEMMA PageDealtWith ==
  ASSUME TypeInv, NEW m \in Message, m \in ToFetch \cup archived, m \in Arrived,
         FetchPage, UNCHANGED hist
  PROVE  Safe(m)'
<1>1. PICK failed \in SUBSET ToFetch, lost \in SUBSET ToFetch :
        Ingest((ToFetch \ failed) \cap Live) /\ RecordErrors(failed, lost)
  BY DEF FetchPage
<1>2. UNCHANGED Gone
  BY DEF Gone, Has
<1>3. CASE m \in archived
  BY <1>1, <1>3 DEF Ingest, Safe
<1>4. CASE m \in failed
  <2>1. m \in canceledItems' \/ Item("fetch", m) \in failedItems' \cup lostItems'
    BY <1>1, <1>4 DEF RecordErrors, Items
  <2> QED
    BY <2>1 DEF Safe, Failed, Lost
<1>5. CASE m \in ToFetch \ failed /\ m \in Live
  BY <1>1, <1>5 DEF Ingest, Safe
<1>6. CASE m \in ToFetch \ failed /\ m \notin Live
  <2>1. m \in Gone
    BY <1>6 DEF Live
  <2> QED
    BY <1>2, <2>1 DEF Safe
<1> QED
  BY <1>3, <1>4, <1>5, <1>6

\* A message told of in the history up to a page's last record is in the page
\* or behind it.
LEMMA InPageOrBehind ==
  ASSUME TypeInv, NEW m \in Message, pc = "incFetch",
         ArrivedBy(page.to, m), ~ArrivedBy(page.from - 1, m)
  PROVE  m \in ToFetch \cup archived
<1>1. PICK i \in 1..page.to : i \in DOMAIN hist /\ hist[i] = Record("added", m)
  BY DEF ArrivedBy
<1>2. page.from \in Int /\ page.to \in Int /\ page.from >= 1
  BY DEF TypeInv, SyncTypeOK
<1>3. ~(i \in 1..page.from - 1)
  BY <1>1 DEF ArrivedBy
<1>4. i \in page.from..page.to
  BY <1>1, <1>2, <1>3
<1> QED
  BY <1>1, <1>4 DEF ToFetch

LEMMA EarlierToo ==
  ASSUME NEW g \in Int, NEW h \in Int, g <= h, NEW m, ArrivedBy(g, m)
  PROVE  ArrivedBy(h, m)
BY DEF ArrivedBy

\* What was safe where the run or the cursor had come stays safe.
LEMMA OldStaysSafe ==
  ASSUME LossInv, [SyncNext]_vars,
         NEW h \in 0..MaxHistory, NEW m \in Message, Reached(h), ArrivedBy(h, m)'
  PROVE  Safe(m)'
<1>1. h \in 0..Len(hist)
  <2>1. h <= Len(hist) /\ h \in Nat
    BY ReachedInHistory, SyncAssumption DEF LossInv
  <2>2. Len(hist) \in Nat
    BY HistoryKept DEF LossInv
  <2> QED
    BY <2>1, <2>2
<1>2. ArrivedBy(h, m)
  BY <1>1, RecordsKept DEF LossInv
<1> QED
  BY <1>2, SafeStays DEF LossInv, NothingBehind

\* Steps that bring the run no further than it was.
LEMMA ReachedBefore ==
  ASSUME TypeInv, PagesInOrder, [SyncNext]_vars, NEW h, Reached(h)',
         ~(IncFetch \/ IncFetchCanceled \/ FullList),
         ~(IncCheckpoint /\ pc' = "incCursor"), ~(FullCheckpoint /\ pc' = "fullCursor")
  PROVE  Reached(h)
<1>1. CASE UNCHANGED <<cursor, pc, startHistory, profile, token, page>>
  <2>1. UNCHANGED PageFrom
    BY <1>1 DEF PageFrom
  <2> QED
    BY <1>1, <2>1 DEF Reached
<1>2. CASE IncStart
  BY <1>2 DEF IncStart, Reached
<1>3. CASE IncProfile
  <2>1. pc' = "incList" => PageFrom' = startHistory + 1
    BY <1>3 DEF IncProfile, PageFrom, PagesInOrder, NoToken
  <2>2. startHistory \in Int
    BY DEF TypeInv, SyncTypeOK
  <2> QED
    BY <1>3, <2>1, <2>2 DEF IncProfile, Reached, store
<1>4. CASE IncList
  <2>1. page'.from = PageFrom /\ pc' = "incLabels" /\ UNCHANGED cursor
    BY <1>4 DEF IncList, NoPage, store
  <2> QED
    BY <1>4, <2>1 DEF IncList, Reached
<1>5. CASE IncLabels \/ IncMark
  BY <1>5 DEF IncLabels, IncMark, Reached, process
<1>6. CASE IncCheckpoint /\ pc' = "incList"
  <2>1. next # NoToken /\ next = HistoryToken(page.to) /\ token' = next /\ UNCHANGED cursor
    BY <1>6 DEF IncCheckpoint, PagesInOrder, IncPage
  <2>2. PageFrom' = page.to + 1
    BY <2>1 DEF PageFrom, HistoryToken
  <2>3. page.to \in Int
    BY DEF TypeInv, SyncTypeOK
  <2> QED
    BY <1>6, <2>1, <2>2, <2>3 DEF IncCheckpoint, Reached
<1>7. CASE FullCursor \/ IncCursor
  BY <1>7 DEF FullCursor, IncCursor, BestEffort, Reached
<1>8. CASE UNCHANGED cursor /\ pc' \in {"idle", "fallback", "fullProfile", "fullList",
                    "fullFetch", "fullCheckpoint"}
  BY <1>8 DEF Reached
<1>9. CASE FullComplete \/ IncComplete
  BY <1>9 DEF FullComplete, IncComplete, Complete, Ends, Reached
<1> QED
  BY <1>1, <1>2, <1>3, <1>4, <1>5, <1>6, <1>7, <1>8, <1>9
     DEF SyncNext, SyncStep, MailboxChanges, HistoryExpires, Cancel, Kill, CallFails,
         FullStart, FullProfile, FullListRejected, FullFetch, FullFetchCanceled,
         FullCheckpoint, IncExpired, IncCheckpoint, Ends, process, store, vars

LEMMA NothingBehindStep ==
  ASSUME LossInv, [SyncNext]_vars
  PROVE  NothingBehind'
<1> USE SyncAssumption
<1> SUFFICES ASSUME NEW h \in 0..MaxHistory, NEW m \in Message,
                    Reached(h)', ArrivedBy(h, m)'
             PROVE  Safe(m)'
  BY DEF NothingBehind
<1>0. /\ Len(hist) \in Nat /\ Len(hist) <= MaxHistory /\ page.from \in Int
      /\ page.to \in 0..Len(hist) /\ profile \in 0..Len(hist) /\ page.from >= 1
      /\ page.to \in 0..MaxHistory /\ profile \in 0..MaxHistory
      /\ page.from <= page.to + 1 => page.from - 1 \in 0..MaxHistory
  <2>1. Len(hist) \in Nat
    BY HistoryKept DEF LossInv
  <2>2. /\ Len(hist) <= MaxHistory /\ page.from \in 1..MaxHistory + 1
        /\ page.to \in 0..Len(hist) /\ profile \in 0..Len(hist)
    BY DEF LossInv, TypeInv, SyncTypeOK
  <2>3. MaxHistory \in Nat
    BY DEF SyncAssumption
  <2> DEFINE n == Len(hist)
             f == page.from
             to == page.to
  <2>4. /\ n \in Nat /\ n <= MaxHistory /\ f \in 1..MaxHistory + 1
        /\ to \in 0..n /\ profile \in 0..n
    BY <2>1, <2>2
  <2> HIDE DEF n, f, to
  <2>5. /\ f \in Int /\ f >= 1 /\ to \in 0..MaxHistory /\ profile \in 0..MaxHistory
        /\ f <= to + 1 => f - 1 \in 0..MaxHistory
    BY <2>3, <2>4
  <2> QED
    BY <2>1, <2>2, <2>5 DEF n, f, to
<1>1. CASE Reached(h)
  BY <1>1, OldStaysSafe
<1>2. CASE IncFetch \/ IncFetchCanceled
  <2>1. /\ UNCHANGED <<hist, cursor, page>> /\ pc = "incFetch" /\ pc' = "incMark"
        /\ page.from <= page.to + 1
    BY <1>2 DEF IncFetch, IncFetchCanceled, mailbox, process, LossInv, PagesInOrder, IncPage
  <2>2. CASE h = cursor
    BY <2>2, <1>1 DEF Reached
  <2>3. CASE h = page.to /\ ~ArrivedBy(page.from - 1, m)
    <3>1. ArrivedBy(page.to, m) /\ m \in Arrived
      BY <2>1, <2>3, <1>0 DEF ArrivedBy, Arrived, Has
    <3>2. m \in ToFetch \cup archived
      BY <2>1, <2>3, <3>1, InPageOrBehind DEF LossInv
    <3>3. CASE IncFetch
      BY <2>1, <3>1, <3>2, <3>3, PageDealtWith DEF IncFetch, LossInv
    <3>4. CASE IncFetchCanceled
      <4>1. UNCHANGED archived /\ \E lost : RecordErrors(ToFetch, lost)
        BY <3>4 DEF IncFetchCanceled
      <4>2. m \in ToFetch => m \in canceledItems' \/ Item("fetch", m) \in failedItems' \cup lostItems'
        BY <4>1 DEF RecordErrors, Items
      <4> QED
        BY <3>2, <4>1, <4>2 DEF Safe, Failed, Lost
    <3> QED
      BY <1>2, <3>3, <3>4
  <2>4. CASE h = page.to /\ ArrivedBy(page.from - 1, m)
    <3>1. page.from - 1 \in 0..MaxHistory /\ Reached(page.from - 1)
      BY <1>0, <2>1 DEF Reached
    <3>2. Safe(m)
      BY <2>4, <3>1 DEF LossInv, NothingBehind
    <3> QED
      BY <3>2, SafeStays DEF LossInv
  <2>5. h = cursor \/ h = page.to
    BY <2>1 DEF Reached
  <2> QED
    BY <2>2, <2>3, <2>4, <2>5
<1>3. CASE IncCheckpoint /\ pc' = "incCursor"
  <2>1. /\ UNCHANGED <<cursor, profile, hist>> /\ pc = "incCheckpoint" /\ next = NoToken
        /\ profile <= page.to
    BY <1>3 DEF IncCheckpoint, mailbox, LossInv, PagesInOrder, IncPage, NoToken, HistoryToken
  <2>2. CASE h = cursor
    BY <2>2, <1>1 DEF Reached
  <2>3. CASE h = profile
    <3>1. ArrivedBy(h, m)
      BY <2>1 DEF ArrivedBy
    <3>2. ArrivedBy(page.to, m)
      BY <1>0, <2>1, <2>3, <3>1, EarlierToo
    <3>3. Reached(page.to)
      BY <2>1 DEF Reached
    <3>4. Safe(m)
      BY <1>0, <3>2, <3>3 DEF LossInv, NothingBehind
    <3> QED
      BY <3>4, SafeStays DEF LossInv
  <2> QED
    BY <1>3, <2>1, <2>2, <2>3 DEF Reached
<1>4. CASE FullCheckpoint /\ pc' = "fullCursor"
  <2>1. /\ UNCHANGED <<cursor, profile, hist>> /\ pc = "fullCheckpoint" /\ next = NoToken
    BY <1>4 DEF FullCheckpoint, mailbox
  <2>2. CASE h = cursor
    BY <2>2, <1>1 DEF Reached
  <2>3. CASE h = profile
    <3>1. ArrivedBy(h, m) /\ ~StillListed(m)
      BY <2>1 DEF ArrivedBy, StillListed, Further, NoToken
    <3>2. Safe(m)
      BY <2>1, <2>3, <3>1 DEF LossInv, ListedOrSafe, Listing
    <3> QED
      BY <3>2, SafeStays DEF LossInv
  <2> QED
    BY <1>4, <2>1, <2>2, <2>3 DEF Reached
<1>5. CASE FullList
  <2>1. /\ UNCHANGED <<cursor, profile, hist, store>> /\ pc = "fullList"
        /\ pc' \in {"fullCursor", "fullFetch"} /\ query = Message
    BY <1>5 DEF FullList, mailbox, process, store, LossInv, ListsAll, Listing
  <2>2. CASE h = cursor
    BY <2>2, <1>1 DEF Reached
  <2>3. CASE h = profile /\ pc' = "fullCursor"
    <3>1. ArrivedBy(h, m) /\ m \in Arrived
      BY <2>1 DEF ArrivedBy, Arrived, Has
    <3>2. Below = {}
      BY <1>5, <2>3 DEF FullList
    <3>3. Safe(m) \/ Further(token, m) \/ token.of # "list"
      BY <2>1, <2>3, <3>1 DEF LossInv, ListedOrSafe, Listing, StillListed
    <3>4. Safe(m)
      BY <2>1, <3>1, <3>2, <3>3 DEF Below, Live, Safe, Further
    <3> QED
      BY <3>4, SafeStays DEF LossInv
  <2> QED
    BY <2>1, <2>2, <2>3 DEF Reached
<1> QED
  BY <1>1, <1>2, <1>3, <1>4, <1>5, ReachedBefore DEF LossInv

LEMMA ListsAllStep ==
  ASSUME Queries \subseteq {Message}, LossInv, [SyncNext]_vars, ~ResumesList'
  PROVE  ListsAll'
<1> SUFFICES ASSUME pc' \in Listing \cup {"fullProfile"}
             PROVE  query' = Message
  BY DEF ListsAll
<1>1. CASE UNCHANGED <<pc, query>>
  BY <1>1 DEF LossInv, ListsAll
<1>2. CASE FullStart
  BY <1>2 DEF FullStart
<1>3. CASE FullProfile \/ FullList \/ FullFetch \/ FullCheckpoint
  BY <1>3 DEF FullProfile, FullList, FullFetch, FullCheckpoint, LossInv, ListsAll,
              Listing, process
<1> QED
  BY <1>1, <1>2, <1>3
     DEF SyncNext, SyncStep, MailboxChanges, HistoryExpires, Cancel, Kill, CallFails,
         FullListRejected, FullFetchCanceled, FullCursor, FullComplete, IncStart,
         IncProfile, IncList, IncExpired, IncLabels, IncFetch, IncFetchCanceled, IncMark,
         IncCheckpoint, IncCursor, IncComplete, Complete, Ends, process, store, vars, Listing

\* A list page passes over nothing: what it does not return comes below it.
LEMMA ListedBelow ==
  ASSUME TypeInv, FullList, NEW m \in Below
  PROVE  m \in page'.msgs \/ Further(next', m)
<1>1. Below \in SUBSET Message /\ Below # {}
  BY DEF Below, Live, Arrived
<1>2. page'.msgs = Newest(Below)
  BY DEF FullList, NoPage
<1>3. CASE m \in Newest(Below)
  BY <1>2, <1>3
<1>4. CASE m \notin Newest(Below)
  <2> DEFINE last == CHOOSE l \in Newest(Below) : \A n \in Newest(Below) : l <= n
  <2>1. last \in Message /\ m < last
    BY <1>1, <1>4, NewestIsTop
  <2>2. next' = ListToken(last)
    BY <1>4 DEF FullList
  <2> HIDE DEF last
  <2> QED
    BY <2>1, <2>2 DEF Further, ListToken
<1> QED
  BY <1>3, <1>4

LEMMA ListedOrSafeStep ==
  ASSUME LossInv, [SyncNext]_vars
  PROVE  ListedOrSafe'
<1> USE SyncAssumption
<1> SUFFICES ASSUME pc' \in Listing, NEW h \in 0..MaxHistory, NEW m \in Message,
                    h = profile', ArrivedBy(h, m)'
             PROVE  Safe(m)' \/ StillListed(m)'
  BY DEF ListedOrSafe
<1>0. profile \in 0..Len(hist) /\ Len(hist) \in Nat
  BY HistoryKept DEF LossInv, TypeInv, SyncTypeOK
<1>1. ASSUME h = profile PROVE ArrivedBy(h, m)
  BY <1>0, <1>1, RecordsKept DEF LossInv
<1>2. ASSUME Safe(m) PROVE Safe(m)'
  BY <1>2, SafeStays DEF LossInv
<1>3. CASE UNCHANGED <<pc, profile, token, page, next>>
  <2>1. Safe(m) \/ StillListed(m)
    BY <1>1, <1>3 DEF LossInv, ListedOrSafe
  <2> QED
    BY <1>2, <1>3, <2>1 DEF StillListed
<1>4. CASE FullProfile
  <2>1. pc' = "fullList" /\ token'.of # "list"
    BY <1>4 DEF FullProfile, LossInv, ListsAll, ResumesList
  <2> QED
    BY <2>1 DEF StillListed
<1>5. CASE FullList
  <2>1. /\ UNCHANGED <<profile, hist, store>> /\ pc = "fullList" /\ pc' = "fullFetch"
        /\ query = Message
    BY <1>5 DEF FullList, mailbox, process, store, LossInv, ListsAll, Listing
  <2>2. m \in Arrived
    BY <1>1, <2>1 DEF ArrivedBy, Arrived, Has
  <2>3. Safe(m) \/ token.of # "list" \/ Further(token, m)
    BY <1>1, <2>1 DEF LossInv, ListedOrSafe, Listing, StillListed
  <2>4. Safe(m) \/ m \in Below
    BY <2>1, <2>2, <2>3 DEF Below, Live, Safe, Further
  <2>5. m \in Below => m \in page'.msgs \/ Further(next', m)
    BY <1>5, ListedBelow DEF LossInv
  <2> QED
    BY <1>2, <2>1, <2>4, <2>5 DEF StillListed, Further
<1>6. CASE FullFetch
  <2>1. /\ UNCHANGED <<profile, hist, next, page>> /\ pc = "fullFetch"
        /\ pc' = "fullCheckpoint" /\ FetchPage
    BY <1>6 DEF FullFetch, mailbox, process
  <2>2. Safe(m) \/ m \in page.msgs \/ Further(next, m)
    BY <1>1, <2>1 DEF LossInv, ListedOrSafe, Listing, StillListed
  <2>3. ASSUME m \in page.msgs PROVE Safe(m)'
    <3>1. m \in ToFetch \cup archived
      BY <2>1, <2>3 DEF ToFetch
    <3>2. m \in Arrived
      BY <1>1, <2>1 DEF ArrivedBy, Arrived, Has
    <3> QED
      BY <2>1, <3>1, <3>2, PageDealtWith DEF LossInv
  <2> QED
    BY <1>2, <2>1, <2>2, <2>3 DEF StillListed, Further
<1>7. CASE FullCheckpoint
  <2>1. /\ UNCHANGED profile /\ pc = "fullCheckpoint" /\ pc' = "fullList" /\ token' = next
    BY <1>7 DEF FullCheckpoint, Listing
  <2>2. Safe(m) \/ Further(next, m)
    BY <1>1, <2>1 DEF LossInv, ListedOrSafe, Listing, StillListed
  <2> QED
    BY <1>2, <2>1, <2>2 DEF StillListed, Further
<1> QED
  BY <1>3, <1>4, <1>5, <1>6, <1>7
     DEF SyncNext, SyncStep, MailboxChanges, HistoryExpires, Cancel, Kill, CallFails,
         FullStart, FullListRejected, FullFetchCanceled, FullCursor, FullComplete, IncStart,
         IncProfile, IncList, IncExpired, IncLabels, IncFetch, IncFetchCanceled, IncMark,
         IncCheckpoint, IncCursor, IncComplete, Complete, Ends, process, store, vars, Listing

\* Full syncs that list the whole mailbox and go on from no list token of an
\* earlier one lose nothing: what arrived before the cursor is archived, gone or
\* on record as failed, through arrivals while they list, failing calls,
\* cancellations and kills.
THEOREM NothingIsLost ==
  ASSUME Queries \subseteq {Message}
  PROVE  SyncSpec => NothingLostAfresh
<1>1. SyncInit => LossInv
  <2> SUFFICES ASSUME SyncInit PROVE LossInv
    OBVIOUS
  <2>1. TypeInv
    BY TypeInvInit
  <2>2. /\ pc = "idle" /\ cursor = NoCursor
    BY DEF SyncInit
  <2> QED
    BY <2>1, <2>2, SyncAssumption
       DEF LossInv, PagesInOrder, ListsAll, NothingBehind, ListedOrSafe, Reached,
           IncPage, Listing, NoCursor, ResumesList
<1>2. LossInv /\ [SyncNext]_vars /\ ~ResumesList' => LossInv'
  BY TypeInvStep, PagesInOrderStep, ListsAllStep, NothingBehindStep, ListedOrSafeStep
     DEF LossInv
<1>3. LossInv => NoSilentLoss
  <2> SUFFICES ASSUME LossInv, NEW m \in Covered PROVE Safe(m)
    BY DEF NoSilentLoss, Safe
  <2>1. Len(hist) \in Nat /\ DOMAIN hist = 1..Len(hist)
    BY LenProperties DEF LossInv, TypeInv, SyncTypeOK
  <2>2. PICK i \in DOMAIN hist : i <= cursor /\ hist[i] = Record("added", m)
    BY DEF Covered
  <2>3. cursor \in 0..MaxHistory
    BY <2>1, <2>2, SyncAssumption DEF LossInv, TypeInv, SyncTypeOK, NoCursor
  <2>4. ArrivedBy(cursor, m) /\ Reached(cursor) /\ m \in Message
    BY <2>1, <2>2, <2>3 DEF ArrivedBy, Reached, Covered
  <2> QED
    BY <2>3, <2>4 DEF LossInv, NothingBehind
<1> QED
  BY <1>1, <1>2, <1>3, PTL DEF SyncSpec, NothingLostAfresh

\* With --noresume no full sync goes on from anything, so that nothing is lost.
COROLLARY NothingIsLostAfresh ==
  ASSUME NoResume \subseteq {TRUE}, Queries \subseteq {Message}
  PROVE  SyncSpec => []NoSilentLoss
<1>1. SyncInit => ~ResumesList
  BY DEF SyncInit, ResumesList
<1>2. ~ResumesList /\ [SyncNext]_vars => ~ResumesList'
  <2> SUFFICES ASSUME ~ResumesList, [SyncNext]_vars PROVE ~ResumesList'
    OBVIOUS
  <2>1. CASE UNCHANGED <<pc, token>>
    BY <2>1 DEF ResumesList
  <2>2. CASE FullStart
    <3>1. token' = NoToken
      BY <2>2, Zenon DEF FullStart
    <3> QED
      BY <3>1 DEF ResumesList, NoToken
  <2> QED
    BY <2>1, <2>2
       DEF SyncNext, SyncStep, MailboxChanges, HistoryExpires, Cancel, Kill, CallFails,
         FullProfile, FullList, FullListRejected, FullFetch, FullFetchCanceled,
         FullCheckpoint, FullCursor, FullComplete, IncStart,
         IncProfile, IncList, IncExpired, IncLabels, IncFetch, IncFetchCanceled, IncMark,
         IncCheckpoint, IncCursor, IncComplete, Complete, Ends, process, store, vars,
         ResumesList
<1> QED
  BY <1>1, <1>2, NothingIsLost, PTL DEF SyncSpec, NothingLostAfresh

-----------------------------------------------------------------------------
(* What the archive has not yet taken over lies ahead.                     *)

LabelAhead(h, m) ==
  m \notin staleLabels /\ (m \in labelled) # (m \in Labelled) =>
    \E i \in LabelOps(m) : i > h

DeletionAhead(h, m) ==
  m \in Gone \ (marked \cup Failed("delete") \cup Lost("delete")) =>
    \E i \in DOMAIN hist : i > h /\ hist[i] = Record("deleted", m)

LEMMA LastOp ==
  ASSUME TypeInv, NEW S \in SUBSET DOMAIN hist, S # {}
  PROVE  LastOf(S) \in S /\ (\A i \in S : i <= LastOf(S)) /\ S \subseteq Nat
<1>1. S \in SUBSET (0..Len(hist)) /\ Len(hist) \in Nat
  BY LenProperties DEF TypeInv, SyncTypeOK
<1>2. \E x \in S : \A y \in S : y <= x
  BY <1>1, Largest
<1> QED
  BY <1>1, <1>2 DEF LastOf

\* A change of the mailbox comes behind every position: of a message that is
\* archived, either nothing changes or the new record is ahead.
LEMMA ChangeIsAhead ==
  ASSUME TypeInv, ArchiveTrue, MailboxChanges, NEW m \in archived, NEW h \in 0..Len(hist)
  PROVE  /\ LabelAhead(h, m) => LabelAhead(h, m)'
         /\ DeletionAhead(h, m) => DeletionAhead(h, m)'
<1>1. /\ Len(hist) \in Nat /\ Len(hist') = Len(hist) + 1
      /\ DOMAIN hist = 1..Len(hist) /\ DOMAIN hist' = 1..Len(hist) + 1
      /\ \A i \in 1..Len(hist) : hist'[i] = hist[i]
  BY HistoryGrows
<1>2. PICK op \in HistoryOp, k \in Message :
        hist'[Len(hist) + 1] = Record(op, k) /\ (op # "added" => k \in Arrived)
  BY HistoryGrows
<1>3. UNCHANGED <<archived, labelled, marked, failedItems, lostItems, staleLabels>>
  BY DEF MailboxChanges, store, items
<1>4. \A i \in DOMAIN hist : i \in DOMAIN hist' /\ hist'[i] = hist[i]
  BY <1>1
<1>5. Len(hist) + 1 \in DOMAIN hist' /\ Len(hist) + 1 > h
  BY <1>1
<1>6. m \in Message /\ m \in Arrived /\ m \in Arrived'
  <2>1. m \in Message /\ m \in Arrived
    BY DEF ArchiveTrue, TypeInv, SyncTypeOK
  <2> QED
    BY <1>4, <2>1 DEF Arrived, Has
<1>7. CASE op \in {"labelled", "unlabelled"} /\ k = m
  <2>1. Len(hist) + 1 \in LabelOps(m)'
    BY <1>2, <1>5, <1>7 DEF LabelOps, Record
  <2>2. LabelAhead(h, m)'
    BY <1>5, <2>1 DEF LabelAhead
  <2>3. Gone' = Gone
    BY <1>1, <1>2, <1>4, <1>7 DEF Gone, Has, Record
  <2>4. DeletionAhead(h, m) => DeletionAhead(h, m)'
    BY <1>3, <1>4, <2>3 DEF DeletionAhead, Failed, Lost
  <2> QED
    BY <2>2, <2>4
<1>8. CASE ~(op \in {"labelled", "unlabelled"} /\ k = m)
  <2>1. LabelOps(m)' = LabelOps(m)
    BY <1>1, <1>2, <1>4, <1>8 DEF LabelOps, Record
  <2>2. m \in Labelled' <=> m \in Labelled
    <3>1. CASE LabelOps(m) = {}
      BY <1>6, <2>1, <3>1 DEF Labelled
    <3>2. CASE LabelOps(m) # {}
      <4>1. LabelOps(m) \in SUBSET DOMAIN hist
        BY DEF LabelOps
      <4>2. LastOf(LabelOps(m)) \in DOMAIN hist
        BY <3>2, <4>1, LastOp
      <4>3. hist'[LastOf(LabelOps(m))] = hist[LastOf(LabelOps(m))]
        BY <1>4, <4>2
      <4>4. LastOf(LabelOps(m))' = LastOf(LabelOps(m))
        BY <2>1 DEF LastOf
      <4> QED
        BY <1>6, <2>1, <3>2, <4>3, <4>4 DEF Labelled
    <3> QED
      BY <3>1, <3>2
  <2>3. LabelAhead(h, m) => LabelAhead(h, m)'
    BY <1>3, <2>1, <2>2 DEF LabelAhead
  <2>4. CASE op = "deleted" /\ k = m
    BY <1>2, <1>5, <2>3, <2>4 DEF DeletionAhead
  <2>5. CASE ~(op = "deleted" /\ k = m)
    <3>1. m \in Gone' <=> m \in Gone
      BY <1>1, <1>2, <1>4, <2>5 DEF Gone, Has, Record
    <3>2. DeletionAhead(h, m) => DeletionAhead(h, m)'
      BY <1>3, <1>4, <3>1 DEF DeletionAhead, Failed, Lost
    <3> QED
      BY <2>3, <3>2
  <2> QED
    BY <2>4, <2>5
<1> QED
  BY <1>7, <1>8

\* A message is archived with the labels it has, while the mailbox has it.
LEMMA IngestAhead ==
  ASSUME NEW S \in SUBSET Live, Ingest(S), UNCHANGED <<hist, marked, staleLabels>>,
         failedItems \subseteq failedItems', lostItems \subseteq lostItems', NEW m \in archived', NEW h
  PROVE  /\ (m \in archived => LabelAhead(h, m)) => LabelAhead(h, m)'
         /\ (m \in archived => DeletionAhead(h, m)) => DeletionAhead(h, m)'
<1>1. /\ \A n : LabelOps(n)' = LabelOps(n)
      /\ UNCHANGED <<Labelled, Gone, Arrived>>
  BY DEF LabelOps, Labelled, Gone, Arrived, Has, LastOf
<1>2. Failed("delete") \subseteq Failed("delete")' /\ Lost("delete") \subseteq Lost("delete")'
  BY DEF Failed, Lost
<1>3. CASE m \in S
  BY <1>1, <1>3 DEF Ingest, LabelAhead, DeletionAhead, Live
<1>4. CASE m \notin S
  BY <1>1, <1>2, <1>4 DEF Ingest, LabelAhead, DeletionAhead
<1> QED
  BY <1>3, <1>4

\* The label changes of a page's first records bring the archive from where
\* the page begins to where they end, and undo nothing that lies ahead; a message
\* whose last change they pass over is known to be stale.
LEMMA LabelsAhead ==
  ASSUME TypeInv, ArchiveTrue, NEW to \in Int, NEW failed, NEW skipped,
         ApplyLabels(to, failed, skipped), UNCHANGED <<hist, marked>>,
         failedItems \subseteq failedItems', lostItems \subseteq lostItems',
         NEW m \in archived', NEW h \in Int
  PROVE  /\ h < page.from => ((m \in archived => LabelAhead(h, m)) => LabelAhead(h, m)')
         /\ (m \in archived => LabelAhead(page.from - 1, m)) /\ h = to => LabelAhead(h, m)'
         /\ (m \in archived => DeletionAhead(h, m)) => DeletionAhead(h, m)'
<1> DEFINE ops == PageOps(m, to)
           fetched == (LabelFetches(to) \ failed) \cap Live
<1>1. /\ LabelOps(m)' = LabelOps(m)
      /\ UNCHANGED <<Labelled, Gone, Arrived>>
  BY DEF LabelOps, Labelled, Gone, Arrived, Has, LastOf
<1>2. /\ Failed("delete") \subseteq Failed("delete")' /\ Lost("delete") \subseteq Lost("delete")'
      /\ page.from \in Int /\ DOMAIN hist = 1..Len(hist) /\ Len(hist) \in Nat
  BY LenProperties DEF Failed, Lost, TypeInv, SyncTypeOK
<1>3. m \notin archived => m \in fetched
  BY DEF ApplyLabels
<1>4. CASE m \in fetched
  <2>1. m \notin archived /\ m \in Live
    BY <1>4 DEF LabelFetches
  <2>2. m \in labelled' <=> m \in Labelled
    <3>1. m \notin labelled
      BY <2>1 DEF TypeInv, SyncTypeOK
    <3> QED
      BY <1>4, <2>1, <3>1 DEF ApplyLabels
  <2> QED
    BY <1>1, <2>1, <2>2 DEF LabelAhead, DeletionAhead, Live
<1>5. CASE m \notin fetched
  <2>1. m \in archived /\ m \in Message /\ m \in Arrived
    BY <1>3, <1>5 DEF ArchiveTrue, TypeInv, SyncTypeOK
  <2>2. (m \in archived => DeletionAhead(h, m)) => DeletionAhead(h, m)'
    BY <1>1, <1>2, <2>1 DEF DeletionAhead
  <2>3. LabelOps(m) \subseteq 1..Len(hist) /\ \A i \in LabelOps(m) : i \in Int
    BY <1>2 DEF LabelOps
  <2>4. ops \subseteq LabelOps(m) /\ \A i \in ops : page.from <= i /\ i <= to
    BY <1>2, <2>3 DEF PageOps
  <2>5. ASSUME NEW i \in LabelOps(m), i >= page.from, i <= to PROVE i \in ops
    BY <1>2, <2>3, <2>5 DEF PageOps
  <2>6. CASE ops = {}
    <3>1. /\ m \in labelled' <=> m \in labelled
          /\ m \in staleLabels' <=> m \in staleLabels
      BY <1>5, <2>1, <2>6 DEF ApplyLabels
    <3>2. (m \in archived => LabelAhead(h, m)) => LabelAhead(h, m)'
      BY <1>1, <2>1, <3>1 DEF LabelAhead
    <3>3. ASSUME LabelAhead(page.from - 1, m), h = to, m \notin staleLabels',
                 (m \in labelled') # (m \in Labelled)
          PROVE  \E i \in LabelOps(m) : i > h
      <4>1. PICK i \in LabelOps(m) : i > page.from - 1
        BY <3>1, <3>3 DEF LabelAhead
      <4>2. i >= page.from /\ i \in Int
        BY <1>2, <2>3, <4>1
      <4>3. i > to
        BY <2>5, <2>6, <4>2
      <4> QED
        BY <3>3, <4>3
    <3>4. LabelAhead(page.from - 1, m) /\ h = to => LabelAhead(h, m)'
      BY <1>1, <3>3 DEF LabelAhead
    <3> QED
      BY <2>1, <2>2, <3>2, <3>4
  <2>7. CASE ops # {} /\ LastOf(ops) \in skipped
    <3>1. m \in staleLabels'
      BY <2>1, <2>7 DEF ApplyLabels
    <3> QED
      BY <2>2, <3>1 DEF LabelAhead
  <2>8. CASE ops # {} /\ LastOf(ops) \notin skipped
    <3> DEFINE last == LastOf(ops)
               final == LastOf(LabelOps(m))
    <3>1. last \in ops /\ \A i \in ops : i <= last
      <4>1. ops \in SUBSET DOMAIN hist
        BY <1>2, <2>3, <2>4
      <4> HIDE DEF ops
      <4> QED
        BY <2>8, <4>1, LastOp
    <3>2. LabelOps(m) # {} /\ final \in LabelOps(m) /\ \A i \in LabelOps(m) : i <= final
      <4>1. LabelOps(m) \in SUBSET DOMAIN hist /\ LabelOps(m) # {}
        BY <1>2, <2>3, <2>4, <2>8
      <4> QED
        BY <4>1, LastOp
    <3>9. LastOf(ops \ skipped) = last
      <4>1. /\ ops \ skipped \in SUBSET DOMAIN hist /\ last \in ops \ skipped
            /\ \A i \in ops : i \in Int
        BY <1>2, <2>3, <2>4, <2>8, <3>1
      <4> HIDE DEF ops, last
      <4>2. /\ LastOf(ops \ skipped) \in ops \ skipped
            /\ \A i \in ops \ skipped : i <= LastOf(ops \ skipped)
        BY <4>1, LastOp
      <4>3. last <= LastOf(ops \ skipped) /\ LastOf(ops \ skipped) <= last
        BY <3>1, <4>1, <4>2
      <4> QED
        BY <4>1, <4>2, <4>3
    <3>3. m \in labelled' <=> hist[last].op = "labelled"
      <4>1. ops \ skipped # {}
        BY <2>8, <3>1
      <4> QED
        BY <1>5, <2>1, <3>9, <4>1 DEF ApplyLabels
    <3>4. m \in Labelled <=> hist[final].op = "labelled"
      BY <2>1, <3>2 DEF Labelled
    <3> HIDE DEF ops, last, final, fetched
    <3>5. last \in Int /\ final \in Int /\ last >= page.from /\ last <= to /\ final >= last
      BY <2>3, <2>4, <3>1, <3>2
    <3>6. ASSUME (m \in labelled') # (m \in Labelled)
          PROVE  final > to
      <4>1. final # last
        BY <3>3, <3>4, <3>6
      <4>2. final > last
        BY <3>5, <4>1
      <4>3. ~(final \in ops)
        BY <3>1, <3>5, <4>2
      <4> QED
        BY <1>2, <2>5, <3>2, <3>5, <4>3
    <3>7. ASSUME (m \in labelled') # (m \in Labelled), h < page.from \/ h = to
          PROVE  final > h
      BY <1>2, <3>5, <3>6, <3>7
    <3>8. h < page.from \/ h = to => LabelAhead(h, m)'
      BY <1>1, <3>2, <3>7 DEF LabelAhead
    <3> QED
      BY <2>2, <3>8
  <2> QED
    BY <2>6, <2>7, <2>8
<1> QED
  BY <1>4, <1>5

\* The deletions of the page are marked or on record: the others lie behind it.
LEMMA MarksAhead ==
  ASSUME TypeInv, IncMark, NEW m \in archived, NEW h \in Int
  PROVE  /\ DeletionAhead(h, m) => DeletionAhead(h, m)'
         /\ DeletionAhead(page.from - 1, m) /\ h = page.to => DeletionAhead(h, m)'
<1>1. /\ UNCHANGED <<hist, archived>> /\ marked \subseteq marked'
      /\ failedItems \subseteq failedItems' /\ lostItems \subseteq lostItems'
  BY DEF IncMark, mailbox
<1>2. /\ UNCHANGED Gone /\ Failed("delete") \subseteq Failed("delete")'
      /\ Lost("delete") \subseteq Lost("delete")'
  BY <1>1 DEF Gone, Has, Failed, Lost
<1>3. DeletionAhead(h, m) => DeletionAhead(h, m)'
  BY <1>1, <1>2 DEF DeletionAhead
<1>4. ASSUME m \in DeletedByPage
      PROVE  m \in marked' \cup Failed("delete")' \cup Lost("delete")'
  <2>1. m \in marked' \/ Item("delete", m) \in failedItems' \cup lostItems'
    BY <1>4 DEF IncMark, Items
  <2> QED
    BY <1>4, <2>1 DEF Failed, Lost, DeletedByPage
<1>5. ASSUME DeletionAhead(page.from - 1, m),
             m \in Gone' \ (marked' \cup Failed("delete")' \cup Lost("delete")')
      PROVE  \E i \in DOMAIN hist : i > page.to /\ hist[i] = Record("deleted", m)
  <2>1. PICK i \in DOMAIN hist : i > page.from - 1 /\ hist[i] = Record("deleted", m)
    BY <1>1, <1>2, <1>5 DEF DeletionAhead
  <2>2. i \in Int /\ page.from \in Int /\ page.to \in Int /\ m \in Message
    BY <2>1, LenProperties DEF TypeInv, SyncTypeOK
  <2>3. ~(i \in page.from..page.to)
    BY <1>4, <1>5, <2>1, <2>2 DEF DeletedByPage
  <2> QED
    BY <2>1, <2>2, <2>3
<1> QED
  BY <1>1, <1>3, <1>5 DEF DeletionAhead

FullWork == {"fullList", "fullFetch", "fullCheckpoint", "fullCursor"}

\* How far labels and deletions have been taken over from the history.
Replayed(h) ==
  \/ h = cursor
  \/ pc \in FullWork \cup {"incCursor"} /\ h = profile
  \/ pc = "incProfile" /\ h = startHistory
  \/ pc = "incList" /\ h = PageFrom - 1
  \/ pc = "incCheckpoint" /\ h = page.to

LabelsReplayed(h) ==
  \/ Replayed(h)
  \/ pc = "incLabels" /\ h = page.from - 1
  \/ pc \in {"incFetch", "incMark"} /\ h = page.to

DeletionsReplayed(h) ==
  \/ Replayed(h)
  \/ pc \in {"incLabels", "incFetch", "incMark"} /\ h = page.from - 1

\* Until the first full sync there is nothing; while it runs there is no
\* cursor; and an incremental sync leaves the cursor where it started.
OneFull ==
  /\ fulls = 0 => archived = {} /\ cursor = NoCursor /\ pc = "idle"
  /\ fulls = 1 =>
       /\ pc = "fullProfile" => archived = {}
       /\ pc \in FullWork \cup {"fullProfile"} => cursor = NoCursor
       /\ pc \in {"incProfile", "incList", "incCursor"} \cup IncPage => cursor = startHistory

LabelsBehind ==
  fulls = 1 => \A h \in 0..MaxHistory, m \in archived : LabelsReplayed(h) => LabelAhead(h, m)
DeletionsBehind ==
  fulls = 1 => \A h \in 0..MaxHistory, m \in archived : DeletionsReplayed(h) => DeletionAhead(h, m)

AheadInv ==
  /\ TypeInv /\ PagesInOrder /\ ArchiveTrue /\ OneFull
  /\ LabelsBehind /\ DeletionsBehind

LEMMA OneFullStep ==
  ASSUME TypeInv, OneFull, [SyncNext]_vars
  PROVE  OneFull'
<1>0. fulls \in 0..2
  BY DEF TypeInv, SyncTypeOK
<1>1. CASE UNCHANGED <<fulls, archived, cursor, pc, startHistory>>
  BY <1>1 DEF OneFull
<1>2. CASE FullStart
  <2>1. CASE fulls = 0
    BY <1>2, <2>1 DEF FullStart, OneFull, IncPage, FullWork
  <2>2. CASE fulls # 0
    BY <1>0, <1>2, <2>2 DEF FullStart, OneFull
  <2> QED
    BY <2>1, <2>2
<1>3. CASE /\ UNCHANGED <<fulls, cursor>> /\ pc # "idle"
           /\ pc' \in {"idle", "fallback", "fullComplete", "incComplete"}
  BY <1>3 DEF OneFull, FullWork, IncPage
<1>4. CASE FullProfile \/ FullList \/ FullFetch \/ FullCheckpoint
  BY <1>4 DEF FullProfile, FullList, FullFetch, FullCheckpoint, OneFull, FullWork, IncPage,
              process, store
<1>5. CASE IncStart
  BY <1>5 DEF IncStart, OneFull, FullWork, IncPage
<1>6. CASE IncProfile \/ IncList \/ IncLabels \/ IncFetch \/ IncFetchCanceled \/ IncMark
           \/ IncCheckpoint
  BY <1>6 DEF IncProfile, IncList, IncLabels, IncFetch, IncFetchCanceled, IncMark,
              IncCheckpoint, OneFull, FullWork, IncPage, process, store
<1>7. CASE FullCursor \/ IncCursor
  BY <1>7 DEF FullCursor, IncCursor, OneFull, FullWork, IncPage
<1> QED
  BY <1>1, <1>2, <1>3, <1>4, <1>5, <1>6, <1>7
     DEF SyncNext, SyncStep, MailboxChanges, HistoryExpires, Cancel, Kill, CallFails,
         FullListRejected, FullFetchCanceled, FullComplete, IncExpired, IncComplete,
         Complete, Ends, process, store, vars

LEMMA ReplayedInHistory ==
  ASSUME TypeInv, PagesInOrder, NEW h, LabelsReplayed(h) \/ DeletionsReplayed(h)
  PROVE  h <= Len(hist)
<1>1. /\ Len(hist) \in Nat /\ page.from \in Int /\ page.to \in 0..Len(hist)
      /\ startHistory \in 0..Len(hist) /\ profile \in 0..Len(hist)
      /\ cursor \in {NoCursor} \cup 0..Len(hist)
  BY LenProperties DEF TypeInv, SyncTypeOK
<1>2. pc = "incList" => PageFrom \in Int
  <2>1. token.of = "history" => token.at \in Int
    BY DEF TypeInv, SyncTypeOK, Token, NoToken, ListToken, HistoryToken
  <2> QED
    BY <1>1, <2>1 DEF PageFrom
<1> QED
  BY <1>1, <1>2 DEF Replayed, LabelsReplayed, DeletionsReplayed, PagesInOrder, IncPage, NoCursor

\* Steps that bring the run no further than it was.
LEMMA ReplayedBefore ==
  ASSUME TypeInv, PagesInOrder, [SyncNext]_vars, NEW h,
         ~FullProfile, ~(IncCheckpoint /\ pc' = "incCursor")
  PROVE  /\ LabelsReplayed(h)' /\ ~IncLabels => LabelsReplayed(h)
         /\ DeletionsReplayed(h)' /\ ~IncMark => DeletionsReplayed(h)
<1> USE DEF LabelsReplayed, DeletionsReplayed, Replayed
<1>1. CASE UNCHANGED <<cursor, pc, startHistory, profile, token, page>>
  <2>1. UNCHANGED PageFrom
    BY <1>1 DEF PageFrom
  <2> QED
    BY <1>1, <2>1
<1>2. CASE IncStart
  BY <1>2 DEF IncStart, FullWork
<1>3. CASE IncProfile
  <2>1. pc' = "incList" => PageFrom' = startHistory + 1
    BY <1>3 DEF IncProfile, PageFrom, PagesInOrder, NoToken
  <2>2. startHistory \in Int
    BY DEF TypeInv, SyncTypeOK
  <2> QED
    BY <1>3, <2>1, <2>2 DEF IncProfile, store, FullWork
<1>4. CASE IncList
  <2>1. page'.from = PageFrom /\ pc' = "incLabels" /\ UNCHANGED cursor
    BY <1>4 DEF IncList, NoPage, store
  <2> QED
    BY <1>4, <2>1 DEF IncList, FullWork
<1>5. CASE IncLabels \/ IncMark \/ IncFetch \/ IncFetchCanceled
  BY <1>5 DEF IncLabels, IncMark, IncFetch, IncFetchCanceled, process, FullWork
<1>6. CASE IncCheckpoint /\ pc' = "incList"
  <2>1. next # NoToken /\ next = HistoryToken(page.to) /\ token' = next /\ UNCHANGED cursor
    BY <1>6 DEF IncCheckpoint, PagesInOrder, IncPage
  <2>2. PageFrom' = page.to + 1
    BY <2>1 DEF PageFrom, HistoryToken
  <2>3. page.to \in Int
    BY DEF TypeInv, SyncTypeOK
  <2> QED
    BY <1>6, <2>1, <2>2, <2>3 DEF IncCheckpoint, FullWork
<1>7. CASE FullCursor \/ IncCursor
  BY <1>7 DEF FullCursor, IncCursor, BestEffort, FullWork
<1>8. CASE UNCHANGED cursor /\ pc' \in {"idle", "fallback", "fullProfile"}
  BY <1>8 DEF FullWork
<1>9. CASE FullComplete \/ IncComplete
  BY <1>9 DEF FullComplete, IncComplete, Complete, Ends, FullWork
<1>10. CASE FullList \/ FullFetch \/ FullCheckpoint
  BY <1>10 DEF FullList, FullFetch, FullCheckpoint, FullWork, process, store
<1> QED
  BY <1>1, <1>2, <1>3, <1>4, <1>5, <1>6, <1>7, <1>8, <1>9, <1>10
     DEF SyncNext, SyncStep, MailboxChanges, HistoryExpires, Cancel, Kill, CallFails,
         FullStart, FullListRejected, FullFetchCanceled,
         IncExpired, IncCheckpoint, Ends, process, store, vars

\* Every step keeps what lies ahead of a position ahead of it, and archives
\* nothing that would have to.
LEMMA AheadKept ==
  ASSUME TypeInv, ArchiveTrue, [SyncNext]_vars, NEW m \in archived', NEW h \in 0..Len(hist)
  PROVE  /\ (pc = "incLabels" => h < page.from) /\ (m \in archived => LabelAhead(h, m))
              => LabelAhead(h, m)'
         /\ (m \in archived => DeletionAhead(h, m)) => DeletionAhead(h, m)'
<1>0. h \in Int /\ failedItems \subseteq failedItems' /\ lostItems \subseteq lostItems'
  BY ErrorsKept
<1>1. CASE MailboxChanges
  <2>1. m \in archived
    BY <1>1 DEF MailboxChanges, store
  <2> QED
    BY <1>1, <2>1, ChangeIsAhead
<1>2. CASE UNCHANGED <<hist, archived, labelled, marked, staleLabels>>
  <2>1. /\ LabelOps(m)' = LabelOps(m) /\ UNCHANGED <<Labelled, Gone>>
        /\ Failed("delete") \subseteq Failed("delete")'
        /\ Lost("delete") \subseteq Lost("delete")'
    BY <1>0, <1>2 DEF LabelOps, Labelled, Gone, Arrived, Has, LastOf, Failed, Lost
  <2> QED
    BY <1>2, <2>1 DEF LabelAhead, DeletionAhead
<1>3. CASE \E S \in SUBSET Live : Ingest(S) /\ UNCHANGED <<hist, marked, staleLabels>>
  BY <1>0, <1>3, IngestAhead
<1>4. CASE /\ pc = "incLabels" /\ UNCHANGED <<hist, marked>>
           /\ \E to \in Int : \E failed, skipped : ApplyLabels(to, failed, skipped)
  BY <1>0, <1>4, LabelsAhead
<1>5. CASE IncMark
  <2>1. UNCHANGED <<hist, archived, labelled, staleLabels>>
    BY <1>5 DEF IncMark, mailbox
  <2>2. LabelOps(m)' = LabelOps(m) /\ UNCHANGED Labelled
    BY <2>1 DEF LabelOps, Labelled, Arrived, Has, LastOf
  <2>3. LabelAhead(h, m) => LabelAhead(h, m)'
    BY <2>1, <2>2 DEF LabelAhead
  <2> QED
    BY <1>0, <1>5, <2>1, <2>3, MarksAhead
<1>6. CASE FullFetch \/ IncFetch
  <2>1. UNCHANGED <<hist, marked>> /\ FetchPage
    BY <1>6 DEF FullFetch, IncFetch, mailbox
  <2>2. UNCHANGED staleLabels /\ \E S \in SUBSET Live : Ingest(S)
    BY <2>1 DEF FetchPage
  <2> QED
    BY <1>3, <2>1, <2>2
<1>7. CASE IncLabels
  <2>1. page.to \in Int
    BY DEF TypeInv, SyncTypeOK
  <2>2. /\ UNCHANGED <<hist, marked>> /\ pc = "incLabels"
        /\ \E failed, skipped : ApplyLabels(page.to, failed, skipped)
    BY <1>7 DEF IncLabels, mailbox
  <2> QED
    BY <1>4, <2>1, <2>2
<1>8. CASE Kill
  <2>1. UNCHANGED <<hist, marked>>
    BY <1>8 DEF Kill, mailbox
  <2>2. CASE UNCHANGED staleLabels /\ \E S \in SUBSET (ToFetch \cap Live) : Ingest(S)
    BY <1>3, <2>1, <2>2
  <2>3. CASE pc = "incLabels" /\ \E to \in Int : \E failed, skipped : ApplyLabels(to, failed, skipped)
    BY <1>4, <2>1, <2>3
  <2> QED
    BY <1>2, <1>8, <2>1, <2>2, <2>3 DEF Kill
<1>9. CASE Aside /\ ~MailboxChanges /\ ~IncMark
  <2>1. UNCHANGED <<archived, labelled, staleLabels>>
    BY <1>9, AsideKeeps
  <2>2. UNCHANGED <<hist, marked>>
    BY <1>9 DEF Aside, HistoryExpires, Cancel, CallFails, FullStart,
       FullProfile, FullList, FullListRejected, FullFetchCanceled,
       FullCheckpoint, FullCursor, FullComplete, IncStart, IncProfile, IncList,
       IncExpired, IncFetchCanceled, IncCheckpoint, IncCursor,
       IncComplete, Complete, mailbox, store, vars
  <2> QED
    BY <1>2, <2>1, <2>2
<1> QED
  BY <1>1, <1>5, <1>6, <1>7, <1>8, <1>9 DEF Aside, SyncNext, SyncStep

\* While the archive has seen one full sync, a step is one of that sync or an
\* incremental one.
LEMMA OneFullSoFar ==
  ASSUME TypeInv, OneFull, [SyncNext]_vars, fulls' = 1, NEW m \in archived'
  PROVE  fulls = 1 /\ ~FullProfile
<1>1. CASE FullStart
  <2>1. fulls = 0
    BY <1>1 DEF FullStart, TypeInv, SyncTypeOK
  <2> QED
    BY <1>1, <2>1 DEF FullStart, OneFull
<1>2. CASE ~FullStart
  <2>1. UNCHANGED fulls
    BY <1>2 DEF SyncNext, SyncStep, MailboxChanges, HistoryExpires, Cancel, Kill, CallFails,
         FullProfile, FullList, FullListRejected, FullFetch, FullFetchCanceled,
         FullCheckpoint, FullCursor, FullComplete, IncStart, IncProfile, IncList,
         IncExpired, IncLabels, IncFetch, IncFetchCanceled, IncMark,
         IncCheckpoint, IncCursor, IncComplete, Complete, vars
  <2>2. ~FullProfile
    BY <2>1 DEF FullProfile, OneFull, store
  <2> QED
    BY <2>1, <2>2
<1> QED
  BY <1>1, <1>2

\* Positions the next step does not pass stay in the history.
LEMMA PositionKept ==
  ASSUME TypeInv, PagesInOrder, NEW h \in 0..MaxHistory,
         LabelsReplayed(h) \/ DeletionsReplayed(h)
  PROVE  h \in 0..Len(hist)
<1>1. h <= Len(hist)
  BY ReplayedInHistory
<1>2. Len(hist) \in Nat /\ h \in Nat
  BY SyncAssumption, LenProperties DEF TypeInv, SyncTypeOK
<1> QED
  BY <1>1, <1>2

\* The cursor of an incremental sync is taken where its last page ends, or
\* before that.
LEMMA CursorFollows ==
  ASSUME AheadInv, IncCheckpoint, pc' = "incCursor", NEW h \in 0..MaxHistory,
         LabelsReplayed(h)' \/ DeletionsReplayed(h)'
  PROVE  \E g \in 0..Len(hist) : Replayed(g) /\ h <= g
<1>1. /\ UNCHANGED <<cursor, profile, hist>> /\ pc = "incCheckpoint" /\ next = NoToken
      /\ profile <= page.to
  BY DEF IncCheckpoint, mailbox, AheadInv, PagesInOrder, IncPage, NoToken, HistoryToken
<1>2. page.to \in 0..Len(hist) /\ h \in Int
  BY DEF AheadInv, TypeInv, SyncTypeOK
<1>3. CASE h = cursor
  <2>1. LabelsReplayed(h) /\ Replayed(h)
    BY <1>3 DEF LabelsReplayed, Replayed
  <2>2. h \in 0..Len(hist)
    BY <2>1, PositionKept DEF AheadInv
  <2> QED
    BY <1>2, <2>1, <2>2
<1>4. CASE h = profile
  BY <1>1, <1>2, <1>4 DEF Replayed
<1>5. h = cursor \/ h = profile
  BY <1>1 DEF LabelsReplayed, DeletionsReplayed, Replayed
<1> QED
  BY <1>3, <1>4, <1>5

LEMMA LabelsBehindStep ==
  ASSUME AheadInv, [SyncNext]_vars
  PROVE  LabelsBehind'
<1> SUFFICES ASSUME fulls' = 1, NEW h \in 0..MaxHistory, NEW m \in archived',
                    LabelsReplayed(h)'
             PROVE  LabelAhead(h, m)'
  BY DEF LabelsBehind
<1>0. fulls = 1 /\ ~FullProfile /\ h \in Int
  BY OneFullSoFar DEF AheadInv
<1>1. ASSUME NEW g \in 0..MaxHistory, LabelsReplayed(g), m \in archived PROVE LabelAhead(g, m)
  BY <1>0, <1>1 DEF AheadInv, LabelsBehind
<1>2. ASSUME LabelsReplayed(h), ~IncLabels PROVE LabelAhead(h, m)'
  <2>1. h \in 0..Len(hist)
    BY <1>2, PositionKept DEF AheadInv
  <2>2. pc = "incLabels" => h < page.from
    <3>1. /\ page.from \in Int
          /\ pc = "incLabels" => cursor = startHistory /\ startHistory < page.from
      BY <1>0 DEF AheadInv, TypeInv, SyncTypeOK, OneFull, PagesInOrder, IncPage
    <3> QED
      BY <1>0, <1>2, <3>1 DEF LabelsReplayed, Replayed, FullWork
  <2> QED
    BY <1>1, <1>2, <2>1, <2>2, AheadKept DEF AheadInv
<1>3. CASE IncCheckpoint /\ pc' = "incCursor"
  <2>1. PICK g \in 0..Len(hist) : Replayed(g) /\ h <= g
    BY <1>3, CursorFollows
  <2>2. g \in 0..MaxHistory
    BY SyncAssumption, LenProperties DEF AheadInv, TypeInv, SyncTypeOK
  <2>3. m \in archived => LabelAhead(g, m)
    BY <1>1, <2>1, <2>2 DEF LabelsReplayed
  <2>4. LabelAhead(g, m)'
    BY <1>3, <2>3, AheadKept DEF AheadInv, IncCheckpoint
  <2>5. UNCHANGED hist
    BY <1>3 DEF IncCheckpoint, mailbox
  <2>6. \A i \in LabelOps(m)' : i \in Int
    BY <2>5, LenProperties DEF LabelOps, AheadInv, TypeInv, SyncTypeOK
  <2> QED
    BY <1>0, <2>1, <2>4, <2>6 DEF LabelAhead
<1>4. CASE IncLabels
  <2>1. /\ UNCHANGED <<hist, marked, page, cursor>> /\ pc = "incLabels" /\ pc' = "incFetch"
        /\ \E failed, skipped : ApplyLabels(page.to, failed, skipped)
    BY <1>4 DEF IncLabels, mailbox, process
  <2>2. /\ failedItems \subseteq failedItems' /\ lostItems \subseteq lostItems' /\ page.to \in Int /\ page.from \in 1..MaxHistory + 1
        /\ page.from <= page.to + 1 /\ page.to \in 0..Len(hist)
    BY <2>1, ErrorsKept DEF AheadInv, TypeInv, SyncTypeOK, PagesInOrder, IncPage
  <2>3. CASE h = cursor
    <3>1. LabelsReplayed(h)
      BY <2>3 DEF LabelsReplayed, Replayed
    <3>2. h < page.from
      BY <1>0, <2>1, <2>3 DEF AheadInv, OneFull, PagesInOrder, IncPage
    <3>3. m \in archived => LabelAhead(h, m)
      BY <1>1, <3>1
    <3> QED
      BY <1>0, <2>1, <2>2, <3>2, <3>3, LabelsAhead DEF AheadInv
  <2>4. CASE h = page.to
    <3>1. page.from - 1 \in 0..MaxHistory
      BY <2>2, SyncAssumption
    <3>2. LabelsReplayed(page.from - 1)
      BY <2>1 DEF LabelsReplayed
    <3>3. m \in archived => LabelAhead(page.from - 1, m)
      BY <1>1, <3>1, <3>2
    <3> QED
      BY <1>0, <2>1, <2>2, <2>4, <3>3, LabelsAhead DEF AheadInv
  <2>5. h = cursor \/ h = page.to
    BY <2>1 DEF LabelsReplayed, Replayed, FullWork
  <2> QED
    BY <2>3, <2>4, <2>5
<1> QED
  BY <1>0, <1>2, <1>3, <1>4, ReplayedBefore DEF AheadInv

LEMMA DeletionsBehindStep ==
  ASSUME AheadInv, [SyncNext]_vars
  PROVE  DeletionsBehind'
<1> SUFFICES ASSUME fulls' = 1, NEW h \in 0..MaxHistory, NEW m \in archived',
                    DeletionsReplayed(h)'
             PROVE  DeletionAhead(h, m)'
  BY DEF DeletionsBehind
<1>0. fulls = 1 /\ ~FullProfile /\ h \in Int
  BY OneFullSoFar DEF AheadInv
<1>1. ASSUME NEW g \in 0..MaxHistory, DeletionsReplayed(g), m \in archived
      PROVE  DeletionAhead(g, m)
  BY <1>0, <1>1 DEF AheadInv, DeletionsBehind
<1>2. ASSUME DeletionsReplayed(h) PROVE DeletionAhead(h, m)'
  <2>1. h \in 0..Len(hist)
    BY <1>2, PositionKept DEF AheadInv
  <2> QED
    BY <1>1, <1>2, <2>1, AheadKept DEF AheadInv
<1>3. CASE IncCheckpoint /\ pc' = "incCursor"
  <2>1. PICK g \in 0..Len(hist) : Replayed(g) /\ h <= g
    BY <1>3, CursorFollows
  <2>2. g \in 0..MaxHistory
    BY SyncAssumption, LenProperties DEF AheadInv, TypeInv, SyncTypeOK
  <2>3. m \in archived => DeletionAhead(g, m)
    BY <1>1, <2>1, <2>2 DEF DeletionsReplayed
  <2>4. DeletionAhead(g, m)'
    BY <2>3, AheadKept DEF AheadInv
  <2>5. UNCHANGED hist
    BY <1>3 DEF IncCheckpoint, mailbox
  <2>6. \A i \in DOMAIN hist' : i \in Int
    BY <2>5, LenProperties DEF AheadInv, TypeInv, SyncTypeOK
  <2> QED
    BY <1>0, <2>1, <2>4, <2>6 DEF DeletionAhead
<1>4. CASE IncMark
  <2>1. /\ UNCHANGED <<hist, archived, page, cursor>> /\ pc = "incMark" /\ pc' = "incCheckpoint"
        /\ page.to \in Int /\ page.from \in 1..MaxHistory + 1 /\ page.from <= page.to + 1
        /\ page.to \in 0..Len(hist)
    BY <1>4 DEF IncMark, mailbox, process, AheadInv, TypeInv, SyncTypeOK, PagesInOrder, IncPage
  <2>2. CASE h = cursor
    BY <1>2, <2>2 DEF DeletionsReplayed, Replayed
  <2>3. CASE h = page.to
    <3>1. page.from - 1 \in 0..MaxHistory
      BY <2>1, SyncAssumption
    <3>2. DeletionsReplayed(page.from - 1)
      BY <2>1 DEF DeletionsReplayed
    <3>3. DeletionAhead(page.from - 1, m)
      BY <1>1, <2>1, <3>1, <3>2
    <3> QED
      BY <1>0, <1>4, <2>1, <2>3, <3>3, MarksAhead DEF AheadInv
  <2>4. h = cursor \/ h = page.to
    BY <2>1 DEF DeletionsReplayed, Replayed, FullWork
  <2> QED
    BY <2>2, <2>3, <2>4
<1> QED
  BY <1>0, <1>2, <1>3, <1>4, ReplayedBefore DEF AheadInv

\* After one full sync and any number of incremental ones, failed, repeated or
\* interrupted anywhere: where the archive disagrees with the mailbox, the
\* change lies ahead of the cursor or is on record.
THEOREM DisagreementLiesAhead == SyncSpec => []ChangesLieAhead
<1>1. SyncInit => AheadInv
  <2> SUFFICES ASSUME SyncInit PROVE AheadInv
    OBVIOUS
  <2>1. TypeInv
    BY TypeInvInit
  <2>2. /\ pc = "idle" /\ cursor = NoCursor /\ archived = {} /\ marked = {} /\ fulls = 0
    BY DEF SyncInit
  <2> QED
    BY <2>1, <2>2 DEF AheadInv, PagesInOrder, ArchiveTrue, OneFull, LabelsBehind,
                      DeletionsBehind, IncPage, FullWork
<1>2. AheadInv /\ [SyncNext]_vars => AheadInv'
  BY TypeInvStep, PagesInOrderStep, ArchiveTrueStep, OneFullStep, LabelsBehindStep,
     DeletionsBehindStep DEF AheadInv
<1>3. AheadInv => ChangesLieAhead
  <2> SUFFICES ASSUME AheadInv, fulls = 1, cursor # NoCursor, NEW m \in archived
               PROVE  /\ LabelAhead(cursor, m) /\ DeletionAhead(cursor, m)
                      /\ m \in marked => m \in Gone
    BY DEF ChangesLieAhead, LabelAhead, DeletionAhead
  <2>1. cursor \in 0..MaxHistory
    BY SyncAssumption, LenProperties DEF AheadInv, TypeInv, SyncTypeOK
  <2>2. LabelsReplayed(cursor) /\ DeletionsReplayed(cursor)
    BY DEF LabelsReplayed, DeletionsReplayed, Replayed
  <2> QED
    BY <2>1, <2>2 DEF AheadInv, LabelsBehind, DeletionsBehind, ArchiveTrue
<1> QED
  BY <1>1, <1>2, <1>3, PTL DEF SyncSpec
-----------------------------------------------------------------------------
(* The cursor of the source.                                               *)

\* A run that has asked for the profile will store a history id that the cursor
\* has not passed.
Profiled == Stage \ {"idle", "fallback", "fullProfile", "incProfile"}
ProfileAhead == pc \in Profiled => cursor <= profile

LEMMA ProfileAheadStep ==
  ASSUME TypeInv, ProfileAhead, [SyncNext]_vars
  PROVE  ProfileAhead' /\ (cursor' = cursor \/ cursor' >= cursor)
<1> USE DEF ProfileAhead, Profiled, Stage
<1>0. cursor \in {NoCursor} \cup 0..Len(hist) /\ Len(hist) \in Nat /\ profile \in Int
  BY LenProperties DEF TypeInv, SyncTypeOK
<1>1. CASE FullProfile \/ IncProfile
  BY <1>0, <1>1 DEF FullProfile, IncProfile, store, NoCursor
<1>2. CASE FullCursor
  BY <1>0, <1>2 DEF FullCursor, BestEffort, process, NoCursor
<1>3. CASE IncCursor
  BY <1>0, <1>3 DEF IncCursor, BestEffort, process, NoCursor
<1>4. CASE cursor' = cursor /\ pc' \notin Profiled
  BY <1>4
<1>5. CASE cursor' = cursor /\ profile' = profile /\ (pc' = pc \/ pc \in Profiled)
  BY <1>5
<1>6. CASE FullStart \/ IncStart \/ Kill \/ CallFails \/ IncExpired
  BY <1>4, <1>6 DEF FullStart, IncStart, Kill, CallFails, IncExpired, Ends
<1>7. CASE FullComplete \/ IncComplete \/ FullListRejected
  BY <1>4, <1>7 DEF FullComplete, IncComplete, Complete, FullListRejected, Ends
<1>8. CASE FullFetchCanceled
  BY <1>4, <1>8 DEF FullFetchCanceled, Ends
<1>9. CASE FullList \/ FullFetch \/ FullCheckpoint
  BY <1>5, <1>9 DEF FullList, FullFetch, FullCheckpoint, store, process
<1>10. CASE IncList \/ IncLabels \/ IncFetch \/ IncFetchCanceled \/ IncMark \/ IncCheckpoint
  BY <1>5, <1>10 DEF IncList, IncLabels, IncFetch, IncFetchCanceled, IncMark, IncCheckpoint,
              store, process
<1>11. CASE MailboxChanges \/ HistoryExpires \/ Cancel \/ UNCHANGED vars
  BY <1>5, <1>11 DEF MailboxChanges, HistoryExpires, Cancel, vars, store, process
<1> QED
  BY <1>1, <1>2, <1>3, <1>6, <1>7, <1>8, <1>9, <1>10, <1>11 DEF SyncNext, SyncStep

\* The cursor never goes back, whatever full and incremental syncs are resumed,
\* cancelled, killed, or end after one of their writes has failed: what a sync
\* has stored as passed stays passed.
THEOREM CursorNeverGoesBack == SyncSpec => [][cursor' >= cursor]_cursor
<1>1. SyncInit => ProfileAhead
  BY DEF SyncInit, ProfileAhead, Profiled
<1>2. TypeInv /\ ProfileAhead /\ [SyncNext]_vars => ProfileAhead' /\ [cursor' >= cursor]_cursor
  BY ProfileAheadStep
<1> QED
  BY <1>1, <1>2, AlwaysTyped, PTL DEF SyncSpec
=============================================================================
