------------------------- MODULE ArchiveImages_proofs -------------------------
(***************************************************************************)
(* Proofs about the two images that are taken of the archive while it is   *)
(* written: the backup, for any sets of runs, writers and attachments, and *)
(* the Parquet cache of the analytics, for any number of messages, seconds *)
(* and sync runs.  The two share no state; each part has its own inductive *)
(* invariant.                                                              *)
(***************************************************************************)
EXTENDS Backup, AnalyticsCache, FiniteSetTheorems, SequenceTheorems,
        WellFoundedInduction, TLAPS

-----------------------------------------------------------------------------
(* The backup.                                                             *)

\* A run whose Begin the daemon is working on.
Asks(r) == beginning[r] \in {"waiting", "granted"}

\* Checkpoint and pin of a run saw the same version of the database.
Sharp(r) == checked[r] = pinned[r].version

BeforeEnd == {"off", "asking", "frozen", "checkpointed", "pinned"}

Archive == [version : 0..MaxWrites, names : SUBSET Blob, legacy : SUBSET Blob]

DataTypeOK ==
  /\ pinned \in [Run -> Archive]
  /\ task \in [kind : {"none", "pack", "remove"}, blob : Blob \cup {NoOne}]
  /\ task.kind # "none" => task.blob \in Blob
  /\ seek \in [Run -> [blob : Blob \cup {NoOne}, at : {"store", "path", "retry"}]]

\* The freeze of a run, and a release function in hand, stand for the run's own
\* hold on the gate, and a window is asked for by one run at a time.
HoldIsOwn ==
  /\ \A r \in Run : token = r => holder = r /\ beginning[r] = "done"
  /\ \A r \in Run : beginning[r] = "granted" => holder = r
  /\ \A r, s \in Run : Asks(r) /\ Asks(s) => r = s
  /\ \A r \in Run : Asks(r) => token = NoOne
  /\ \A x \in releasing : /\ x.hold = x.run
                          /\ beginning[x.run] = "done"
                          /\ token # x.run

\* As long as a run keeps its window nobody writes, so its checkpoint and its
\* pin agree; an End that closes the window carries that over.
StillImage ==
  /\ \A r \in Run : token = r /\ pc[r] = "checkpointed" => archive.version = checked[r]
  /\ \A r \in Run : token = r /\ pc[r] \in {"pinned", "ending"} => Sharp(r)
  /\ \A r \in Run : beginning[r] # "done" => pc[r] \in {"off", "asking", "failed", "dead"}
  /\ \A x \in releasing : x.by = "end" =>
       /\ pc[x.run] \notin BeforeEnd
       /\ pc[x.run] = "ending" => Sharp(x.run)
  /\ endSent \cap {r \in Run : pc[r] \in BeforeEnd} = {}
  /\ FrozenSnapshot

\* The bytes of an attachment the database names, now or in the image of a
\* backup, are at a place that database tells of, or in a pack.
Told(a) == \A b \in a.names : "legacy" \in where[b] =>
             b \in a.legacy \/ "packed" \in where[b]

CopiesKnown ==
  /\ Told(archive)
  /\ \A r \in Run : Told(pinned[r])
  /\ \A b \in Blob : b \notin archive.names =>
       where[b] = {} \/ task = [kind |-> "remove", blob |-> b]
  /\ task.kind = "pack" => "packed" \in where[task.blob]

\* What a capture looks for it has still to find.
SearchIsOpen ==
  /\ \A r \in Run : left[r] \subseteq pinned[r].names
  /\ \A r \in Run : pc[r] \notin {"capturing", "published", "missing", "dead"} =>
                      left[r] = {}
  /\ \A r \in Run : seek[r].at # "store" =>
       /\ pc[r] \in {"capturing", "missing", "dead"}
       /\ seek[r].blob \in left[r]
  /\ \A r \in Run : seek[r].at = "store" => seek[r] = Nowhere
  /\ \A r \in Run : seek[r].at = "retry" => "legacy" \notin where[seek[r].blob]

\* What the freeze keeps, and what the search keeps.
FreezeInv == BackupTypeOK /\ DataTypeOK /\ HoldIsOwn /\ StillImage
CaptureInv == CopiesKnown /\ SearchIsOpen

\* The inductive invariant.
BackupInv == FreezeInv /\ CaptureInv

\* The places a backup can stand at.
Standing == {"off", "asking", "frozen", "checkpointed", "pinned", "ending",
             "scanning", "capturing", "published", "failed", "missing", "dead"}

\* A step that moves one backup only, and keeps the window, keeps the types.
LEMMA MovedTyped ==
  ASSUME BackupTypeOK, NEW r \in Run, NEW p \in Standing,
         pc' = [pc EXCEPT ![r] = p],
         endSent' \subseteq Run,
         UNCHANGED <<gate, freeze, beginning, releasing, data, image, left>>
  PROVE  BackupTypeOK'
<1>1. pc' \in [Run -> Standing]
  BY DEF BackupTypeOK, Standing
<1> QED
  BY <1>1 DEF BackupTypeOK, Standing, gate, freeze, data, image

\* A Begin that finds no window claims it: nobody else asks, no token is out.
LEMMA BeginReservesKeeps ==
  ASSUME BackupInv, NEW r \in Run,
         BeginReserves(r)
  PROVE  BackupInv'
<1> USE BackupAssumption
    DEF BackupInv, FreezeInv, CaptureInv, BeginReserves,
        gate, freeze, data, image, capture
<1>1. CASE active
  <2>a. /\ pc[r] = "asking" /\ pc'[r] = "failed"
        /\ \A s \in Run \ {r} : pc'[s] = pc[s]
    BY <1>1 DEF BackupTypeOK
  <2>1. BackupTypeOK'
    <3> endSent' \subseteq Run
      BY DEF BackupTypeOK
    <3> QED
      BY <1>1, MovedTyped DEF Standing
  <2>2. DataTypeOK'
    BY <1>1, <2>a DEF BackupTypeOK, DataTypeOK, Archive
  <2>3. HoldIsOwn'
    BY <1>1, <2>a DEF BackupTypeOK, HoldIsOwn, Asks
  <2>4. StillImage'
    BY <1>1, <2>a DEF BackupTypeOK, HoldIsOwn, StillImage,
                      FrozenSnapshot, Sharp, BeforeEnd
  <2>5. CopiesKnown'
    BY <1>1, <2>a DEF BackupTypeOK, DataTypeOK, CopiesKnown, Told, Archive
  <2>6. SearchIsOpen'
    BY <1>1, <2>a DEF BackupTypeOK, DataTypeOK, SearchIsOpen, Nowhere, Archive
  <2> QED
    BY <2>1, <2>2, <2>3, <2>4, <2>5, <2>6
<1>2. CASE ~active
  <2>a. token = NoOne /\ \A s \in Run : ~Asks(s)
    BY <1>2 DEF BackupTypeOK, Asks
  <2>b. beginning'[r] = "waiting" /\ \A s \in Run \ {r} : beginning'[s] = beginning[s]
    BY <1>2 DEF BackupTypeOK
  <2>1. BackupTypeOK'
    <3>1. active' = TRUE /\ \E s \in Run : beginning'[s] \in {"waiting", "granted"}
      BY <1>2, <2>b
    <3>2. beginning' \in [Run -> {"none", "waiting", "granted", "done"}]
      BY <1>2 DEF BackupTypeOK
    <3>3. UNCHANGED <<gate, token, watchdog, endSent, releasing, pc, data, image, left>>
      BY <1>2
    <3> HIDE DEF BeginReserves
    <3> QED
      BY <3>1, <3>2, <3>3 DEF BackupTypeOK
  <2>2. DataTypeOK'
    BY <1>2, <2>a, <2>b DEF BackupTypeOK, DataTypeOK, Archive
  <2>3. HoldIsOwn'
    BY <1>2, <2>a, <2>b DEF BackupTypeOK, HoldIsOwn, Asks
  <2>4. StillImage'
    BY <1>2, <2>a, <2>b DEF BackupTypeOK, DataTypeOK, HoldIsOwn, StillImage,
                            FrozenSnapshot, Sharp, BeforeEnd, Archive
  <2>5. CopiesKnown'
    BY <1>2, <2>a, <2>b DEF BackupTypeOK, DataTypeOK, CopiesKnown, Told,
                            Archive
  <2>6. SearchIsOpen'
    BY <1>2, <2>a, <2>b DEF BackupTypeOK, DataTypeOK, SearchIsOpen, Nowhere,
                            Archive
  <2> QED
    BY <2>1, <2>2, <2>3, <2>4, <2>5, <2>6
<1> QED
  BY <1>1, <1>2

\* The gate was free, so no token was out either.
LEMMA BeginAcquiresKeeps ==
  ASSUME BackupInv, NEW r \in Run,
         BeginAcquires(r)
  PROVE  BackupInv'
<1> USE BackupAssumption
    DEF BackupInv, FreezeInv, CaptureInv, BeginAcquires,
        gate, freeze, data, image, capture
<1>1. BackupTypeOK' /\ DataTypeOK'
  BY DEF BackupTypeOK, HoldIsOwn, Asks, DataTypeOK, Archive
<1>2. HoldIsOwn' /\ StillImage'
  BY DEF BackupTypeOK, HoldIsOwn, Asks, DataTypeOK, StillImage,
         FrozenSnapshot, Sharp, BeforeEnd, Archive
<1>3. CopiesKnown' /\ SearchIsOpen'
  BY DEF BackupTypeOK, DataTypeOK, CopiesKnown, Told, Archive,
         SearchIsOpen, Nowhere
<1> QED
  BY <1>1, <1>2, <1>3

\* Only this run was asking.
LEMMA BeginGivesUpKeeps ==
  ASSUME BackupInv, NEW r \in Run,
         BeginGivesUp(r)
  PROVE  BackupInv'
<1> USE BackupAssumption
    DEF BackupInv, FreezeInv, CaptureInv, BeginGivesUp,
        gate, freeze, data, image, capture
<1>1. BackupTypeOK' /\ DataTypeOK'
  BY DEF BackupTypeOK, HoldIsOwn, Asks, DataTypeOK, Archive
<1>2. HoldIsOwn' /\ StillImage'
  BY DEF BackupTypeOK, HoldIsOwn, Asks, DataTypeOK, StillImage,
         FrozenSnapshot, Sharp, BeforeEnd, Archive
<1>3. CopiesKnown' /\ SearchIsOpen'
  BY DEF BackupTypeOK, DataTypeOK, CopiesKnown, Told, Archive,
         SearchIsOpen, Nowhere
<1> QED
  BY <1>1, <1>2, <1>3

\* The token goes to the run that holds the gate.
LEMMA BeginAnswersKeeps ==
  ASSUME BackupInv, NEW r \in Run,
         BeginAnswers(r)
  PROVE  BackupInv'
<1> USE BackupAssumption
    DEF BackupInv, FreezeInv, CaptureInv, BeginAnswers,
        gate, freeze, data, image, capture
<1>1. CASE pc[r]="asking"
  <2>1. BackupTypeOK'
    BY <1>1 DEF BackupTypeOK, HoldIsOwn, Asks
  <2>2. DataTypeOK'
    BY <1>1 DEF BackupTypeOK, DataTypeOK, Archive
  <2>3. HoldIsOwn'
    BY <1>1 DEF BackupTypeOK, HoldIsOwn, Asks
  <2>4. StillImage'
    BY <1>1 DEF BackupTypeOK, DataTypeOK, HoldIsOwn, StillImage,
                FrozenSnapshot, Sharp, BeforeEnd, Archive
  <2>5. CopiesKnown'
    BY <1>1 DEF BackupTypeOK, DataTypeOK, CopiesKnown, Told, Archive
  <2>6. SearchIsOpen'
    BY <1>1 DEF BackupTypeOK, DataTypeOK, SearchIsOpen, Nowhere, Archive
  <2> QED
    BY <2>1, <2>2, <2>3, <2>4, <2>5, <2>6
<1>2. CASE pc[r]#"asking"
  <2>1. BackupTypeOK'
    BY <1>2 DEF BackupTypeOK, HoldIsOwn, Asks
  <2>2. DataTypeOK'
    BY <1>2 DEF BackupTypeOK, DataTypeOK, Archive
  <2>3. HoldIsOwn'
    BY <1>2 DEF BackupTypeOK, HoldIsOwn, Asks
  <2>4. StillImage'
    <3>1. pc[r] \in {"off", "asking", "failed", "dead"}
      BY DEF StillImage
    <3>2. /\ token' = r /\ \A s \in Run \ {r} : beginning'[s] = beginning[s]
          /\ UNCHANGED <<pc, endSent, releasing, archive, checked, pinned>>
      BY <1>2 DEF BackupTypeOK
    <3>3. FrozenSnapshot'
      BY <3>2 DEF StillImage, FrozenSnapshot
    <3> HIDE DEF BeginAnswers
    <3> QED
      BY <3>1, <3>2, <3>3 DEF StillImage, Sharp, BeforeEnd
  <2>5. CopiesKnown'
    BY <1>2 DEF BackupTypeOK, DataTypeOK, CopiesKnown, Told, Archive
  <2>6. SearchIsOpen'
    BY <1>2 DEF BackupTypeOK, DataTypeOK, SearchIsOpen, Nowhere, Archive
  <2> QED
    BY <2>1, <2>2, <2>3, <2>4, <2>5, <2>6
<1> QED
  BY <1>1, <1>2

LEMMA WatchdogFiresKeeps ==
  ASSUME BackupInv, NEW r \in Run,
         WatchdogFires(r)
  PROVE  BackupInv'
<1> USE BackupAssumption
    DEF BackupInv, FreezeInv, CaptureInv, WatchdogFires,
        gate, freeze, data, image, capture
<1>1. BackupTypeOK' /\ DataTypeOK'
  BY DEF BackupTypeOK, HoldIsOwn, Asks, DataTypeOK, Archive
<1>2. HoldIsOwn' /\ StillImage'
  BY DEF BackupTypeOK, HoldIsOwn, Asks, DataTypeOK, StillImage,
         FrozenSnapshot, Sharp, BeforeEnd, Archive
<1>3. CopiesKnown' /\ SearchIsOpen'
  BY DEF BackupTypeOK, DataTypeOK, CopiesKnown, Told, Archive,
         SearchIsOpen, Nowhere
<1> QED
  BY <1>1, <1>2, <1>3

\* The timer takes the release function only of its own window.
LEMMA ReleaseOnWatchdogKeeps ==
  ASSUME BackupInv, NEW r \in Run,
         ReleaseOnWatchdog(r)
  PROVE  BackupInv'
<1> USE BackupAssumption
    DEF BackupInv, FreezeInv, CaptureInv, ReleaseOnWatchdog,
        ClearBackupFreeze, Open,
        gate, freeze, data, image, capture
<1>1. CASE ClearBackupFreeze(r, "watchdog")
  <2>a. \A s \in Run : ~Asks(s)
    BY <1>1 DEF BackupTypeOK, HoldIsOwn
  <2>1. BackupTypeOK'
    <3>1. active' = FALSE /\ token' = NoOne /\ \A s \in Run : ~Asks(s)'
      BY <1>1, <2>a DEF Asks
    <3>2. releasing' \subseteq [by : {"end", "watchdog"}, run : Run, hold : Run]
      BY <1>1 DEF BackupTypeOK
    <3> QED
      BY <3>1, <3>2 DEF BackupTypeOK, Asks
  <2>2. DataTypeOK'
    BY <1>1, <2>a DEF BackupTypeOK, DataTypeOK, Archive
  <2>3. HoldIsOwn'
    BY <1>1, <2>a DEF BackupTypeOK, HoldIsOwn, Asks
  <2>4. StillImage'
    BY <1>1, <2>a DEF BackupTypeOK, DataTypeOK, HoldIsOwn, StillImage,
                      FrozenSnapshot, Sharp, BeforeEnd, Archive
  <2>5. CopiesKnown'
    BY <1>1, <2>a DEF BackupTypeOK, DataTypeOK, CopiesKnown, Told, Archive
  <2>6. SearchIsOpen'
    BY <1>1, <2>a DEF BackupTypeOK, DataTypeOK, SearchIsOpen, Nowhere, Archive
  <2> QED
    BY <2>1, <2>2, <2>3, <2>4, <2>5, <2>6
<1>2. CASE ~Open(r)
  <2>1. BackupTypeOK'
    BY <1>2 DEF BackupTypeOK, HoldIsOwn, Asks
  <2>2. DataTypeOK'
    BY <1>2 DEF BackupTypeOK, DataTypeOK, Archive
  <2>3. HoldIsOwn'
    BY <1>2 DEF BackupTypeOK, HoldIsOwn, Asks
  <2>4. StillImage'
    BY <1>2 DEF BackupTypeOK, DataTypeOK, HoldIsOwn, StillImage,
                FrozenSnapshot, Sharp, BeforeEnd, Archive
  <2>5. CopiesKnown'
    BY <1>2 DEF BackupTypeOK, DataTypeOK, CopiesKnown, Told, Archive
  <2>6. SearchIsOpen'
    BY <1>2 DEF BackupTypeOK, DataTypeOK, SearchIsOpen, Nowhere, Archive
  <2> QED
    BY <2>1, <2>2, <2>3, <2>4, <2>5, <2>6
<1> QED
  BY <1>1, <1>2

\* An End that closes its window was sent after the pin, under the hold.
LEMMA HandleEndKeeps ==
  ASSUME BackupInv, NEW r \in Run,
         HandleEnd(r)
  PROVE  BackupInv'
<1> USE BackupAssumption
    DEF BackupInv, FreezeInv, CaptureInv, HandleEnd, ClearBackupFreeze, Open,
        gate, freeze, data, image, capture
<1>1. CASE ClearBackupFreeze(r, "end")
  <2>a. \A s \in Run : ~Asks(s)
    BY <1>1 DEF BackupTypeOK, HoldIsOwn
  <2>1. BackupTypeOK'
    <3>1. active' = FALSE /\ token' = NoOne /\ \A s \in Run : ~Asks(s)'
      BY <1>1, <2>a DEF Asks
    <3>2. releasing' \subseteq [by : {"end", "watchdog"}, run : Run, hold : Run]
      BY <1>1 DEF BackupTypeOK
    <3> QED
      BY <3>1, <3>2 DEF BackupTypeOK, Asks
  <2>2. DataTypeOK'
    BY <1>1, <2>a DEF BackupTypeOK, DataTypeOK, Archive
  <2>3. HoldIsOwn'
    BY <1>1, <2>a DEF BackupTypeOK, HoldIsOwn, Asks
  <2>4. StillImage'
    BY <1>1, <2>a DEF BackupTypeOK, DataTypeOK, HoldIsOwn, StillImage,
                      FrozenSnapshot, Sharp, BeforeEnd, Archive
  <2>5. CopiesKnown'
    BY <1>1, <2>a DEF BackupTypeOK, DataTypeOK, CopiesKnown, Told, Archive
  <2>6. SearchIsOpen'
    BY <1>1, <2>a DEF BackupTypeOK, DataTypeOK, SearchIsOpen, Nowhere, Archive
  <2> QED
    BY <2>1, <2>2, <2>3, <2>4, <2>5, <2>6
<1>2. CASE ~Open(r)
  <2>a. /\ pc'[r] = pc[r] \/ pc'[r] = "failed"
        /\ \A s \in Run \ {r} : pc'[s] = pc[s]
    BY <1>2 DEF BackupTypeOK
  <2>1. BackupTypeOK'
    <3>1. PICK p \in Standing : pc' = [pc EXCEPT ![r] = p]
      <4>1. pc[r] \in Standing /\ pc = [pc EXCEPT ![r] = pc[r]]
        BY DEF BackupTypeOK, Standing
      <4> QED
        BY <1>2, <4>1 DEF Standing
    <3>2. endSent' \subseteq Run
      BY DEF BackupTypeOK
    <3>3. UNCHANGED <<gate, freeze, beginning, releasing, data, image, left>>
      BY <1>2
    <3> HIDE DEF HandleEnd
    <3> QED
      BY <3>1, <3>2, <3>3, MovedTyped
  <2>2. DataTypeOK'
    BY <1>2, <2>a DEF BackupTypeOK, DataTypeOK, Archive
  <2>3. HoldIsOwn'
    BY <1>2, <2>a DEF BackupTypeOK, HoldIsOwn, Asks
  <2>4. StillImage'
    <3>1. /\ UNCHANGED <<token, beginning, releasing, archive, checked, pinned>>
          /\ endSent' \subseteq endSent
      BY <1>2
    <3>2. pc[r] \notin {"off", "asking", "frozen", "checkpointed", "pinned"}
      BY DEF StillImage, BeforeEnd
    <3>3. FrozenSnapshot'
      BY <2>a, <3>1 DEF StillImage, FrozenSnapshot
    <3> HIDE DEF HandleEnd
    <3> QED
      BY <2>a, <3>1, <3>2, <3>3 DEF BackupTypeOK, StillImage, Sharp, BeforeEnd
  <2>5. CopiesKnown'
    BY <1>2, <2>a DEF BackupTypeOK, DataTypeOK, CopiesKnown, Told, Archive
  <2>6. SearchIsOpen'
    BY <1>2, <2>a DEF BackupTypeOK, DataTypeOK, SearchIsOpen, Nowhere, Archive
  <2> QED
    BY <2>1, <2>2, <2>3, <2>4, <2>5, <2>6
<1> QED
  BY <1>1, <1>2

LEMMA StartCreateKeeps ==
  ASSUME BackupInv, NEW r \in Run,
         StartCreate(r)
  PROVE  BackupInv'
<1> USE BackupAssumption
    DEF BackupInv, FreezeInv, CaptureInv, StartCreate,
        gate, freeze, data, image, capture
<1>1. BackupTypeOK' /\ DataTypeOK'
  BY DEF BackupTypeOK, HoldIsOwn, Asks, DataTypeOK, Archive
<1>2. HoldIsOwn' /\ StillImage'
  BY DEF BackupTypeOK, HoldIsOwn, Asks, DataTypeOK, StillImage,
         FrozenSnapshot, Sharp, BeforeEnd, Archive
<1>3. CopiesKnown'
  BY DEF BackupTypeOK, DataTypeOK, CopiesKnown, Told, Archive
<1>4. SearchIsOpen'
  <2>1. pc[r] = "off" /\ \A s \in Run : pc'[s] = IF s = r THEN "asking" ELSE pc[s]
    BY DEF BackupTypeOK
  <2> QED
    BY <2>1 DEF SearchIsOpen
<1> QED
  BY <1>1, <1>2, <1>3, <1>4

LEMMA CheckpointKeeps ==
  ASSUME BackupInv, NEW r \in Run,
         Checkpoint(r)
  PROVE  BackupInv'
<1> USE BackupAssumption
    DEF BackupInv, FreezeInv, CaptureInv, Checkpoint,
        gate, freeze, data, image, capture
<1>1. BackupTypeOK' /\ DataTypeOK'
  BY DEF BackupTypeOK, HoldIsOwn, Asks, DataTypeOK, Archive
<1>2. HoldIsOwn' /\ StillImage'
  BY DEF BackupTypeOK, HoldIsOwn, Asks, DataTypeOK, StillImage,
         FrozenSnapshot, Sharp, BeforeEnd, Archive
<1>3. CopiesKnown' /\ SearchIsOpen'
  BY DEF BackupTypeOK, DataTypeOK, CopiesKnown, Told, Archive,
         SearchIsOpen, Nowhere
<1> QED
  BY <1>1, <1>2, <1>3

LEMMA PinKeeps ==
  ASSUME BackupInv, NEW r \in Run,
         Pin(r)
  PROVE  BackupInv'
<1> USE BackupAssumption
    DEF BackupInv, FreezeInv, CaptureInv, Pin,
        gate, freeze, data, image, capture
<1>1. BackupTypeOK' /\ DataTypeOK'
  BY DEF BackupTypeOK, HoldIsOwn, Asks, DataTypeOK, Archive
<1>2. HoldIsOwn' /\ StillImage'
  BY DEF BackupTypeOK, HoldIsOwn, Asks, DataTypeOK, StillImage,
         FrozenSnapshot, Sharp, BeforeEnd, Archive
<1>3. CopiesKnown' /\ SearchIsOpen'
  BY DEF BackupTypeOK, DataTypeOK, CopiesKnown, Told, Archive,
         SearchIsOpen, Nowhere
<1> QED
  BY <1>1, <1>2, <1>3

LEMMA EndKeeps ==
  ASSUME BackupInv, NEW r \in Run,
         End(r)
  PROVE  BackupInv'
<1> USE BackupAssumption
    DEF BackupInv, FreezeInv, CaptureInv, End,
        gate, freeze, data, image, capture
<1>1. BackupTypeOK' /\ DataTypeOK'
  BY DEF BackupTypeOK, HoldIsOwn, Asks, DataTypeOK, Archive
<1>2. HoldIsOwn' /\ StillImage'
  BY DEF BackupTypeOK, HoldIsOwn, Asks, DataTypeOK, StillImage,
         FrozenSnapshot, Sharp, BeforeEnd, Archive
<1>3. CopiesKnown' /\ SearchIsOpen'
  BY DEF BackupTypeOK, DataTypeOK, CopiesKnown, Told, Archive,
         SearchIsOpen, Nowhere
<1> QED
  BY <1>1, <1>2, <1>3

\* What is looked for is what the image names.
LEMMA ScanKeeps ==
  ASSUME BackupInv, NEW r \in Run,
         Scan(r)
  PROVE  BackupInv'
<1> USE BackupAssumption
    DEF BackupInv, FreezeInv, CaptureInv, Scan,
        gate, freeze, data, image, capture
<1>1. BackupTypeOK' /\ DataTypeOK'
  BY DEF BackupTypeOK, HoldIsOwn, Asks, DataTypeOK, Archive
<1>2. HoldIsOwn' /\ StillImage'
  BY DEF BackupTypeOK, HoldIsOwn, Asks, DataTypeOK, StillImage,
         FrozenSnapshot, Sharp, BeforeEnd, Archive
<1>3. CopiesKnown' /\ SearchIsOpen'
  BY DEF BackupTypeOK, DataTypeOK, CopiesKnown, Told, Archive,
         SearchIsOpen, Nowhere
<1> QED
  BY <1>1, <1>2, <1>3

LEMMA OpenBlobKeeps ==
  ASSUME BackupInv, NEW r \in Run, NEW b \in Blob,
         OpenBlob(r, b)
  PROVE  BackupInv'
<1> USE BackupAssumption
    DEF BackupInv, FreezeInv, CaptureInv, OpenBlob, Captured, NotFound,
        InStore, Nowhere,
        gate, freeze, data, image, capture
<1>1. CASE InStore(b) /\ Captured(r, b)
  <2>1. BackupTypeOK'
    BY <1>1 DEF BackupTypeOK, HoldIsOwn, Asks
  <2>2. DataTypeOK'
    BY <1>1 DEF BackupTypeOK, DataTypeOK, Archive
  <2>3. HoldIsOwn'
    BY <1>1 DEF BackupTypeOK, HoldIsOwn, Asks
  <2>4. StillImage'
    BY <1>1 DEF BackupTypeOK, DataTypeOK, HoldIsOwn, StillImage,
                FrozenSnapshot, Sharp, BeforeEnd, Archive
  <2>5. CopiesKnown'
    BY <1>1 DEF BackupTypeOK, DataTypeOK, CopiesKnown, Told, Archive
  <2>6. SearchIsOpen'
    BY <1>1 DEF BackupTypeOK, DataTypeOK, SearchIsOpen, Nowhere, Archive
  <2> QED
    BY <2>1, <2>2, <2>3, <2>4, <2>5, <2>6
<1>2. CASE NotFound(r)
  <2>1. BackupTypeOK'
    BY <1>2 DEF BackupTypeOK, HoldIsOwn, Asks
  <2>2. DataTypeOK'
    BY <1>2 DEF BackupTypeOK, DataTypeOK, Archive
  <2>3. HoldIsOwn'
    BY <1>2 DEF BackupTypeOK, HoldIsOwn, Asks
  <2>4. StillImage'
    BY <1>2 DEF BackupTypeOK, DataTypeOK, HoldIsOwn, StillImage,
                FrozenSnapshot, Sharp, BeforeEnd, Archive
  <2>5. CopiesKnown'
    BY <1>2 DEF BackupTypeOK, DataTypeOK, CopiesKnown, Told, Archive
  <2>6. SearchIsOpen'
    BY <1>2 DEF BackupTypeOK, DataTypeOK, SearchIsOpen, Nowhere, Archive
  <2> QED
    BY <2>1, <2>2, <2>3, <2>4, <2>5, <2>6
<1>3. CASE seek' = [seek EXCEPT ![r] = [blob |-> b, at |-> "path"]]
  <2>1. BackupTypeOK'
    BY <1>3 DEF BackupTypeOK, HoldIsOwn, Asks
  <2>2. DataTypeOK'
    BY <1>3 DEF BackupTypeOK, DataTypeOK, Archive
  <2>3. HoldIsOwn'
    BY <1>3 DEF BackupTypeOK, HoldIsOwn, Asks
  <2>4. StillImage'
    BY <1>3 DEF BackupTypeOK, DataTypeOK, HoldIsOwn, StillImage,
                FrozenSnapshot, Sharp, BeforeEnd, Archive
  <2>5. CopiesKnown'
    BY <1>3 DEF BackupTypeOK, DataTypeOK, CopiesKnown, Told, Archive
  <2>6. SearchIsOpen'
    BY <1>3 DEF BackupTypeOK, DataTypeOK, SearchIsOpen, Nowhere, Archive
  <2> QED
    BY <2>1, <2>2, <2>3, <2>4, <2>5, <2>6
<1> QED
  BY <1>1, <1>2, <1>3

\* A path that has gone does not come back.
LEMMA OpenRecordedPathKeeps ==
  ASSUME BackupInv, NEW r \in Run,
         OpenRecordedPath(r)
  PROVE  BackupInv'
<1> USE BackupAssumption
    DEF BackupInv, FreezeInv, CaptureInv, OpenRecordedPath, Captured,
        NotFound, Nowhere,
        gate, freeze, data, image, capture
<1>1. CASE Captured(r, seek[r].blob)
  <2>1. BackupTypeOK'
    BY <1>1 DEF BackupTypeOK, HoldIsOwn, Asks
  <2>2. DataTypeOK'
    BY <1>1 DEF BackupTypeOK, DataTypeOK, Archive
  <2>3. HoldIsOwn'
    BY <1>1 DEF BackupTypeOK, HoldIsOwn, Asks
  <2>4. StillImage'
    BY <1>1 DEF BackupTypeOK, DataTypeOK, HoldIsOwn, StillImage,
                FrozenSnapshot, Sharp, BeforeEnd, Archive
  <2>5. CopiesKnown'
    BY <1>1 DEF BackupTypeOK, DataTypeOK, CopiesKnown, Told, Archive
  <2>6. SearchIsOpen'
    BY <1>1 DEF BackupTypeOK, DataTypeOK, SearchIsOpen, Nowhere, Archive
  <2> QED
    BY <2>1, <2>2, <2>3, <2>4, <2>5, <2>6
<1>2. CASE seek' = [seek EXCEPT ![r].at = "retry"]
  <2>1. BackupTypeOK'
    BY <1>2 DEF BackupTypeOK, HoldIsOwn, Asks
  <2>2. DataTypeOK'
    BY <1>2 DEF BackupTypeOK, DataTypeOK, Archive
  <2>3. HoldIsOwn'
    BY <1>2 DEF BackupTypeOK, HoldIsOwn, Asks
  <2>4. StillImage'
    BY <1>2 DEF BackupTypeOK, DataTypeOK, HoldIsOwn, StillImage,
                FrozenSnapshot, Sharp, BeforeEnd, Archive
  <2>5. CopiesKnown'
    BY <1>2 DEF BackupTypeOK, DataTypeOK, CopiesKnown, Told, Archive
  <2>6. SearchIsOpen'
    BY <1>2 DEF BackupTypeOK, DataTypeOK, SearchIsOpen, Nowhere, Archive
  <2> QED
    BY <2>1, <2>2, <2>3, <2>4, <2>5, <2>6
<1> QED
  BY <1>1, <1>2

LEMMA OpenAgainKeeps ==
  ASSUME BackupInv, NEW r \in Run,
         OpenAgain(r)
  PROVE  BackupInv'
<1> USE BackupAssumption
    DEF BackupInv, FreezeInv, CaptureInv, OpenAgain, Captured, NotFound,
        InStore, Nowhere,
        gate, freeze, data, image, capture
<1>1. CASE Captured(r, seek[r].blob)
  <2>1. BackupTypeOK'
    BY <1>1 DEF BackupTypeOK, HoldIsOwn, Asks
  <2>2. DataTypeOK'
    BY <1>1 DEF BackupTypeOK, DataTypeOK, Archive
  <2>3. HoldIsOwn'
    BY <1>1 DEF BackupTypeOK, HoldIsOwn, Asks
  <2>4. StillImage'
    BY <1>1 DEF BackupTypeOK, DataTypeOK, HoldIsOwn, StillImage,
                FrozenSnapshot, Sharp, BeforeEnd, Archive
  <2>5. CopiesKnown'
    BY <1>1 DEF BackupTypeOK, DataTypeOK, CopiesKnown, Told, Archive
  <2>6. SearchIsOpen'
    BY <1>1 DEF BackupTypeOK, DataTypeOK, SearchIsOpen, Nowhere, Archive
  <2> QED
    BY <2>1, <2>2, <2>3, <2>4, <2>5, <2>6
<1>2. CASE NotFound(r)
  <2>1. BackupTypeOK'
    BY <1>2 DEF BackupTypeOK, HoldIsOwn, Asks
  <2>2. DataTypeOK'
    BY <1>2 DEF BackupTypeOK, DataTypeOK, Archive
  <2>3. HoldIsOwn'
    BY <1>2 DEF BackupTypeOK, HoldIsOwn, Asks
  <2>4. StillImage'
    BY <1>2 DEF BackupTypeOK, DataTypeOK, HoldIsOwn, StillImage,
                FrozenSnapshot, Sharp, BeforeEnd, Archive
  <2>5. CopiesKnown'
    BY <1>2 DEF BackupTypeOK, DataTypeOK, CopiesKnown, Told, Archive
  <2>6. SearchIsOpen'
    BY <1>2 DEF BackupTypeOK, DataTypeOK, SearchIsOpen, Nowhere, Archive
  <2> QED
    BY <2>1, <2>2, <2>3, <2>4, <2>5, <2>6
<1> QED
  BY <1>1, <1>2

LEMMA PublishKeeps ==
  ASSUME BackupInv, NEW r \in Run,
         Publish(r)
  PROVE  BackupInv'
<1> USE BackupAssumption
    DEF BackupInv, FreezeInv, CaptureInv, Publish,
        gate, freeze, data, image, capture
<1>1. BackupTypeOK' /\ DataTypeOK'
  BY DEF BackupTypeOK, HoldIsOwn, Asks, DataTypeOK, Archive
<1>2. HoldIsOwn' /\ StillImage'
  BY DEF BackupTypeOK, HoldIsOwn, Asks, DataTypeOK, StillImage,
         FrozenSnapshot, Sharp, BeforeEnd, Archive
<1>3. CopiesKnown' /\ SearchIsOpen'
  BY DEF BackupTypeOK, DataTypeOK, CopiesKnown, Told, Archive,
         SearchIsOpen, Nowhere
<1> QED
  BY <1>1, <1>2, <1>3

LEMMA DieKeeps ==
  ASSUME BackupInv, NEW r \in Run,
         Die(r)
  PROVE  BackupInv'
<1> USE BackupAssumption
    DEF BackupInv, FreezeInv, CaptureInv, Die,
        gate, freeze, data, image, capture
<1>1. BackupTypeOK' /\ DataTypeOK'
  BY DEF BackupTypeOK, HoldIsOwn, Asks, DataTypeOK, Archive
<1>2. HoldIsOwn' /\ StillImage'
  BY DEF BackupTypeOK, HoldIsOwn, Asks, DataTypeOK, StillImage,
         FrozenSnapshot, Sharp, BeforeEnd, Archive
<1>3. CopiesKnown' /\ SearchIsOpen'
  BY DEF BackupTypeOK, DataTypeOK, CopiesKnown, Told, Archive,
         SearchIsOpen, Nowhere
<1> QED
  BY <1>1, <1>2, <1>3

\* Only the hold of the run that the function was made for is given up.
LEMMA ReleaseKeeps ==
  ASSUME BackupInv, NEW x \in releasing,
         Release(x)
  PROVE  BackupInv'
<1> USE BackupAssumption
    DEF BackupInv, FreezeInv, CaptureInv, Release,
        gate, freeze, data, image, capture
<1>1. BackupTypeOK' /\ DataTypeOK'
  BY DEF BackupTypeOK, HoldIsOwn, Asks, DataTypeOK, Archive
<1>2. HoldIsOwn' /\ StillImage'
  BY DEF BackupTypeOK, HoldIsOwn, Asks, DataTypeOK, StillImage,
         FrozenSnapshot, Sharp, BeforeEnd, Archive
<1>3. CopiesKnown' /\ SearchIsOpen'
  BY DEF BackupTypeOK, DataTypeOK, CopiesKnown, Told, Archive,
         SearchIsOpen, Nowhere
<1> QED
  BY <1>1, <1>2, <1>3

LEMMA CloseKeeps ==
  ASSUME BackupInv,
         Close
  PROVE  BackupInv'
<1> USE BackupAssumption
    DEF BackupInv, FreezeInv, CaptureInv, Close,
        gate, freeze, data, image, capture
<1>1. BackupTypeOK' /\ DataTypeOK'
  BY DEF BackupTypeOK, HoldIsOwn, Asks, DataTypeOK, Archive
<1>2. HoldIsOwn' /\ StillImage'
  BY DEF BackupTypeOK, HoldIsOwn, Asks, DataTypeOK, StillImage,
         FrozenSnapshot, Sharp, BeforeEnd, Archive
<1>3. CopiesKnown' /\ SearchIsOpen'
  BY DEF BackupTypeOK, DataTypeOK, CopiesKnown, Told, Archive,
         SearchIsOpen, Nowhere
<1> QED
  BY <1>1, <1>2, <1>3

\* The gate was free: no window is open, no image is being taken.
LEMMA WriterBeginsKeeps ==
  ASSUME BackupInv, NEW w \in Writer,
         WriterBegins(w)
  PROVE  BackupInv'
<1> USE BackupAssumption
    DEF BackupInv, FreezeInv, CaptureInv, WriterBegins, At, Changed,
        Elsewhere, NoTask,
        gate, freeze, data, image, capture
<1>1. BackupTypeOK' /\ DataTypeOK'
  BY DEF BackupTypeOK, HoldIsOwn, Asks, DataTypeOK, Archive
<1>2. HoldIsOwn' /\ StillImage'
  BY DEF BackupTypeOK, HoldIsOwn, Asks, DataTypeOK, StillImage,
         FrozenSnapshot, Sharp, BeforeEnd, Archive
<1>3. CopiesKnown' /\ SearchIsOpen'
  BY DEF BackupTypeOK, DataTypeOK, CopiesKnown, Told, Archive,
         SearchIsOpen, Nowhere
<1> QED
  BY <1>1, <1>2, <1>3

\* The writer holds the gate, no run does.
LEMMA IngestKeeps ==
  ASSUME BackupInv, NEW w \in Writer, NEW b \in Blob,
         Ingest(w, b)
  PROVE  BackupInv'
<1> USE BackupAssumption
    DEF BackupInv, FreezeInv, CaptureInv, Ingest, At, Changed, Elsewhere,
        NoTask,
        gate, freeze, data, image, capture
<1>1. BackupTypeOK' /\ DataTypeOK'
  BY DEF BackupTypeOK, HoldIsOwn, Asks, DataTypeOK, Archive
<1>2. HoldIsOwn' /\ StillImage'
  BY DEF BackupTypeOK, HoldIsOwn, Asks, DataTypeOK, StillImage,
         FrozenSnapshot, Sharp, BeforeEnd, Archive
<1>3. CopiesKnown' /\ SearchIsOpen'
  BY DEF BackupTypeOK, DataTypeOK, CopiesKnown, Told, Archive,
         SearchIsOpen, Nowhere
<1> QED
  BY <1>1, <1>2, <1>3

\* The row loses its recorded path when a packed copy is there.
LEMMA CommitPackKeeps ==
  ASSUME BackupInv, NEW w \in Writer, NEW b \in Blob,
         CommitPack(w, b)
  PROVE  BackupInv'
<1> USE BackupAssumption
    DEF BackupInv, FreezeInv, CaptureInv, CommitPack, At, Changed, Elsewhere,
        NoTask,
        gate, freeze, data, image, capture
<1>1. BackupTypeOK' /\ DataTypeOK'
  BY DEF BackupTypeOK, HoldIsOwn, Asks, DataTypeOK, Archive
<1>2. HoldIsOwn' /\ StillImage'
  BY DEF BackupTypeOK, HoldIsOwn, Asks, DataTypeOK, StillImage,
         FrozenSnapshot, Sharp, BeforeEnd, Archive
<1>3. CopiesKnown' /\ SearchIsOpen'
  BY SMTT(30) DEF BackupTypeOK, DataTypeOK, CopiesKnown, Told, Archive,
         SearchIsOpen, Nowhere
<1> QED
  BY <1>1, <1>2, <1>3

LEMMA RemoveLooseKeeps ==
  ASSUME BackupInv, NEW w \in Writer,
         RemoveLoose(w)
  PROVE  BackupInv'
<1> USE BackupAssumption
    DEF BackupInv, FreezeInv, CaptureInv, RemoveLoose, At, Changed,
        Elsewhere, NoTask,
        gate, freeze, data, image, capture
<1>1. BackupTypeOK' /\ DataTypeOK'
  BY DEF BackupTypeOK, HoldIsOwn, Asks, DataTypeOK, Archive
<1>2. HoldIsOwn' /\ StillImage'
  BY DEF BackupTypeOK, HoldIsOwn, Asks, DataTypeOK, StillImage,
         FrozenSnapshot, Sharp, BeforeEnd, Archive
<1>3. CopiesKnown' /\ SearchIsOpen'
  BY DEF BackupTypeOK, DataTypeOK, CopiesKnown, Told, Archive,
         SearchIsOpen, Nowhere
<1> QED
  BY <1>1, <1>2, <1>3

LEMMA RemoveRowsKeeps ==
  ASSUME BackupInv, NEW w \in Writer, NEW b \in Blob,
         RemoveRows(w, b)
  PROVE  BackupInv'
<1> USE BackupAssumption
    DEF BackupInv, FreezeInv, CaptureInv, RemoveRows, At, Changed, Elsewhere,
        NoTask,
        gate, freeze, data, image, capture
<1>1. BackupTypeOK' /\ DataTypeOK'
  BY DEF BackupTypeOK, HoldIsOwn, Asks, DataTypeOK, Archive
<1>2. HoldIsOwn' /\ StillImage'
  BY DEF BackupTypeOK, HoldIsOwn, Asks, DataTypeOK, StillImage,
         FrozenSnapshot, Sharp, BeforeEnd, Archive
<1>3. CopiesKnown' /\ SearchIsOpen'
  BY DEF BackupTypeOK, DataTypeOK, CopiesKnown, Told, Archive,
         SearchIsOpen, Nowhere
<1> QED
  BY <1>1, <1>2, <1>3

LEMMA RemoveFilesKeeps ==
  ASSUME BackupInv, NEW w \in Writer,
         RemoveFiles(w)
  PROVE  BackupInv'
<1> USE BackupAssumption
    DEF BackupInv, FreezeInv, CaptureInv, RemoveFiles, At, Changed,
        Elsewhere, NoTask,
        gate, freeze, data, image, capture
<1>1. BackupTypeOK' /\ DataTypeOK'
  BY DEF BackupTypeOK, HoldIsOwn, Asks, DataTypeOK, Archive
<1>2. HoldIsOwn' /\ StillImage'
  BY DEF BackupTypeOK, HoldIsOwn, Asks, DataTypeOK, StillImage,
         FrozenSnapshot, Sharp, BeforeEnd, Archive
<1>3. CopiesKnown' /\ SearchIsOpen'
  BY DEF BackupTypeOK, DataTypeOK, CopiesKnown, Told, Archive,
         SearchIsOpen, Nowhere
<1> QED
  BY <1>1, <1>2, <1>3

LEMMA WriterEndsKeeps ==
  ASSUME BackupInv, NEW w \in Writer,
         WriterEnds(w)
  PROVE  BackupInv'
<1> USE BackupAssumption
    DEF BackupInv, FreezeInv, CaptureInv, WriterEnds, At, Changed, Elsewhere,
        NoTask,
        gate, freeze, data, image, capture
<1>1. BackupTypeOK' /\ DataTypeOK'
  BY DEF BackupTypeOK, HoldIsOwn, Asks, DataTypeOK, Archive
<1>2. HoldIsOwn' /\ StillImage'
  BY DEF BackupTypeOK, HoldIsOwn, Asks, DataTypeOK, StillImage,
         FrozenSnapshot, Sharp, BeforeEnd, Archive
<1>3. CopiesKnown' /\ SearchIsOpen'
  BY DEF BackupTypeOK, DataTypeOK, CopiesKnown, Told, Archive,
         SearchIsOpen, Nowhere
<1> QED
  BY <1>1, <1>2, <1>3

LEMMA StutterKeeps ==
  ASSUME BackupInv,
         UNCHANGED backupVars
  PROVE  BackupInv'
<1> USE BackupAssumption
    DEF BackupInv, FreezeInv, CaptureInv, backupVars,
        gate, freeze, data, image, capture
<1>1. BackupTypeOK' /\ DataTypeOK'
  BY DEF BackupTypeOK, HoldIsOwn, Asks, DataTypeOK, Archive
<1>2. HoldIsOwn' /\ StillImage'
  BY DEF BackupTypeOK, HoldIsOwn, Asks, DataTypeOK, StillImage,
         FrozenSnapshot, Sharp, BeforeEnd, Archive
<1>3. CopiesKnown' /\ SearchIsOpen'
  BY DEF BackupTypeOK, DataTypeOK, CopiesKnown, Told, Archive,
         SearchIsOpen, Nowhere
<1> QED
  BY <1>1, <1>2, <1>3

LEMMA BackupInitInv == BackupInit => BackupInv
<1> SUFFICES ASSUME BackupInit PROVE BackupInv
  OBVIOUS
<1> USE BackupAssumption DEF BackupInit
<1>1. BackupTypeOK
  <2>1. /\ archive \in [version : 0..MaxWrites, names : SUBSET Blob, legacy : SUBSET Blob]
        /\ where \in [Blob -> SUBSET {"legacy", "canonical", "packed"}]
    BY DEF BackupTypeOK
  <2>2. /\ left \in [Run -> SUBSET Blob] /\ checked \in [Run -> 0..MaxWrites]
        /\ active = FALSE /\ token = NoOne /\ \A r \in Run : beginning[r] = "none"
    OBVIOUS
  <2>3. /\ watchdog \in [Run -> {"off", "armed", "fired"}]
        /\ beginning \in [Run -> {"none", "waiting", "granted", "done"}]
        /\ pc \in [Run -> {"off", "asking", "frozen", "checkpointed", "pinned",
                          "ending", "scanning", "capturing", "published",
                          "failed", "missing", "dead"}]
    OBVIOUS
  <2>4. holder = NoOne /\ closed = FALSE /\ endSent = {} /\ releasing = {}
    OBVIOUS
  <2> HIDE DEF BackupInit
  <2> QED
    BY <2>1, <2>2, <2>3, <2>4 DEF BackupTypeOK
<1>2. DataTypeOK
  BY DEF DataTypeOK, Archive, NoTask, Nowhere
<1>3. HoldIsOwn /\ StillImage
  BY DEF HoldIsOwn, Asks, StillImage, FrozenSnapshot, Sharp, BeforeEnd
<1>4. CopiesKnown /\ SearchIsOpen
  BY DEF CopiesKnown, Told, SearchIsOpen, NoTask, Nowhere
<1> QED
  BY <1>1, <1>2, <1>3, <1>4 DEF BackupInv, FreezeInv, CaptureInv

LEMMA BackupStepInv == BackupInv /\ [BackupNext]_backupVars => BackupInv'
<1> SUFFICES ASSUME BackupInv, [BackupNext]_backupVars PROVE BackupInv'
  OBVIOUS
<1>1. CASE DaemonStep
  BY <1>1, BeginReservesKeeps, BeginAcquiresKeeps, BeginGivesUpKeeps,
     BeginAnswersKeeps, WatchdogFiresKeeps, ReleaseOnWatchdogKeeps,
     HandleEndKeeps, ReleaseKeeps, CloseKeeps DEF DaemonStep
<1>2. ASSUME NEW r \in Run, BackupStep(r) PROVE BackupInv'
  BY <1>2, StartCreateKeeps, CheckpointKeeps, PinKeeps, EndKeeps, ScanKeeps,
     OpenBlobKeeps, OpenRecordedPathKeeps, OpenAgainKeeps, PublishKeeps,
     DieKeeps DEF BackupStep
<1>3. ASSUME NEW w \in Writer, WriterStep(w) PROVE BackupInv'
  BY <1>3, WriterBeginsKeeps, IngestKeeps, CommitPackKeeps, RemoveLooseKeeps,
     RemoveRowsKeeps, RemoveFilesKeeps, WriterEndsKeeps DEF WriterStep
<1>4. CASE UNCHANGED backupVars
  BY <1>4, StutterKeeps
<1> QED
  BY <1>1, <1>2, <1>3, <1>4 DEF BackupNext

LEMMA BackupAlwaysInv == BackupSpec => []BackupInv
BY BackupInitInv, BackupStepInv, PTL DEF BackupSpec

\* Type correctness; the window is reserved exactly while a Begin or a token
\* claims it (backupFreezeState).
THEOREM BackupTypeCorrect == BackupSpec => []BackupTypeOK
<1>1. BackupInv => BackupTypeOK
  BY DEF BackupInv, FreezeInv
<1> QED
  BY <1>1, BackupAlwaysInv, PTL

\* However late an End request or a watchdog comes, no backup goes on to scan
\* an image that a write has split.
THEOREM ImageIsWhole == BackupSpec => []FrozenSnapshot
<1>1. BackupInv => FrozenSnapshot
  BY DEF BackupInv, FreezeInv, StillImage
<1> QED
  BY <1>1, BackupAlwaysInv, PTL

\* The gate is taken from a run only by a release function of its own window.
THEOREM OnlyOwnThaw == BackupSpec => OwnThaw
<1> DEFINE Thaw == \A r \in Run : holder = r /\ holder' # r =>
                     \E x \in releasing : x.run = r
<1>1. BackupInv /\ [BackupNext]_backupVars => [Thaw]_backupVars
  <2> SUFFICES ASSUME BackupInv, BackupNext, NEW r \in Run,
                      holder = r, holder' # r
               PROVE  \E x \in releasing : x.run = r
    OBVIOUS
  <2> USE BackupAssumption DEF BackupInv, FreezeInv
  <2>1. ASSUME NEW x \in releasing, Release(x)
        PROVE  x.run = r
    BY <2>1 DEF Release, HoldIsOwn
  <2>2. CASE \E s \in Run : BackupStep(s)
    BY <2>2 DEF BackupStep, StartCreate, Checkpoint, Pin, End, Scan, OpenBlob,
       OpenRecordedPath, OpenAgain, Publish, Die, gate
  <2>3. CASE \E w \in Writer : WriterStep(w)
    BY <2>3 DEF WriterStep, WriterBegins, Ingest, CommitPack, RemoveLoose,
       RemoveRows, RemoveFiles, WriterEnds, At
  <2>4. CASE DaemonStep
    BY <2>1, <2>4 DEF DaemonStep, BeginReserves, BeginAcquires, BeginGivesUp,
       BeginAnswers, WatchdogFires, ReleaseOnWatchdog, HandleEnd, Close, gate
  <2> QED
    BY <2>2, <2>3, <2>4 DEF BackupNext
<1> QED
  BY <1>1, BackupAlwaysInv, PTL DEF BackupSpec, OwnThaw

\* The search through store, recorded path and store again reports an
\* attachment missing only when its bytes are nowhere.
THEOREM OnlyGoneIsMissing == BackupSpec => MissingIsGone
<1> DEFINE Gone == \A r \in Run : pc[r] # "missing" /\ pc'[r] = "missing" =>
                     \E b \in left[r] : where[b] = {}
<1>1. BackupInv /\ [BackupNext]_backupVars => [Gone]_backupVars
  <2> SUFFICES ASSUME BackupInv, BackupNext, NEW r \in Run,
                      pc[r] # "missing", pc'[r] = "missing"
               PROVE  \E b \in left[r] : where[b] = {}
    OBVIOUS
  <2> USE DEF BackupInv, FreezeInv, CaptureInv, BackupTypeOK
  <2>1. ASSUME NEW b \in Blob, OpenBlob(r, b) PROVE b \in left[r] /\ where[b] = {}
    <3>1. b \in left[r] /\ ~InStore(b) /\ b \notin pinned[r].legacy
      BY <2>1 DEF OpenBlob, Captured
    <3>2. "legacy" \notin where[b]
      BY <3>1 DEF CopiesKnown, Told, SearchIsOpen, InStore
    <3> QED
      BY <3>1, <3>2 DEF InStore
  <2>2. ASSUME OpenAgain(r) PROVE seek[r].blob \in left[r] /\ where[seek[r].blob] = {}
    <3>1. /\ seek[r].blob \in left[r] /\ "legacy" \notin where[seek[r].blob]
          /\ ~InStore(seek[r].blob)
      BY <2>2 DEF OpenAgain, Captured, SearchIsOpen
    <3> QED
      BY <3>1 DEF InStore
  <2>3. CASE \E w \in Writer : WriterStep(w)
    BY <2>3 DEF WriterStep, WriterBegins, Ingest, CommitPack, RemoveLoose,
       RemoveRows, RemoveFiles, WriterEnds, Elsewhere
  <2>4. CASE DaemonStep
    BY <2>4 DEF DaemonStep, BeginReserves, BeginAcquires, BeginGivesUp,
       BeginAnswers, WatchdogFires, ReleaseOnWatchdog, HandleEnd,
       ClearBackupFreeze, Release, Close
  <2>5. ASSUME NEW s \in Run, BackupStep(s)
        PROVE  OpenAgain(r) \/ \E b \in Blob : OpenBlob(r, b)
    BY <2>5 DEF BackupStep, StartCreate, Checkpoint, Pin, End, Scan, OpenBlob,
       OpenRecordedPath, OpenAgain, Captured, NotFound, Publish, Die
  <2> QED
    BY <2>1, <2>2, <2>3, <2>4, <2>5 DEF BackupNext
<1> QED
  BY <1>1, BackupAlwaysInv, PTL DEF BackupSpec, MissingIsGone

-----------------------------------------------------------------------------
(* The Parquet cache.                                                      *)

\* The counters of an earlier read are part of those of a later one.
Within(c, d) == /\ c.added \subseteq d.added
                /\ c.updated \subseteq d.updated
                /\ c.failed \subseteq d.failed

\* Messages above last carry no mark from before the second at.
LateMarks(last, at) ==
  \A i \in Id : i > last => /\ messages[i].gone # Null => messages[i].gone >= at
                            /\ messages[i].hidden # Null => messages[i].hidden >= at

AllThere(n) == \A i \in Id : i <= n => messages[i].there

\* Ids are given in order, and only rows that are there are written to.
RowsInv ==
  /\ \A i \in Id : messages[i].hidden <= clock
  /\ \A i \in Id : ~messages[i].there =>
       messages[i].gone = Null /\ messages[i].hidden = Null /\ ~messages[i].files
  /\ \A i, j \in Id : messages[i].there /\ j <= i => messages[j].there

Written(c) == /\ \A i \in c.added : messages[i].files
              /\ \A x \in c.updated : x[2] < messages[x[1]].labels
Apart(c, d) == c.added \cap d.added = {} /\ c.updated \cap d.updated = {}

\* A run counts what it has written, its row no more than its memory, and no
\* two runs count the same.
RunsInv ==
  /\ current # 0 => /\ runs[current].status = "running"
                    /\ runs[current].counters.added \subseteq tally.added
                    /\ runs[current].counters.updated \subseteq tally.updated
  /\ current = 0 => tally = NoTally
  /\ pending # 0 => current # 0 /\ messages[pending].there /\ ~messages[pending].files
  /\ Written(tally)
  /\ \A r \in RunId : Written(runs[r].counters)
  /\ \A r \in RunId : r # current => Apart(tally, runs[r].counters)
  /\ \A r, q \in RunId : r # q => Apart(runs[r].counters, runs[q].counters)

StateInv ==
  /\ stateFile.at <= clock /\ AllThere(stateFile.last)
  /\ Within(stateFile.counters, SyncCounters)
  /\ LateMarks(stateFile.last, stateFile.at)

Exporting == phase \in {"messages", "rest", "save"}

\* What a build has read is no older than the state file, and an incremental
\* one has found no counter of a run changed since.
BuildInv ==
  phase # "idle" =>
    /\ stateFile.at <= build.at /\ build.at <= clock
    /\ stateFile.last <= build.maxId /\ AllThere(build.maxId)
    /\ LateMarks(build.maxId, build.at)
    /\ build.exportable = 0 => \A i \in Id : i <= build.maxId => ~Exportable(i)
    /\ ~build.full => build.previous = stateFile
    /\ Exporting =>
         /\ Within(stateFile.counters, build.counters)
         /\ Within(build.counters, SyncCounters)
         /\ build.full => ~torn
         /\ ~build.full =>
              /\ build.maxId > stateFile.last
              /\ stateFile # NoState =>
                   /\ build.counters.updated = stateFile.counters.updated
                   /\ build.counters.failed = stateFile.counters.failed
    /\ phase = "messages" /\ build.full => shards = <<>>
    /\ phase \in {"messages", "rest"} /\ build.full => ~tables

View(i) == {shards[k][i] : k \in Holding(i)}
Truth(i) == IF Exportable(i) THEN {Row(i)} ELSE {}
Dirty(i, at) == i \in DeletedSince(at) \cup HiddenSince(at)

\* The rows of a message are right, unless a mark since the second at tells of
\* a change.
RowShown(i, at) ==
  \/ Dirty(i, at)
  \/ /\ Truth(i) \subseteq View(i)
     /\ ~torn => View(i) = Truth(i) /\ \A k, l \in Holding(i) : k = l

\* A run not yet ended has changed the labels of a message, or stored its
\* attachments.
Relabelling(i) ==
  \/ \E x \in tally.updated : x[1] = i
  \/ \E r \in Running : \/ i \in runs[r].lost
                        \/ \E x \in runs[r].counters.updated : x[1] = i
Storing(i) == i \in tally.added \/ \E r \in Running : \/ i \in runs[r].lost
                                                   \/ i \in runs[r].counters.added

\* It has got the labels of a duplicate whose mark tells so.
Tells(j, at) == /\ messages[j].hidden # Null /\ messages[j].hidden >= at
                /\ messages[j].gone = Null \/ messages[j].gone >= messages[j].hidden
Transferred(i, at) == \E j \in Id : messages[j].into = i /\ Tells(j, at)

\* Its rows in the tables that hang on it are right, unless a run in progress
\* has changed them, or one that has ended since the counters were read, or a
\* duplicate has been merged into it since the second at.
LabelsShown(i, at, c) ==
  \/ related[i].labels = messages[i].labels
  \/ Relabelling(i) \/ Transferred(i, at)
  \/ c.updated # SyncCounters.updated \/ c.failed # SyncCounters.failed
FilesShown(i, c) ==
  \/ related[i].files = messages[i].files
  \/ Storing(i)
  \/ c.added # SyncCounters.added \/ c.failed # SyncCounters.failed
JunctionsShown(i, at, c) ==
  Exportable(i) => i \in DOMAIN related /\ LabelsShown(i, at, c) /\ FilesShown(i, c)

Shown(i, at, c) == RowShown(i, at) /\ JunctionsShown(i, at, c)

\* A full build has cleared the cache.
Cleared == torn \/ (build.full /\ Exporting)
NotLast == \E j \in Id : j > stateFile.last /\ messages[j].there

\* What has become of a message the state file speaks for: it is shown, or
\* cleared, or exported by a full build that goes on or has ended before the
\* other tables.
Kept(i) ==
  \/ Shown(i, stateFile.at, stateFile.counters)
  \/ /\ Cleared /\ Holding(i) = {}
     /\ ~HasCompleteParquetData \/ NotLast
  \/ /\ RowShown(i, stateFile.at) /\ ~tables /\ HasParquetData
     /\ Exporting => build.full

KeptInv == \A i \in Id : i <= stateFile.last /\ i \notin missed => Kept(i)
EmptyAbove ==
  ~torn => \A i \in Id :
    i > (IF phase \in {"rest", "save"} THEN build.maxId ELSE stateFile.last) =>
      Holding(i) = {}
ExportInv ==
  phase \in {"rest", "save"} =>
    \A i \in Id : Last < i /\ i <= build.maxId /\ i \notin missed =>
      /\ RowShown(i, build.at)
      /\ phase = "save" => JunctionsShown(i, build.at, build.counters)

\* The inductive invariant.
ArchiveInv == RowsInv /\ RunsInv
ShardsInv == KeptInv /\ EmptyAbove /\ ExportInv
CacheInv == CacheTypeOK /\ ArchiveInv /\ StateInv /\ BuildInv /\ ShardsInv
-----------------------------------------------------------------------------
LEMMA SmallestOf ==
  ASSUME NEW R, IsWellFoundedOn(R, Nat),
         \A x, y \in Nat : y < x => <<y, x>> \in R,
         NEW S \in SUBSET Nat, S # {}
  PROVE  \E x \in S : \A y \in S : x <= y
<1>1. PICK x \in S : \A y \in S : ~(<<y, x>> \in R)
  BY WFMin
<1>2. ASSUME NEW y \in S PROVE x <= y
  <2>1. x \in Nat /\ y \in Nat /\ ~(y < x)
    BY <1>1
  <2> QED
    BY <2>1
<1> QED
  BY <1>2

LEMMA Smallest ==
  ASSUME NEW S \in SUBSET Nat, S # {}
  PROVE  \E x \in S : \A y \in S : x <= y
<1>1. IsWellFoundedOn(OpToRel(<, Nat), Nat)
  BY NatLessThanWellFounded, Zenon
<1>2. \A x, y \in Nat : y < x => <<y, x>> \in OpToRel(<, Nat)
  BY Zenon DEF OpToRel
<1> QED
  BY <1>1, <1>2, SmallestOf, Zenon

\* Greatest is what its name says, and 0 for the empty set.
LEMMA GreatestIs ==
  ASSUME NEW N \in Nat, NEW S \in SUBSET (1..N)
  PROVE  /\ Greatest(S) \in S \cup {0}
         /\ \A x \in S : x <= Greatest(S)
         /\ Greatest(S) \in 0..N
<1> DEFINE U == S \cup {0}
           T == {N - x : x \in U}
<1>0. U \subseteq 0..N
  OBVIOUS
<1>1. T \in SUBSET Nat /\ T # {}
  BY SMT
<1>2. PICK t \in T : \A y \in T : t <= y
  BY <1>1, Smallest
<1>3. PICK x \in U : t = N - x
  BY <1>2
<1>4. ASSUME NEW y \in U PROVE x >= y
  <2>1. N - x <= N - y
    BY <1>2, <1>3
  <2> QED
    BY <1>0, <2>1
<1>5. Greatest(S) \in U /\ \A y \in U : Greatest(S) >= y
  BY <1>4 DEF Greatest, Max
<1> HIDE DEF T
<1> QED
  BY <1>0, <1>5

LEMMA CountersTyped ==
  ASSUME CacheTypeOK
  PROVE  SyncCounters \in Counters
BY DEF CacheTypeOK, RunRow, Tally, SyncCounters, Counters, EndedRuns
-----------------------------------------------------------------------------
(* What the steps that write the archive have in common.                   *)

\* Rows stay, and are marked with the present second or named by missed.
MarksGrow ==
  \A i \in Id :
    /\ messages[i].there => messages'[i].there
    /\ \/ /\ messages'[i].gone = messages[i].gone
          /\ messages'[i].hidden = messages[i].hidden
          /\ messages'[i].into = messages[i].into
       \/ /\ messages[i].there /\ messages'[i].gone = clock
          /\ messages'[i].hidden = messages[i].hidden
          /\ messages'[i].into = messages[i].into
       \/ /\ messages[i].there /\ messages'[i].gone = messages[i].gone
          /\ messages[i].hidden = Null /\ messages'[i].hidden = clock
          /\ messages[i].gone # Null => i \in missed'

\* A change of labels or attachments belongs to a run in progress or a merge,
\* and when the run ends its counters tell, or the tables have it already.
Settled(i) == i \in DOMAIN related => related[i] = Junctions(i)
CountsGrow ==
  /\ \A i \in Id : messages[i].there /\ i \notin missed' =>
       /\ \/ messages'[i].labels = messages[i].labels
          \/ Relabelling(i)' \/ Transferred(i, clock)'
       /\ messages'[i].files = messages[i].files \/ Storing(i)'
       /\ Relabelling(i) => \/ Relabelling(i)' \/ Settled(i)'
                            \/ SyncCounters'.updated # SyncCounters.updated
                            \/ SyncCounters'.failed # SyncCounters.failed
       /\ Storing(i) => \/ Storing(i)' \/ Settled(i)'
                        \/ SyncCounters'.added # SyncCounters.added
                        \/ SyncCounters'.failed # SyncCounters.failed
  /\ Within(SyncCounters, SyncCounters')

ArchiveGrows == MarksGrow /\ CountsGrow /\ missed \subseteq missed' /\ CacheStays

\* A row that is shown stays so, or its mark tells.
LEMMA RowsStayShown ==
  ASSUME CacheTypeOK, CacheTypeOK', RowsInv, ArchiveGrows,
         NEW i \in Id, messages[i].there, i \notin missed',
         NEW at \in 0..MaxTime, at <= clock, RowShown(i, at)
  PROVE  RowShown(i, at)'
<1> USE CacheBounds DEF ArchiveGrows, MarksGrow, CacheStays, parquet, Null
<1>1. View(i)' = View(i) /\ Holding(i)' = Holding(i) /\ torn' = torn
  BY DEF View, Holding
<1>2. CASE /\ messages'[i].gone = messages[i].gone
           /\ messages'[i].hidden = messages[i].hidden
  <2>1. Dirty(i, at)' <=> Dirty(i, at)
    BY <1>2 DEF Dirty, DeletedSince, HiddenSince
  <2>2. messages'[i].there
    OBVIOUS
  <2>3. Truth(i)' = Truth(i)
    BY <1>2, <2>2 DEF Truth, Row, Exportable
  <2> QED
    BY <1>1, <2>1, <2>3 DEF RowShown
<1>3. CASE ~ (/\ messages'[i].gone = messages[i].gone
              /\ messages'[i].hidden = messages[i].hidden)
  <2>1. messages'[i].gone \in 0..MaxTime /\ messages'[i].hidden \in 0..MaxTime
    BY DEF CacheTypeOK, MessageRow
  <2>2. clock # 0
    BY DEF CacheTypeOK, MessageRow
  <2>3. \/ messages'[i].gone = clock
        \/ messages'[i].gone = 0 /\ messages'[i].hidden = clock
    BY <1>3
  <2>4. Dirty(i, at)'
    BY <2>2, <2>3 DEF Dirty, DeletedSince, HiddenSince
  <2> QED
    BY <2>4 DEF RowShown
<1> QED
  BY <1>2, <1>3

\* The mark of a merged duplicate goes on to tell of it.
LEMMA TransferStays ==
  ASSUME CacheTypeOK, CacheTypeOK', RowsInv, ArchiveGrows,
         NEW i \in Id, NEW at \in 0..MaxTime, at <= clock,
         Transferred(i, at) \/ Transferred(i, clock)'
  PROVE  Transferred(i, at)'
<1>1. clock' = clock /\ clock \in 1..MaxTime
  BY DEF ArchiveGrows, CacheStays, CacheTypeOK
<1>2. ASSUME NEW j \in Id
      PROVE  /\ messages[j].gone \in 0..MaxTime /\ messages[j].hidden \in 0..MaxTime
             /\ messages'[j].gone \in 0..MaxTime /\ messages'[j].hidden \in 0..MaxTime
  <2>1. messages[j] \in MessageRow /\ messages'[j] \in MessageRow
    BY DEF CacheTypeOK
  <2> QED
    BY <2>1 DEF MessageRow
<1>3. CASE Transferred(i, clock)'
  <2>1. PICK j \in Id : messages'[j].into = i /\ Tells(j, clock)'
    BY <1>3 DEF Transferred
  <2>2. Tells(j, at)'
    BY <1>1, <1>2, <2>1, CacheBounds DEF Tells
  <2> QED
    BY <2>1, <2>2 DEF Transferred
<1>4. CASE Transferred(i, at)
  <2>1. PICK j \in Id : messages[j].into = i /\ Tells(j, at)
    BY <1>4 DEF Transferred
  <2>2. /\ messages'[j].hidden = messages[j].hidden /\ messages'[j].into = i
        /\ messages'[j].gone = messages[j].gone \/ messages'[j].gone = clock
    BY <2>1 DEF ArchiveGrows, MarksGrow, Tells
  <2>3. messages[j].hidden <= clock
    BY DEF RowsInv
  <2>4. Tells(j, at)'
    BY <1>1, <1>2, <2>1, <2>2, <2>3, CacheBounds DEF Tells
  <2> QED
    BY <2>2, <2>4 DEF Transferred
<1> QED
  BY <1>3, <1>4

\* So do the rows of the tables that hang on it, or a counter or a mark tells.
LEMMA JunctionsStayShown ==
  ASSUME CacheTypeOK, CacheTypeOK', RowsInv, ArchiveGrows,
         NEW i \in Id, messages[i].there, i \notin missed',
         NEW at \in 0..MaxTime, at <= clock,
         NEW c \in Counters, Within(c, SyncCounters), JunctionsShown(i, at, c)
  PROVE  JunctionsShown(i, at, c)'
<1> SUFFICES ASSUME Exportable(i)'
             PROVE  (i \in DOMAIN related /\ LabelsShown(i, at, c) /\ FilesShown(i, c))'
  BY DEF JunctionsShown
<1>1. Exportable(i)
  BY CacheBounds DEF ArchiveGrows, MarksGrow, CacheTypeOK, MessageRow, Exportable, Null
<1>2. i \in DOMAIN related /\ LabelsShown(i, at, c) /\ FilesShown(i, c)
  BY <1>1 DEF JunctionsShown
<1>3. related' = related
  BY DEF ArchiveGrows, CacheStays, parquet
<1>4. Within(c, SyncCounters') /\ Within(SyncCounters, SyncCounters')
  BY DEF ArchiveGrows, CountsGrow, Within
<1>5. /\ \/ messages'[i].labels = messages[i].labels
         \/ Relabelling(i)' \/ Transferred(i, clock)'
      /\ messages'[i].files = messages[i].files \/ Storing(i)'
      /\ Relabelling(i) => \/ Relabelling(i)' \/ Settled(i)'
                           \/ SyncCounters'.updated # SyncCounters.updated
                           \/ SyncCounters'.failed # SyncCounters.failed
      /\ Storing(i) => \/ Storing(i)' \/ Settled(i)'
                       \/ SyncCounters'.added # SyncCounters.added
                       \/ SyncCounters'.failed # SyncCounters.failed
  BY DEF ArchiveGrows, CountsGrow
<1>6. Settled(i)' => /\ related'[i].labels = messages'[i].labels
                     /\ related'[i].files = messages'[i].files
  BY <1>2, <1>3 DEF Settled, Junctions
<1>7. LabelsShown(i, at, c)'
  <2>1. Transferred(i, at) \/ Transferred(i, clock)' => Transferred(i, at)'
    BY TransferStays
  <2>2. CASE related[i].labels = messages[i].labels
    BY <1>3, <1>5, <2>1, <2>2 DEF LabelsShown
  <2>3. CASE Relabelling(i)
    BY <1>4, <1>5, <1>6, <2>3 DEF Within, LabelsShown
  <2>4. CASE c.updated # SyncCounters.updated \/ c.failed # SyncCounters.failed
    BY <1>4, <2>4 DEF Within, LabelsShown
  <2> QED
    BY <1>2, <2>1, <2>2, <2>3, <2>4 DEF LabelsShown
<1>8. FilesShown(i, c)'
  <2>1. CASE related[i].files = messages[i].files
    BY <1>3, <1>5, <2>1 DEF FilesShown
  <2>2. CASE Storing(i)
    BY <1>4, <1>5, <1>6, <2>2 DEF Within, FilesShown
  <2>3. CASE c.added # SyncCounters.added \/ c.failed # SyncCounters.failed
    BY <1>4, <2>3 DEF Within, FilesShown
  <2> QED
    BY <1>2, <2>1, <2>2, <2>3 DEF FilesShown
<1> QED
  BY <1>2, <1>3, <1>7, <1>8

\* What is known of the cache and of the build outlasts every write.
LEMMA GrowthKeeps ==
  ASSUME CacheInv, CacheTypeOK', ArchiveGrows
  PROVE  StateInv' /\ BuildInv' /\ ShardsInv'
<1> USE CacheBounds DEF CacheInv, ArchiveInv
<1>1. /\ UNCHANGED <<shards, related, tables, stateFile, phase, build, torn, clock>>
      /\ missed \subseteq missed' /\ Within(SyncCounters, SyncCounters')
  BY DEF ArchiveGrows, CountsGrow, CacheStays, parquet
<1>2. ASSUME NEW n \in 0..MaxId, AllThere(n)
      PROVE  AllThere(n)'
  BY <1>2 DEF AllThere, ArchiveGrows, MarksGrow
<1>3. ASSUME NEW n \in 0..MaxId, NEW at \in 0..MaxTime, at <= clock, LateMarks(n, at)
      PROVE  LateMarks(n, at)'
  BY <1>3 DEF LateMarks, ArchiveGrows, MarksGrow, CacheTypeOK, MessageRow
<1>4. /\ stateFile.last \in 0..MaxId /\ stateFile.at \in 0..MaxTime
      /\ build.maxId \in 0..MaxId /\ build.at \in 0..MaxTime /\ clock \in 1..MaxTime
      /\ stateFile.counters \in Counters /\ build.counters \in Counters
  BY DEF CacheTypeOK, MessageRow, CacheState
<1>5. ASSUME NEW i \in Id, Exportable(i)', messages[i].there
      PROVE  Exportable(i)
  BY <1>5 DEF ArchiveGrows, MarksGrow, CacheTypeOK, MessageRow, Exportable, Null
<1>6. ASSUME NEW i \in Id PROVE Holding(i)' = Holding(i)
  BY <1>1 DEF Holding
<1>7. StateInv'
  <2>1. AllThere(stateFile.last)'
    BY <1>1, <1>2, <1>4 DEF StateInv, AllThere
  <2>2. LateMarks(stateFile.last, stateFile.at)'
    BY <1>1, <1>3, <1>4 DEF StateInv, LateMarks
  <2> QED
    BY <1>1, <2>1, <2>2 DEF StateInv, Within
<1>8. BuildInv'
  <2> SUFFICES ASSUME phase # "idle" PROVE BuildInv'
    BY <1>1 DEF BuildInv
  <2>1. AllThere(build.maxId)'
    BY <1>1, <1>2, <1>4 DEF BuildInv, AllThere
  <2>2. LateMarks(build.maxId, build.at)'
    BY <1>1, <1>3, <1>4 DEF BuildInv, LateMarks
  <2>3. build.exportable = 0 => \A i \in Id : i <= build.maxId => ~Exportable(i)'
    BY <1>5 DEF BuildInv, AllThere
  <2>4. Within(build.counters, SyncCounters) => Within(build.counters, SyncCounters')
    BY <1>1 DEF Within
  <2> QED
    BY <1>1, <2>1, <2>2, <2>3, <2>4 DEF BuildInv, Exporting, Within
<1>9. KeptInv'
  <2> SUFFICES ASSUME NEW i \in Id, i <= stateFile.last, i \notin missed',
                      Kept(i)
               PROVE  Kept(i)'
    BY <1>1 DEF KeptInv, ShardsInv
  <2>1. messages[i].there
    BY DEF StateInv, AllThere
  <2>2. RowShown(i, stateFile.at) => RowShown(i, stateFile.at)'
    <3>1. ASSUME NEW at \in 0..MaxTime, at = stateFile.at, RowShown(i, at)
          PROVE  RowShown(i, at)'
      BY <1>4, <2>1, <3>1, RowsStayShown DEF StateInv
    <3> QED
      BY <1>1, <1>4, <3>1 DEF RowShown, Dirty
  <2>3. JunctionsShown(i, stateFile.at, stateFile.counters) => JunctionsShown(i, stateFile.at, stateFile.counters)'
    <3>1. ASSUME NEW at \in 0..MaxTime, at = stateFile.at,
                 NEW c \in Counters, c = stateFile.counters, JunctionsShown(i, at, c)
          PROVE  JunctionsShown(i, at, c)'
      BY <1>4, <2>1, <3>1, JunctionsStayShown DEF StateInv
    <3> QED
      BY <1>1, <1>4, <3>1 DEF JunctionsShown, LabelsShown, FilesShown,
         Relabelling, Storing, Transferred, Tells
  <2>4. NotLast => NotLast'
    BY <1>1 DEF NotLast, ArchiveGrows, MarksGrow
  <2>5. /\ Cleared' = Cleared /\ HasParquetData' = HasParquetData
        /\ HasCompleteParquetData' = HasCompleteParquetData
    BY <1>1, <1>6 DEF Cleared, Exporting, HasParquetData, HasCompleteParquetData
  <2> QED
    BY <1>1, <1>6, <2>2, <2>3, <2>4, <2>5 DEF Kept, Shown, Exporting
<1>10. EmptyAbove'
  BY <1>1, <1>6 DEF ShardsInv, EmptyAbove
<1>11. ExportInv'
  <2> SUFFICES ASSUME NEW i \in Id, Last < i, i <= build.maxId, i \notin missed',
                      phase \in {"rest", "save"}
               PROVE  /\ RowShown(i, build.at)'
                      /\ phase = "save" => JunctionsShown(i, build.at, build.counters)'
    BY <1>1 DEF ExportInv, Last
  <2>0. /\ RowShown(i, build.at)
        /\ phase = "save" => JunctionsShown(i, build.at, build.counters)
    BY <1>1 DEF ShardsInv, ExportInv
  <2>1. messages[i].there
    BY DEF BuildInv, AllThere
  <2>2. RowShown(i, build.at)'
    <3>1. ASSUME NEW at \in 0..MaxTime, at = build.at, RowShown(i, at)
          PROVE  RowShown(i, at)'
      BY <1>4, <2>1, <3>1, RowsStayShown DEF BuildInv
    <3> QED
      BY <1>1, <1>4, <2>0, <3>1 DEF RowShown, Dirty
  <2>3. phase = "save" => JunctionsShown(i, build.at, build.counters)'
    <3>1. ASSUME NEW at \in 0..MaxTime, at = build.at,
                 NEW c \in Counters, c = build.counters, JunctionsShown(i, at, c)
          PROVE  JunctionsShown(i, at, c)'
      BY <1>4, <2>1, <3>1, JunctionsStayShown DEF BuildInv, Exporting
    <3> QED
      BY <1>1, <1>4, <2>0, <3>1 DEF JunctionsShown, LabelsShown, FilesShown,
         Relabelling, Storing, Transferred, Tells
  <2> QED
    BY <2>2, <2>3
<1> QED
  BY <1>7, <1>8, <1>9, <1>10, <1>11 DEF ShardsInv

LEMMA TickKeeps ==
  ASSUME CacheInv, Tick
  PROVE  CacheInv'
<1> USE CacheBounds DEF Tick, database, parquet, ghosts
<1>1. CacheTypeOK'
  <2>1. /\ clock' \in 1..MaxTime
        /\ UNCHANGED <<messages, runs, current, tally, pending, shards, related, tables,
                       stateFile, phase, build, missed, torn, faults>>
    BY SMTT(30) DEF CacheInv, CacheTypeOK
  <2> HIDE DEF Tick
  <2> QED
    BY <2>1 DEF CacheInv, CacheTypeOK
<1>2. ArchiveInv'
  <2>1. \A i \in Id : messages[i].hidden \in Nat
    <3>1. \A i \in Id : messages[i] \in MessageRow
      BY DEF CacheInv, CacheTypeOK
    <3> QED
      BY <3>1 DEF MessageRow
  <2>2. clock \in Nat /\ clock' \in Nat /\ clock' >= clock
    BY SMTT(30) DEF CacheInv, CacheTypeOK
  <2>3. RowsInv'
    BY <2>1, <2>2 DEF CacheInv, ArchiveInv, RowsInv
  <2>4. RunsInv'
    BY DEF CacheInv, ArchiveInv, RunsInv, Written, Apart
  <2> QED
    BY <2>3, <2>4 DEF ArchiveInv
<1>3. /\ SyncCounters' = SyncCounters /\ clock' >= clock
      /\ stateFile.at \in Nat /\ build.at \in Nat
  BY DEF CacheInv, CacheTypeOK, MessageRow, CacheState, SyncCounters, EndedRuns
<1>4. StateInv' /\ BuildInv'
  <2> clock \in Nat /\ clock' \in Nat
    BY SMTT(30) DEF CacheInv, CacheTypeOK, MessageRow
  <2> QED
    BY <1>3, SMTT(30) DEF CacheInv, StateInv, BuildInv, Within, AllThere, LateMarks, Exporting,
       Exportable
<1>5. /\ \A i \in Id : RowShown(i, stateFile.at)' <=> RowShown(i, stateFile.at)
      /\ \A i \in Id : RowShown(i, build.at)' <=> RowShown(i, build.at)
      /\ \A i \in Id : Holding(i)' = Holding(i)
  BY DEF RowShown, Truth, View, Dirty, DeletedSince, HiddenSince, Holding,
     Row, Exportable
<1>6. /\ \A i \in Id : JunctionsShown(i, stateFile.at, stateFile.counters)' <=>
                         JunctionsShown(i, stateFile.at, stateFile.counters)
      /\ \A i \in Id : JunctionsShown(i, build.at, build.counters)' <=>
                         JunctionsShown(i, build.at, build.counters)
  BY <1>3 DEF JunctionsShown, LabelsShown, FilesShown, Exportable, Running,
     Relabelling, Storing, Transferred, Tells
<1>7. ShardsInv'
  BY <1>5, <1>6 DEF CacheInv, ShardsInv, KeptInv, EmptyAbove, ExportInv, Kept, Shown,
     Cleared, Exporting, NotLast, Last, HasParquetData, HasCompleteParquetData
<1> QED
  BY <1>1, <1>2, <1>4, <1>7 DEF CacheInv
-----------------------------------------------------------------------------
(* The steps that write the archive.                                       *)

LEMMA WriteKeeps ==
  ASSUME CacheInv, CacheTypeOK', ArchiveInv', ArchiveGrows
  PROVE  CacheInv'
BY GrowthKeeps DEF CacheInv

LEMMA EndedIs ==
  ASSUME NEW r \in RunId, runs[r] \in RunRow, NEW s \in {"completed", "failed"}
  PROVE  /\ Ended(r, s) \in RunRow /\ Ended(r, s).status = s
         /\ Ended(r, s).counters = runs[r].counters
BY DEF Ended, RunRow

\* The counters of a run that ends count from then on, and so does its failure.
LEMMA EndingCounts ==
  ASSUME RunsInv, NEW E \in SUBSET Running, EndedRuns' = EndedRuns \cup E,
         \A r \in EndedRuns \cup Running : runs'[r].counters = runs[r].counters,
         \A r \in EndedRuns : runs'[r].status = runs[r].status
  PROVE  /\ Within(SyncCounters, SyncCounters')
         /\ \A r \in E : /\ runs[r].counters.added # {} =>
                              SyncCounters'.added # SyncCounters.added
                         /\ runs[r].counters.updated # {} =>
                              SyncCounters'.updated # SyncCounters.updated
                         /\ runs'[r].status = "failed" =>
                              SyncCounters'.failed # SyncCounters.failed
<1>1. EndedRuns \subseteq RunId /\ Running \subseteq RunId /\ EndedRuns \cap Running = {}
  BY DEF EndedRuns, Running
<1>2. Within(SyncCounters, SyncCounters')
  <2>1. SyncCounters.added \subseteq SyncCounters'.added
    BY DEF SyncCounters
  <2>2. SyncCounters.updated \subseteq SyncCounters'.updated
    BY DEF SyncCounters
  <2>3. SyncCounters.failed \subseteq SyncCounters'.failed
    BY DEF SyncCounters
  <2> QED
    BY <2>1, <2>2, <2>3 DEF Within
<1>3. ASSUME NEW r \in E
      PROVE  /\ \A i \in runs[r].counters.added :
                  i \in SyncCounters'.added /\ i \notin SyncCounters.added
             /\ \A x \in runs[r].counters.updated :
                  x \in SyncCounters'.updated /\ x \notin SyncCounters.updated
             /\ runs'[r].status = "failed" =>
                  r \in SyncCounters'.failed /\ r \notin SyncCounters.failed
  <2>1. r \in EndedRuns' /\ r \in RunId /\ r \notin EndedRuns
    BY <1>1
  <2>2. \A q \in EndedRuns : Apart(runs[r].counters, runs[q].counters)
    BY <1>1, <2>1 DEF RunsInv
  <2>3. runs'[r].counters = runs[r].counters
    OBVIOUS
  <2> QED
    BY <2>1, <2>2, <2>3 DEF SyncCounters, Apart
<1> QED
  BY <1>2, <1>3

\* A row left running is failed.
LEMMA StartSyncKeeps ==
  ASSUME CacheInv, StartSync
  PROVE  CacheInv'
<1> DEFINE begun == {r \in RunId : runs[r].status # "none"}
           next == Greatest(begun) + 1
<1>1. next \in RunId /\ runs[next].status = "none"
  <2>1. next \in RunId
    BY DEF StartSync
  <2>2. /\ Greatest(begun) \in Nat
        /\ \A r \in begun : r <= Greatest(begun)
    <3>1. MaxRuns \in Nat
      BY CacheBounds
    <3>2. begun \in SUBSET (1..MaxRuns)
      BY DEF RunId
    <3>3. ASSUME NEW S \in SUBSET (1..MaxRuns)
          PROVE  Greatest(S) \in Nat /\ \A r \in S : r <= Greatest(S)
      BY <3>1, GreatestIs
    <3> HIDE DEF begun
    <3> QED
      BY <3>2, <3>3
  <2>3. next \notin begun
    <3> HIDE DEF begun
    <3> QED
      BY <2>2
  <2> HIDE DEF next
  <2> QED
    BY <2>1, <2>3
<1>2. /\ runs' = [r \in RunId |->
           CASE r = next -> [NoRun EXCEPT !.status = "running"]
             [] runs[r].status = "running" -> Ended(r, "failed")
             [] OTHER -> runs[r]]
      /\ current = 0 /\ current' = next /\ tally' = NoTally
      /\ UNCHANGED <<messages, pending, missed, faults>> /\ CacheStays
  BY DEF StartSync
<1> HIDE DEF next
<1> DEFINE new == [NoRun EXCEPT !.status = "running"]
<1>3. /\ NoTally \in Tally /\ NoTally.added = {} /\ NoTally.updated = {}
      /\ new \in RunRow /\ new.status = "running" /\ new.counters = NoTally
  BY DEF NoRun, NoTally, Tally, RunRow
<1> HIDE DEF new
<1>4. \A r \in RunId : runs[r] \in RunRow
  BY DEF CacheInv, CacheTypeOK
<1>5. runs'[next] = new /\ \A r \in RunId \ {next} :
        \/ r \in Running /\ runs'[r] = Ended(r, "failed")
        \/ r \notin Running /\ runs'[r] = runs[r]
  <2>1. ASSUME NEW r \in RunId
        PROVE  runs'[r] = CASE r = next -> new
                            [] runs[r].status = "running" -> Ended(r, "failed")
                            [] OTHER -> runs[r]
    BY <1>2, Zenon DEF new
  <2> QED
    BY <1>1, <2>1 DEF Running
<1>6. /\ \A r \in RunId \ {next} : /\ runs'[r].counters = runs[r].counters
                                   /\ runs'[r].status # "running"
      /\ \A r \in Running : runs'[r].status = "failed"
      /\ \A r \in RunId : runs'[r] \in RunRow
      /\ next \notin Running
  BY <1>1, <1>3, <1>4, <1>5, EndedIs DEF Running
<1>7. Running' = {next} /\ EndedRuns' = EndedRuns \cup Running
  BY <1>1, <1>3, <1>5, <1>6 DEF Running, EndedRuns
<1>8. CacheTypeOK'
  <2>1. runs' \in [RunId -> RunRow]
    BY <1>2, <1>6
  <2>2. current' \in 0..MaxRuns
    BY <1>1, <1>2, CacheBounds DEF RunId
  <2> QED
    BY <1>2, <1>3, <2>1, <2>2 DEF CacheInv, CacheTypeOK, CacheStays, parquet
<1>9. ArchiveInv'
  <2>1. RowsInv'
    BY <1>2 DEF CacheInv, ArchiveInv, RowsInv, CacheStays
  <2>2. pending = 0 /\ next # 0 /\ runs'[next].status = "running"
    BY <1>1, <1>2, <1>3, <1>5 DEF CacheInv, ArchiveInv, RunsInv, RunId
  <2>3. ASSUME NEW r \in RunId
        PROVE  /\ \/ runs'[r].counters = NoTally
                  \/ r # next /\ runs'[r].counters = runs[r].counters
               /\ Written(runs[r].counters)'
    <3>1. Written(runs[r].counters)
      BY DEF CacheInv, ArchiveInv, RunsInv
    <3>2. CASE r = next
      BY <1>3, <1>5, <3>2 DEF Written
    <3>3. CASE r # next
      BY <1>2, <1>6, <3>1, <3>3 DEF Written
    <3> QED
      BY <1>3, <1>5, <1>6, <3>2, <3>3
  <2>4. Written(tally)' /\ \A r \in RunId : Apart(tally, runs[r].counters)'
    BY <1>2, <1>3 DEF Written, Apart
  <2>5. \A r, q \in RunId : r # q => Apart(runs[r].counters, runs[q].counters)'
    BY <1>3, <2>3 DEF CacheInv, ArchiveInv, RunsInv, Apart
  <2>6. \A r \in RunId : Written(runs[r].counters)'
    BY <2>3
  <2> QED
    BY <1>2, <1>3, <1>5, <2>1, <2>2, <2>4, <2>5, <2>6 DEF ArchiveInv, RunsInv
<1>10. CountsGrow
  <2>1. \A r \in EndedRuns : runs'[r].status = runs[r].status
    BY <1>1, <1>5 DEF EndedRuns, Running
  <2>2. EndedRuns \cup Running \subseteq RunId \ {next}
    BY <1>1 DEF EndedRuns, Running
  <2>3. /\ Within(SyncCounters, SyncCounters')
        /\ \A r \in Running : SyncCounters'.failed # SyncCounters.failed
    BY <1>6, <1>7, <2>1, <2>2, EndingCounts DEF CacheInv, ArchiveInv
  <2>4. tally = NoTally
    BY <1>2 DEF CacheInv, ArchiveInv, RunsInv
  <2>5. \A i \in Id : Relabelling(i) \/ Storing(i) => \E r \in Running : TRUE
    BY <1>3, <2>4 DEF Relabelling, Storing
  <2> QED
    BY <1>2, <2>3, <2>5 DEF CountsGrow
<1> QED
  BY <1>2, <1>8, <1>9, <1>10, WriteKeeps DEF ArchiveGrows, MarksGrow

LEMMA SameCounters ==
  ASSUME EndedRuns' = EndedRuns, \A r \in EndedRuns : runs'[r] = runs[r]
  PROVE  SyncCounters' = SyncCounters
<1>1. {runs'[r].counters.added : r \in EndedRuns'} = {runs[r].counters.added : r \in EndedRuns}
  OBVIOUS
<1>2. {runs'[r].counters.updated : r \in EndedRuns'} =
        {runs[r].counters.updated : r \in EndedRuns}
  OBVIOUS
<1>3. {r \in EndedRuns' : runs'[r].status = "failed"} =
        {r \in EndedRuns : runs[r].status = "failed"}
  OBVIOUS
<1> QED
  BY <1>1, <1>2, <1>3, Zenon DEF SyncCounters

\* A row left running is resumed, with the counters it has.
LEMMA ResumeSyncKeeps ==
  ASSUME CacheInv, NEW r \in RunId, ResumeSync(r)
  PROVE  CacheInv'
<1> USE CacheBounds DEF CacheInv, ArchiveInv
<1>1. /\ current = 0 /\ runs[r].status = "running" /\ r \in Running
      /\ current' = r /\ tally' = runs[r].counters
      /\ UNCHANGED <<messages, runs, pending, missed, faults>> /\ CacheStays
  BY DEF ResumeSync, Running
<1>2. runs[r].counters \in Tally /\ r \in 0..MaxRuns /\ r # 0
  <2>1. runs[r] \in RunRow
    BY DEF CacheTypeOK
  <2> QED
    BY <2>1 DEF RunRow, RunId
<1>3. CacheTypeOK'
  BY <1>1, <1>2 DEF CacheTypeOK, CacheStays, parquet
<1>4. ArchiveInv'
  <2>1. RowsInv'
    BY <1>1 DEF RowsInv, CacheStays
  <2>2. pending = 0
    BY <1>1 DEF RunsInv
  <2>3. /\ \A q \in RunId : Written(runs[q].counters)'
        /\ \A q \in RunId : q # r => Apart(tally, runs[q].counters)'
        /\ \A p, q \in RunId : p # q => Apart(runs[p].counters, runs[q].counters)'
    BY <1>1 DEF RunsInv, Written, Apart
  <2>4. Written(tally)'
    BY <1>1 DEF RunsInv, Written
  <2> QED
    BY <1>1, <1>2, <2>1, <2>2, <2>3, <2>4 DEF RunsInv
<1>5. SyncCounters' = SyncCounters /\ Running' = Running
  BY <1>1, SameCounters DEF EndedRuns, Running
<1>6. CountsGrow
  <2>1. tally = NoTally
    BY <1>1 DEF RunsInv
  <2>2. \A i \in Id : (Relabelling(i) => Relabelling(i)') /\ (Storing(i) => Storing(i)')
    BY <1>1, <1>5, <2>1 DEF Relabelling, Storing, NoTally
  <2> QED
    BY <1>1, <1>5, <2>2 DEF CountsGrow, Within
<1> QED
  BY <1>1, <1>3, <1>4, <1>6, WriteKeeps DEF ArchiveGrows, MarksGrow

\* Ids are given in order.
LEMMA PersistMessageKeeps ==
  ASSUME CacheInv, PersistMessage
  PROVE  CacheInv'
<1> DEFINE there == {j \in Id : messages[j].there}
           i == Greatest(there) + 1
<1>1. /\ current # 0 /\ pending = 0 /\ i \in Id
      /\ messages' = [messages EXCEPT ![i].there = TRUE]
      /\ pending' = i
      /\ UNCHANGED <<runs, current, tally, missed, faults>> /\ CacheStays
  BY DEF PersistMessage
<1>2. /\ \A j \in Id : messages[j].there => j < i
      /\ \A j \in Id : j < i => messages[j].there
  <2>1. Greatest(there) \in there \cup {0} /\ \A j \in there : j <= Greatest(there)
    <3>1. ASSUME NEW S \in SUBSET (1..MaxId)
          PROVE  Greatest(S) \in S \cup {0} /\ \A j \in S : j <= Greatest(S)
      BY GreatestIs, CacheBounds
    <3>2. there \in SUBSET (1..MaxId)
      BY DEF Id
    <3> HIDE DEF there
    <3> QED
      BY <3>1, <3>2
  <2>2. \A j \in there : \A k \in Id : k <= j => k \in there
    BY DEF CacheInv, ArchiveInv, RowsInv
  <2>3. there \subseteq Id /\ Id \subseteq Nat \ {0}
    BY DEF Id
  <2>4. \A j \in Id : (j \in there => j < i) /\ (j < i => j \in there)
    <3> DEFINE top == Greatest(there)
    <3>1. top \in Nat /\ i = top + 1
      <4>1. top \in there \cup {0}
        BY <2>1
      <4>2. top \in Nat
        <5> HIDE DEF there, top
        <5> QED
          BY <2>3, <4>1
      <4> QED
        BY <4>2
    <3>2. top \in there \cup {0} /\ \A j \in there : j <= top
      BY <2>1
    <3> HIDE DEF there, i, top
    <3> QED
      BY <2>2, <2>3, <3>1, <3>2
  <2> QED
    BY <2>4
<1> HIDE DEF i, there
<1>3. /\ messages' \in [Id -> MessageRow] /\ messages'[i].there
      /\ \A j \in Id \ {i} : messages'[j] = messages[j]
      /\ messages'[i].gone = messages[i].gone /\ messages'[i].hidden = messages[i].hidden
      /\ messages'[i].into = messages[i].into
      /\ messages'[i].labels = messages[i].labels /\ messages'[i].files = messages[i].files
  BY <1>1 DEF CacheInv, CacheTypeOK, MessageRow
<1>4. ~messages[i].there
  BY <1>1, <1>2 DEF Id
<1>5. CacheTypeOK'
  <2>1. pending' \in 0..MaxId
    BY <1>1 DEF Id
  <2> QED
    BY <1>1, <1>3, <2>1 DEF CacheInv, CacheTypeOK, CacheStays, parquet
<1>6. SyncCounters' = SyncCounters /\ Running' = Running
  BY <1>1, SameCounters DEF EndedRuns, Running
<1>7. RowsInv'
  BY <1>1, <1>2, <1>3 DEF CacheInv, ArchiveInv, RowsInv, Id, CacheStays
<1>8. RunsInv'
  <2>1. ~messages'[i].files
    BY <1>1, <1>3, <1>4 DEF CacheInv, ArchiveInv, RowsInv
  <2>2. ASSUME NEW c \in Tally, Written(c)
        PROVE  /\ \A j \in c.added : messages'[j].files
               /\ \A x \in c.updated : x[2] < messages'[x[1]].labels
    <3>1. c.added \subseteq Id /\ c.updated \subseteq Id \X Nat
      BY DEF Tally
    <3> QED
      BY <1>1, <1>3, <2>2, <3>1 DEF Written
  <2>3. tally \in Tally /\ \A r \in RunId : runs[r].counters \in Tally
    BY DEF CacheInv, CacheTypeOK, RunRow
  <2>4. Written(tally)' /\ \A r \in RunId : Written(runs[r].counters)'
    BY <1>1, <2>2, <2>3 DEF CacheInv, ArchiveInv, RunsInv, Written
  <2> QED
    BY <1>1, <1>3, <2>1, <2>4 DEF CacheInv, ArchiveInv, RunsInv, Apart
<1>9. ArchiveGrows
  <2>1. MarksGrow
    BY <1>3 DEF MarksGrow
  <2>2. \A j \in Id : (Relabelling(j) => Relabelling(j)') /\ (Storing(j) => Storing(j)')
    BY <1>1, <1>6 DEF Relabelling, Storing
  <2>3. CountsGrow
    BY <1>3, <1>4, <1>6, <2>2 DEF CountsGrow, Within
  <2> QED
    BY <1>1, <2>1, <2>3 DEF ArchiveGrows
<1> QED
  BY <1>5, <1>7, <1>8, <1>9, WriteKeeps DEF ArchiveInv

LEMMA RelabelledRow ==
  ASSUME NEW m \in MessageRow
  PROVE  LET new == [m EXCEPT !.labels = @ + 1]
         IN /\ new \in MessageRow /\ new.labels = m.labels + 1 /\ m.labels \in Nat
            /\ new.there = m.there /\ new.gone = m.gone /\ new.hidden = m.hidden
            /\ new.into = m.into /\ new.files = m.files
BY DEF MessageRow

LEMMA RelabelledIs ==
  ASSUME NEW i \in Id, messages \in [Id -> MessageRow], messages[i].there,
         messages' = [messages EXCEPT ![i].labels = @ + 1]
  PROVE  /\ messages' \in [Id -> MessageRow]
         /\ messages'[i].labels = messages[i].labels + 1
         /\ \A j \in Id \ {i} : messages'[j] = messages[j]
         /\ messages'[i].gone = messages[i].gone /\ messages'[i].hidden = messages[i].hidden
         /\ messages'[i].into = messages[i].into
         /\ messages'[i].files = messages[i].files /\ messages'[i].there
<1> DEFINE row == [messages[i] EXCEPT !.labels = @ + 1]
<1>1. /\ row \in MessageRow /\ row.labels = messages[i].labels + 1
      /\ row.there = messages[i].there /\ row.gone = messages[i].gone
      /\ row.hidden = messages[i].hidden /\ row.into = messages[i].into
      /\ row.files = messages[i].files
  BY RelabelledRow
<1>2. messages' = [messages EXCEPT ![i] = row]
  OBVIOUS
<1> HIDE DEF row
<1> QED
  BY <1>1, <1>2

LEMMA MergedIs ==
  ASSUME NEW i \in Id, NEW s \in Id \ {i}, messages \in [Id -> MessageRow],
         NEW row,
         messages' = [messages EXCEPT ![i] = row, ![s].labels = @ + 1]
  PROVE  messages' = [messages EXCEPT ![i] = row,
                                      ![s] = [messages[s] EXCEPT !.labels = @ + 1]]
<1>1. [messages EXCEPT ![i] = row][s] = messages[s]
  OBVIOUS
<1> QED
  BY <1>1

\* A change that the run counts in memory: no run has counted the same.
LEMMA CountKeeps ==
  ASSUME CacheInv, current # 0, UNCHANGED <<runs, current, missed, faults>>, CacheStays,
         NEW added \in SUBSET Id, NEW updated \in SUBSET (Id \X Nat),
         Count(added, updated), pending' = 0,
         messages' \in [Id -> MessageRow], RowsInv', MarksGrow,
         \A i \in Id : messages[i].files => messages'[i].files,
         \A i \in Id : messages'[i].labels >= messages[i].labels,
         \A i \in added : ~messages[i].files /\ messages'[i].files,
         \A x \in updated : x[2] >= messages[x[1]].labels /\ x[2] < messages'[x[1]].labels,
         \A i \in Id : messages'[i].labels = messages[i].labels \/ \E x \in updated : x[1] = i,
         \A i \in Id : messages'[i].files = messages[i].files \/ i \in added
  PROVE  CacheInv'
<1> USE CacheBounds DEF CacheInv, ArchiveInv
<1>1. /\ tally \in Tally /\ tally' \in Tally
      /\ tally'.added = tally.added \cup added
      /\ tally'.updated = tally.updated \cup updated
  BY DEF CacheTypeOK, Tally, Count
<1>2. CacheTypeOK'
  BY <1>1 DEF CacheTypeOK, CacheStays, parquet
<1>3. SyncCounters' = SyncCounters /\ Running' = Running
  BY SameCounters DEF EndedRuns, Running
<1>4. \A r \in RunId : runs[r].counters \in Tally
  BY DEF CacheTypeOK, RunRow
<1>5. ASSUME NEW i \in Id
      PROVE  messages[i].labels \in Nat /\ messages'[i].labels \in Nat
  <2>1. messages[i] \in MessageRow /\ messages'[i] \in MessageRow
    BY DEF CacheTypeOK
  <2> QED
    BY <2>1 DEF MessageRow
<1>6. RunsInv'
  <2>1. ASSUME NEW c \in Tally, Written(c)
        PROVE  /\ \A i \in c.added : messages'[i].files
               /\ \A x \in c.updated : x[2] < messages'[x[1]].labels
               /\ c.added \cap added = {} /\ c.updated \cap updated = {}
    <3>1. c.added \subseteq Id /\ c.updated \subseteq Id \X Nat
      BY DEF Tally
    <3>2. ASSUME NEW x \in c.updated
          PROVE  x[2] < messages'[x[1]].labels /\ x \notin updated
      <4>1. x[1] \in Id /\ x[2] \in Nat /\ x[2] < messages[x[1]].labels
        BY <2>1, <3>1 DEF Written
      <4> QED
        BY <1>5, <4>1
    <3> QED
      BY <2>1, <3>1, <3>2 DEF Written
  <2>2. \A r \in RunId : Written(runs[r].counters)'
    BY <1>4, <2>1 DEF RunsInv, Written
  <2>3. Written(tally)'
    BY <1>1, <2>1 DEF RunsInv, Written
  <2>4. ASSUME NEW r \in RunId, r # current PROVE Apart(tally, runs[r].counters)'
    <3>1. Apart(tally, runs[r].counters) /\ Written(runs[r].counters)
      BY <2>4 DEF RunsInv
    <3> QED
      BY <1>1, <1>4, <2>1, <3>1 DEF Apart
  <2>5. \A r, q \in RunId : r # q => Apart(runs[r].counters, runs[q].counters)'
    BY DEF RunsInv, Apart
  <2> QED
    BY <1>1, <2>2, <2>3, <2>4, <2>5 DEF RunsInv
<1>7. CountsGrow
  <2>1. \A i \in Id : (Relabelling(i) => Relabelling(i)') /\ (Storing(i) => Storing(i)')
    BY <1>1, <1>3 DEF Relabelling, Storing
  <2>2. \A i \in Id : /\ messages'[i].labels = messages[i].labels \/ Relabelling(i)'
                      /\ messages'[i].files = messages[i].files \/ Storing(i)'
    BY <1>1 DEF Relabelling, Storing
  <2> QED
    BY <1>3, <2>1, <2>2 DEF CountsGrow, Within
<1> QED
  BY <1>2, <1>6, <1>7, WriteKeeps DEF ArchiveGrows

\* Files are written before they are counted.
LEMMA StoreAttachmentsKeeps ==
  ASSUME CacheInv, StoreAttachments
  PROVE  CacheInv'
<1> USE CacheBounds DEF CacheInv, ArchiveInv
<1> DEFINE i == pending
<1>1. i \in Id /\ messages[i].there /\ ~messages[i].files /\ current # 0
  BY SMTT(30) DEF StoreAttachments, CacheTypeOK, RunsInv, Id
<1>2. /\ messages' = [messages EXCEPT ![i].files = TRUE]
      /\ Count({i}, {}) /\ pending' = 0
      /\ UNCHANGED <<runs, current, missed, faults>> /\ CacheStays
  BY DEF StoreAttachments
<1>3. /\ messages' \in [Id -> MessageRow] /\ messages'[i].files
      /\ \A j \in Id \ {i} : messages'[j] = messages[j]
      /\ messages'[i].gone = messages[i].gone /\ messages'[i].hidden = messages[i].hidden
      /\ messages'[i].into = messages[i].into
      /\ messages'[i].labels = messages[i].labels /\ messages'[i].there
  BY <1>1, <1>2 DEF CacheTypeOK, MessageRow
<1>4. RowsInv' /\ MarksGrow
  BY <1>1, <1>2, <1>3 DEF RowsInv, MarksGrow, CacheStays
<1>5. \A j \in Id : messages[j].labels \in Nat
  BY DEF CacheTypeOK, MessageRow
<1>6. \A j \in Id : /\ messages'[j].labels = messages[j].labels
                    /\ messages'[j].labels >= messages[j].labels
                    /\ messages'[j].files = messages[j].files \/ j = i
  BY <1>3, <1>5
<1> HIDE DEF i
<1> DEFINE added == {i}
           updated == {}
<1>7. /\ added \in SUBSET Id /\ updated \in SUBSET (Id \X Nat)
      /\ Count(added, updated)
  BY <1>1, <1>2
<1>8. /\ \A j \in Id : messages[j].files => messages'[j].files
      /\ \A j \in added : ~messages[j].files /\ messages'[j].files
      /\ \A j \in Id : messages'[j].files = messages[j].files \/ j \in added
  BY <1>1, <1>3
<1>9. /\ \A x \in updated : x[2] >= messages[x[1]].labels /\ x[2] < messages'[x[1]].labels
      /\ \A j \in Id : messages'[j].labels = messages[j].labels \/ \E x \in updated : x[1] = j
      /\ \A j \in Id : messages'[j].labels >= messages[j].labels
  BY <1>6
<1>10. current # 0 /\ UNCHANGED <<runs, current, missed, faults>> /\ CacheStays /\ pending' = 0
  BY <1>1, <1>2
<1> HIDE DEF CacheInv, ArchiveInv, added, updated
<1> QED
  BY <1>3, <1>4, <1>7, <1>8, <1>9, <1>10, CountKeeps, Zenon

\* A change of labels counts the value it replaces: no value comes back.
LEMMA ChangeLabelsKeeps ==
  ASSUME CacheInv, NEW i \in Id, ChangeLabels(i)
  PROVE  CacheInv'
<1> USE CacheBounds DEF CacheInv, ArchiveInv
<1> DEFINE old == messages[i].labels
<1>1. /\ current # 0 /\ pending' = 0 /\ messages[i].there /\ old \in Nat
      /\ messages' = [messages EXCEPT ![i].labels = @ + 1]
      /\ Count({}, {<<i, old>>})
      /\ UNCHANGED <<runs, current, missed, faults>> /\ CacheStays
  BY DEF ChangeLabels, CacheTypeOK, MessageRow
<1>2. /\ messages' \in [Id -> MessageRow] /\ messages'[i].labels = old + 1
      /\ \A j \in Id \ {i} : messages'[j] = messages[j]
      /\ messages'[i].gone = messages[i].gone /\ messages'[i].hidden = messages[i].hidden
      /\ messages'[i].into = messages[i].into
      /\ messages'[i].files = messages[i].files /\ messages'[i].there
  BY <1>1, RelabelledIs DEF CacheTypeOK
<1>3. RowsInv' /\ MarksGrow
  BY <1>1, <1>2 DEF RowsInv, MarksGrow, CacheStays
<1>4. \A j \in Id : messages[j].labels \in Nat
  BY DEF CacheTypeOK, MessageRow
<1>5. \A j \in Id : /\ messages'[j].files = messages[j].files
                    /\ messages'[j].labels >= messages[j].labels
                    /\ messages'[j].labels = messages[j].labels \/ j = i
  BY <1>1, <1>2, <1>4
<1>6. {} \in SUBSET Id /\ {<<i, old>>} \in SUBSET (Id \X Nat)
  BY <1>1
<1>7. \A x \in {<<i, old>>} : /\ x[1] = i /\ x[2] >= messages[x[1]].labels
                             /\ x[2] < messages'[x[1]].labels
  BY <1>1, <1>2
<1> HIDE DEF old, CacheInv, ArchiveInv
<1>8. \A j \in Id : messages'[j].labels = messages[j].labels \/ \E x \in {<<i, old>>} : x[1] = j
  BY <1>5, <1>7
<1> QED
  BY <1>1, <1>2, <1>3, <1>5, <1>6, <1>7, <1>8, CountKeeps, SMTT(30)

\* Marks that are set leave the runs as they are.
LEMMA MarkKeeps ==
  ASSUME CacheInv, messages' \in [Id -> MessageRow], MarksGrow, RowsInv',
         \A i \in Id : messages'[i].files = messages[i].files,
         \A i \in Id : messages'[i].labels >= messages[i].labels,
         \A i \in Id : i \in missed' \/ messages'[i].labels = messages[i].labels
                       \/ Transferred(i, clock)',
         pending # 0 => messages'[pending].there,
         missed \subseteq missed', missed' \subseteq Id,
         UNCHANGED <<runs, current, tally, pending, faults>>, CacheStays
  PROVE  CacheInv'
<1> USE CacheBounds DEF CacheInv, ArchiveInv
<1>1. CacheTypeOK'
  BY DEF CacheTypeOK, CacheStays, parquet
<1>2. SyncCounters' = SyncCounters /\ Running' = Running
  BY SameCounters DEF EndedRuns, Running
<1>3. RunsInv'
  <2>1. ASSUME NEW c \in Tally, Written(c)
        PROVE  /\ \A i \in c.added : messages'[i].files
               /\ \A x \in c.updated : x[2] < messages'[x[1]].labels
    <3>1. c.added \subseteq Id /\ c.updated \subseteq Id \X Nat
      BY DEF Tally
    <3>2. ASSUME NEW x \in c.updated PROVE x[2] < messages'[x[1]].labels
      <4>1. x[1] \in Id /\ x[2] \in Nat /\ x[2] < messages[x[1]].labels
        BY <2>1, <3>1 DEF Written
      <4>2. messages[x[1]] \in MessageRow /\ messages'[x[1]] \in MessageRow
        BY <4>1 DEF CacheTypeOK
      <4>3. messages[x[1]].labels \in Nat /\ messages'[x[1]].labels \in Nat
        BY <4>2 DEF MessageRow
      <4> QED
        BY <4>1, <4>3
    <3> QED
      BY <2>1, <3>1, <3>2 DEF Written
  <2>2. tally \in Tally /\ \A r \in RunId : runs[r].counters \in Tally
    BY DEF CacheTypeOK, RunRow
  <2>3. Written(tally)' /\ \A r \in RunId : Written(runs[r].counters)'
    BY <2>1, <2>2 DEF RunsInv, Written
  <2>4. pending # 0 => ~messages'[pending].files
    BY SMTT(30) DEF RunsInv, CacheTypeOK, Id
  <2> QED
    BY <2>3, <2>4 DEF RunsInv, Apart
<1>4. CountsGrow
  <2>1. \A i \in Id : (Relabelling(i) => Relabelling(i)') /\ (Storing(i) => Storing(i)')
    BY <1>2 DEF Relabelling, Storing
  <2> QED
    BY <1>2, <2>1 DEF CountsGrow, Within
<1> QED
  BY <1>1, <1>3, <1>4, WriteKeeps DEF ArchiveGrows

LEMMA MarkDeletedKeeps ==
  ASSUME CacheInv, NEW i \in Id, MarkDeleted(i)
  PROVE  CacheInv'
<1> USE CacheBounds DEF CacheInv, ArchiveInv
<1> DEFINE row == [messages[i] EXCEPT !.gone = clock]
<1>1. /\ messages[i].there /\ messages' = [messages EXCEPT ![i] = row]
      /\ missed' = missed /\ missed' \subseteq Id
      /\ UNCHANGED <<runs, current, tally, pending, faults>> /\ CacheStays
  BY DEF MarkDeleted, CacheTypeOK
<1>2. messages[i] \in MessageRow /\ clock \in 0..MaxTime
  BY DEF CacheTypeOK
<1>3. /\ row \in MessageRow /\ row.there = messages[i].there /\ row.gone = clock
      /\ row.hidden = messages[i].hidden /\ row.into = messages[i].into
      /\ row.labels = messages[i].labels /\ row.files = messages[i].files
  BY <1>2 DEF MessageRow
<1> HIDE DEF row
<1>4. /\ messages' \in [Id -> MessageRow] /\ messages'[i] = row
      /\ \A j \in Id \ {i} : messages'[j] = messages[j]
  BY <1>1, <1>3 DEF CacheTypeOK
<1>5. RowsInv' /\ MarksGrow
  BY <1>1, <1>3, <1>4 DEF RowsInv, MarksGrow, CacheStays
<1>6. \A j \in Id : /\ messages'[j].there = messages[j].there
                    /\ messages'[j].labels = messages[j].labels
                    /\ messages'[j].files = messages[j].files
  BY <1>3, <1>4
<1>7. ASSUME NEW j \in Id PROVE messages'[j].labels >= messages[j].labels
  <2>1. messages[j] \in MessageRow
    BY DEF CacheTypeOK
  <2>2. messages[j].labels \in Nat
    BY <2>1 DEF MessageRow
  <2> QED
    BY <1>6, <2>2
<1>8. pending # 0 => messages'[pending].there
  BY <1>6, SMTT(30) DEF RunsInv, CacheTypeOK, Id
<1> HIDE DEF CacheInv, ArchiveInv
<1> QED
  BY <1>1, <1>4, <1>5, <1>6, <1>7, <1>8, MarkKeeps, Zenon

\* A merge changes two rows.
LEMMA HideDuplicateKeeps ==
  ASSUME CacheInv, NEW i \in Id, NEW survivor \in Id, HideDuplicate(i, survivor)
  PROVE  CacheInv'
<1> USE CacheBounds DEF CacheInv, ArchiveInv
<1> DEFINE row == [messages[i] EXCEPT !.hidden = clock, !.into = survivor]
           other == [messages[survivor] EXCEPT !.labels = @ + 1]
<1>1. /\ messages[i].there /\ messages[i].hidden = Null
      /\ survivor # i /\ messages[survivor].there
      /\ messages' = [messages EXCEPT ![i] = row, ![survivor].labels = @ + 1]
      /\ missed \subseteq missed' /\ missed' \subseteq Id
      /\ messages[i].gone # Null => i \in missed' /\ survivor \in missed'
      /\ UNCHANGED <<runs, current, tally, pending, faults>> /\ CacheStays
  BY DEF HideDuplicate, CacheTypeOK
<1>2. /\ messages \in [Id -> MessageRow] /\ clock \in 0..MaxTime
      /\ clock # 0 /\ clock >= clock
  BY SMTT(30) DEF CacheTypeOK
<1>3. /\ messages[i] \in MessageRow /\ messages[survivor] \in MessageRow
      /\ survivor \in 0..MaxId
  BY <1>2 DEF Id
<1>4. /\ row \in MessageRow /\ row.there = messages[i].there /\ row.hidden = clock
      /\ row.into = survivor /\ row.gone = messages[i].gone
      /\ row.labels = messages[i].labels /\ row.files = messages[i].files
  <2> DEFINE one == [messages[i] EXCEPT !.hidden = clock]
  <2>1. row = [one EXCEPT !.into = survivor]
    OBVIOUS
  <2> DEFINE m == messages[i]
  <2>2. m \in MessageRow /\ one = [m EXCEPT !.hidden = clock]
    BY <1>3
  <2> HIDE CacheBounds DEF row, one, m, CacheInv
  <2>3. /\ one \in MessageRow /\ one.hidden = clock
        /\ one.there = m.there /\ one.gone = m.gone
        /\ one.labels = m.labels /\ one.files = m.files
    BY <1>2, <2>2 DEF MessageRow
  <2>4. /\ row \in MessageRow /\ row.there = m.there /\ row.hidden = clock
        /\ row.into = survivor /\ row.gone = m.gone
        /\ row.labels = m.labels /\ row.files = m.files
    BY <1>3, <2>1, <2>3 DEF MessageRow
  <2> QED
    BY <2>4 DEF m
<1>5. LET m == messages[survivor]
      IN /\ other \in MessageRow /\ other.there = m.there /\ other.hidden = m.hidden
         /\ other.into = m.into /\ other.gone = m.gone
         /\ other.labels = m.labels + 1 /\ other.files = m.files
  BY <1>3, RelabelledRow
<1> HIDE DEF row
<1>6. messages' = [messages EXCEPT ![i] = row, ![survivor] = other]
  BY <1>1, <1>2, MergedIs
<1> HIDE DEF other, CacheInv
<1>7. /\ messages' \in [Id -> MessageRow]
      /\ messages'[i] = row /\ messages'[survivor] = other
      /\ \A j \in Id \ {i, survivor} : messages'[j] = messages[j]
  BY <1>1, <1>2, <1>4, <1>5, <1>6
<1> USE DEF CacheInv
<1>8. RowsInv' /\ MarksGrow
  <2>1. \A j \in Id : /\ messages'[j].there = messages[j].there
                      /\ messages'[j].gone = messages[j].gone
                      /\ messages'[j].files = messages[j].files
                      /\ j # i => /\ messages'[j].hidden = messages[j].hidden
                                 /\ messages'[j].into = messages[j].into
    BY <1>4, <1>5, <1>7
  <2>2. clock' = clock
    BY <1>1 DEF CacheStays
  <2>3. RowsInv'
    BY <1>1, <1>2, <1>4, <1>7, <2>1, <2>2 DEF RowsInv
  <2>4. MarksGrow
    BY <1>1, <1>4, <1>7, <2>1 DEF MarksGrow
  <2> QED
    BY <2>3, <2>4
<1>9. Transferred(survivor, clock)' \/ survivor \in missed'
  <2> SUFFICES ASSUME messages[i].gone = Null PROVE Transferred(survivor, clock)'
    BY <1>1
  <2>1. messages'[i].into = survivor /\ messages'[i].hidden = clock /\ messages'[i].gone = Null
    BY <1>4, <1>7
  <2>2. clock' = clock /\ clock # Null /\ clock >= clock
    BY <1>1, <1>2 DEF CacheStays, Null
  <2>3. Tells(i, clock)'
    BY <2>1, <2>2 DEF Tells
  <2> QED
    BY <2>1, <2>3 DEF Transferred
<1>10. \A j \in Id : /\ messages'[j].there = messages[j].there
                     /\ messages'[j].files = messages[j].files
                     /\ messages'[j].labels = messages[j].labels \/ j = survivor
  BY <1>4, <1>5, <1>7
<1>11. \A j \in Id : messages'[j].labels >= messages[j].labels
  <2>1. \A j \in Id : messages[j].labels \in Nat
    BY DEF CacheTypeOK, MessageRow
  <2> QED
    BY <1>4, <1>5, <1>7, <2>1
<1>12. pending # 0 => messages'[pending].there
  BY <1>10, SMTT(30) DEF RunsInv, CacheTypeOK, Id
<1>13. \A j \in Id : \/ j \in missed' \/ messages'[j].labels = messages[j].labels
                     \/ Transferred(j, clock)'
  BY <1>9, <1>10
<1> HIDE DEF CacheInv, ArchiveInv
<1> QED
  BY <1>1, <1>7, <1>8, <1>10, <1>11, <1>12, <1>13, MarkKeeps, Zenon

\* A checkpoint: the row counts what the run does.
LEMMA SaveCheckpointKeeps ==
  ASSUME CacheInv, SaveCheckpoint
  PROVE  CacheInv'
<1> USE CacheBounds DEF CacheInv, ArchiveInv
<1>1. /\ current # 0 /\ runs' = [runs EXCEPT ![current].counters = tally]
      /\ UNCHANGED <<messages, current, tally, pending, missed, faults>> /\ CacheStays
  BY DEF SaveCheckpoint
<1>2. current \in RunId /\ current \in Running /\ tally \in Tally
  BY <1>1 DEF CacheTypeOK, RunsInv, RunId, Running
<1>3. /\ runs' \in [RunId -> RunRow] /\ runs'[current].counters = tally
      /\ runs'[current].status = runs[current].status
      /\ runs'[current].lost = runs[current].lost
      /\ \A r \in RunId \ {current} : runs'[r] = runs[r]
  BY <1>1, <1>2 DEF CacheTypeOK, RunRow
<1>4. CacheTypeOK'
  BY <1>1, <1>3 DEF CacheTypeOK, CacheStays, parquet
<1>5. /\ Running' = Running /\ EndedRuns' = EndedRuns /\ current \notin EndedRuns
      /\ EndedRuns \subseteq RunId /\ Running \subseteq RunId
  BY <1>2, <1>3 DEF Running, EndedRuns
<1>6. SyncCounters' = SyncCounters
  BY <1>3, <1>5, SameCounters
<1>7. RowsInv' /\ RunsInv'
  <2>1. RowsInv'
    BY <1>1 DEF RowsInv, CacheStays
  <2>2. ASSUME NEW r \in RunId
        PROVE  Written(runs[r].counters)' /\ (r # current => Apart(tally, runs[r].counters)')
    BY <1>1, <1>3 DEF RunsInv, Written, Apart
  <2>3. ASSUME NEW r \in RunId, NEW q \in RunId, r # q
        PROVE  Apart(runs[r].counters, runs[q].counters)'
    BY <1>1, <1>3, <2>3 DEF RunsInv, Apart
  <2>4. Written(tally)'
    BY <1>1 DEF RunsInv, Written
  <2> QED
    BY <1>1, <1>3, <2>1, <2>2, <2>3, <2>4 DEF RunsInv
<1>8. CountsGrow
  <2>1. runs[current].counters.added \subseteq tally.added
        /\ runs[current].counters.updated \subseteq tally.updated
    BY <1>1 DEF RunsInv
  <2>2. \A i \in Id : (Relabelling(i) => Relabelling(i)') /\ (Storing(i) => Storing(i)')
    BY <1>1, <1>3, <1>5, <2>1 DEF Relabelling, Storing
  <2> QED
    BY <1>1, <1>6, <2>2 DEF CountsGrow, Within
<1> QED
  BY <1>1, <1>4, <1>7, <1>8, WriteKeeps DEF ArchiveGrows, MarksGrow

\* What the row of a run does not count is among what is not counted.
LEMMA UncountedIs ==
  ASSUME CacheTypeOK, current \in RunId
  PROVE  /\ Uncounted \subseteq Id
         /\ \A i \in tally.added : i \in runs[current].counters.added \/ i \in Uncounted
         /\ \A x \in tally.updated : x \in runs[current].counters.updated
                                      \/ x[1] \in Uncounted
<1>1. tally \in Tally
  BY DEF CacheTypeOK
<1> QED
  BY <1>1 DEF Uncounted, Touched, Tally

\* A run ends: its failure is counted, or its counters are, and what they lack
\* is named by missed.
LEMMA EndRunKeeps ==
  ASSUME CacheInv, NEW s \in {"completed", "failed"}, EndRun(s),
         faults' \in 0..MaxFaults, missed \subseteq missed', missed' \subseteq Id,
         s = "completed" => \A i \in runs[current].lost \cup Uncounted :
                              i \in missed' \/ Settled(i)
  PROVE  CacheInv'
<1> USE CacheBounds DEF CacheInv, ArchiveInv
<1>1. /\ current # 0 /\ pending = 0
      /\ runs' = [runs EXCEPT ![current] = Ended(current, s)]
      /\ current' = 0 /\ tally' = NoTally
      /\ UNCHANGED <<messages, pending>> /\ CacheStays
  BY DEF EndRun
<1>2. current \in RunId /\ current \in Running
  BY <1>1 DEF CacheTypeOK, RunsInv, RunId, Running
<1>3. /\ Ended(current, s) \in RunRow /\ Ended(current, s).status = s
      /\ Ended(current, s).counters = runs[current].counters
      /\ NoTally \in Tally /\ NoTally.added = {} /\ NoTally.updated = {}
  <2>1. runs[current] \in RunRow
    BY <1>2 DEF CacheTypeOK
  <2> QED
    BY <1>2, <2>1, EndedIs DEF NoTally, Tally
<1>4. /\ runs' \in [RunId -> RunRow] /\ runs'[current].status = s
      /\ \A r \in RunId \ {current} : runs'[r] = runs[r]
      /\ \A r \in RunId : runs'[r].counters = runs[r].counters
  BY <1>1, <1>2, <1>3 DEF CacheTypeOK
<1>5. /\ Running' = Running \ {current} /\ EndedRuns' = EndedRuns \cup {current}
      /\ current \notin EndedRuns /\ EndedRuns \cup Running \subseteq RunId
  BY <1>2, <1>4 DEF Running, EndedRuns
<1>6. CacheTypeOK'
  BY <1>1, <1>3, <1>4, SMTT(30) DEF CacheTypeOK, CacheStays, parquet
<1>7. RowsInv' /\ RunsInv'
  <2>1. RowsInv'
    BY <1>1 DEF RowsInv, CacheStays
  <2>2. \A r \in RunId : /\ Written(runs[r].counters)'
                        /\ \A q \in RunId : r # q => Apart(runs[r].counters, runs[q].counters)'
    BY <1>1, <1>4 DEF RunsInv, Written, Apart
  <2>3. Written(tally)' /\ \A r \in RunId : Apart(tally, runs[r].counters)'
    BY <1>1, <1>3 DEF Written, Apart
  <2> QED
    BY <1>1, <2>1, <2>2, <2>3 DEF RunsInv
<1>8. CountsGrow
  <2>1. /\ Within(SyncCounters, SyncCounters')
        /\ runs[current].counters.added # {} => SyncCounters'.added # SyncCounters.added
        /\ runs[current].counters.updated # {} => SyncCounters'.updated # SyncCounters.updated
        /\ s = "failed" => SyncCounters'.failed # SyncCounters.failed
    <3>1. \A r \in EndedRuns : runs'[r].status = runs[r].status
      BY <1>4, <1>5
    <3>2. {current} \in SUBSET Running
      BY <1>2
    <3> QED
      BY <1>4, <1>5, <3>1, <3>2, EndingCounts
  <2>2. \A i \in Id : Settled(i)' <=> Settled(i)
    BY <1>1 DEF Settled, Junctions, CacheStays, parquet
  <2>3. ASSUME NEW i \in Id, i \notin missed', Relabelling(i)
        PROVE  \/ Relabelling(i)' \/ Settled(i)'
               \/ SyncCounters'.updated # SyncCounters.updated
               \/ SyncCounters'.failed # SyncCounters.failed
    <3>1. \/ \E r \in Running' : \/ i \in runs'[r].lost
                                 \/ \E x \in runs'[r].counters.updated : x[1] = i
          \/ i \in runs[current].lost \cup Uncounted
          \/ runs[current].counters.updated # {}
          \/ s = "failed"
      BY <1>2, <1>4, <1>5, <2>3, UncountedIs DEF Relabelling
    <3> QED
      BY <2>1, <2>2, <2>3, <3>1 DEF Relabelling
  <2>4. ASSUME NEW i \in Id, i \notin missed', Storing(i)
        PROVE  \/ Storing(i)' \/ Settled(i)'
               \/ SyncCounters'.added # SyncCounters.added
               \/ SyncCounters'.failed # SyncCounters.failed
    <3>1. \/ \E r \in Running' : i \in runs'[r].lost \/ i \in runs'[r].counters.added
          \/ i \in runs[current].lost \cup Uncounted
          \/ runs[current].counters.added # {}
          \/ s = "failed"
      BY <1>2, <1>4, <1>5, <2>4, UncountedIs DEF Storing
    <3> QED
      BY <2>1, <2>2, <2>4, <3>1 DEF Storing
  <2> QED
    BY <1>1, <2>1, <2>3, <2>4 DEF CountsGrow
<1> QED
  BY <1>1, <1>6, <1>7, <1>8, WriteKeeps DEF ArchiveGrows, MarksGrow

LEMMA CompleteSyncKeeps ==
  ASSUME CacheInv, CompleteSync
  PROVE  CacheInv'
<1> USE CacheBounds DEF CacheInv
<1>1. EndRun("completed") /\ faults' \in 0..MaxFaults
  BY SMTT(30) DEF CompleteSync, Fault, CacheTypeOK
<1>2. /\ missed \subseteq missed'
      /\ \A i \in runs[current].lost \cup Uncounted : i \in missed' \/ Settled(i)
  BY DEF CompleteSync, Settled
<1>3. missed' \subseteq Id
  <2>1. current \in RunId
    BY <1>1 DEF EndRun, CacheTypeOK, RunId
  <2>2. runs[current].lost \subseteq Id /\ Uncounted \subseteq Id /\ missed \subseteq Id
    BY <2>1, UncountedIs DEF CacheTypeOK, RunRow
  <2> QED
    BY <2>2 DEF CompleteSync
<1> QED
  BY <1>1, <1>2, <1>3, EndRunKeeps, Zenon

LEMMA FailSyncKeeps ==
  ASSUME CacheInv, FailSync
  PROVE  CacheInv'
<1>1. EndRun("failed") /\ faults' \in 0..MaxFaults
  BY CacheBounds, SMTT(30) DEF FailSync, Fault, CacheInv, CacheTypeOK
<1>2. missed' = missed /\ missed \subseteq Id
  BY DEF FailSync, CacheInv, CacheTypeOK
<1> QED
  BY <1>1, <1>2, EndRunKeeps

\* The row of the killed run goes on to be running.
LEMMA KillSyncKeeps ==
  ASSUME CacheInv, KillSync
  PROVE  CacheInv'
<1> USE CacheBounds DEF CacheInv, ArchiveInv
<1>1. /\ current # 0 /\ runs' = [runs EXCEPT ![current].lost = @ \cup Uncounted]
      /\ current' = 0 /\ tally' = NoTally /\ pending' = 0 /\ faults' \in 0..MaxFaults
      /\ UNCHANGED <<messages, missed>> /\ CacheStays
  BY SMTT(30) DEF KillSync, Fault, CacheTypeOK
<1>2. current \in RunId /\ current \in Running /\ NoTally \in Tally
      /\ NoTally.added = {} /\ NoTally.updated = {}
  BY <1>1 DEF CacheTypeOK, RunsInv, RunId, Running, NoTally, Tally
<1>3. /\ runs' \in [RunId -> RunRow]
      /\ runs'[current].lost = runs[current].lost \cup Uncounted
      /\ \A r \in RunId \ {current} : runs'[r] = runs[r]
      /\ \A r \in RunId : /\ runs'[r].counters = runs[r].counters
                          /\ runs'[r].status = runs[r].status
  <2>1. Uncounted \subseteq Id
    BY <1>2, UncountedIs
  <2> HIDE DEF CacheInv
  <2>2. runs[current] \in RunRow /\ runs \in [RunId -> RunRow]
    BY <1>2 DEF CacheInv, CacheTypeOK
  <2> QED
    BY <1>1, <1>2, <2>1, <2>2 DEF RunRow
<1>4. CacheTypeOK'
  BY <1>1, <1>2, <1>3, SMTT(30) DEF CacheTypeOK, CacheStays, parquet
<1>5. Running' = Running /\ EndedRuns' = EndedRuns /\ current \notin EndedRuns
      /\ Running \subseteq RunId /\ EndedRuns \subseteq RunId
  BY <1>2, <1>3 DEF EndedRuns, Running
<1>6. SyncCounters' = SyncCounters
  BY <1>3, <1>5, SameCounters
<1>7. RowsInv' /\ RunsInv'
  <2>1. RowsInv'
    BY <1>1 DEF RowsInv, CacheStays
  <2>2. \A r \in RunId : /\ Written(runs[r].counters)'
                        /\ \A q \in RunId : r # q => Apart(runs[r].counters, runs[q].counters)'
    BY <1>1, <1>3 DEF RunsInv, Written, Apart
  <2>3. Written(tally)' /\ \A r \in RunId : Apart(tally, runs[r].counters)'
    BY <1>1, <1>2 DEF Written, Apart
  <2> QED
    BY <1>1, <2>1, <2>2, <2>3 DEF RunsInv
<1>8. CountsGrow
  <2>1. \A i \in Id : (Relabelling(i) => Relabelling(i)') /\ (Storing(i) => Storing(i)')
    BY <1>2, <1>3, <1>5, UncountedIs DEF Relabelling, Storing
  <2> QED
    BY <1>1, <1>6, <2>1 DEF CountsGrow, Within
<1> QED
  BY <1>1, <1>4, <1>7, <1>8, WriteKeeps DEF ArchiveGrows, MarksGrow

-----------------------------------------------------------------------------
(* The steps of a build.                                                   *)

\* The archive stays as it is.
LEMMA ArchiveStays ==
  ASSUME CacheInv, UNCHANGED <<messages, runs, current, tally, pending, clock>>
  PROVE  /\ ArchiveInv' /\ SyncCounters' = SyncCounters /\ Running' = Running
         /\ \A i \in Id : /\ Exportable(i)' = Exportable(i) /\ Row(i)' = Row(i)
                          /\ Truth(i)' = Truth(i) /\ Junctions(i)' = Junctions(i)
<1>1. SyncCounters' = SyncCounters /\ Running' = Running
  BY SameCounters DEF EndedRuns, Running
<1>2. ArchiveInv'
  BY DEF CacheInv, ArchiveInv, RowsInv, RunsInv, Written, Apart
<1> QED
  BY <1>1, <1>2 DEF Exportable, Row, Truth, Junctions

\* And what is shown of it is the same.
LEMMA ShownStays ==
  ASSUME CacheInv,
         UNCHANGED <<messages, runs, current, tally, pending, shards, related, torn, clock>>
  PROVE  /\ \A i \in Id : Holding(i)' = Holding(i) /\ View(i)' = View(i)
         /\ HasParquetData' = HasParquetData
         /\ stateFile' = stateFile =>
              \A i \in Id :
                /\ RowShown(i, stateFile.at)' <=> RowShown(i, stateFile.at)
                /\ JunctionsShown(i, stateFile.at, stateFile.counters)' <=>
                     JunctionsShown(i, stateFile.at, stateFile.counters)
         /\ build'.at = build.at =>
              \A i \in Id : RowShown(i, build.at)' <=> RowShown(i, build.at)
<1>1. \A i \in Id : Holding(i)' = Holding(i) /\ View(i)' = View(i)
  BY DEF Holding, View
<1>2. HasParquetData' = HasParquetData
  BY <1>1 DEF HasParquetData
<1>3. /\ SyncCounters' = SyncCounters /\ Running' = Running
      /\ \A i \in Id : Exportable(i)' = Exportable(i) /\ Truth(i)' = Truth(i)
  BY ArchiveStays
<1>4. ASSUME stateFile' = stateFile, NEW i \in Id
      PROVE  /\ RowShown(i, stateFile.at)' <=> RowShown(i, stateFile.at)
             /\ JunctionsShown(i, stateFile.at, stateFile.counters)' <=>
                  JunctionsShown(i, stateFile.at, stateFile.counters)
  <2>1. RowShown(i, stateFile.at)' <=> RowShown(i, stateFile.at)
    BY <1>1, <1>3, <1>4 DEF RowShown, Dirty, DeletedSince, HiddenSince
  <2>2. JunctionsShown(i, stateFile.at, stateFile.counters)' <=> JunctionsShown(i, stateFile.at, stateFile.counters)
    BY <1>3, <1>4 DEF JunctionsShown, LabelsShown, FilesShown,
         Relabelling, Storing, Transferred, Tells
  <2> QED
    BY <2>1, <2>2
<1>5. ASSUME build'.at = build.at, NEW i \in Id
      PROVE  RowShown(i, build.at)' <=> RowShown(i, build.at)
  BY <1>1, <1>3, <1>5 DEF RowShown, Dirty, DeletedSince, HiddenSince
<1> QED
  BY <1>1, <1>2, <1>4, <1>5

\* A build begins: no row is above the greatest id it reads.
LEMMA BeginKeeps ==
  ASSUME CacheInv, NEW full \in BOOLEAN, Begin(full)
  PROVE  CacheInv'
<1> USE CacheBounds
<1> DEFINE there == {i \in Id : messages[i].there}
           shown == {i \in Id : Exportable(i)}
<1>1. /\ phase = "idle" /\ phase' = "decide"
      /\ build' = [full |-> full, at |-> clock,
                   previous   |-> IF full THEN NoState ELSE stateFile,
                   maxId      |-> Greatest(there),
                   exportable |-> Greatest(shown),
                   counters   |-> NoState.counters]
      /\ UNCHANGED <<messages, runs, current, tally, pending, shards, related, tables,
                     stateFile, missed, torn, clock, faults>>
  BY DEF Begin, Go, database, parquet, ghosts
<1>2. ASSUME NEW S \in SUBSET Id
      PROVE  /\ Greatest(S) \in S \cup {0} /\ Greatest(S) \in 0..MaxId
             /\ \A i \in S : i <= Greatest(S)
  BY GreatestIs DEF Id
<1>3. /\ Greatest(there) \in 0..MaxId /\ Greatest(shown) \in 0..MaxId
      /\ Greatest(there) # 0 => /\ Greatest(there) \in Id
                                /\ messages[Greatest(there)].there
      /\ \A i \in Id : messages[i].there => i <= Greatest(there)
      /\ Greatest(shown) = 0 => \A i \in Id : ~Exportable(i)
  <2>1. there \in SUBSET Id /\ shown \in SUBSET Id
    OBVIOUS
  <2>2. /\ Greatest(there) \in there \cup {0} /\ Greatest(there) \in 0..MaxId
        /\ \A i \in there : i <= Greatest(there)
    BY <1>2, <2>1
  <2>3. Greatest(shown) \in 0..MaxId /\ \A i \in shown : i <= Greatest(shown)
    BY <1>2, <2>1
  <2>4. Greatest(shown) = 0 => \A i \in Id : ~Exportable(i)
    BY <2>3 DEF Id
  <2> QED
    BY <2>2, <2>3, <2>4
<1> HIDE DEF there, shown
<1>4. CacheTypeOK'
  <2>1. NoState \in CacheState
    BY DEF NoState, CacheState, Counters
  <2>2. build' \in [full : BOOLEAN, at : 0..MaxTime, previous : CacheState,
                    maxId : 0..MaxId, exportable : 0..MaxId, counters : Counters]
    BY <1>1, <1>3, <2>1 DEF CacheInv, CacheTypeOK, CacheState
  <2> QED
    BY <1>1, <2>2 DEF CacheInv, CacheTypeOK
<1>5. StateInv'
  BY <1>1, ArchiveStays DEF CacheInv, StateInv, AllThere, LateMarks, Within
<1>6. BuildInv'
  <2>1. /\ build'.at = clock /\ build'.maxId = Greatest(there)
        /\ build'.exportable = Greatest(shown) /\ build'.full = full
        /\ build'.previous = IF full THEN NoState ELSE stateFile
    BY <1>1
  <2>2. stateFile.last <= Greatest(there)
    <3>1. stateFile.last \in 0..MaxId
      BY DEF CacheInv, CacheTypeOK, CacheState
    <3>2. stateFile.last # 0 => messages[stateFile.last].there /\ stateFile.last \in Id
      BY <3>1 DEF CacheInv, StateInv, AllThere, Id
    <3> QED
      BY <1>3, <3>1, <3>2
  <2>3. \A i \in Id : i <= Greatest(there) => messages[i].there
    <3> Greatest(there) = 0 => \A i \in Id : ~(i <= Greatest(there))
      BY DEF Id
    <3> QED
      BY <1>3 DEF CacheInv, ArchiveInv, RowsInv
  <2>4. \A i \in Id : i > Greatest(there) =>
          messages[i].gone = Null /\ messages[i].hidden = Null
    <3> ASSUME NEW i \in Id, i > Greatest(there) PROVE ~messages[i].there
      BY <1>3 DEF Id
    <3> QED
      BY DEF CacheInv, ArchiveInv, RowsInv
  <2>5. stateFile.at <= clock /\ clock <= clock
    BY DEF CacheInv, StateInv, CacheTypeOK
  <2>6. AllThere(build.maxId)' /\ LateMarks(build.maxId, build.at)'
    BY <1>1, <2>1, <2>3, <2>4 DEF AllThere, LateMarks
  <2>7. (build.exportable = 0 => \A i \in Id : i <= build.maxId => ~Exportable(i))'
    BY <1>1, <1>3, <2>1 DEF Exportable
  <2> QED
    BY <1>1, <2>1, <2>2, <2>5, <2>6, <2>7 DEF BuildInv, Exporting
<1>7. KeptInv'
  <2>1. Cleared => Cleared'
    BY <1>1 DEF Cleared, Exporting
  <2>2. ~Exporting'
    BY <1>1 DEF Exporting
  <2> QED
    BY <1>1, <2>1, <2>2, ShownStays DEF CacheInv, ShardsInv, KeptInv, Kept, Shown,
       NotLast, HasCompleteParquetData
<1>8. EmptyAbove' /\ ExportInv'
  BY <1>1, ShownStays DEF CacheInv, ShardsInv, EmptyAbove, ExportInv
<1> QED
  BY <1>1, <1>4, <1>5, <1>6, <1>7, <1>8, ArchiveStays DEF CacheInv, ShardsInv

\* A full build: the cache is cleared, and what the state file tells of it is
\* excused until the build ends.
LEMMA DecideFullKeeps ==
  ASSUME CacheInv, phase = "decide", RemoveParquet, Go("messages"),
         build' = [build EXCEPT !.full = TRUE, !.counters = SyncCounters],
         UNCHANGED <<stateFile, faults>>
  PROVE  CacheInv'
<1> USE CacheBounds
<1>1. /\ shards' = <<>> /\ related' = <<>> /\ tables' = FALSE /\ missed' = {}
      /\ torn' = FALSE /\ phase' = "messages"
      /\ UNCHANGED <<messages, runs, current, tally, pending, stateFile, clock, faults>>
  BY DEF RemoveParquet, Go, database
<1>2. /\ build'.full = TRUE /\ build'.counters = SyncCounters
      /\ build'.at = build.at /\ build'.maxId = build.maxId
      /\ build'.exportable = build.exportable
      /\ build' \in [full : BOOLEAN, at : 0..MaxTime, previous : CacheState,
                     maxId : 0..MaxId, exportable : 0..MaxId, counters : Counters]
  <2>1. SyncCounters \in Counters
    BY CountersTyped DEF CacheInv
  <2>2. build \in [full : BOOLEAN, at : 0..MaxTime, previous : CacheState,
                   maxId : 0..MaxId, exportable : 0..MaxId, counters : Counters]
    BY DEF CacheInv, CacheTypeOK
  <2> QED
    BY <2>1, <2>2
<1>3. CacheTypeOK'
  <2>1. related' \in UNION {[S -> [labels : Nat, files : BOOLEAN]] : S \in SUBSET Id}
    <3>1. related' \in [{} -> [labels : Nat, files : BOOLEAN]]
      BY <1>1
    <3> QED
      BY <3>1
  <2>2. shards' \in Seq(ParquetFile)
    BY <1>1
  <2> QED
    BY <1>1, <1>2, <2>1, <2>2 DEF CacheInv, CacheTypeOK
<1>4. /\ ArchiveInv' /\ SyncCounters' = SyncCounters
      /\ \A i \in Id : Exportable(i)' = Exportable(i)
  BY <1>1, ArchiveStays
<1>5. StateInv'
  BY <1>1, <1>4 DEF CacheInv, StateInv, AllThere, LateMarks, Within
<1>6. BuildInv'
  BY <1>1, <1>2, <1>4 DEF CacheInv, BuildInv, StateInv, Exporting, AllThere, LateMarks,
     Within
<1>7. \A i \in Id : Holding(i)' = {}
  BY <1>1 DEF Holding
<1>8. Cleared' /\ ~HasCompleteParquetData'
  BY <1>1, <1>2 DEF Cleared, Exporting, HasCompleteParquetData
<1>9. KeptInv'
  BY <1>7, <1>8 DEF KeptInv, Kept
<1>10. EmptyAbove' /\ ExportInv'
  BY <1>1, <1>7 DEF EmptyAbove, ExportInv
<1> QED
  BY <1>3, <1>4, <1>5, <1>6, <1>9, <1>10 DEF CacheInv, ShardsInv

\* An incremental build, or none: the counters are those of the state file,
\* and no table is wanting where there is something to export.
LEMMA DecideOtherKeeps ==
  ASSUME CacheInv, phase = "decide", ~build.full,
         ~CachedMessagesChanged(SyncCounters),
         ~(build.exportable > 0 /\ MissingRequiredParquet),
         UNCHANGED <<parquet, ghosts, stateFile, faults>>,
         \/ build.maxId <= Last /\ Go("idle") /\ build' = NoBuild
         \/ /\ build.maxId > Last /\ Go("messages")
            /\ build' = [build EXCEPT !.full = FALSE, !.counters = SyncCounters]
  PROVE  CacheInv'
<1> USE CacheBounds
<1>1. /\ UNCHANGED <<messages, runs, current, tally, pending, shards, related, tables,
                     stateFile, missed, torn, clock, faults>>
      /\ phase' \in {"idle", "messages"} /\ phase # "idle"
  BY DEF Go, database, parquet, ghosts
<1>2. SyncCounters \in Counters
  BY CountersTyped DEF CacheInv
<1>3. build \in [full : BOOLEAN, at : 0..MaxTime, previous : CacheState,
                 maxId : 0..MaxId, exportable : 0..MaxId, counters : Counters]
  BY DEF CacheInv, CacheTypeOK
<1>4. /\ build' \in [full : BOOLEAN, at : 0..MaxTime, previous : CacheState,
                     maxId : 0..MaxId, exportable : 0..MaxId, counters : Counters]
      /\ ~build'.full
      /\ phase' = "messages" =>
           /\ build'.counters = SyncCounters /\ build'.at = build.at
           /\ build'.maxId = build.maxId /\ build'.exportable = build.exportable
           /\ build'.previous = build.previous /\ build.maxId > Last
  <2>1. NoBuild \in [full : BOOLEAN, at : 0..MaxTime, previous : CacheState,
                     maxId : 0..MaxId, exportable : 0..MaxId, counters : Counters]
    BY DEF NoBuild, NoState, CacheState, Counters
  <2>2. ~NoBuild.full
    BY DEF NoBuild
  <2> QED
    BY <1>2, <1>3, <2>1, <2>2 DEF Go
<1>5. CacheTypeOK'
  BY <1>1, <1>4 DEF CacheInv, CacheTypeOK
<1>6. /\ ArchiveInv' /\ SyncCounters' = SyncCounters
      /\ \A i \in Id : Exportable(i)' = Exportable(i)
  BY <1>1, ArchiveStays
<1>7. StateInv'
  BY <1>1, <1>6 DEF CacheInv, StateInv, AllThere, LateMarks, Within
<1>8. build.previous = stateFile /\ Last = stateFile.last
  BY <1>1 DEF CacheInv, BuildInv, Last
<1>9. BuildInv'
  <2> SUFFICES ASSUME phase' = "messages" PROVE BuildInv'
    BY <1>1 DEF BuildInv
  <2>1. stateFile # NoState => /\ SyncCounters.updated = stateFile.counters.updated
                               /\ SyncCounters.failed = stateFile.counters.failed
    BY <1>8 DEF CachedMessagesChanged
  <2>2. AllThere(build.maxId)' /\ LateMarks(build.maxId, build.at)'
    BY <1>1, <1>4 DEF CacheInv, BuildInv, AllThere, LateMarks
  <2>3. Within(stateFile.counters, build.counters)' /\ Within(build.counters, SyncCounters)'
    BY <1>1, <1>4, <1>6 DEF CacheInv, StateInv, Within
  <2> QED
    BY <1>1, <1>4, <1>6, <1>8, <2>1, <2>2, <2>3 DEF CacheInv, BuildInv, Exporting
<1>10. KeptInv'
  <2> SUFFICES ASSUME NEW i \in Id, i <= stateFile.last, i \notin missed, Kept(i)
               PROVE  Kept(i)'
    BY <1>1 DEF CacheInv, ShardsInv, KeptInv
  <2>1. /\ Holding(i)' = Holding(i) /\ HasParquetData' = HasParquetData
        /\ RowShown(i, stateFile.at)' <=> RowShown(i, stateFile.at)
        /\ JunctionsShown(i, stateFile.at, stateFile.counters)' <=> JunctionsShown(i, stateFile.at, stateFile.counters)
    BY <1>1, ShownStays
  <2>2. CASE Shown(i, stateFile.at, stateFile.counters)
    BY <2>1, <2>2 DEF Kept, Shown
  <2>3. CASE /\ Cleared /\ Holding(i) = {}
             /\ ~HasCompleteParquetData \/ NotLast
    <3>1. Cleared' /\ (~HasCompleteParquetData \/ NotLast)'
      BY <1>1, <2>1, <2>3 DEF Cleared, Exporting, HasCompleteParquetData, NotLast
    <3> QED
      BY <2>1, <2>3, <3>1 DEF Kept
  <2>4. CASE RowShown(i, stateFile.at) /\ ~tables /\ HasParquetData
    <3>1. CASE phase' = "idle"
      BY <1>1, <2>1, <2>4, <3>1 DEF Kept, Exporting
    <3>2. CASE phase' = "messages"
      <4>1. build.exportable = 0
        BY <1>3, <2>4 DEF MissingRequiredParquet, HasCompleteParquetData
      <4>2. i <= build.maxId
        BY <1>3, <1>4, <1>8, <3>2, SMTT(30) DEF CacheInv, CacheTypeOK, CacheState, Id
      <4>3. ~Exportable(i)
        BY <1>1, <4>1, <4>2 DEF CacheInv, BuildInv
      <4>4. JunctionsShown(i, stateFile.at, stateFile.counters)
        BY <4>3 DEF JunctionsShown
      <4> QED
        BY <2>1, <2>4, <4>4 DEF Kept, Shown
    <3> QED
      BY <1>1, <3>1, <3>2
  <2> QED
    BY <2>2, <2>3, <2>4 DEF Kept
<1>11. EmptyAbove' /\ ExportInv'
  BY <1>1, ShownStays DEF CacheInv, ShardsInv, EmptyAbove, ExportInv
<1> QED
  BY <1>5, <1>6, <1>7, <1>9, <1>10, <1>11 DEF CacheInv, ShardsInv

LEMMA DecideKeeps ==
  ASSUME CacheInv, Decide
  PROVE  CacheInv'
<1> DEFINE full == \/ build.full
                   \/ CachedMessagesChanged(SyncCounters)
                   \/ (build.exportable > 0 /\ MissingRequiredParquet)
<1>1. /\ phase = "decide" /\ UNCHANGED <<stateFile, faults>>
      /\ IF full THEN RemoveParquet ELSE UNCHANGED <<parquet, ghosts>>
      /\ ~full /\ build.maxId <= Last => Go("idle") /\ build' = NoBuild
      /\ full \/ ~(build.maxId <= Last) =>
           /\ Go("messages")
           /\ build' = [build EXCEPT !.full = full, !.counters = SyncCounters]
  BY DEF Decide
<1>2. CASE full
  <2>1. full = TRUE
    BY <1>2
  <2>2. RemoveParquet /\ Go("messages")
    BY <1>1, <1>2
  <2>3. build' = [build EXCEPT !.full = TRUE, !.counters = SyncCounters]
    <3> HIDE DEF full
    <3>1. build' = [build EXCEPT !.full = full, !.counters = SyncCounters]
      BY <1>1, <1>2, Zenon
    <3> QED
      BY <2>1, <3>1
  <2> HIDE DEF full
  <2> QED
    BY <1>1, <2>2, <2>3, DecideFullKeeps
<1>3. CASE ~full
  <2>1. full = FALSE
    BY <1>3
  <2>2. /\ ~build.full /\ ~CachedMessagesChanged(SyncCounters)
        /\ ~(build.exportable > 0 /\ MissingRequiredParquet)
    BY <1>3
  <2>3. build.maxId \in Nat /\ Last \in Nat
    BY DEF CacheInv, CacheTypeOK, CacheState, Last
  <2>4. \/ build.maxId <= Last /\ Go("idle") /\ build' = NoBuild
        \/ /\ build.maxId > Last /\ Go("messages")
           /\ build' = [build EXCEPT !.full = FALSE, !.counters = SyncCounters]
    <3>1. [build EXCEPT !.full = full, !.counters = SyncCounters] =
            [build EXCEPT !.full = FALSE, !.counters = SyncCounters]
      BY <2>1
    <3> HIDE DEF full
    <3>2. CASE build.maxId <= Last
      BY <1>1, <2>1, <3>2
    <3>3. CASE ~(build.maxId <= Last)
      <4>1. Go("messages") /\ build.maxId > Last
        BY <1>1, <2>3, <3>3
      <4>2. build' = [build EXCEPT !.full = full, !.counters = SyncCounters]
        BY <1>1, <3>3, Zenon
      <4> QED
        BY <3>1, <4>1, <4>2
    <3> QED
      BY <3>2, <3>3
  <2>5. UNCHANGED <<parquet, ghosts>>
    BY <1>1, <1>3
  <2> HIDE DEF full
  <2> QED
    BY <1>1, <2>2, <2>4, <2>5, DecideOtherKeeps
<1> QED
  BY <1>2, <1>3

\* What the export of the messages does to the rows of one of them.
LEMMA ExportedRows ==
  ASSUME CacheInv, ExportMessages, NEW i \in Id,
         ~torn => \A j \in Id : j > Last => Holding(j) = {}
  PROVE  /\ i \in Exported =>
              /\ Row(i) \in View(i)'
              /\ ~torn => View(i)' = {Row(i)} /\ \A k, l \in Holding(i)' : k = l
         /\ i \notin Exported /\ (i <= Last \/ Holding(i) = {}) =>
              Holding(i)' = Holding(i) /\ View(i)' = View(i)
<1> DEFINE file == [j \in Exported |-> Row(j)]
<1>1. shards \in Seq(ParquetFile)
  BY DEF CacheInv, CacheTypeOK
<1>2. shards' = IF Exported = {} THEN shards
                ELSE IF Last > 0 \/ shards = <<>> THEN Append(shards, file)
                ELSE [shards EXCEPT ![1] = file]
  BY DEF ExportMessages
<1>3. DOMAIN file = Exported /\ \A j \in Exported : file[j] = Row(j)
  OBVIOUS
<1>4. i \in Exported => i > Last
  BY DEF Exported
<1> HIDE DEF file
<1>5. CASE Exported = {}
  <2>1. shards' = shards
    BY <1>2, <1>5
  <2> QED
    BY <1>5, <2>1 DEF Holding, View
<1>6. CASE Exported # {} /\ Last > 0
  <2> DEFINE n == Len(shards) + 1
  <2>1. /\ n \in Nat /\ DOMAIN shards = 1..Len(shards) /\ n \notin DOMAIN shards
        /\ DOMAIN shards' = DOMAIN shards \cup {n} /\ shards'[n] = file
        /\ \A k \in DOMAIN shards : shards'[k] = shards[k]
    <3>1. shards' = Append(shards, file)
      BY <1>2, <1>6
    <3> QED
      BY <1>1, <3>1
  <2> HIDE DEF n
  <2>2. Holding(i)' = IF i \in Exported THEN Holding(i) \cup {n} ELSE Holding(i)
    BY <1>3, <2>1 DEF Holding
  <2>3. \A k \in Holding(i) : shards'[k] = shards[k]
    BY <2>1 DEF Holding
  <2>4. CASE i \in Exported
    BY <1>3, <1>4, <2>1, <2>2, <2>3, <2>4 DEF View
  <2>5. CASE i \notin Exported
    BY <2>2, <2>3, <2>5 DEF View
  <2> QED
    BY <2>4, <2>5
<1>7. CASE Exported # {} /\ ~(Last > 0)
  <2>1. /\ DOMAIN shards' = DOMAIN shards \cup {1} /\ shards'[1] = file
        /\ \A k \in DOMAIN shards \ {1} : shards'[k] = shards[k]
    <3>1. CASE shards = <<>>
      <4>1. shards' = Append(shards, file)
        BY <1>2, <1>7, <3>1
      <4> QED
        BY <3>1, <4>1
    <3>2. CASE shards # <<>>
      <4>1. 1 \in DOMAIN shards
        BY <1>1, <3>2
      <4>2. shards' = [shards EXCEPT ![1] = file]
        BY <1>2, <1>7, <3>2
      <4> QED
        BY <1>1, <4>1, <4>2
    <3> QED
      BY <3>1, <3>2
  <2>2. CASE i \in Exported
    <3>1. 1 \in Holding(i)' /\ shards'[1][i] = Row(i)
      BY <1>3, <2>1, <2>2 DEF Holding
    <3>2. ~torn => Holding(i) = {}
      BY <1>4, <2>2
    <3>3. ~torn => Holding(i)' = {1}
      BY <1>3, <2>1, <2>2, <3>2 DEF Holding
    <3> QED
      BY <2>2, <3>1, <3>3 DEF View
  <2>3. CASE i \notin Exported /\ (i <= Last \/ Holding(i) = {})
    <3>1. Holding(i) = {}
      BY <1>7, <2>3 DEF Id, CacheInv, CacheTypeOK, CacheState, Last
    <3>2. Holding(i)' = {}
      BY <1>3, <2>1, <2>3, <3>1 DEF Holding
    <3> QED
      BY <2>3, <3>1, <3>2 DEF View
  <2> QED
    BY <2>2, <2>3
<1> QED
  BY <1>5, <1>6, <1>7

LEMMA ExportMessagesKeeps ==
  ASSUME CacheInv, ExportMessages
  PROVE  CacheInv'
<1> USE CacheBounds
<1>1. /\ phase = "messages" /\ phase' = "rest"
      /\ UNCHANGED <<messages, runs, current, tally, pending, related, tables, stateFile,
                     build, missed, torn, clock, faults>>
  BY DEF ExportMessages, Go, database, ghosts
<1>2. /\ stateFile.last \in 0..MaxId /\ stateFile.at \in 0..MaxTime
      /\ build.maxId \in 0..MaxId /\ build.at \in 0..MaxTime
      /\ Last \in 0..MaxId /\ Id \subseteq Nat \ {0}
  <2>1. stateFile \in CacheState /\ build.previous \in CacheState
    BY DEF CacheInv, CacheTypeOK
  <2>2. build.maxId \in 0..MaxId /\ build.at \in 0..MaxTime
    BY DEF CacheInv, CacheTypeOK
  <2>3. Last \in 0..MaxId
    BY <2>1 DEF Last, CacheState
  <2> QED
    BY <2>1, <2>2, <2>3 DEF CacheState, Id
<1>3. /\ stateFile.last <= build.maxId /\ stateFile.at <= build.at
      /\ ~build.full => Last = stateFile.last /\ build.maxId > stateFile.last
      /\ build.full => Last = 0 /\ shards = <<>> /\ ~tables /\ ~torn
  BY <1>1 DEF CacheInv, BuildInv, Exporting, Last
<1>4. ~torn => \A j \in Id : j > Last => Holding(j) = {}
  <2>1. CASE build.full
    BY <1>3, <2>1 DEF Holding
  <2>2. CASE ~build.full
    BY <1>1, <1>3, <2>2 DEF CacheInv, ShardsInv, EmptyAbove
  <2> QED
    BY <2>1, <2>2
<1>5. ASSUME NEW i \in Id
      PROVE  /\ i \in Exported =>
                  /\ Row(i) \in View(i)'
                  /\ ~torn => View(i)' = {Row(i)} /\ \A k, l \in Holding(i)' : k = l
             /\ i \notin Exported /\ (i <= Last \/ Holding(i) = {}) =>
                  Holding(i)' = Holding(i) /\ View(i)' = View(i)
  BY <1>4, ExportedRows
<1>6. /\ ArchiveInv' /\ SyncCounters' = SyncCounters /\ Running' = Running
      /\ \A i \in Id : Exportable(i)' = Exportable(i) /\ Truth(i)' = Truth(i)
  BY <1>1, ArchiveStays
<1>7. CacheTypeOK'
  <2>1. [i \in Exported |-> Row(i)] \in ParquetFile
    <3>1. Exported \in SUBSET Id /\ \A i \in Exported : Row(i) \in [gone : BOOLEAN]
      BY DEF Exported, Row
    <3> QED
      BY <3>1 DEF ParquetFile
  <2>2. shards \in Seq(ParquetFile)
    BY DEF CacheInv, CacheTypeOK
  <2> DEFINE file == [i \in Exported |-> Row(i)]
  <2>3. shards' = IF Exported = {} THEN shards
                  ELSE IF Last > 0 \/ shards = <<>> THEN Append(shards, file)
                  ELSE [shards EXCEPT ![1] = file]
    BY DEF ExportMessages
  <2>4. shards' \in Seq(ParquetFile)
    <3> HIDE DEF file
    <3>1. file \in ParquetFile
      BY <2>1 DEF file
    <3>2. CASE shards' = [shards EXCEPT ![1] = file] /\ shards # <<>>
      <4>1. 1 \in 1..Len(shards)
        BY <2>2, <3>2
      <4> QED
        BY <2>2, <3>1, <3>2, <4>1, ExceptSeq
    <3>3. Append(shards, file) \in Seq(ParquetFile)
      BY <2>2, <3>1
    <3> QED
      BY <2>2, <2>3, <3>2, <3>3
  <2> QED
    BY <1>1, <2>4 DEF CacheInv, CacheTypeOK
<1>8. StateInv' /\ BuildInv'
  BY <1>1, <1>6 DEF CacheInv, StateInv, BuildInv, Exporting, AllThere, LateMarks, Within
<1>9. ASSUME NEW i \in Id, i > Last, i <= build.maxId, NEW at \in 0..MaxTime
      PROVE  RowShown(i, at)'
  <2>1. Exportable(i) <=> i \in Exported
    BY <1>9 DEF Exported
  <2>2. CASE i \in Exported
    BY <1>1, <1>5, <1>6, <2>1, <2>2 DEF RowShown, Truth
  <2>3. CASE i \notin Exported
    <3>1. Truth(i)' = {}
      BY <1>6, <2>1, <2>3 DEF Truth
    <3>2. ~torn => Holding(i)' = {} /\ View(i)' = {}
      BY <1>4, <1>5, <1>9, <2>3 DEF View
    <3> QED
      BY <1>1, <3>1, <3>2 DEF RowShown
  <2> QED
    BY <2>2, <2>3
<1>10. KeptInv'
  <2> SUFFICES ASSUME NEW i \in Id, i <= stateFile.last, i \notin missed, Kept(i)
               PROVE  Kept(i)'
    BY <1>1 DEF CacheInv, ShardsInv, KeptInv
  <2>1. CASE build.full
    <3>1. RowShown(i, stateFile.at)'
      <4>1. ASSUME NEW at \in 0..MaxTime, at = stateFile.at
            PROVE  RowShown(i, at)'
        BY <1>2, <1>3, <1>9, <2>1, SMTT(30)
      <4> QED
        BY <1>1, <1>2, <4>1 DEF RowShown, Dirty
    <3>2. CASE HasParquetData'
      BY <1>1, <1>3, <2>1, <3>1, <3>2 DEF Kept, Exporting
    <3>3. CASE ~HasParquetData'
      BY <1>1, <2>1, <3>3 DEF Kept, Cleared, Exporting, HasParquetData,
         HasCompleteParquetData
    <3> QED
      BY <3>2, <3>3
  <2>2. CASE ~build.full
    <3>1. i <= Last /\ i \notin Exported
      BY <1>2, <1>3, <2>2 DEF Exported
    <3>2. Holding(i)' = Holding(i) /\ View(i)' = View(i)
      BY <1>5, <3>1
    <3>3. CASE Shown(i, stateFile.at, stateFile.counters)
      <4>1. RowShown(i, stateFile.at)'
        BY <1>1, <1>6, <3>2, <3>3 DEF Shown, RowShown, Dirty, DeletedSince, HiddenSince
      <4>2. JunctionsShown(i, stateFile.at, stateFile.counters)'
        BY <1>1, <1>6, <3>3 DEF Shown, JunctionsShown, LabelsShown, FilesShown,
         Relabelling, Storing, Transferred, Tells
      <4> QED
        BY <4>1, <4>2 DEF Kept, Shown
    <3>4. CASE Cleared /\ Holding(i) = {}
      <4>1. NotLast'
        <5>1. build.maxId \in Id /\ messages[build.maxId].there
          BY <1>1, <1>2, <1>3, <2>2 DEF CacheInv, BuildInv, AllThere, Id
        <5> QED
          BY <1>1, <1>3, <2>2, <5>1 DEF NotLast
      <4> QED
        BY <1>1, <3>2, <3>4, <4>1 DEF Kept, Cleared, Exporting
    <3> QED
      BY <1>1, <2>2, <3>3, <3>4 DEF Kept, Exporting
  <2> QED
    BY <2>1, <2>2
<1>11. EmptyAbove'
  <2> SUFFICES ASSUME ~torn, NEW i \in Id, i > build.maxId PROVE Holding(i)' = {}
    BY <1>1 DEF EmptyAbove
  <2>1. i > Last /\ i \notin Exported
    BY <1>2, <1>3 DEF Exported
  <2> QED
    BY <1>4, <1>5, <2>1
<1>12. ExportInv'
  <2>1. ASSUME NEW i \in Id, Last < i, i <= build.maxId
        PROVE  RowShown(i, build.at)'
    <3>1. ASSUME NEW at \in 0..MaxTime, at = build.at PROVE RowShown(i, at)'
      BY <1>2, <1>9, <2>1
    <3> QED
      BY <1>1, <1>2, <3>1 DEF RowShown, Dirty
  <2> QED
    BY <1>1, <2>1 DEF ExportInv, Last
<1> QED
  BY <1>6, <1>7, <1>8, <1>10, <1>11, <1>12 DEF CacheInv, ShardsInv

\* The tables that hang on messages follow; now every message exported is
\* shown as it was before the build, or better.
LEMMA ExportRestKeeps ==
  ASSUME CacheInv, ExportRest
  PROVE  CacheInv'
<1> USE CacheBounds
<1> DEFINE kept == {i \in DOMAIN related : i <= Last}
<1>1. /\ phase = "rest" /\ phase' = "save" /\ tables' = TRUE
      /\ related' = [i \in kept \cup Exported |->
                       IF i \in Exported THEN Junctions(i) ELSE related[i]]
      /\ UNCHANGED <<messages, runs, current, tally, pending, shards, stateFile, build,
                     missed, torn, clock, faults>>
  BY DEF ExportRest, Go, database, ghosts
<1>2. /\ stateFile \in CacheState /\ build.maxId \in 0..MaxId /\ build.at \in 0..MaxTime
      /\ stateFile.last \in 0..MaxId /\ stateFile.at \in 0..MaxTime
      /\ Id \subseteq Nat \ {0}
      /\ \A i \in Id : messages[i].gone \in 0..MaxTime /\ messages[i].hidden \in 0..MaxTime
  <2>1. /\ stateFile \in CacheState /\ messages \in [Id -> MessageRow]
        /\ build.maxId \in 0..MaxId /\ build.at \in 0..MaxTime
    BY DEF CacheInv, CacheTypeOK
  <2>2. ASSUME NEW j \in Id
        PROVE  messages[j].gone \in 0..MaxTime /\ messages[j].hidden \in 0..MaxTime
    BY <2>1 DEF MessageRow
  <2>3. stateFile.last \in 0..MaxId /\ stateFile.at \in 0..MaxTime
    BY <2>1 DEF CacheState
  <2>4. Id \subseteq Nat \ {0}
    BY CacheBounds DEF Id
  <2> QED
    BY <2>1, <2>2, <2>3, <2>4
<1>3. /\ stateFile.last <= build.maxId /\ stateFile.at <= build.at
      /\ ~build.full => Last = stateFile.last /\ build.maxId > stateFile.last
      /\ build.full => Last = 0
  BY <1>1 DEF CacheInv, BuildInv, Exporting, Last
<1>4. /\ ArchiveInv' /\ SyncCounters' = SyncCounters /\ Running' = Running
      /\ \A i \in Id : /\ Exportable(i)' = Exportable(i) /\ Truth(i)' = Truth(i)
                       /\ Junctions(i)' = Junctions(i)
  BY <1>1, ArchiveStays
<1>5. /\ \A i \in Id : Holding(i)' = Holding(i) /\ View(i)' = View(i)
      /\ HasParquetData' = HasParquetData
  BY <1>1 DEF Holding, View, HasParquetData
<1>6. /\ DOMAIN related' = kept \cup Exported
      /\ \A i \in Exported : related'[i] = Junctions(i)
      /\ \A i \in kept : i \notin Exported => related'[i] = related[i]
  BY <1>1
<1>7. CacheTypeOK'
  <2>1. /\ kept \cup Exported \in SUBSET Id
        /\ \A i \in Exported : Junctions(i) \in [labels : Nat, files : BOOLEAN]
        /\ \A i \in kept : related[i] \in [labels : Nat, files : BOOLEAN]
    BY SMTT(30) DEF CacheInv, CacheTypeOK, MessageRow, Exported, Junctions
  <2> HIDE DEF kept
  <2>2. related' \in [kept \cup Exported -> [labels : Nat, files : BOOLEAN]]
    BY <1>1, <2>1
  <2>3. related' \in UNION {[S -> [labels : Nat, files : BOOLEAN]] : S \in SUBSET Id}
    BY <2>1, <2>2
  <2> QED
    BY <1>1, <2>3 DEF CacheInv, CacheTypeOK
<1>8. StateInv' /\ BuildInv'
  BY <1>1, <1>4 DEF CacheInv, StateInv, BuildInv, Exporting, AllThere, LateMarks, Within
<1>9. ASSUME NEW i \in Id, i > Last, i <= build.maxId, NEW at, NEW c
      PROVE  JunctionsShown(i, at, c)'
  <2> SUFFICES ASSUME Exportable(i)'
               PROVE  (i \in DOMAIN related /\ LabelsShown(i, at, c) /\ FilesShown(i, c))'
    BY DEF JunctionsShown
  <2>1. i \in Exported
    BY <1>4, <1>9 DEF Exported
  <2>2. related'[i].labels = messages[i].labels /\ related'[i].files = messages[i].files
    BY <1>6, <2>1 DEF Junctions
  <2> QED
    BY <1>1, <1>6, <2>1, <2>2 DEF LabelsShown, FilesShown
<1>10. ASSUME NEW i \in Id, NEW at \in 0..MaxTime
       PROVE  RowShown(i, at)' <=> RowShown(i, at)
  BY <1>1, <1>4, <1>5 DEF RowShown, Dirty, DeletedSince, HiddenSince
<1>11. ASSUME NEW i \in Id, Last < i, i <= build.maxId, i \notin missed
       PROVE  RowShown(i, build.at)
  BY <1>1, <1>11 DEF CacheInv, ShardsInv, ExportInv
<1>12. ASSUME NEW i \in Id, RowShown(i, build.at)
       PROVE  RowShown(i, stateFile.at)
  <2>1. Dirty(i, build.at) => Dirty(i, stateFile.at)
    BY <1>2, <1>3 DEF Dirty, DeletedSince, HiddenSince
  <2> QED
    BY <1>12, <2>1 DEF RowShown
<1>13. KeptInv'
  <2> SUFFICES ASSUME NEW i \in Id, i <= stateFile.last, i \notin missed, Kept(i)
               PROVE  Kept(i)'
    BY <1>1 DEF CacheInv, ShardsInv, KeptInv
  <2>1. RowShown(i, stateFile.at) => RowShown(i, stateFile.at)'
    BY <1>1, <1>4, <1>5 DEF RowShown, Dirty, DeletedSince, HiddenSince
  <2>2. CASE build.full
    <3>1. i > Last /\ i <= build.maxId
      BY <1>2, <1>3, <2>2
    <3>2. RowShown(i, stateFile.at)
      BY <1>11, <1>12, <3>1
    <3>3. JunctionsShown(i, stateFile.at, stateFile.counters)'
      <4>1. ASSUME NEW at, at = stateFile.at, NEW c, c = stateFile.counters
            PROVE  JunctionsShown(i, at, c)'
        BY <1>9, <3>1
      <4> QED
        BY <1>1, <4>1 DEF JunctionsShown, LabelsShown, FilesShown,
         Relabelling, Storing, Transferred, Tells
    <3> QED
      BY <2>1, <3>2, <3>3 DEF Kept, Shown
  <2>3. CASE ~build.full
    <3>1. i <= Last /\ i \notin Exported
      BY <1>2, <1>3, <2>3 DEF Exported
    <3>2. CASE Shown(i, stateFile.at, stateFile.counters)
      <4>1. ASSUME i \in DOMAIN related
            PROVE  i \in DOMAIN related' /\ related'[i] = related[i]
        BY <1>6, <3>1, <4>1
      <4>2. JunctionsShown(i, stateFile.at, stateFile.counters)'
        BY <1>1, <1>4, <3>2, <4>1 DEF Shown, JunctionsShown, LabelsShown, FilesShown,
         Relabelling, Storing, Transferred, Tells
      <4> QED
        BY <2>1, <3>2, <4>2 DEF Kept, Shown
    <3>3. CASE Cleared /\ Holding(i) = {}
      <4>1. NotLast'
        <5>1. build.maxId \in Id /\ messages[build.maxId].there
          BY <1>1, <1>2, <1>3, <2>3 DEF CacheInv, BuildInv, AllThere, Id
        <5> QED
          BY <1>1, <1>3, <2>3, <5>1 DEF NotLast
      <4> QED
        BY <1>1, <1>5, <3>3, <4>1 DEF Kept, Cleared, Exporting
    <3> QED
      BY <1>1, <2>3, <3>2, <3>3 DEF Kept, Exporting
  <2> QED
    BY <2>2, <2>3
<1>14. EmptyAbove'
  BY <1>1, <1>5 DEF CacheInv, ShardsInv, EmptyAbove
<1>15. ExportInv'
  <2> SUFFICES ASSUME NEW i \in Id, Last < i, i <= build.maxId, i \notin missed
               PROVE  RowShown(i, build.at)' /\ JunctionsShown(i, build.at, build.counters)'
    BY <1>1 DEF ExportInv, Last
  <2>1. RowShown(i, build.at)'
    BY <1>1, <1>4, <1>5, <1>11 DEF RowShown, Dirty, DeletedSince, HiddenSince
  <2>2. JunctionsShown(i, build.at, build.counters)'
    <3>1. i > Last
      BY DEF Id, Last, CacheInv, CacheTypeOK, CacheState
    <3>2. ASSUME NEW at, at = build.at, NEW c, c = build.counters
          PROVE  JunctionsShown(i, at, c)'
      BY <1>9, <3>1
    <3> QED
      BY <1>1, <3>2 DEF JunctionsShown, LabelsShown, FilesShown,
         Relabelling, Storing, Transferred, Tells
  <2> QED
    BY <2>1, <2>2
<1> QED
  BY <1>4, <1>7, <1>8, <1>13, <1>14, <1>15 DEF CacheInv, ShardsInv

\* A build that ends without a state file: what it may have torn is named.
LEMMA BuildFailsKeeps ==
  ASSUME CacheInv, BuildFails
  PROVE  CacheInv'
<1> USE CacheBounds
<1>1. /\ phase # "idle" /\ phase' = "idle" /\ build' = NoBuild
      /\ torn' = (torn \/ phase \in {"rest", "save"} \/ (phase = "messages" /\ build.full))
      /\ UNCHANGED <<messages, runs, current, tally, pending, shards, related, tables,
                     stateFile, missed, clock>>
      /\ faults' \in 0..MaxFaults
  BY SMTT(30) DEF BuildFails, Go, Fault, database, parquet, CacheInv, CacheTypeOK
<1>2. NoBuild \in [full : BOOLEAN, at : 0..MaxTime, previous : CacheState,
                   maxId : 0..MaxId, exportable : 0..MaxId, counters : Counters]
  BY DEF NoBuild, NoState, CacheState, Counters
<1>3. CacheTypeOK'
  BY <1>1, <1>2 DEF CacheInv, CacheTypeOK
<1>4. /\ ArchiveInv' /\ SyncCounters' = SyncCounters /\ Running' = Running
      /\ \A i \in Id : Exportable(i)' = Exportable(i) /\ Truth(i)' = Truth(i)
  BY <1>1, ArchiveStays
<1>5. StateInv' /\ BuildInv'
  BY <1>1, <1>4 DEF CacheInv, StateInv, BuildInv, AllThere, LateMarks, Within
<1>6. /\ \A i \in Id : Holding(i)' = Holding(i) /\ View(i)' = View(i)
      /\ HasParquetData' = HasParquetData
  BY <1>1 DEF Holding, View, HasParquetData
<1>7. KeptInv'
  <2> SUFFICES ASSUME NEW i \in Id, i <= stateFile.last, i \notin missed, Kept(i)
               PROVE  Kept(i)'
    BY <1>1 DEF CacheInv, ShardsInv, KeptInv
  <2>1. RowShown(i, stateFile.at) => RowShown(i, stateFile.at)'
    BY <1>1, <1>4, <1>6 DEF RowShown, Dirty, DeletedSince, HiddenSince
  <2>2. JunctionsShown(i, stateFile.at, stateFile.counters) => JunctionsShown(i, stateFile.at, stateFile.counters)'
    BY <1>1, <1>4 DEF JunctionsShown, LabelsShown, FilesShown,
         Relabelling, Storing, Transferred, Tells
  <2>3. /\ ~Exporting'
        /\ Cleared => Cleared'
        /\ (~HasCompleteParquetData \/ NotLast) => (~HasCompleteParquetData \/ NotLast)'
    BY <1>1, <1>6 DEF Cleared, Exporting, HasCompleteParquetData, NotLast
  <2>4. /\ ~tables => ~tables'
        /\ Holding(i) = {} => Holding(i)' = {}
        /\ HasParquetData => HasParquetData'
    BY <1>1, <1>6 DEF HasParquetData
  <2>5. CASE Shown(i, stateFile.at, stateFile.counters)
    BY <2>1, <2>2, <2>5 DEF Kept, Shown
  <2>6. CASE Cleared /\ Holding(i) = {} /\ (~HasCompleteParquetData \/ NotLast)
    BY <2>3, <2>4, <2>6 DEF Kept
  <2>7. CASE RowShown(i, stateFile.at) /\ ~tables /\ HasParquetData
    <3>1. RowShown(i, stateFile.at)'
      BY <2>1, <2>7
    <3>2. ~tables' /\ HasParquetData' /\ ~Exporting'
      BY <2>3, <2>4, <2>7
    <3> QED
      BY <3>1, <3>2, Zenon DEF Kept
  <2> QED
    BY <2>5, <2>6, <2>7 DEF Kept
<1>8. EmptyAbove' /\ ExportInv'
  BY <1>1, <1>6 DEF CacheInv, CacheTypeOK, ShardsInv, EmptyAbove, ExportInv
<1> QED
  BY <1>3, <1>4, <1>5, <1>7, <1>8 DEF CacheInv, ShardsInv

\* When a build is about to write its state file, every older message is shown
\* as the last state file promises, but for what an earlier build has torn.
LEMMA AtSave ==
  ASSUME CacheInv, phase = "save", NEW i \in Id, i <= stateFile.last, i \notin missed
  PROVE  \/ Shown(i, stateFile.at, stateFile.counters)
         \/ /\ torn /\ ~build.full /\ Holding(i) = {}
            /\ ~HasCompleteParquetData \/ NotLast
<1>1. /\ stateFile.last \in 0..MaxId /\ stateFile.at \in 0..MaxTime
      /\ build.maxId \in 0..MaxId /\ build.at \in 0..MaxTime
      /\ Id \subseteq Nat \ {0}
      /\ \A j \in Id : messages[j].gone \in 0..MaxTime /\ messages[j].hidden \in 0..MaxTime
  <2>1. /\ stateFile \in CacheState /\ messages \in [Id -> MessageRow]
        /\ build.maxId \in 0..MaxId /\ build.at \in 0..MaxTime
    BY DEF CacheInv, CacheTypeOK
  <2>2. ASSUME NEW j \in Id
        PROVE  messages[j].gone \in 0..MaxTime /\ messages[j].hidden \in 0..MaxTime
    BY <2>1 DEF MessageRow
  <2>3. stateFile.last \in 0..MaxId /\ stateFile.at \in 0..MaxTime
    BY <2>1 DEF CacheState
  <2>4. Id \subseteq Nat \ {0}
    BY CacheBounds DEF Id
  <2> QED
    BY <2>1, <2>2, <2>3, <2>4
<1>2. /\ stateFile.last <= build.maxId /\ stateFile.at <= build.at
      /\ Within(stateFile.counters, build.counters)
      /\ Within(build.counters, SyncCounters)
      /\ build.full => ~torn /\ Last = 0
  BY DEF CacheInv, BuildInv, Exporting, Last
<1>3. CASE build.full
  <2>1. Last < i /\ i <= build.maxId
    BY <1>1, <1>2, <1>3
  <2>2. RowShown(i, build.at) /\ JunctionsShown(i, build.at, build.counters)
    BY <2>1 DEF CacheInv, ShardsInv, ExportInv
  <2>3. Dirty(i, build.at) => Dirty(i, stateFile.at)
    BY <1>1, <1>2 DEF Dirty, DeletedSince, HiddenSince
  <2>4. RowShown(i, stateFile.at)
    BY <2>2, <2>3 DEF RowShown
  <2>5. Transferred(i, build.at) => Transferred(i, stateFile.at)
    BY <1>1, <1>2 DEF Transferred, Tells
  <2>6. JunctionsShown(i, stateFile.at, stateFile.counters)
    BY <1>2, <2>2, <2>5 DEF JunctionsShown, LabelsShown, FilesShown, Within
  <2> QED
    BY <2>4, <2>6 DEF Shown
<1>4. CASE ~build.full
  BY <1>4 DEF CacheInv, ShardsInv, KeptInv, Kept, Cleared, Exporting
<1> QED
  BY <1>3, <1>4

\* Nothing was exported where there was something to export.
LEMMA NothingExportedKeeps ==
  ASSUME CacheInv, phase = "save", Go("idle"), build' = NoBuild,
         ~HasParquetData, UNCHANGED <<parquet, stateFile, ghosts, faults>>
  PROVE  CacheInv'
<1> USE CacheBounds
<1>1. /\ phase' = "idle"
      /\ UNCHANGED <<messages, runs, current, tally, pending, shards, related, tables,
                     stateFile, missed, torn, clock, faults>>
  BY DEF Go, database, parquet, ghosts
<1>2. NoBuild \in [full : BOOLEAN, at : 0..MaxTime, previous : CacheState,
                   maxId : 0..MaxId, exportable : 0..MaxId, counters : Counters]
  BY DEF NoBuild, NoState, CacheState, Counters
<1>3. CacheTypeOK'
  BY <1>1, <1>2 DEF CacheInv, CacheTypeOK
<1>4. ArchiveInv' /\ SyncCounters' = SyncCounters
  BY <1>1, ArchiveStays
<1>5. StateInv' /\ BuildInv'
  BY <1>1, <1>4 DEF CacheInv, StateInv, BuildInv, AllThere, LateMarks, Within
<1>6. /\ \A i \in Id : Holding(i)' = Holding(i)
      /\ HasParquetData' = HasParquetData
      /\ \A i \in Id : /\ RowShown(i, stateFile.at)' <=> RowShown(i, stateFile.at)
                       /\ JunctionsShown(i, stateFile.at, stateFile.counters)' <=>
                            JunctionsShown(i, stateFile.at, stateFile.counters)
  BY <1>1, ShownStays
<1>7. KeptInv'
  <2> SUFFICES ASSUME NEW i \in Id, i <= stateFile.last, i \notin missed
               PROVE  Kept(i)'
    BY <1>1 DEF KeptInv
  <2>1. CASE Shown(i, stateFile.at, stateFile.counters)
    BY <1>6, <2>1 DEF Kept, Shown
  <2>2. CASE torn /\ Holding(i) = {} /\ (~HasCompleteParquetData \/ NotLast)
    BY <1>1, <1>6, <2>2 DEF Kept, Cleared, HasCompleteParquetData, NotLast
  <2> QED
    BY <2>1, <2>2, AtSave
<1>8. EmptyAbove' /\ ExportInv'
  <2>1. \A i \in Id : Holding(i)' = {}
    BY <1>6 DEF HasParquetData
  <2> QED
    BY <1>1, <2>1 DEF EmptyAbove, ExportInv
<1> QED
  BY <1>3, <1>4, <1>5, <1>7, <1>8 DEF CacheInv, ShardsInv

\* A run has ended meanwhile: the cache is discarded.
LEMMA DiscardKeeps ==
  ASSUME CacheInv, phase = "save", Go("idle"), build' = NoBuild,
         RemoveParquet, stateFile' = NoState, UNCHANGED faults
  PROVE  CacheInv'
<1> USE CacheBounds
<1>1. /\ phase' = "idle" /\ shards' = <<>> /\ related' = <<>> /\ tables' = FALSE
      /\ missed' = {} /\ torn' = FALSE
      /\ UNCHANGED <<messages, runs, current, tally, pending, clock, faults>>
  BY DEF Go, RemoveParquet, database
<1>2. /\ NoState \in CacheState
      /\ NoBuild \in [full : BOOLEAN, at : 0..MaxTime, previous : CacheState,
                      maxId : 0..MaxId, exportable : 0..MaxId, counters : Counters]
  BY DEF NoBuild, NoState, CacheState, Counters
<1>3. CacheTypeOK'
  <2>1. related' \in UNION {[S -> [labels : Nat, files : BOOLEAN]] : S \in SUBSET Id}
    <3>1. related' \in [{} -> [labels : Nat, files : BOOLEAN]]
      BY <1>1
    <3> QED
      BY <3>1
  <2>2. shards' \in Seq(ParquetFile)
    BY <1>1
  <2> QED
    BY <1>1, <1>2, <2>1, <2>2 DEF CacheInv, CacheTypeOK
<1>4. ArchiveInv'
  BY <1>1, ArchiveStays
<1>5. /\ stateFile'.last = 0 /\ stateFile'.at = 0
      /\ stateFile'.counters = [added |-> {}, updated |-> {}, failed |-> {}]
      /\ \A i \in Id : i > 0 /\ ~(i <= 0)
  BY DEF NoState, Id
<1>6. StateInv'
  BY <1>1, <1>5, SMTT(30) DEF CacheInv, CacheTypeOK, MessageRow, StateInv, AllThere, LateMarks,
     Within
<1>7. BuildInv' /\ KeptInv' /\ ExportInv'
  BY <1>1, <1>5 DEF BuildInv, KeptInv, ExportInv
<1>8. EmptyAbove'
  BY <1>1 DEF EmptyAbove, Holding
<1> QED
  BY <1>3, <1>4, <1>6, <1>7, <1>8 DEF CacheInv, ShardsInv

\* The state file is written: it speaks for all that the build has read, but
\* for what missed names from now on.
LEMMA RecordKeeps ==
  ASSUME CacheInv, phase = "save", Go("idle"), build' = NoBuild,
         SyncCounters = build.counters,
         stateFile' = [last |-> build.maxId, at |-> build.at,
                       counters |-> build.counters],
         missed' = missed \cup Unseen,
         UNCHANGED <<parquet, torn, faults>>
  PROVE  CacheInv'
<1> USE CacheBounds
<1>1. /\ phase' = "idle"
      /\ UNCHANGED <<messages, runs, current, tally, pending, shards, related, tables,
                     torn, clock, faults>>
  BY DEF Go, database, parquet
<1>2. /\ stateFile'.last = build.maxId /\ stateFile'.at = build.at
      /\ stateFile'.counters = build.counters
  OBVIOUS
<1>3. /\ build.maxId \in 0..MaxId /\ build.at \in 0..MaxTime /\ build.counters \in Counters
      /\ build.previous \in CacheState /\ stateFile \in CacheState
  BY DEF CacheInv, CacheTypeOK
<1>4. CacheTypeOK'
  <2>1. NoBuild \in [full : BOOLEAN, at : 0..MaxTime, previous : CacheState,
                     maxId : 0..MaxId, exportable : 0..MaxId, counters : Counters]
    BY DEF NoBuild, NoState, CacheState, Counters
  <2>2. stateFile' \in CacheState
    BY <1>3 DEF CacheState
  <2>3. missed' \subseteq Id
    BY DEF CacheInv, CacheTypeOK, Unseen
  <2> QED
    BY <1>1, <2>1, <2>2, <2>3 DEF CacheInv, CacheTypeOK
<1>5. /\ ArchiveInv' /\ SyncCounters' = SyncCounters /\ Running' = Running
      /\ \A i \in Id : Exportable(i)' = Exportable(i) /\ Truth(i)' = Truth(i)
  BY <1>1, ArchiveStays
<1>6. /\ \A i \in Id : Holding(i)' = Holding(i) /\ View(i)' = View(i)
      /\ HasParquetData' = HasParquetData
  BY <1>1 DEF Holding, View, HasParquetData
<1>7. /\ AllThere(build.maxId) /\ LateMarks(build.maxId, build.at) /\ build.at <= clock
      /\ build.maxId >= stateFile.last
      /\ ~build.full => /\ build.previous = stateFile /\ Last = stateFile.last
                        /\ stateFile # NoState =>
                             /\ build.counters.updated = stateFile.counters.updated
                             /\ build.counters.failed = stateFile.counters.failed
      /\ build.full => Last = 0
  BY DEF CacheInv, BuildInv, Exporting, Last
<1>8. StateInv' /\ BuildInv'
  <2>1. AllThere(stateFile.last)' /\ LateMarks(stateFile.last, stateFile.at)'
    BY <1>1, <1>2, <1>7 DEF AllThere, LateMarks
  <2>2. Within(stateFile.counters, SyncCounters)'
    BY <1>2, <1>5 DEF Within
  <2> QED
    BY <1>1, <1>2, <1>7, <2>1, <2>2 DEF StateInv, BuildInv
<1>9. ASSUME NEW i \in Id, RowShown(i, build.at), JunctionsShown(i, build.at, build.counters)
      PROVE  Kept(i)'
  <2>1. RowShown(i, stateFile.at)'
    BY <1>1, <1>2, <1>5, <1>6, <1>9 DEF RowShown, Dirty, DeletedSince, HiddenSince
  <2>2. JunctionsShown(i, stateFile.at, stateFile.counters)'
    BY <1>1, <1>2, <1>5, <1>9 DEF JunctionsShown, LabelsShown, FilesShown,
         Relabelling, Storing, Transferred, Tells
  <2> QED
    BY <2>1, <2>2 DEF Kept, Shown
<1>10. ASSUME NEW i \in Id, i <= Last, i \notin missed, i \notin Unseen
       PROVE  RowShown(i, build.at) /\ JunctionsShown(i, build.at, build.counters)
  <2>1. /\ Last \in Nat /\ Last # 0 /\ ~build.full
        /\ build.previous = stateFile /\ Last = stateFile.last /\ stateFile # NoState
    BY <1>3, <1>7, <1>10 DEF Id, CacheState, NoState
  <2>2. /\ ~(/\ messages[i].gone # Null /\ messages[i].gone < build.at
             /\ messages[i].gone >= stateFile.at)
        /\ ~(/\ messages[i].hidden # Null /\ messages[i].hidden < build.at
             /\ messages[i].hidden >= stateFile.at)
        /\ \A j \in Id : messages[j].into = i =>
             ~(/\ messages[j].hidden # Null /\ messages[j].hidden < build.at
               /\ messages[j].hidden >= stateFile.at)
        /\ i \in DOMAIN related => related[i].files = messages[i].files
        /\ ~(torn /\ Holding(i) = {})
    BY <1>10, <2>1 DEF Unseen
  <2>3. Shown(i, stateFile.at, stateFile.counters)
    BY <1>10, <2>1, <2>2, AtSave
  <2>4. Dirty(i, stateFile.at) => Dirty(i, build.at)
    <3>1. /\ messages[i].gone \in 0..MaxTime /\ messages[i].hidden \in 0..MaxTime
          /\ build.at \in 0..MaxTime
      <4>1. messages[i] \in MessageRow
        BY DEF CacheInv, CacheTypeOK
      <4> QED
        BY <1>3, <4>1 DEF MessageRow
    <3> QED
      BY <2>2, <3>1 DEF Dirty, DeletedSince, HiddenSince
  <2>5. RowShown(i, build.at)
    BY <2>3, <2>4 DEF Shown, RowShown
  <2>6. JunctionsShown(i, build.at, build.counters)
    <3>1. /\ build.counters.updated = stateFile.counters.updated
          /\ build.counters.failed = stateFile.counters.failed
      BY <1>7, <2>1
    <3>2. Transferred(i, stateFile.at) => Transferred(i, build.at)
      <4>1. ASSUME NEW j \in Id
            PROVE  /\ messages[j].hidden \in 0..MaxTime /\ build.at \in 0..MaxTime
        <5>1. messages[j] \in MessageRow
          BY DEF CacheInv, CacheTypeOK
        <5> QED
          BY <1>3, <5>1 DEF MessageRow
      <4> QED
        BY <2>2, <4>1 DEF Transferred, Tells
    <3>3. LabelsShown(i, stateFile.at, stateFile.counters) =>
            LabelsShown(i, build.at, build.counters)
      BY <3>1, <3>2 DEF LabelsShown
    <3>4. i \in DOMAIN related => FilesShown(i, build.counters)
      BY <2>2 DEF FilesShown
    <3> QED
      BY <2>3, <3>3, <3>4 DEF Shown, JunctionsShown
  <2> QED
    BY <2>5, <2>6
<1>11. KeptInv'
  <2> SUFFICES ASSUME NEW i \in Id, i <= build.maxId, i \notin missed, i \notin Unseen
               PROVE  Kept(i)'
    BY <1>2 DEF KeptInv
  <2>1. CASE i <= Last
    BY <1>9, <1>10, <2>1
  <2>2. CASE ~(i <= Last)
    <3>1. Last < i
      <4>1. Last \in Nat /\ i \in Nat
        BY <1>3 DEF Last, CacheState, Id
      <4> QED
        BY <2>2, <4>1
    <3> QED
      BY <1>9, <3>1 DEF CacheInv, ShardsInv, ExportInv
  <2> QED
    BY <2>1, <2>2
<1>12. EmptyAbove' /\ ExportInv'
  BY <1>1, <1>2, <1>6 DEF CacheInv, ShardsInv, EmptyAbove, ExportInv
<1> QED
  BY <1>4, <1>5, <1>8, <1>11, <1>12 DEF CacheInv, ShardsInv

LEMMA WriteStateKeeps ==
  ASSUME CacheInv, WriteState
  PROVE  CacheInv'
<1>1. phase = "save" /\ Go("idle") /\ build' = NoBuild /\ UNCHANGED faults
  BY DEF WriteState, SaveState
<1>2. CASE ~HasParquetData /\ UNCHANGED <<parquet, stateFile, ghosts>>
  BY <1>1, <1>2, NothingExportedKeeps
<1>3. CASE RemoveParquet /\ stateFile' = NoState
  BY <1>1, <1>3, DiscardKeeps
<1>4. CASE /\ SyncCounters = build.counters
           /\ stateFile' = [last |-> build.maxId, at |-> build.at,
                            counters |-> build.counters]
           /\ missed' = missed \cup Unseen
           /\ UNCHANGED <<parquet, torn>>
  BY <1>1, <1>4, RecordKeeps
<1> QED
  BY <1>2, <1>3, <1>4 DEF WriteState, SaveState
-----------------------------------------------------------------------------
LEMMA CacheInitInv == CacheInit => CacheInv
<1> SUFFICES ASSUME CacheInit PROVE CacheInv
  OBVIOUS
<1> USE CacheBounds DEF CacheInit
<1>1. CacheTypeOK
  <2>1. /\ NoState \in CacheState
        /\ NoBuild \in [full : BOOLEAN, at : 0..MaxTime, previous : CacheState,
                        maxId : 0..MaxId, exportable : 0..MaxId, counters : Counters]
    BY DEF NoBuild, NoState, CacheState, Counters
  <2>2. related \in UNION {[S -> [labels : Nat, files : BOOLEAN]] : S \in SUBSET Id}
    <3>1. related \in [{} -> [labels : Nat, files : BOOLEAN]]
      OBVIOUS
    <3> QED
      BY <3>1
  <2>3. messages \in [Id -> MessageRow]
    BY DEF NoRow, MessageRow, Null
  <2>4. runs \in [RunId -> RunRow] /\ tally \in Tally
    BY DEF NoRun, RunRow, NoTally, Tally
  <2>5. shards \in Seq(ParquetFile)
    OBVIOUS
  <2>6. /\ current \in 0..MaxRuns /\ pending \in 0..MaxId
        /\ tables \in BOOLEAN /\ torn \in BOOLEAN /\ missed \subseteq Id
        /\ clock \in 1..MaxTime /\ faults \in 0..MaxFaults
    <3>1. /\ MaxRuns \in Nat /\ MaxId \in Nat /\ MaxFaults \in Nat
          /\ MaxTime \in Nat /\ MaxTime # 0
      OBVIOUS
    <3>2. /\ current = 0 /\ pending = 0 /\ tables = FALSE /\ missed = {}
          /\ torn = FALSE /\ clock = 1 /\ faults = 0
      OBVIOUS
    <3> HIDE CacheBounds DEF CacheInit
    <3>3. tables \in BOOLEAN /\ torn \in BOOLEAN /\ missed \subseteq Id
      BY <3>2
    <3>4. 0 \in 0..MaxRuns /\ 0 \in 0..MaxId /\ 0 \in 0..MaxFaults /\ 1 \in 1..MaxTime
      BY <3>1
    <3> QED
      BY <3>2, <3>3, <3>4, Zenon
  <2>7. stateFile \in CacheState /\ phase = "idle"
        /\ build \in [full : BOOLEAN, at : 0..MaxTime, previous : CacheState,
                      maxId : 0..MaxId, exportable : 0..MaxId, counters : Counters]
    <3>1. stateFile = NoState /\ phase = "idle" /\ build = NoBuild
      OBVIOUS
    <3> QED
      BY <2>1, <3>1
  <2> QED
    BY <2>1, <2>2, <2>3, <2>4, <2>5, <2>6, <2>7 DEF CacheTypeOK
<1>2. ArchiveInv
  <2>1. RowsInv
    BY DEF RowsInv, NoRow, Id, Null
  <2>2. NoTally.added = {} /\ NoTally.updated = {}
    BY DEF NoTally
  <2>3. \A r \in RunId : /\ runs[r].status = "none" /\ runs[r].counters = NoTally
                          /\ runs[r].lost = {}
    BY DEF NoRun
  <2>4. current = 0 /\ pending = 0 /\ tally = NoTally
    OBVIOUS
  <2> HIDE DEF CacheInit
  <2>5. RunsInv
    BY <2>2, <2>3, <2>4 DEF RunsInv, Written, Apart
  <2> QED
    BY <2>1, <2>5 DEF ArchiveInv
<1>3. /\ stateFile.last = 0 /\ stateFile.at = 0
      /\ stateFile.counters = [added |-> {}, updated |-> {}, failed |-> {}]
      /\ \A i \in Id : ~(i <= 0)
  BY DEF NoState, Id
<1>4. StateInv
  BY <1>3 DEF StateInv, AllThere, LateMarks, Within, NoRow, Null
<1>5. BuildInv /\ ShardsInv
  BY <1>3 DEF BuildInv, ShardsInv, KeptInv, EmptyAbove, ExportInv, Holding
<1> QED
  BY <1>1, <1>2, <1>4, <1>5 DEF CacheInv

LEMMA CacheStutterKeeps == CacheInv /\ UNCHANGED vars => CacheInv'
<1> SUFFICES ASSUME CacheInv, UNCHANGED vars PROVE CacheInv'
  OBVIOUS
<1>1. UNCHANGED <<messages, runs, current, tally, pending, shards, related, tables, stateFile,
                  phase, build, missed, torn, clock, faults>>
  BY DEF vars, database, parquet, ghosts
<1>2. CacheTypeOK'
  BY <1>1 DEF CacheInv, CacheTypeOK
<1>3. /\ ArchiveInv' /\ SyncCounters' = SyncCounters /\ Running' = Running
      /\ \A i \in Id : Exportable(i)' = Exportable(i)
  BY <1>1, ArchiveStays
<1>4. StateInv' /\ BuildInv'
  BY <1>1, <1>3 DEF CacheInv, StateInv, BuildInv, AllThere, LateMarks, Within, Exporting
<1>5. \A i \in Id : JunctionsShown(i, build.at, build.counters)' <=> JunctionsShown(i, build.at, build.counters)
  BY <1>1, <1>3 DEF JunctionsShown, LabelsShown, FilesShown,
         Relabelling, Storing, Transferred, Tells
<1>6. ShardsInv'
  BY <1>1, <1>5, ShownStays DEF CacheInv, ShardsInv, KeptInv, EmptyAbove, ExportInv, Kept,
     Shown, Cleared, Exporting, NotLast, Last, HasCompleteParquetData
<1> QED
  BY <1>2, <1>3, <1>4, <1>6 DEF CacheInv

LEMMA CacheStepInv == CacheInv /\ [CacheNext]_vars => CacheInv'
<1> SUFFICES ASSUME CacheInv, CacheNext PROVE CacheInv'
  BY CacheStutterKeeps
<1>1. CASE Tick
  BY <1>1, TickKeeps
<1>2. CASE StartSync
  BY <1>2, StartSyncKeeps
<1>3. CASE PersistMessage
  BY <1>3, PersistMessageKeeps
<1>4. CASE StoreAttachments
  BY <1>4, StoreAttachmentsKeeps
<1>5. CASE CompleteSync \/ FailSync \/ SaveCheckpoint
  BY <1>5, CompleteSyncKeeps, FailSyncKeeps, SaveCheckpointKeeps
<1>6. CASE KillSync
  BY <1>6, KillSyncKeeps
<1>7. CASE \/ \E r \in RunId : ResumeSync(r)
           \/ \E i \in Id : ChangeLabels(i) \/ MarkDeleted(i)
           \/ \E i, survivor \in Id : HideDuplicate(i, survivor)
  BY <1>7, ResumeSyncKeeps, ChangeLabelsKeeps, MarkDeletedKeeps, HideDuplicateKeeps
<1>8. CASE \/ RebuildIfStale \/ RebuildAfterWrite
           \/ \E full \in BOOLEAN : BuildCacheCommand(full)
  <2>1. FullRebuild \in BOOLEAN
    BY DEF FullRebuild
  <2>2. PICK full \in BOOLEAN : Begin(full)
    BY <1>8, <2>1 DEF RebuildIfStale, RebuildAfterWrite, BuildCacheCommand
  <2> QED
    BY <2>2, BeginKeeps
<1>9. CASE Decide
  BY <1>9, DecideKeeps
<1>10. CASE ExportMessages
  BY <1>10, ExportMessagesKeeps
<1>11. CASE ExportRest
  BY <1>11, ExportRestKeeps
<1>12. CASE WriteState
  BY <1>12, WriteStateKeeps
<1>13. CASE BuildFails
  BY <1>13, BuildFailsKeeps
<1> QED
  BY <1>1, <1>2, <1>3, <1>4, <1>5, <1>6, <1>7, <1>8, <1>9, <1>10, <1>11, <1>12, <1>13
     DEF CacheNext, RunEnds, BuildStep

LEMMA CacheAlwaysInv == CacheSpec => []CacheInv
BY CacheInitInv, CacheStepInv, PTL DEF CacheSpec
-----------------------------------------------------------------------------
\* Every variable of the cache has its type.
THEOREM CacheTypeCorrect == CacheSpec => []CacheTypeOK
<1>1. CacheInv => CacheTypeOK
  BY DEF CacheInv
<1> QED
  BY <1>1, CacheAlwaysInv, PTL

\* A check that finds the cache fresh has compared every mark and every counter,
\* and then no message is there above the state file.
LEMMA FreshMeans ==
  ASSUME CacheInv, ~NeedsBuild, HasCompleteParquetData
  PROVE  /\ \A i \in Id : ~Dirty(i, stateFile.at) /\ ~Transferred(i, stateFile.at)
         /\ SyncCounters.added = stateFile.counters.added
         /\ SyncCounters.updated = stateFile.counters.updated
         /\ SyncCounters.failed = stateFile.counters.failed
         /\ ~NotLast
<1>1. /\ DeletedSince(stateFile.at) = {} /\ HiddenSince(stateFile.at) = {}
      /\ ~HasUpdated /\ ~HasNew
  BY DEF NeedsBuild, FullRebuild, HasCompleteParquetData
<1>2. stateFile.last \in 0..MaxId /\ stateFile.at \in 0..MaxTime
  BY DEF CacheInv, CacheTypeOK, CacheState
<1>3. \A i \in Id : ~Dirty(i, stateFile.at) /\ ~Transferred(i, stateFile.at)
  <2>1. ASSUME NEW j \in Id, Tells(j, stateFile.at)
        PROVE  Dirty(j, stateFile.at)
    <3>1. messages[j] \in MessageRow
      BY DEF CacheInv, CacheTypeOK
    <3>2. messages[j].gone \in 0..MaxTime /\ messages[j].hidden \in 0..MaxTime
      BY <3>1 DEF MessageRow
    <3> QED
      BY <1>2, <2>1, <3>2, CacheBounds DEF Tells, Dirty, DeletedSince, HiddenSince, Null
  <2> QED
    BY <1>1, <2>1 DEF Dirty, Transferred
<1>4. MaxLiveId \in 0..MaxId /\ \A i \in Id : Live(i) => i <= MaxLiveId
  <2>1. MaxId \in Nat /\ {i \in Id : Live(i)} \in SUBSET (1..MaxId)
    BY CacheBounds DEF Id
  <2> QED
    BY <2>1, GreatestIs DEF MaxLiveId
<1>5. MaxLiveId <= stateFile.last
  BY <1>1, <1>2, <1>4 DEF HasNew
<1>6. /\ SyncCounters.added = stateFile.counters.added
      /\ SyncCounters.updated = stateFile.counters.updated
      /\ SyncCounters.failed = stateFile.counters.failed
  BY <1>1, <1>5 DEF HasUpdated
<1>7. ASSUME NEW j \in Id, j > stateFile.last, messages[j].there
      PROVE  FALSE
  <2>1. ~Live(j)
    BY <1>2, <1>4, <1>5, <1>7 DEF Id
  <2>2. messages[j].gone # Null \/ messages[j].hidden # Null
    BY <1>7, <2>1 DEF Live, Exportable
  <2>3. /\ messages[j].gone # Null => messages[j].gone >= stateFile.at
        /\ messages[j].hidden # Null => messages[j].hidden >= stateFile.at
    BY <1>7 DEF CacheInv, StateInv, LateMarks
  <2> QED
    BY <1>1, <2>2, <2>3 DEF DeletedSince, HiddenSince
<1>8. ~NotLast
  BY <1>7 DEF NotLast
<1> QED
  BY <1>3, <1>6, <1>8

LEMMA InvIsFresh == CacheInv => FreshIsTrue
<1> SUFFICES ASSUME CacheInv, ~NeedsBuild, HasCompleteParquetData,
                    NEW i \in Id, i \notin missed, i \notin Unfinished
             PROVE  /\ Truth(i) \subseteq View(i)
                    /\ ~torn => View(i) = Truth(i) /\ Cardinality(Holding(i)) <= 1
                    /\ Exportable(i) => i \in DOMAIN related /\ related[i] = Junctions(i)
  BY Zenon DEF FreshIsTrue, Truth, View
<1>0. stateFile.last \in 0..MaxId /\ i \in Nat /\ MaxId \in Nat /\ build.maxId \in 0..MaxId
  <2>1. stateFile \in CacheState /\ build.maxId \in 0..MaxId
    BY DEF CacheInv, CacheTypeOK
  <2> QED
    BY <2>1, CacheBounds DEF CacheState, Id
<1>1. CASE i <= stateFile.last
  <2>1. Shown(i, stateFile.at, stateFile.counters)
    <3>1. Kept(i)
      BY <1>1 DEF CacheInv, ShardsInv, KeptInv
    <3> QED
      BY <3>1, FreshMeans DEF Kept, HasCompleteParquetData
  <2>2. /\ Truth(i) \subseteq View(i)
        /\ ~torn => View(i) = Truth(i) /\ \A k, l \in Holding(i) : k = l
    BY <2>1, FreshMeans DEF Shown, RowShown
  <2>3. ASSUME \A k, l \in Holding(i) : k = l
        PROVE  Cardinality(Holding(i)) <= 1
    <3>1. CASE Holding(i) = {}
      BY <3>1, FS_EmptySet
    <3>2. CASE Holding(i) # {}
      <4>1. PICK k \in Holding(i) : TRUE
        BY <3>2
      <4>2. Holding(i) = {k}
        BY <2>3, <4>1
      <4> QED
        BY <4>2, FS_Singleton
    <3> QED
      BY <3>1, <3>2
  <2>4. ASSUME Exportable(i)
        PROVE  i \in DOMAIN related /\ related[i] = Junctions(i)
    <3>1. /\ i \in DOMAIN related
          /\ LabelsShown(i, stateFile.at, stateFile.counters) /\ FilesShown(i, stateFile.counters)
      BY <2>1, <2>4 DEF Shown, JunctionsShown
    <3>2. ~Relabelling(i) /\ ~Storing(i)
      BY DEF Unfinished, Touched, Relabelling, Storing
    <3>3. related[i].labels = messages[i].labels
      BY <3>1, <3>2, FreshMeans DEF LabelsShown
    <3>4. related[i].files = messages[i].files
      BY <3>1, <3>2, FreshMeans DEF FilesShown
    <3>5. related[i] \in [labels : Nat, files : BOOLEAN]
      BY <3>1 DEF CacheInv, CacheTypeOK
    <3> QED
      BY <3>1, <3>3, <3>4, <3>5 DEF Junctions
  <2> QED
    BY <2>2, <2>3, <2>4
<1>2. CASE i > stateFile.last
  <2>1. ~messages[i].there
    BY <1>2, FreshMeans DEF NotLast
  <2>2. ~Exportable(i) /\ Truth(i) = {}
    BY <2>1 DEF Exportable, Truth
  <2>3. ASSUME ~torn PROVE Holding(i) = {}
    <3>1. CASE phase \in {"rest", "save"}
      <4>1. i > build.maxId
        BY <1>0, <2>1, <3>1 DEF CacheInv, BuildInv, AllThere
      <4> QED
        BY <2>3, <3>1, <4>1 DEF CacheInv, ShardsInv, EmptyAbove
    <3>2. CASE phase \notin {"rest", "save"}
      BY <1>2, <2>3, <3>2 DEF CacheInv, ShardsInv, EmptyAbove
    <3> QED
      BY <3>1, <3>2
  <2>4. Holding(i) = {} => View(i) = {} /\ Cardinality(Holding(i)) <= 1
    BY FS_EmptySet DEF View
  <2> QED
    BY <2>2, <2>3, <2>4
<1> QED
  BY <1>0, <1>1, <1>2

\* A cache that the check calls fresh shows of every message what the archive
\* has, once: however syncs, resumed or killed, deletions, hidden duplicates and
\* builds followed each other and failed.  Excepted is what a run in progress
\* has written, what nothing tells of (missed) and what a failed build has torn.
THEOREM FreshCacheIsTrue == CacheSpec => []FreshIsTrue
BY CacheAlwaysInv, InvIsFresh, PTL
-----------------------------------------------------------------------------
(* A build and the check that follows it.                                  *)

\* A build that comes to its end has written the tables that hang on no message.
TablesLast == phase = "save" => tables

LEMMA TablesLastStep == TablesLast /\ [CacheNext]_vars => TablesLast'
<1> SUFFICES ASSUME TablesLast, [CacheNext]_vars PROVE TablesLast'
  OBVIOUS
<1>1. CASE BuildStep
  <2>1. CASE ExportRest
    BY <2>1 DEF ExportRest, TablesLast
  <2>2. CASE Decide \/ ExportMessages \/ WriteState \/ BuildFails
    BY <2>2 DEF Decide, ExportMessages, WriteState, SaveState, BuildFails, Go, TablesLast
  <2> QED
    BY <1>1, <2>1, <2>2 DEF BuildStep
<1>2. CASE \E full \in BOOLEAN : Begin(full)
  BY <1>2 DEF Begin, Go, TablesLast
<1>3. CASE phase' = phase /\ tables' = tables
  BY <1>3 DEF TablesLast
<1>4. CASE UNCHANGED vars
  BY <1>3, <1>4 DEF vars, parquet
<1>5. CASE CacheNext
  <2>1. CASE RebuildIfStale \/ RebuildAfterWrite \/ \E full \in BOOLEAN : BuildCacheCommand(full)
    <3>1. FullRebuild \in BOOLEAN
      BY DEF FullRebuild
    <3> QED
      BY <1>2, <2>1, <3>1 DEF RebuildIfStale, RebuildAfterWrite, BuildCacheCommand
  <2>2. CASE \/ \E r \in RunId : ResumeSync(r)
             \/ \E i \in Id : ChangeLabels(i) \/ MarkDeleted(i)
             \/ \E i, survivor \in Id : HideDuplicate(i, survivor)
    BY <1>3, <2>2 DEF ResumeSync, ChangeLabels, MarkDeleted, HideDuplicate, CacheStays, parquet
  <2>3. CASE Tick
    BY <1>3, <2>3 DEF Tick, parquet
  <2>4. CASE \/ StartSync \/ PersistMessage \/ StoreAttachments \/ SaveCheckpoint
             \/ CompleteSync \/ FailSync \/ KillSync
    BY <1>3, <2>4 DEF StartSync, PersistMessage, StoreAttachments, SaveCheckpoint,
       CompleteSync, FailSync, KillSync, EndRun, CacheStays, parquet
  <2> QED
    BY <1>1, <1>5, <2>1, <2>2, <2>3, <2>4 DEF CacheNext, RunEnds
<1> QED
  BY <1>4, <1>5

\* Only the end of a build changes the state file.
LEMMA StateFileChanges ==
  ASSUME [CacheNext]_vars, stateFile' # stateFile
  PROVE  WriteState
<1>1. CASE BuildStep
  BY <1>1 DEF BuildStep, Decide, ExportMessages, ExportRest, BuildFails
<1>2. CASE UNCHANGED vars
  BY <1>2 DEF vars
<1>3. CASE RebuildIfStale \/ RebuildAfterWrite \/ \E full \in BOOLEAN : BuildCacheCommand(full)
  BY <1>3 DEF RebuildIfStale, RebuildAfterWrite, BuildCacheCommand, Begin
<1>4. CASE \/ \E r \in RunId : ResumeSync(r)
           \/ \E i \in Id : ChangeLabels(i) \/ MarkDeleted(i)
           \/ \E i, survivor \in Id : HideDuplicate(i, survivor)
  BY <1>4 DEF ResumeSync, ChangeLabels, MarkDeleted, HideDuplicate, CacheStays
<1>5. CASE Tick \/ StartSync \/ PersistMessage \/ RunEnds \/ KillSync
  BY <1>5 DEF Tick, StartSync, PersistMessage, RunEnds, StoreAttachments, SaveCheckpoint,
     CompleteSync, FailSync, EndRun, KillSync, CacheStays
<1> QED
  BY <1>1, <1>2, <1>3, <1>4, <1>5 DEF CacheNext

\* What the state file says then is what the check reads.
LEMMA RecordedIsFresh ==
  ASSUME CacheInv, TablesLast, WriteState,
         stateFile' \notin {stateFile, NoState},
         MaxLiveId <= build.maxId,
         DeletedSince(build.at) \cup HiddenSince(build.at) = {}
  PROVE  ~NeedsBuild'
<1>1. /\ phase = "save" /\ UNCHANGED <<messages, runs, shards, related, tables>>
      /\ ~(build.exportable > 0 /\ ~HasParquetData) /\ SyncCounters = build.counters
      /\ stateFile' = [last |-> build.maxId, at |-> build.at, counters |-> build.counters]
  BY DEF WriteState, SaveState, Go, database, parquet
<1>2. stateFile'.last = build.maxId /\ stateFile'.at = build.at
      /\ stateFile'.counters = build.counters
  BY <1>1
<1>3. MaxLiveId' = MaxLiveId /\ SyncCounters' = SyncCounters
  BY <1>1 DEF MaxLiveId, Live, Exportable, SyncCounters, EndedRuns
<1>4. MaxLiveId \in {i \in Id : Live(i)} \cup {0} /\ build.exportable \in 0..MaxId
  <2>1. MaxId \in Nat /\ {i \in Id : Live(i)} \in SUBSET (1..MaxId)
    BY CacheBounds DEF Id
  <2> QED
    BY <2>1, GreatestIs DEF MaxLiveId, CacheInv, CacheTypeOK
<1>5. /\ HasParquetData' <=> HasParquetData
      /\ tables /\ tables'
  BY <1>1 DEF HasParquetData, Holding, TablesLast
<1>6. ~HasParquetData => MaxLiveId = 0
  <2> SUFFICES ASSUME ~HasParquetData, MaxLiveId # 0 PROVE FALSE
    OBVIOUS
  <2>1. build.exportable = 0
    BY <1>1, <1>4
  <2>2. MaxLiveId \in Id /\ Exportable(MaxLiveId)
    BY <1>4 DEF Live
  <2> QED
    BY <1>1, <2>1, <2>2 DEF CacheInv, BuildInv
<1>7. (DeletedSince(stateFile.at) \cup HiddenSince(stateFile.at))' = {}
  <2>1. \A i \in Id : /\ ~(messages[i].gone # Null /\ messages[i].gone >= build.at)
                      /\ ~(/\ messages[i].hidden # Null /\ messages[i].hidden >= build.at
                           /\ messages[i].gone = Null)
    BY DEF DeletedSince, HiddenSince
  <2>2. messages' = messages
    BY <1>1
  <2> QED
    BY <1>2, <2>1, <2>2 DEF DeletedSince, HiddenSince
<1>8. ~HasUpdated' /\ ~HasNew'
  <2>1. (stateFile.counters)' = SyncCounters'
    BY <1>1, <1>2, <1>3
  <2>2. MaxLiveId' \in Nat /\ stateFile'.last \in Nat /\ MaxLiveId' <= stateFile'.last
    BY <1>2, <1>3, <1>4, CacheBounds DEF CacheInv, CacheTypeOK, Id
  <2>3. ~HasUpdated'
    BY <2>1, Zenon DEF HasUpdated
  <2>4. ~HasNew'
    BY <2>2 DEF HasNew
  <2> QED
    BY <2>3, <2>4
<1>9. HasParquetData' => ~MissingRequiredParquet'
  BY <1>5 DEF MissingRequiredParquet, HasCompleteParquetData
<1>10. ~(HasParquetData' /\ HasNew') /\ stateFile' # NoState
  BY <1>8
<1>11. ~(~HasParquetData' /\ MaxLiveId' > 0)
  BY <1>3, <1>5, <1>6
<1>12. ~FullRebuild'
  BY <1>7, <1>8, <1>9, <1>10, <1>11, Zenon DEF FullRebuild
<1> QED
  BY <1>10, <1>12, Zenon DEF NeedsBuild

\* A build that has written its state file satisfies the check until a run ends,
\* a message arrives or a mark is set: no rebuild asks for the next.
THEOREM BuildsSettle == CacheSpec => BuildSettles
<1>1. CacheInit => TablesLast
  BY DEF CacheInit, TablesLast
<1>2. CacheInv /\ TablesLast /\ [CacheNext]_vars =>
        [/\ phase = "save" /\ stateFile' \notin {stateFile, NoState}
         /\ MaxLiveId <= build.maxId
         /\ DeletedSince(build.at) \cup HiddenSince(build.at) = {}
         => ~NeedsBuild']_vars
  BY StateFileChanges, RecordedIsFresh
<1> QED
  BY <1>1, <1>2, TablesLastStep, CacheAlwaysInv, PTL DEF CacheSpec, BuildSettles
=============================================================================
