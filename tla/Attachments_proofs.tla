-------------------------- MODULE Attachments_proofs --------------------------
(***************************************************************************)
(* Proofs about Attachments, for any accounts, blobs, packs and readers.   *)
(***************************************************************************)
EXTENDS Attachments, TLAPS

\* What a reader keeps.
Reading == [at : {"idle", "open", "again", "failed"}, blob : Blob \cup {None},
            loc : Pack \cup {None}, retried : BOOLEAN, moved : BOOLEAN]

\* Once the metadata belongs to the archive, every mapping is right, also that
\* of a blob nobody names: a sync may name it again without storing it anew.
MappingsHold ==
  restored = "clean" => \A b \in Blob : index[b] # None => b \in file[index[b]]

\* Every mapping belongs to a pack of record.
MappingsRecorded == \A b \in Blob : index[b] # None => index[b] \in record

\* What has no mapping is loose.
LooseHold == \A b \in Referenced : index[b] = None => b \in loose

\* Before the stale metadata is gone everything is loose, and there is no pack
\* file that it could mean.
StaleHold == restored # "clean" =>
  /\ \A p \in Pack : file[p] = {}
  /\ Referenced \subseteq loose
  /\ pass \in {"off", "dangling", "prune repack", "retire empty", "repack",
              "prune unpack", "unpack", "unpacked", "dropped"}

\* Syncs and removals stay out of a pass and of a restore; a sync whose account
\* is there has its run row, which keeps a removal from its stored file.
Exclusion ==
  /\ pass # "off" \/ restored = "clearing" => syncing = {} /\ removal.at = "off"
  /\ restored = "clearing" => pass = "off"
  /\ \A s \in Source : stored[s] # None => s \in syncing
  /\ sources \cap syncing \subseteq runs
  /\ \A s \in sources : stored[s] # None => stored[s] \in loose

Pruned == {"orphans", "pack", "sealed", "recorded", "sweep", "retire empty",
           "repack", "repack sealed", "retire old", "unpack", "unpacked",
           "dropped"}

\* What a pass relies on from its earlier steps.
PassProgress ==
  /\ pass \in Pruned => \A b \in Blob : index[b] # None => b \in Referenced
  /\ pass \in {"sealed", "recorded", "repack sealed", "unpacked", "dropped"} =>
       new \in Pack
  /\ pass = "sealed" => file[new] \subseteq Referenced
  /\ pass = "recorded" => \A b \in file[new] : index[b] # None
  /\ pass = "unpacked" => \A b \in Referenced : index[b] = new => b \in loose
  /\ pass = "dropped" => \A b \in Blob : index[b] # new

\* A read that was not overtaken has the place of its blob; one that looks
\* again was overtaken, and is dropped if that happens once more.
ReadersInv ==
  \A r \in Reader : reading[r] # Idle =>
    LET b == reading[r].blob IN
    /\ b \in Referenced /\ restored = "clean"
    /\ reading[r].at \in {"open", "again"}
    /\ reading[r].at = "again" => reading[r].moved
    /\ reading[r].retried => reading[r].moved
    /\ reading[r].at = "open" /\ (~reading[r].moved \/ reading[r].retried) =>
         reading[r].loc = index[b]

\* The inductive invariant.
AttachmentsInv ==
  /\ AttachmentsTypeOK /\ MappingsHold /\ MappingsRecorded /\ LooseHold
  /\ StaleHold /\ Exclusion /\ PassProgress /\ ReadersInv

LEMMA IdleFields == Idle.at = "idle" /\ Idle.blob = None /\ Idle \in Reading
BY DEF Idle, Reading

\* Watch keeps what the readers rely on, whatever the step does.
LEMMA WatchKeeps ==
  ASSUME AttachmentsTypeOK, ReadersInv, Watch, restored = "clean" => restored' = "clean"
  PROVE  /\ ReadersInv'
         /\ index' \in [Blob -> Pack \cup {None}] =>
              reading' \in [Reader -> Reading]
<1> USE AttachmentsAssumption
<1>1. ASSUME NEW r \in Reader
      PROVE  \/ reading'[r] = Idle
             \/ /\ reading[r].blob # None /\ \E s \in Source : <<s, reading[r].blob>> \in rows'
                /\ index'[reading[r].blob] = index[reading[r].blob]
                /\ reading'[r] = reading[r]
             \/ /\ reading[r].blob # None /\ \E s \in Source : <<s, reading[r].blob>> \in rows'
                /\ ~reading[r].moved
                /\ reading'[r] = [reading[r] EXCEPT !.moved = TRUE]
  <2> DEFINE b == reading[r].blob
             moved == b # None /\ index'[b] # index[b]
             named == \E s \in Source : <<s, b>> \in rows'
             overtaken == [reading[r] EXCEPT !.moved = @ \/ moved]
  <2>1. reading'[r] = CASE b = None -> Idle
                        [] \/ \A s \in Source : <<s, b>> \notin rows'
                           \/ moved /\ reading[r].moved -> Idle
                        [] OTHER -> overtaken
    BY DEF Watch
  <2>2. CASE b = None
    BY <2>1, <2>2
  <2>3. CASE b # None /\ (~named \/ (moved /\ reading[r].moved))
    BY <2>1, <2>3
  <2>4. CASE b # None /\ named /\ ~(moved /\ reading[r].moved)
    <3>1. reading'[r] = overtaken
      BY <2>1, <2>4
    <3>2. CASE moved
      <4>1. overtaken = [reading[r] EXCEPT !.moved = TRUE]
        BY <3>2
      <4> QED
        BY <2>4, <3>1, <3>2, <4>1
    <3>3. CASE ~moved
      <4>1. overtaken = reading[r] /\ index'[b] = index[b]
        BY <2>4, <3>3 DEF AttachmentsTypeOK
      <4> QED
        BY <2>4, <3>1, <4>1
    <3> QED
      BY <3>2, <3>3
  <2> QED
    BY <2>2, <2>3, <2>4
<1>2. reading' = [r \in Reader |-> reading'[r]]
  BY DEF Watch
<1>3. ReadersInv'
  <2> SUFFICES ASSUME NEW r \in Reader, reading'[r] # Idle
               PROVE  LET b == reading'[r].blob IN
                      /\ b \in Referenced' /\ restored' = "clean"
                      /\ reading'[r].at \in {"open", "again"}
                      /\ reading'[r].at = "again" => reading'[r].moved
                      /\ reading'[r].retried => reading'[r].moved
                      /\ reading'[r].at = "open" /\ (~reading'[r].moved \/ reading'[r].retried) =>
                           reading'[r].loc = index'[b]
    BY DEF ReadersInv
  <2>2. reading[r] # Idle
    BY <1>1, IdleFields
  <2>0. reading[r] \in Reading
    BY DEF AttachmentsTypeOK, Reading
  <2>3. /\ reading[r].blob \in Blob
        /\ \E s \in Source : <<s, reading[r].blob>> \in rows'
        /\ \/ index'[reading[r].blob] = index[reading[r].blob]
           \/ ~reading[r].moved /\ reading'[r] = [reading[r] EXCEPT !.moved = TRUE]
    BY <1>1, <2>0, <2>2 DEF Reading
  <2>4. /\ reading'[r].blob = reading[r].blob /\ reading'[r].at = reading[r].at
        /\ reading'[r].loc = reading[r].loc
        /\ reading'[r].retried = reading[r].retried
        /\ reading[r].moved => reading'[r].moved
    BY <1>1, <2>0, <2>2 DEF Reading
  <2>5. reading[r].blob \in Referenced'
    BY <2>3 DEF Referenced
  <2>6. /\ reading[r].at \in {"open", "again"} /\ restored = "clean"
        /\ reading[r].at = "again" => reading[r].moved
        /\ reading[r].retried => reading[r].moved
        /\ reading[r].at = "open" /\ (~reading[r].moved \/ reading[r].retried) =>
             reading[r].loc = index[reading[r].blob]
    BY <2>2 DEF ReadersInv
  <2>7. reading'[r].moved = TRUE \/ reading'[r].moved = reading[r].moved
    BY <1>1, <2>0, <2>2 DEF Reading
  <2>8. [reading[r] EXCEPT !.moved = TRUE].moved = TRUE
    BY <2>0 DEF Reading
  <2> QED
    BY <2>3, <2>4, <2>5, <2>6, <2>7, <2>8
<1>4. ASSUME NEW r \in Reader PROVE reading'[r] \in Reading
  <2>2. reading[r] \in Reading
    BY DEF AttachmentsTypeOK, Reading
  <2>3. [reading[r] EXCEPT !.moved = TRUE] \in Reading
    BY <2>2 DEF Reading
  <2> QED
    BY <1>1, IdleFields, <2>2, <2>3
<1> QED
  BY <1>2, <1>3, <1>4

\* Nothing that the readers rely on changes.
LEMMA ReadersStay ==
  ASSUME ReadersInv, UNCHANGED <<reading, rows, index>>,
         restored = "clean" => restored' = "clean"
  PROVE  ReadersInv'
BY DEF ReadersInv, Referenced

LEMMA StartSyncKeeps ==
  ASSUME AttachmentsInv, NEW s \in Source,
         StartSync(s)
  PROVE  AttachmentsInv'
<1> USE AttachmentsAssumption
    DEF AttachmentsInv, StartSync,
        database, files, writers, maintenance
<1>a. Referenced' = Referenced
  BY DEF Referenced
<1>1. AttachmentsTypeOK'
  BY <1>a DEF AttachmentsTypeOK, Steps
<1>2. MappingsHold' /\ MappingsRecorded'
  BY <1>a DEF AttachmentsTypeOK, MappingsHold, MappingsRecorded, StaleHold,
         PassProgress, Pruned, Exclusion
<1>3. LooseHold'
  BY <1>a DEF AttachmentsTypeOK, MappingsHold, LooseHold, StaleHold, Exclusion,
         PassProgress
<1>4. StaleHold' /\ Exclusion'
  BY <1>a DEF AttachmentsTypeOK, StaleHold, Exclusion
<1>5. PassProgress'
  BY <1>a DEF AttachmentsTypeOK, MappingsRecorded, PassProgress, Exclusion,
         Pruned, LooseHold, StaleHold
<1>6. ReadersInv'
  BY ReadersStay
<1> QED
  BY <1>1, <1>2, <1>3, <1>4, <1>5, <1>6

\* The blob of a new row was stored by this sync and is still loose, or it is
\* mapped, and then its pack holds it.
LEMMA UpsertAttachmentKeeps ==
  ASSUME AttachmentsInv, NEW s \in Source,
         UpsertAttachment(s)
  PROVE  AttachmentsInv'
<1> USE AttachmentsAssumption
    DEF AttachmentsInv, UpsertAttachment,
        database, files, writers, maintenance
<1>a. stored[s] \in Blob /\ rows' \subseteq Source \X Blob
  BY DEF AttachmentsTypeOK
<1>b. \A b \in Referenced' : b \in Referenced \/ b \in loose
  <2>1. CASE rows' = rows
    BY <2>1 DEF Referenced
  <2>2. CASE s \in sources /\ rows' = rows \cup {<<s, stored[s]>>}
    <3>1. stored[s] \in loose
      BY <2>2 DEF Exclusion
    <3>2. \A t \in Source, b \in Blob : <<t, b>> \in rows' =>
                                         <<t, b>> \in rows \/ b = stored[s]
      BY <2>2
    <3> QED
      BY <3>1, <3>2 DEF Referenced
  <2> QED
    BY <2>1, <2>2
<1>1. AttachmentsTypeOK'
  <2>1. stored' \in [Source -> Blob \cup {None}]
    BY DEF AttachmentsTypeOK
  <2>2. reading' \in [Reader -> Reading]
    BY WatchKeeps DEF AttachmentsTypeOK
  <2> QED
    BY <1>a, <2>1, <2>2, ZenonT(60) DEF AttachmentsTypeOK, Steps, Reading
<1>2. MappingsHold' /\ MappingsRecorded'
  BY DEF AttachmentsTypeOK, MappingsHold, MappingsRecorded, StaleHold,
         PassProgress, Pruned, Exclusion, Referenced
<1>3. LooseHold'
  BY <1>b DEF LooseHold
<1>4. StaleHold' /\ Exclusion'
  <2>1. restored # "clean" => Referenced' \subseteq loose
    BY <1>b DEF StaleHold
  <2> QED
    BY <1>a, <2>1 DEF AttachmentsTypeOK, StaleHold, Exclusion
<1>5. PassProgress'
  BY DEF AttachmentsTypeOK, MappingsRecorded, PassProgress, Exclusion,
         Pruned, LooseHold, StaleHold, Referenced
<1>6. ReadersInv'
  BY WatchKeeps
<1> QED
  BY <1>1, <1>2, <1>3, <1>4, <1>5, <1>6

LEMMA EndSyncKeeps ==
  ASSUME AttachmentsInv, NEW s \in Source,
         EndSync(s)
  PROVE  AttachmentsInv'
<1> USE AttachmentsAssumption
    DEF AttachmentsInv, EndSync,
        database, files, writers, maintenance
<1>a. Referenced' = Referenced
  BY DEF Referenced
<1>1. AttachmentsTypeOK'
  BY <1>a, ZenonT(60) DEF AttachmentsTypeOK, Steps
<1>2. MappingsHold' /\ MappingsRecorded'
  BY <1>a DEF AttachmentsTypeOK, MappingsHold, MappingsRecorded, StaleHold,
         PassProgress, Pruned, Exclusion
<1>3. LooseHold'
  BY <1>a DEF AttachmentsTypeOK, MappingsHold, LooseHold, StaleHold, Exclusion,
         PassProgress
<1>4. StaleHold' /\ Exclusion'
  BY <1>a DEF AttachmentsTypeOK, StaleHold, Exclusion
<1>5. PassProgress'
  BY <1>a DEF AttachmentsTypeOK, MappingsRecorded, PassProgress, Exclusion,
         Pruned, LooseHold, StaleHold
<1>6. ReadersInv'
  BY ReadersStay
<1> QED
  BY <1>1, <1>2, <1>3, <1>4, <1>5, <1>6

LEMMA AttachmentPathsUniqueToSourceKeeps ==
  ASSUME AttachmentsInv, NEW s \in Source,
         AttachmentPathsUniqueToSource(s)
  PROVE  AttachmentsInv'
<1> USE AttachmentsAssumption
    DEF AttachmentsInv, AttachmentPathsUniqueToSource, UniqueTo,
        database, files, writers, maintenance
<1>a. Referenced' = Referenced
  BY DEF Referenced
<1>1. AttachmentsTypeOK'
  <2>1. removal' \in [at : {"off", "collected", "removed"},
                     source : Source \cup {None}, paths : SUBSET Blob]
    OBVIOUS
  <2>2. removals' \in 0..MaxRemovals
    BY DEF AttachmentsTypeOK
  <2> QED
    BY <2>1, <2>2 DEF AttachmentsTypeOK, Steps
<1>2. MappingsHold' /\ MappingsRecorded'
  BY <1>a DEF AttachmentsTypeOK, MappingsHold, MappingsRecorded, StaleHold,
         PassProgress, Pruned, Exclusion
<1>3. LooseHold'
  BY <1>a DEF AttachmentsTypeOK, MappingsHold, LooseHold, StaleHold, Exclusion,
         PassProgress
<1>4. StaleHold' /\ Exclusion'
  BY <1>a DEF AttachmentsTypeOK, StaleHold, Exclusion
<1>5. PassProgress'
  BY <1>a DEF AttachmentsTypeOK, MappingsRecorded, PassProgress, Exclusion,
         Pruned, LooseHold, StaleHold
<1>6. ReadersInv'
  BY ReadersStay
<1> QED
  BY <1>1, <1>2, <1>3, <1>4, <1>5, <1>6

LEMMA StoreAttachmentFileKeeps ==
  ASSUME AttachmentsInv, NEW s \in Source, NEW b \in Blob,
         StoreAttachmentFile(s, b)
  PROVE  AttachmentsInv'
<1> USE AttachmentsAssumption
    DEF AttachmentsInv, StoreAttachmentFile,
        database, files, writers, maintenance
<1>a. Referenced' = Referenced
  BY DEF Referenced
<1>1. AttachmentsTypeOK'
  BY <1>a, ZenonT(60) DEF AttachmentsTypeOK, Steps
<1>2. MappingsHold' /\ MappingsRecorded'
  BY <1>a DEF AttachmentsTypeOK, MappingsHold, MappingsRecorded, StaleHold,
         PassProgress, Pruned, Exclusion
<1>3. LooseHold'
  BY <1>a DEF AttachmentsTypeOK, MappingsHold, LooseHold, StaleHold, Exclusion,
         PassProgress
<1>4. StaleHold' /\ Exclusion'
  BY <1>a DEF AttachmentsTypeOK, StaleHold, Exclusion
<1>5. PassProgress'
  BY <1>a DEF AttachmentsTypeOK, MappingsRecorded, PassProgress, Exclusion,
         Pruned, LooseHold, StaleHold
<1>6. ReadersInv'
  BY ReadersStay
<1> QED
  BY <1>1, <1>2, <1>3, <1>4, <1>5, <1>6

LEMMA RowGoesKeeps ==
  ASSUME AttachmentsInv, NEW s \in Source, NEW b \in Blob,
         RowGoes(s, b)
  PROVE  AttachmentsInv'
<1> USE AttachmentsAssumption
    DEF AttachmentsInv, RowGoes,
        database, files, writers, maintenance
<1>1. AttachmentsTypeOK'
  <2>1. index' \in [Blob -> Pack \cup {None}]
    BY DEF AttachmentsTypeOK, PassProgress
  <2> QED
    BY <2>1, WatchKeeps DEF AttachmentsTypeOK, Steps, Reading
<1>2. MappingsHold' /\ MappingsRecorded'
  BY DEF AttachmentsTypeOK, MappingsHold, MappingsRecorded, StaleHold,
         PassProgress, Pruned, Exclusion, Referenced
<1>3. LooseHold'
  BY DEF AttachmentsTypeOK, MappingsHold, LooseHold, StaleHold, Exclusion,
         PassProgress, Referenced
<1>4. StaleHold' /\ Exclusion'
  BY DEF AttachmentsTypeOK, StaleHold, Exclusion, Referenced
<1>5. PassProgress'
  BY DEF AttachmentsTypeOK, MappingsRecorded, PassProgress, Exclusion,
         Pruned, LooseHold, StaleHold, Referenced
<1>6. ReadersInv'
  BY WatchKeeps
<1> QED
  BY <1>1, <1>2, <1>3, <1>4, <1>5, <1>6

\* Only mappings of blobs that lose their last row go.
LEMMA RemoveSourceSerializedKeeps ==
  ASSUME AttachmentsInv,
         RemoveSourceSerialized
  PROVE  AttachmentsInv'
<1> USE AttachmentsAssumption
    DEF AttachmentsInv, RemoveSourceSerialized, UniqueTo, NoRemoval,
        database, files, writers, maintenance
<1>1. AttachmentsTypeOK'
  <2>1. index' \in [Blob -> Pack \cup {None}]
    BY DEF AttachmentsTypeOK, PassProgress
  <2> QED
    BY <2>1, WatchKeeps, ZenonT(60) DEF AttachmentsTypeOK, Steps, Reading
<1>2. MappingsHold' /\ MappingsRecorded'
  BY DEF AttachmentsTypeOK, MappingsHold, MappingsRecorded, StaleHold,
         PassProgress, Pruned, Exclusion, Referenced
<1>3. LooseHold'
  BY DEF AttachmentsTypeOK, MappingsHold, LooseHold, StaleHold, Exclusion,
         PassProgress, Referenced
<1>4. StaleHold' /\ Exclusion'
  BY DEF AttachmentsTypeOK, StaleHold, Exclusion, Referenced
<1>5. PassProgress'
  BY DEF AttachmentsTypeOK, MappingsRecorded, PassProgress, Exclusion,
         Pruned, LooseHold, StaleHold, Referenced
<1>6. ReadersInv'
  BY WatchKeeps
<1> QED
  BY <1>1, <1>2, <1>3, <1>4, <1>5, <1>6

\* No run is on, so no sync has a stored file without its row.
LEMMA DeleteOrphanedAttachmentFilesKeeps ==
  ASSUME AttachmentsInv,
         DeleteOrphanedAttachmentFiles
  PROVE  AttachmentsInv'
<1> USE AttachmentsAssumption
    DEF AttachmentsInv, DeleteOrphanedAttachmentFiles, NoRemoval,
        database, files, writers, maintenance
<1>a. Referenced' = Referenced
  BY DEF Referenced
<1>1. AttachmentsTypeOK'
  <2>1. removal' \in [at : {"off", "collected", "removed"},
                     source : Source \cup {None}, paths : SUBSET Blob]
    OBVIOUS
  <2>2. loose' \subseteq Blob /\ faults' \in 0..MaxFaults
    BY DEF AttachmentsTypeOK
  <2> QED
    BY <2>1, <2>2 DEF AttachmentsTypeOK, Steps
<1>2. MappingsHold' /\ MappingsRecorded'
  BY <1>a DEF AttachmentsTypeOK, MappingsHold, MappingsRecorded, StaleHold,
         PassProgress, Pruned, Exclusion
<1>3. LooseHold'
  BY <1>a DEF AttachmentsTypeOK, MappingsHold, LooseHold, StaleHold, Exclusion,
         PassProgress
<1>4. StaleHold' /\ Exclusion'
  BY <1>a DEF AttachmentsTypeOK, StaleHold, Exclusion
<1>5. PassProgress'
  BY <1>a DEF AttachmentsTypeOK, MappingsRecorded, PassProgress, Exclusion,
         Pruned, LooseHold, StaleHold
<1>6. ReadersInv'
  BY ReadersStay
<1> QED
  BY <1>1, <1>2, <1>3, <1>4, <1>5, <1>6

LEMMA PassBeginsKeeps ==
  ASSUME AttachmentsInv,
         BeginPack \/ BeginRepack \/ BeginUnpack
  PROVE  AttachmentsInv'
<1> USE AttachmentsAssumption
    DEF AttachmentsInv, BeginPack, BeginRepack, BeginUnpack, Begin,
        database, files, writers, maintenance
<1>a. Referenced' = Referenced
  BY DEF Referenced
<1>1. AttachmentsTypeOK'
  BY <1>a DEF AttachmentsTypeOK, Steps
<1>2. MappingsHold' /\ MappingsRecorded'
  BY <1>a DEF AttachmentsTypeOK, MappingsHold, MappingsRecorded, StaleHold,
         PassProgress, Pruned, Exclusion
<1>3. LooseHold'
  BY <1>a DEF AttachmentsTypeOK, MappingsHold, LooseHold, StaleHold, Exclusion,
         PassProgress
<1>4. StaleHold' /\ Exclusion'
  BY <1>a DEF AttachmentsTypeOK, StaleHold, Exclusion
<1>5. PassProgress'
  BY <1>a DEF AttachmentsTypeOK, MappingsRecorded, PassProgress, Exclusion,
         Pruned, LooseHold, StaleHold
<1>6. ReadersInv'
  BY ReadersStay
<1> QED
  BY <1>1, <1>2, <1>3, <1>4, <1>5, <1>6

\* From here to its end the pass sees mappings of referenced blobs only.
LEMMA PruneUnreferencedPackIndexKeeps ==
  ASSUME AttachmentsInv,
         PruneUnreferencedPackIndex
  PROVE  AttachmentsInv'
<1> USE AttachmentsAssumption
    DEF AttachmentsInv, PruneUnreferencedPackIndex,
        database, files, writers, maintenance
<1>a. Referenced' = Referenced
  BY DEF Referenced
<1>b. \A b \in Blob : index'[b] = IF b \in Referenced THEN index[b] ELSE None
  OBVIOUS
<1>1. AttachmentsTypeOK'
  <2>1. index' \in [Blob -> Pack \cup {None}]
    BY DEF AttachmentsTypeOK, PassProgress
  <2> QED
    BY <2>1, WatchKeeps DEF AttachmentsTypeOK, Steps, Reading
<1>2. MappingsHold' /\ MappingsRecorded'
  BY <1>a DEF AttachmentsTypeOK, MappingsHold, MappingsRecorded, StaleHold,
         PassProgress, Pruned, Exclusion
<1>3. LooseHold'
  BY <1>a, <1>b DEF LooseHold, Referenced
<1>4. StaleHold' /\ Exclusion'
  BY <1>a DEF AttachmentsTypeOK, StaleHold, Exclusion
<1>5. PassProgress'
  BY <1>a DEF AttachmentsTypeOK, MappingsRecorded, PassProgress, Exclusion,
         Pruned, LooseHold, StaleHold
<1>6. ReadersInv'
  BY WatchKeeps
<1> QED
  BY <1>1, <1>2, <1>3, <1>4, <1>5, <1>6

\* A pack without a file is mapped only while the metadata is stale.
LEMMA DropDanglingKeeps ==
  ASSUME AttachmentsInv,
         DropDangling
  PROVE  AttachmentsInv'
<1> USE AttachmentsAssumption
    DEF AttachmentsInv, DropDangling, DeletePackRecord, PackFiles,
        database, files, writers, maintenance
<1>a. Referenced' = Referenced
  BY DEF Referenced
<1>1. AttachmentsTypeOK'
  <2>1. index' \in [Blob -> Pack \cup {None}]
    BY DEF AttachmentsTypeOK, PassProgress
  <2> QED
    BY <2>1, WatchKeeps DEF AttachmentsTypeOK, Steps, Reading
<1>2. MappingsHold' /\ MappingsRecorded'
  BY <1>a DEF AttachmentsTypeOK, MappingsHold, MappingsRecorded, StaleHold,
         PassProgress, Pruned, Exclusion
<1>3. LooseHold'
  BY <1>a DEF AttachmentsTypeOK, MappingsHold, LooseHold, StaleHold, Exclusion,
         PassProgress
<1>4. StaleHold' /\ Exclusion'
  BY <1>a DEF AttachmentsTypeOK, StaleHold, Exclusion
<1>5. PassProgress'
  BY <1>a DEF AttachmentsTypeOK, MappingsRecorded, PassProgress, Exclusion,
         Pruned, LooseHold, StaleHold
<1>6. ReadersInv'
  BY WatchKeeps
<1> QED
  BY <1>1, <1>2, <1>3, <1>4, <1>5, <1>6

\* All records have their file: after a broken restore there is none left.
LEMMA NoneDanglingKeeps ==
  ASSUME AttachmentsInv,
         NoneDangling
  PROVE  AttachmentsInv'
<1> USE AttachmentsAssumption
    DEF AttachmentsInv, NoneDangling, Go, PackFiles,
        database, files, writers, maintenance
<1>a. Referenced' = Referenced
  BY DEF Referenced
<1>1. AttachmentsTypeOK'
  BY <1>a DEF AttachmentsTypeOK, Steps
<1>2. MappingsHold' /\ MappingsRecorded'
  BY <1>a DEF AttachmentsTypeOK, MappingsHold, MappingsRecorded, StaleHold,
         PassProgress, Pruned, Exclusion
<1>3. LooseHold'
  BY <1>a DEF AttachmentsTypeOK, MappingsHold, LooseHold, StaleHold, Exclusion,
         PassProgress
<1>4. StaleHold' /\ Exclusion'
  BY <1>a DEF AttachmentsTypeOK, StaleHold, Exclusion
<1>5. PassProgress'
  BY <1>a DEF AttachmentsTypeOK, MappingsRecorded, PassProgress, Exclusion,
         Pruned, LooseHold, StaleHold
<1>6. ReadersInv'
  BY ReadersStay
<1> QED
  BY <1>1, <1>2, <1>3, <1>4, <1>5, <1>6

LEMMA AdoptPackedBlobsKeeps ==
  ASSUME AttachmentsInv,
         AdoptPackedBlobs
  PROVE  AttachmentsInv'
<1> USE AttachmentsAssumption
    DEF AttachmentsInv, AdoptPackedBlobs, NeededFrom, PackFiles,
        database, files, writers, maintenance
<1>a. Referenced' = Referenced
  BY DEF Referenced
<1>b. PICK p \in Pack : \A b \in Blob : index'[b] = IF b \in NeededFrom(p)
                                               THEN p ELSE index[b]
  BY DEF NeededFrom
<1>1. AttachmentsTypeOK'
  <2>1. index' \in [Blob -> Pack \cup {None}]
    BY DEF AttachmentsTypeOK, PassProgress
  <2> QED
    BY <2>1, WatchKeeps DEF AttachmentsTypeOK, Steps, Reading
<1>2. MappingsHold' /\ MappingsRecorded'
  BY <1>a DEF AttachmentsTypeOK, MappingsHold, MappingsRecorded, StaleHold,
         PassProgress, Pruned, Exclusion
<1>3. LooseHold'
  BY <1>a, <1>b DEF LooseHold, Referenced
<1>4. StaleHold' /\ Exclusion'
  BY <1>a DEF AttachmentsTypeOK, StaleHold, Exclusion
<1>5. PassProgress'
  BY <1>a DEF AttachmentsTypeOK, MappingsRecorded, PassProgress, Exclusion,
         Pruned, LooseHold, StaleHold
<1>6. ReadersInv'
  BY WatchKeeps
<1> QED
  BY <1>1, <1>2, <1>3, <1>4, <1>5, <1>6

LEMMA DeleteOrphanPackKeeps ==
  ASSUME AttachmentsInv,
         DeleteOrphanPack
  PROVE  AttachmentsInv'
<1> USE AttachmentsAssumption
    DEF AttachmentsInv, DeleteOrphanPack, NeededFrom, PackFiles,
        database, files, writers, maintenance
<1>a. Referenced' = Referenced
  BY DEF Referenced
<1>1. AttachmentsTypeOK'
  BY <1>a DEF AttachmentsTypeOK, Steps
<1>2. MappingsHold' /\ MappingsRecorded'
  BY <1>a DEF AttachmentsTypeOK, MappingsHold, MappingsRecorded, StaleHold,
         PassProgress, Pruned, Exclusion
<1>3. LooseHold'
  BY <1>a DEF AttachmentsTypeOK, MappingsHold, LooseHold, StaleHold, Exclusion,
         PassProgress
<1>4. StaleHold' /\ Exclusion'
  BY <1>a DEF AttachmentsTypeOK, StaleHold, Exclusion
<1>5. PassProgress'
  BY <1>a DEF AttachmentsTypeOK, MappingsRecorded, PassProgress, Exclusion,
         Pruned, LooseHold, StaleHold
<1>6. ReadersInv'
  BY ReadersStay
<1> QED
  BY <1>1, <1>2, <1>3, <1>4, <1>5, <1>6

\* Steps that only go on.
LEMMA PassMovesOnKeeps ==
  ASSUME AttachmentsInv,
         NoOrphans \/ PackEnds \/ SweepEnds \/ NoneToRetire \/ RepackEnds
         \/ UnpackEnds
  PROVE  AttachmentsInv'
<1> USE AttachmentsAssumption
    DEF AttachmentsInv, NoOrphans, PackEnds, SweepEnds, NoneToRetire,
        RepackEnds, UnpackEnds, Go,
        database, files, writers, maintenance
<1>a. Referenced' = Referenced
  BY DEF Referenced
<1>1. AttachmentsTypeOK'
  BY <1>a DEF AttachmentsTypeOK, Steps
<1>2. MappingsHold' /\ MappingsRecorded'
  BY <1>a DEF AttachmentsTypeOK, MappingsHold, MappingsRecorded, StaleHold,
         PassProgress, Pruned, Exclusion
<1>3. LooseHold'
  BY <1>a DEF AttachmentsTypeOK, MappingsHold, LooseHold, StaleHold, Exclusion,
         PassProgress
<1>4. StaleHold' /\ Exclusion'
  BY <1>a DEF AttachmentsTypeOK, StaleHold, Exclusion
<1>5. PassProgress'
  BY <1>a DEF AttachmentsTypeOK, MappingsRecorded, PassProgress, Exclusion,
         Pruned, LooseHold, StaleHold
<1>6. ReadersInv'
  BY ReadersStay
<1> QED
  BY <1>1, <1>2, <1>3, <1>4, <1>5, <1>6

LEMMA SealPackKeeps ==
  ASSUME AttachmentsInv,
         SealPack
  PROVE  AttachmentsInv'
<1> USE AttachmentsAssumption
    DEF AttachmentsInv, SealPack, FreshPack, ListUnpackedBlobs,
        database, files, writers, maintenance
<1>a. Referenced' = Referenced
  BY DEF Referenced
<1>1. AttachmentsTypeOK'
  BY <1>a DEF AttachmentsTypeOK, Steps
<1>2. MappingsHold' /\ MappingsRecorded'
  BY <1>a DEF AttachmentsTypeOK, MappingsHold, MappingsRecorded, StaleHold,
         PassProgress, Pruned, Exclusion
<1>3. LooseHold'
  BY <1>a DEF AttachmentsTypeOK, MappingsHold, LooseHold, StaleHold, Exclusion,
         PassProgress
<1>4. StaleHold' /\ Exclusion'
  BY <1>a DEF AttachmentsTypeOK, StaleHold, Exclusion
<1>5. PassProgress'
  BY <1>a DEF AttachmentsTypeOK, MappingsRecorded, PassProgress, Exclusion,
         Pruned, LooseHold, StaleHold
<1>6. ReadersInv'
  BY ReadersStay
<1> QED
  BY <1>1, <1>2, <1>3, <1>4, <1>5, <1>6

LEMMA RecordPackedBlobsKeeps ==
  ASSUME AttachmentsInv,
         RecordPackedBlobs
  PROVE  AttachmentsInv'
<1> USE AttachmentsAssumption
    DEF AttachmentsInv, RecordPackedBlobs,
        database, files, writers, maintenance
<1>a. Referenced' = Referenced
  BY DEF Referenced
<1>b. \A b \in Blob : index'[b] = IF b \in file[new] /\ index[b] = None
                                    THEN new ELSE index[b]
  OBVIOUS
<1>c. new \in Pack
  BY DEF PassProgress
<1>1. AttachmentsTypeOK'
  <2>1. index' \in [Blob -> Pack \cup {None}]
    BY <1>c DEF AttachmentsTypeOK
  <2>2. record' \subseteq Pack
    BY <1>c DEF AttachmentsTypeOK
  <2> QED
    BY <2>1, <2>2, WatchKeeps DEF AttachmentsTypeOK, Steps, Reading
<1>2. MappingsHold' /\ MappingsRecorded'
  BY <1>a DEF AttachmentsTypeOK, MappingsHold, MappingsRecorded, StaleHold,
         PassProgress, Pruned, Exclusion
<1>3. LooseHold'
  BY <1>a, <1>b, <1>c DEF LooseHold, Referenced
<1>4. StaleHold' /\ Exclusion'
  BY <1>a DEF AttachmentsTypeOK, StaleHold, Exclusion
<1>5. PassProgress'
  BY <1>a DEF AttachmentsTypeOK, MappingsRecorded, PassProgress, Exclusion,
         Pruned, LooseHold, StaleHold
<1>6. ReadersInv'
  BY WatchKeeps
<1> QED
  BY <1>1, <1>2, <1>3, <1>4, <1>5, <1>6

\* Every entry of the new pack has a mapping by now.
LEMMA DeletePackedLooseKeeps ==
  ASSUME AttachmentsInv,
         DeletePackedLoose
  PROVE  AttachmentsInv'
<1> USE AttachmentsAssumption
    DEF AttachmentsInv, DeletePackedLoose,
        database, files, writers, maintenance
<1>a. Referenced' = Referenced
  BY DEF Referenced
<1>1. AttachmentsTypeOK'
  BY <1>a DEF AttachmentsTypeOK, Steps
<1>2. MappingsHold' /\ MappingsRecorded'
  BY <1>a DEF AttachmentsTypeOK, MappingsHold, MappingsRecorded, StaleHold,
         PassProgress, Pruned, Exclusion
<1>3. LooseHold'
  BY <1>a DEF AttachmentsTypeOK, MappingsHold, LooseHold, StaleHold, Exclusion,
         PassProgress
<1>4. StaleHold' /\ Exclusion'
  BY <1>a DEF AttachmentsTypeOK, StaleHold, Exclusion
<1>5. PassProgress'
  BY <1>a DEF AttachmentsTypeOK, MappingsRecorded, PassProgress, Exclusion,
         Pruned, LooseHold, StaleHold
<1>6. ReadersInv'
  BY ReadersStay
<1> QED
  BY <1>1, <1>2, <1>3, <1>4, <1>5, <1>6

\* What is swept is not referenced, or mapped to a pack that holds it.
LEMMA SweepLooseKeeps ==
  ASSUME AttachmentsInv,
         SweepLoose
  PROVE  AttachmentsInv'
<1> USE AttachmentsAssumption
    DEF AttachmentsInv, SweepLoose, Sweepable,
        database, files, writers, maintenance
<1>a. Referenced' = Referenced
  BY DEF Referenced
<1>1. AttachmentsTypeOK'
  <2>1. index' \in [Blob -> Pack \cup {None}]
    BY DEF AttachmentsTypeOK, PassProgress
  <2> QED
    BY <2>1, WatchKeeps DEF AttachmentsTypeOK, Steps, Reading
<1>2. MappingsHold' /\ MappingsRecorded'
  BY <1>a DEF AttachmentsTypeOK, MappingsHold, MappingsRecorded, StaleHold,
         PassProgress, Pruned, Exclusion
<1>3. LooseHold'
  BY <1>a DEF AttachmentsTypeOK, MappingsHold, LooseHold, StaleHold, Exclusion,
         PassProgress
<1>4. StaleHold' /\ Exclusion'
  BY <1>a DEF AttachmentsTypeOK, StaleHold, Exclusion
<1>5. PassProgress'
  BY <1>a DEF AttachmentsTypeOK, MappingsRecorded, PassProgress, Exclusion,
         Pruned, LooseHold, StaleHold
<1>6. ReadersInv'
  BY WatchKeeps
<1> QED
  BY <1>1, <1>2, <1>3, <1>4, <1>5, <1>6

\* The mappings were pruned, so no mapping at all means an empty pack.
LEMMA RetirePackKeeps ==
  ASSUME AttachmentsInv,
         RetirePack
  PROVE  AttachmentsInv'
<1> USE AttachmentsAssumption
    DEF AttachmentsInv, RetirePack, Empty, LiveIn,
        database, files, writers, maintenance
<1>a. Referenced' = Referenced
  BY DEF Referenced
<1>1. AttachmentsTypeOK'
  <2>1. file' \in [Pack -> SUBSET Blob] /\ old' \subseteq Pack
    BY DEF AttachmentsTypeOK
  <2>2. faults' = faults \/ (faults < MaxFaults /\ faults' = faults + 1)
    OBVIOUS
  <2>3. faults' \in 0..MaxFaults
    <3>1. faults \in 0..MaxFaults /\ MaxFaults \in Nat
      BY DEF AttachmentsTypeOK
    <3> HIDE DEF RetirePack, AttachmentsInv
    <3> QED
      BY <2>2, <3>1
  <2> QED
    BY <2>1, <2>3 DEF AttachmentsTypeOK, Steps
<1>2. MappingsHold' /\ MappingsRecorded'
  BY <1>a, ZenonT(60) DEF AttachmentsTypeOK, MappingsHold, MappingsRecorded, StaleHold,
         PassProgress, Pruned, Exclusion
<1>3. LooseHold'
  BY <1>a DEF AttachmentsTypeOK, MappingsHold, LooseHold, StaleHold, Exclusion,
         PassProgress
<1>4. StaleHold' /\ Exclusion'
  BY <1>a DEF AttachmentsTypeOK, StaleHold, Exclusion
<1>5. PassProgress'
  BY <1>a DEF AttachmentsTypeOK, MappingsRecorded, PassProgress, Exclusion,
         Pruned, LooseHold, StaleHold
<1>6. ReadersInv'
  BY ReadersStay
<1> QED
  BY <1>1, <1>2, <1>3, <1>4, <1>5, <1>6

LEMMA DeleteEmptyPackRecordKeeps ==
  ASSUME AttachmentsInv,
         DeleteEmptyPackRecord
  PROVE  AttachmentsInv'
<1> USE AttachmentsAssumption
    DEF AttachmentsInv, DeleteEmptyPackRecord, Empty, LiveIn, DeletePackRecord,
        database, files, writers, maintenance
<1>a. Referenced' = Referenced
  BY DEF Referenced
<1>1. AttachmentsTypeOK'
  <2>1. index' \in [Blob -> Pack \cup {None}]
    BY DEF AttachmentsTypeOK, PassProgress
  <2> QED
    BY <2>1, WatchKeeps DEF AttachmentsTypeOK, Steps, Reading
<1>2. MappingsHold' /\ MappingsRecorded'
  BY <1>a, ZenonT(60) DEF AttachmentsTypeOK, MappingsHold, MappingsRecorded, StaleHold,
         PassProgress, Pruned, Exclusion
<1>3. LooseHold'
  <2>1. PICK p \in record : /\ LiveIn(p) = {}
                            /\ \A b \in Blob : index'[b] = IF index[b] = p
                                                   THEN None ELSE index[b]
    OBVIOUS
  <2>2. \A b \in Referenced : index[b] # p
    BY <2>1 DEF LiveIn
  <2> QED
    BY <1>a, <2>1, <2>2 DEF LooseHold, Referenced
<1>4. StaleHold' /\ Exclusion'
  BY <1>a DEF AttachmentsTypeOK, StaleHold, Exclusion
<1>5. PassProgress'
  BY <1>a DEF AttachmentsTypeOK, MappingsRecorded, PassProgress, Exclusion,
         Pruned, LooseHold, StaleHold
<1>6. ReadersInv'
  BY WatchKeeps
<1> QED
  BY <1>1, <1>2, <1>3, <1>4, <1>5, <1>6

\* A pack whose file holds its live entries exists only in a clean archive.
LEMMA SealRepackKeeps ==
  ASSUME AttachmentsInv,
         SealRepack
  PROVE  AttachmentsInv'
<1> USE AttachmentsAssumption
    DEF AttachmentsInv, SealRepack, FreshPack, LiveIn,
        database, files, writers, maintenance
<1>a. Referenced' = Referenced
  BY DEF Referenced
<1>b. PICK p \in FreshPack, from \in (SUBSET record) \ {{}}, live \in SUBSET Blob :
        /\ \A q \in from : LiveIn(q) # {} /\ LiveIn(q) \subseteq file[q]
        /\ file' = [file EXCEPT ![p] = live]
        /\ new' = p /\ old' = from
  <2>1. \A from : UNION {LiveIn(q) : q \in from} \in SUBSET Blob
    BY ZenonT(60) DEF Referenced
  <2> HIDE DEF LiveIn
  <2>2. PICK p \in FreshPack, from \in (SUBSET record) \ {{}} :
          /\ \A q \in from : LiveIn(q) # {} /\ LiveIn(q) \subseteq file[q]
          /\ file' = [file EXCEPT ![p] = UNION {LiveIn(q) : q \in from}]
          /\ new' = p /\ old' = from
    BY Zenon
  <2> QED
    BY <2>1, <2>2
<1>c. p \in Pack /\ file[p] = {}
  OBVIOUS
<1>d. \A q \in Pack : file[q] \subseteq file'[q]
  <2>1. file \in [Pack -> SUBSET Blob]
    BY DEF AttachmentsTypeOK
  <2> HIDE DEF SealRepack, AttachmentsInv
  <2> QED
    BY <1>b, <1>c, <2>1
<1>e. restored = "clean"
  <2>1. from \subseteq Pack /\ from # {}
    BY <1>b DEF AttachmentsTypeOK
  <2>2. \A q \in from : \E b \in file[q] : TRUE
    <3> HIDE DEF SealRepack, AttachmentsInv, LiveIn
    <3> QED
      BY <1>b
  <2>3. restored # "clean" => \A q \in Pack : file[q] = {}
    BY DEF StaleHold
  <2> HIDE DEF SealRepack, AttachmentsInv, LiveIn
  <2> QED
    BY <2>1, <2>2, <2>3
<1>1. AttachmentsTypeOK'
  <2>1. file' \in [Pack -> SUBSET Blob]
    BY <1>b, <1>c DEF AttachmentsTypeOK
  <2>2. new' \in Pack \cup {None} /\ old' \subseteq Pack
    BY <1>b, <1>c DEF AttachmentsTypeOK
  <2> QED
    BY <2>1, <2>2 DEF AttachmentsTypeOK, Steps
<1>2. MappingsHold' /\ MappingsRecorded'
  BY <1>d DEF AttachmentsTypeOK, MappingsHold, MappingsRecorded
<1>3. LooseHold'
  BY <1>a DEF LooseHold
<1>4. StaleHold' /\ Exclusion'
  BY <1>e DEF StaleHold, Exclusion
<1>5. PassProgress'
  BY <1>a, <1>b, <1>c DEF PassProgress, Pruned
<1>6. ReadersInv'
  BY ReadersStay
<1> QED
  BY <1>1, <1>2, <1>3, <1>4, <1>5, <1>6

\* The new pack holds exactly what moves.
LEMMA CommitRepackKeeps ==
  ASSUME AttachmentsInv,
         CommitRepack
  PROVE  AttachmentsInv'
<1> USE AttachmentsAssumption
    DEF AttachmentsInv, CommitRepack,
        database, files, writers, maintenance
<1>a. Referenced' = Referenced
  BY DEF Referenced
<1>b. \A b \in Blob : index'[b] = IF b \in file[new] THEN new ELSE index[b]
  OBVIOUS
<1>c. new \in Pack
  BY DEF PassProgress
<1>1. AttachmentsTypeOK'
  <2>1. index' \in [Blob -> Pack \cup {None}]
    BY <1>c DEF AttachmentsTypeOK
  <2>2. record' \subseteq Pack
    BY <1>c DEF AttachmentsTypeOK
  <2> QED
    BY <2>1, <2>2, WatchKeeps DEF AttachmentsTypeOK, Steps, Reading
<1>2. MappingsHold' /\ MappingsRecorded'
  BY <1>a DEF AttachmentsTypeOK, MappingsHold, MappingsRecorded, StaleHold,
         PassProgress, Pruned, Exclusion
<1>3. LooseHold'
  BY <1>a, <1>b, <1>c DEF LooseHold, Referenced
<1>4. StaleHold' /\ Exclusion'
  BY <1>a DEF AttachmentsTypeOK, StaleHold, Exclusion
<1>5. PassProgress'
  BY <1>a DEF AttachmentsTypeOK, MappingsRecorded, PassProgress, Exclusion,
         Pruned, LooseHold, StaleHold
<1>6. ReadersInv'
  BY WatchKeeps
<1> QED
  BY <1>1, <1>2, <1>3, <1>4, <1>5, <1>6

LEMMA UnpackBlobsKeeps ==
  ASSUME AttachmentsInv,
         UnpackBlobs
  PROVE  AttachmentsInv'
<1> USE AttachmentsAssumption
    DEF AttachmentsInv, UnpackBlobs, LiveIn,
        database, files, writers, maintenance
<1>a. Referenced' = Referenced
  BY DEF Referenced
<1>1. AttachmentsTypeOK'
  BY <1>a DEF AttachmentsTypeOK, Steps
<1>2. MappingsHold' /\ MappingsRecorded'
  BY <1>a DEF AttachmentsTypeOK, MappingsHold, MappingsRecorded, StaleHold,
         PassProgress, Pruned, Exclusion
<1>3. LooseHold'
  BY <1>a DEF AttachmentsTypeOK, MappingsHold, LooseHold, StaleHold, Exclusion,
         PassProgress
<1>4. StaleHold' /\ Exclusion'
  BY <1>a DEF AttachmentsTypeOK, StaleHold, Exclusion
<1>5. PassProgress'
  BY <1>a DEF AttachmentsTypeOK, MappingsRecorded, PassProgress, Exclusion,
         Pruned, LooseHold, StaleHold
<1>6. ReadersInv'
  BY ReadersStay
<1> QED
  BY <1>1, <1>2, <1>3, <1>4, <1>5, <1>6

\* The live entries have been written loose before.
LEMMA DropUnpackedKeeps ==
  ASSUME AttachmentsInv,
         DropUnpacked
  PROVE  AttachmentsInv'
<1> USE AttachmentsAssumption
    DEF AttachmentsInv, DropUnpacked, DeletePackRecord,
        database, files, writers, maintenance
<1>a. Referenced' = Referenced
  BY DEF Referenced
<1>1. AttachmentsTypeOK'
  <2>1. index' \in [Blob -> Pack \cup {None}]
    BY DEF AttachmentsTypeOK, PassProgress
  <2> QED
    BY <2>1, WatchKeeps DEF AttachmentsTypeOK, Steps, Reading
<1>2. MappingsHold' /\ MappingsRecorded'
  BY <1>a DEF AttachmentsTypeOK, MappingsHold, MappingsRecorded, StaleHold,
         PassProgress, Pruned, Exclusion
<1>3. LooseHold'
  <2>1. \A b \in Blob : index'[b] = IF index[b] = new THEN None ELSE index[b]
    OBVIOUS
  <2> QED
    BY <1>a, <2>1 DEF LooseHold, PassProgress, Referenced
<1>4. StaleHold' /\ Exclusion'
  BY <1>a DEF AttachmentsTypeOK, StaleHold, Exclusion
<1>5. PassProgress'
  BY <1>a DEF AttachmentsTypeOK, MappingsRecorded, PassProgress, Exclusion,
         Pruned, LooseHold, StaleHold
<1>6. ReadersInv'
  BY WatchKeeps
<1> QED
  BY <1>1, <1>2, <1>3, <1>4, <1>5, <1>6

LEMMA DeleteUnpackedFileKeeps ==
  ASSUME AttachmentsInv,
         DeleteUnpackedFile
  PROVE  AttachmentsInv'
<1> USE AttachmentsAssumption
    DEF AttachmentsInv, DeleteUnpackedFile,
        database, files, writers, maintenance
<1>a. Referenced' = Referenced
  BY DEF Referenced
<1>1. AttachmentsTypeOK'
  BY <1>a DEF AttachmentsTypeOK, Steps
<1>2. MappingsHold' /\ MappingsRecorded'
  BY <1>a DEF AttachmentsTypeOK, MappingsHold, MappingsRecorded, StaleHold,
         PassProgress, Pruned, Exclusion
<1>3. LooseHold'
  BY <1>a DEF AttachmentsTypeOK, MappingsHold, LooseHold, StaleHold, Exclusion,
         PassProgress
<1>4. StaleHold' /\ Exclusion'
  BY <1>a DEF AttachmentsTypeOK, StaleHold, Exclusion
<1>5. PassProgress'
  BY <1>a DEF AttachmentsTypeOK, MappingsRecorded, PassProgress, Exclusion,
         Pruned, LooseHold, StaleHold
<1>6. ReadersInv'
  BY ReadersStay
<1> QED
  BY <1>1, <1>2, <1>3, <1>4, <1>5, <1>6

LEMMA ClearAttachmentPackMetadataKeeps ==
  ASSUME AttachmentsInv,
         ClearAttachmentPackMetadata
  PROVE  AttachmentsInv'
<1> USE AttachmentsAssumption
    DEF AttachmentsInv, ClearAttachmentPackMetadata,
        database, files, writers, maintenance
<1>a. Referenced' = Referenced
  BY DEF Referenced
<1>1. AttachmentsTypeOK'
  <2>1. index' \in [Blob -> Pack \cup {None}]
    BY DEF AttachmentsTypeOK, PassProgress
  <2> QED
    BY <2>1, WatchKeeps, ZenonT(60) DEF AttachmentsTypeOK, Steps, Reading
<1>2. MappingsHold' /\ MappingsRecorded'
  BY <1>a DEF AttachmentsTypeOK, MappingsHold, MappingsRecorded, StaleHold,
         PassProgress, Pruned, Exclusion
<1>3. LooseHold'
  BY <1>a DEF AttachmentsTypeOK, MappingsHold, LooseHold, StaleHold, Exclusion,
         PassProgress
<1>4. StaleHold' /\ Exclusion'
  BY <1>a DEF AttachmentsTypeOK, StaleHold, Exclusion
<1>5. PassProgress'
  BY <1>a DEF AttachmentsTypeOK, MappingsRecorded, PassProgress, Exclusion,
         Pruned, LooseHold, StaleHold
<1>6. ReadersInv'
  BY WatchKeeps
<1> QED
  BY <1>1, <1>2, <1>3, <1>4, <1>5, <1>6

LEMMA ReplaceRestoredPacksKeeps ==
  ASSUME AttachmentsInv,
         ReplaceRestoredPacks
  PROVE  AttachmentsInv'
<1> USE AttachmentsAssumption
    DEF AttachmentsInv, ReplaceRestoredPacks, FreshPack,
        database, files, writers, maintenance
<1>a. Referenced' = Referenced
  BY DEF Referenced
<1>1. AttachmentsTypeOK'
  <2>1. PICK p \in Pack, entries \in SUBSET Referenced :
          /\ file' = [file EXCEPT ![p] = entries]
          /\ loose' = loose \ entries
          /\ record' = {p}
          /\ index' = [b \in Blob |-> IF b \in entries THEN p ELSE None]
    BY DEF FreshPack
  <2>2. entries \subseteq Blob
    BY DEF Referenced
  <2>3. index' \in [Blob -> Pack \cup {None}]
    BY <2>1
  <2>4. /\ file' \in [Pack -> SUBSET Blob] /\ loose' \subseteq Blob
        /\ record' \subseteq Pack
    BY <2>1, <2>2 DEF AttachmentsTypeOK
  <2> QED
    BY <2>3, <2>4, WatchKeeps, ZenonT(60) DEF AttachmentsTypeOK, Steps, Reading
<1>2. MappingsHold' /\ MappingsRecorded'
  BY <1>a DEF AttachmentsTypeOK, MappingsHold, MappingsRecorded, StaleHold,
         PassProgress, Pruned, Exclusion
<1>3. LooseHold'
  BY <1>a DEF AttachmentsTypeOK, MappingsHold, LooseHold, StaleHold, Exclusion,
         PassProgress
<1>4. StaleHold' /\ Exclusion'
  BY <1>a DEF AttachmentsTypeOK, StaleHold, Exclusion
<1>5. PassProgress'
  BY <1>a DEF AttachmentsTypeOK, MappingsRecorded, PassProgress, Exclusion,
         Pruned, LooseHold, StaleHold
<1>6. ReadersInv'
  BY WatchKeeps
<1> QED
  BY <1>1, <1>2, <1>3, <1>4, <1>5, <1>6

\* Nothing that a later step relies on is lost in memory.
LEMMA KillKeeps ==
  ASSUME AttachmentsInv,
         Kill
  PROVE  AttachmentsInv'
<1> USE AttachmentsAssumption
    DEF AttachmentsInv, Kill, NoRemoval,
        database, files, writers, maintenance
<1>a. Referenced' = Referenced
  BY DEF Referenced
<1>1. AttachmentsTypeOK'
  <2>2. reading' \in [Reader -> Reading]
    BY IdleFields
  <2>3. /\ faults' \in 0..MaxFaults
        /\ removal' \in [at : {"off", "collected", "removed"},
                         source : Source \cup {None}, paths : SUBSET Blob]
        /\ stored' \in [Source -> Blob \cup {None}]
    BY DEF AttachmentsTypeOK
  <2> QED
    BY <2>2, <2>3 DEF AttachmentsTypeOK, Steps, Reading
<1>2. MappingsHold' /\ MappingsRecorded'
  BY <1>a DEF AttachmentsTypeOK, MappingsHold, MappingsRecorded, StaleHold,
         PassProgress, Pruned, Exclusion
<1>3. LooseHold'
  BY <1>a DEF AttachmentsTypeOK, MappingsHold, LooseHold, StaleHold, Exclusion,
         PassProgress
<1>4. StaleHold' /\ Exclusion'
  BY <1>a DEF AttachmentsTypeOK, StaleHold, Exclusion
<1>5. PassProgress'
  BY <1>a DEF AttachmentsTypeOK, MappingsRecorded, PassProgress, Exclusion,
         Pruned, LooseHold, StaleHold
<1>6. ReadersInv'
  BY DEF ReadersInv
<1> QED
  BY <1>1, <1>2, <1>3, <1>4, <1>5, <1>6

\* A step of a reader alone keeps the types.
LEMMA ReaderMovesTyped ==
  ASSUME AttachmentsTypeOK, reading' \in [Reader -> Reading],
         UNCHANGED <<database, files, writers, maintenance, restored, faults>>
  PROVE  AttachmentsTypeOK'
BY DEF AttachmentsTypeOK, Reading, database, files, writers, maintenance

\* A reader that was not overtaken, or has looked again, finds its blob.
LEMMA OpenKeeps ==
  ASSUME AttachmentsInv, NEW r \in Reader,
         Open(r)
  PROVE  AttachmentsInv'
<1> USE AttachmentsAssumption
    DEF AttachmentsInv, Open,
        database, files, writers, maintenance
<1>a. Referenced' = Referenced
  BY DEF Referenced
<1>b. reading[r] \in Reading
  BY DEF AttachmentsTypeOK, Reading
<1>c. reading[r] # Idle
  BY DEF Idle
<1>d. /\ reading[r].blob \in Referenced
      /\ reading[r].retried => reading[r].moved
      /\ ~reading[r].moved \/ reading[r].retried =>
           reading[r].loc = index[reading[r].blob]
  BY <1>c DEF ReadersInv
<1>e. restored = "clean" /\ reading[r].blob \in Blob
  BY <1>c, <1>d DEF ReadersInv, Referenced
\* A place that is still the blob's holds it.
<1>f. ~reading[r].moved \/ reading[r].retried => reading'[r] = Idle
  BY <1>d, <1>e DEF MappingsHold, LooseHold, AttachmentsTypeOK
<1>g. \/ reading' = [reading EXCEPT ![r] = Idle]
      \/ /\ reading[r].moved /\ ~reading[r].retried
         /\ reading' = [reading EXCEPT ![r] = [@ EXCEPT !.at = "again", !.loc = None]]
  BY <1>b, <1>f DEF AttachmentsTypeOK, Reading
<1>1. AttachmentsTypeOK'
  <2>2. [reading[r] EXCEPT !.at = "again", !.loc = None] \in Reading
    BY <1>b DEF Reading
  <2>3. reading' \in [Reader -> Reading]
    <3>1. reading \in [Reader -> Reading]
      BY DEF AttachmentsTypeOK, Reading
    <3> HIDE DEF Open, AttachmentsInv
    <3> QED
      BY <1>g, IdleFields, <2>2, <3>1
  <2> QED
    BY <2>3, ReaderMovesTyped
<1>2. MappingsHold' /\ MappingsRecorded'
  BY <1>a DEF AttachmentsTypeOK, MappingsHold, MappingsRecorded, StaleHold,
         PassProgress, Pruned, Exclusion
<1>3. LooseHold'
  BY <1>a DEF AttachmentsTypeOK, MappingsHold, LooseHold, StaleHold, Exclusion,
         PassProgress
<1>4. StaleHold' /\ Exclusion'
  BY <1>a DEF AttachmentsTypeOK, StaleHold, Exclusion
<1>5. PassProgress'
  BY <1>a DEF AttachmentsTypeOK, MappingsRecorded, PassProgress, Exclusion,
         Pruned, LooseHold, StaleHold
<1>6. ReadersInv'
  BY <1>a, <1>b, <1>d, <1>e, <1>g DEF ReadersInv, Reading, AttachmentsTypeOK
<1> QED
  BY <1>1, <1>2, <1>3, <1>4, <1>5, <1>6

LEMMA ResolveAttachmentBlobKeeps ==
  ASSUME AttachmentsInv, NEW r \in Reader, NEW b \in Blob,
         ResolveAttachmentBlob(r, b)
  PROVE  AttachmentsInv'
<1> USE AttachmentsAssumption
    DEF AttachmentsInv, ResolveAttachmentBlob,
        database, files, writers, maintenance
<1>a. Referenced' = Referenced
  BY DEF Referenced
<1>c. reading[r] \in Reading /\ index[b] \in Pack \cup {None}
  BY DEF AttachmentsTypeOK, Reading
<1>d. reading[r].at = "again" => reading[r] # Idle
  BY IdleFields
<1>e. /\ b \in Referenced /\ restored = "clean"
      /\ \A q \in Reader \ {r} : reading'[q] = reading[q]
      /\ reading'[r] \in Reading /\ reading'[r].at = "open"
      /\ reading'[r].blob = b /\ reading'[r].loc = index[b]
      /\ reading'[r].retried => reading'[r].moved
  <2>1. CASE reading[r] = Idle /\ b \in Referenced
             /\ reading' = [reading EXCEPT ![r] =
                  [Idle EXCEPT !.at = "open", !.blob = b, !.loc = index[b]]]
    <3>1. restored = "clean" /\ reading \in [Reader -> Reading]
      BY DEF AttachmentsTypeOK, Reading
    <3> HIDE DEF ResolveAttachmentBlob, AttachmentsInv
    <3>2. /\ reading'[r] = [Idle EXCEPT !.at = "open", !.blob = b, !.loc = index[b]]
          /\ \A q \in Reader \ {r} : reading'[q] = reading[q]
      BY <2>1, <3>1
    <3> QED
      BY <1>c, <2>1, <3>1, <3>2 DEF Reading, Idle
  <2>2. CASE reading[r].at = "again" /\ reading[r].blob = b
             /\ reading' = [reading EXCEPT
                  ![r].at = "open", ![r].loc = index[b], ![r].retried = TRUE]
    <3>1. /\ reading'[r] = [reading[r] EXCEPT !.at = "open", !.loc = index[b],
                                              !.retried = TRUE]
          /\ \A q \in Reader \ {r} : reading'[q] = reading[q]
      <4>1. reading \in [Reader -> Reading]
        BY DEF AttachmentsTypeOK, Reading
      <4> HIDE DEF ResolveAttachmentBlob, AttachmentsInv
      <4> QED
        BY <2>2, <4>1
    <3>2. b \in Referenced /\ reading[r].moved /\ restored = "clean"
      BY <1>d, <2>2 DEF ReadersInv
    <3> HIDE DEF ResolveAttachmentBlob, AttachmentsInv
    <3>3. reading'[r] \in Reading
      BY <1>c, <3>1 DEF Reading
    <3>4. /\ reading'[r].at = "open" /\ reading'[r].blob = b
          /\ reading'[r].loc = index[b] /\ reading'[r].moved
      <4> DEFINE before == reading[r]
      <4>1. before \in Reading /\ before.blob = b /\ before.moved = TRUE
        BY <1>c, <2>2, <3>2 DEF Reading
      <4>2. reading'[r] = [before EXCEPT !.at = "open", !.loc = index[b], !.retried = TRUE]
        BY <3>1
      <4> HIDE DEF before
      <4> QED
        BY <4>1, <4>2 DEF Reading
    <3> QED
      BY <3>1, <3>2, <3>3, <3>4
  <2> QED
    BY <2>1, <2>2
<1>f. reading' \in [Reader -> Reading]
  <2>1. reading \in [Reader -> Reading]
    BY DEF AttachmentsTypeOK, Reading
  <2>2. reading' = [q \in Reader |-> reading'[q]]
    BY <2>1
  <2> QED
    BY <1>e, <2>1, <2>2
<1>1. AttachmentsTypeOK'
  BY <1>f DEF AttachmentsTypeOK, Steps, Reading
<1>2. MappingsHold' /\ MappingsRecorded'
  BY <1>a DEF AttachmentsTypeOK, MappingsHold, MappingsRecorded, StaleHold,
         PassProgress, Pruned, Exclusion
<1>3. LooseHold'
  BY <1>a DEF AttachmentsTypeOK, MappingsHold, LooseHold, StaleHold, Exclusion,
         PassProgress
<1>4. StaleHold' /\ Exclusion'
  BY <1>a DEF AttachmentsTypeOK, StaleHold, Exclusion
<1>5. PassProgress'
  BY <1>a DEF AttachmentsTypeOK, MappingsRecorded, PassProgress, Exclusion,
         Pruned, LooseHold, StaleHold
<1>6. ReadersInv'
  BY <1>a, <1>e DEF ReadersInv
<1> QED
  BY <1>1, <1>2, <1>3, <1>4, <1>5, <1>6

LEMMA StutterKeeps ==
  ASSUME AttachmentsInv,
         UNCHANGED attachmentVars
  PROVE  AttachmentsInv'
<1> USE AttachmentsAssumption
    DEF AttachmentsInv, attachmentVars,
        database, files, writers, maintenance
<1>a. Referenced' = Referenced
  BY DEF Referenced
<1>1. AttachmentsTypeOK'
  BY <1>a, ZenonT(60) DEF AttachmentsTypeOK, Steps
<1>2. MappingsHold' /\ MappingsRecorded'
  BY <1>a DEF AttachmentsTypeOK, MappingsHold, MappingsRecorded, StaleHold,
         PassProgress, Pruned, Exclusion
<1>3. LooseHold'
  BY <1>a DEF AttachmentsTypeOK, MappingsHold, LooseHold, StaleHold, Exclusion,
         PassProgress
<1>4. StaleHold' /\ Exclusion'
  BY <1>a DEF AttachmentsTypeOK, StaleHold, Exclusion
<1>5. PassProgress'
  BY <1>a DEF AttachmentsTypeOK, MappingsRecorded, PassProgress, Exclusion,
         Pruned, LooseHold, StaleHold
<1>6. ReadersInv'
  BY ReadersStay
<1> QED
  BY <1>1, <1>2, <1>3, <1>4, <1>5, <1>6

LEMMA AttachmentsInitInv == AttachmentsInit => AttachmentsInv
<1> SUFFICES ASSUME AttachmentsInit PROVE AttachmentsInv
  OBVIOUS
<1> USE AttachmentsAssumption DEF AttachmentsInit
<1>1. Idle \in Reading
  BY DEF Idle, Reading
<1>2. reading \in [Reader -> Reading]
  BY <1>1
<1>3. /\ index \in [Blob -> Pack \cup {None}]
      /\ \A b \in Blob : index[b] # None => index[b] \in record
  OBVIOUS
<1>4. removal \in [at : {"off", "collected", "removed"},
                   source : Source \cup {None}, paths : SUBSET Blob]
  BY DEF NoRemoval
<1>5. AttachmentsTypeOK
  BY <1>2, <1>3, <1>4 DEF AttachmentsTypeOK, Steps, Reading
<1>6. MappingsHold /\ MappingsRecorded
  BY <1>3 DEF MappingsHold, MappingsRecorded
<1>7. LooseHold /\ StaleHold
  BY DEF LooseHold, StaleHold, Referenced
<1>8. Exclusion /\ PassProgress /\ ReadersInv
  BY DEF Exclusion, NoRemoval, PassProgress, Pruned, ReadersInv
<1> QED
  BY <1>5, <1>6, <1>7, <1>8 DEF AttachmentsInv

LEMMA AttachmentsStepInv ==
  AttachmentsInv /\ [AttachmentsNext]_attachmentVars => AttachmentsInv'
<1> SUFFICES ASSUME AttachmentsInv, [AttachmentsNext]_attachmentVars
             PROVE  AttachmentsInv'
  OBVIOUS
<1>1. CASE \E s \in Source : \/ StartSync(s) \/ UpsertAttachment(s) \/ EndSync(s)
                             \/ AttachmentPathsUniqueToSource(s)
                             \/ \E b \in Blob : \/ StoreAttachmentFile(s, b)
                                                \/ RowGoes(s, b)
  BY <1>1, StartSyncKeeps, UpsertAttachmentKeeps, EndSyncKeeps,
     AttachmentPathsUniqueToSourceKeeps, StoreAttachmentFileKeeps, RowGoesKeeps
<1>2. CASE RemovalStep \/ BeginPack \/ BeginRepack \/ BeginUnpack
  BY <1>2, RemoveSourceSerializedKeeps, DeleteOrphanedAttachmentFilesKeeps,
     PassBeginsKeeps DEF RemovalStep
<1>3. CASE PassStep
  <2>1. CASE PruneUnreferencedPackIndex \/ PackStep
    BY <2>1, PruneUnreferencedPackIndexKeeps, DropDanglingKeeps, NoneDanglingKeeps,
       AdoptPackedBlobsKeeps, DeleteOrphanPackKeeps, SealPackKeeps,
       RecordPackedBlobsKeeps, DeletePackedLooseKeeps, SweepLooseKeeps,
       PassMovesOnKeeps DEF PackStep
  <2>2. CASE RepackStep \/ UnpackStep
    BY <2>2, RetirePackKeeps, DeleteEmptyPackRecordKeeps, SealRepackKeeps,
       CommitRepackKeeps, UnpackBlobsKeeps, DropUnpackedKeeps,
       DeleteUnpackedFileKeeps, PassMovesOnKeeps DEF RepackStep, UnpackStep
  <2> QED
    BY <1>3, <2>1, <2>2 DEF PassStep
<1>4. CASE ClearAttachmentPackMetadata \/ ReplaceRestoredPacks \/ Kill
  BY <1>4, ClearAttachmentPackMetadataKeeps, ReplaceRestoredPacksKeeps, KillKeeps
<1>5. CASE \E r \in Reader : \/ Open(r)
                             \/ \E b \in Blob : ResolveAttachmentBlob(r, b)
  BY <1>5, OpenKeeps, ResolveAttachmentBlobKeeps
<1>6. CASE UNCHANGED attachmentVars
  BY <1>6, StutterKeeps
<1> QED
  BY <1>1, <1>2, <1>3, <1>4, <1>5, <1>6 DEF AttachmentsNext

LEMMA AttachmentsAlwaysInv == AttachmentsSafety => []AttachmentsInv
BY AttachmentsInitInv, AttachmentsStepInv, PTL DEF AttachmentsSafety

\* Type correctness.
THEOREM AttachmentsTypeCorrect == AttachmentsSafety => []AttachmentsTypeOK
<1>1. AttachmentsInv => AttachmentsTypeOK
  BY DEF AttachmentsInv
<1> QED
  BY <1>1, AttachmentsAlwaysInv, PTL

\* Whatever the passes, removals, restores and kills do, one resolution of a
\* blob that a row names finds its bytes.
THEOREM AlwaysReadable == AttachmentsSafety => []Readable
<1>1. AttachmentsInv => Readable
  BY DEF AttachmentsInv, Readable, Resolvable, MappingsHold, LooseHold,
         Referenced
<1> QED
  BY <1>1, AttachmentsAlwaysInv, PTL

\* The last copy of a blob that a row names is never deleted.
THEOREM NothingEverLost == AttachmentsSafety => []NothingLost
<1>1. AttachmentsInv => NothingLost
  BY DEF AttachmentsInv, NothingLost, MappingsHold, LooseHold, StaleHold,
         Referenced, AttachmentsTypeOK
<1> QED
  BY <1>1, AttachmentsAlwaysInv, PTL

\* One more resolution is enough for a reader that a pass overtakes once.
THEOREM ReadsAlwaysFindIt == AttachmentsSafety => []ReadsFindIt
<1>1. AttachmentsInv => ReadsFindIt
  BY DEF AttachmentsInv, ReadsFindIt, ReadersInv, Idle
<1> QED
  BY <1>1, AttachmentsAlwaysInv, PTL

=============================================================================
