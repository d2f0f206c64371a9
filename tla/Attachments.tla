----------------------------- MODULE Attachments -----------------------------
(***************************************************************************)
(* The attachment bytes of the archive: loose files, sealed pack files,    *)
(* the pack metadata in the database (internal/store/packs.go, repack.go,  *)
(* pack_restore.go), the attachment rows that say which blobs are alive,   *)
(* and everything that writes them: syncs, the removal of an account       *)
(* (remove_account.go), the restore of a backup and the maintenance passes *)
(* (attachment_maintenance.go), whose engine is a library.                 *)
(*                                                                         *)
(* A step is a transaction or a change of the file system; a kill may fall *)
(* between any two.  Blobs are named by their canonical hash; content and  *)
(* thumbnail columns are one relation of rows.                             *)
(***************************************************************************)
EXTENDS Naturals, FiniteSets

CONSTANTS Source,    \* accounts
          Blob,      \* content hashes
          Pack,      \* pack ids
          Reader,    \* readers of attachments: API, exports, backup capture
          None,      \* no pack, no blob, no source
          MaxFaults, \* bound: kills and failed deletions of a file
          MaxRemovals \* bound: remove-account commands

ASSUME AttachmentsAssumption ==
  /\ None \notin Source \cup Blob \cup Pack
  /\ IsFiniteSet(Source) /\ IsFiniteSet(Blob) /\ IsFiniteSet(Pack)
  /\ MaxFaults \in Nat /\ MaxRemovals \in Nat

VARIABLES
  sources,   \* accounts the database knows
  rows,      \* attachment rows: which account names which blob
  runs,      \* accounts with a sync run of status 'running'
  loose,     \* blobs with a loose canonical file
  file,      \* the entries of each pack file, {} when there is no file
  record,    \* attachment_packs
  index,     \* attachment_pack_index
  syncing,   \* accounts whose sync is under way
  stored,    \* per sync: the file it has stored and not yet recorded
  removal,   \* the remove-account command
  pass,      \* where the maintenance pass stands
  new,       \* the pack the pass has sealed and not yet finished with
  old,       \* the packs the pass has copied from, or is retiring
  restored,  \* "clean", or a restore whose stale pack metadata is not cleared
  reading,   \* per reader: what it looks for and where it was told to look
  faults,    \* faults so far
  removals   \* remove-account commands so far

database == <<sources, rows, runs, record, index>>
files == <<loose, file>>
writers == <<syncing, stored, removal, removals>>
maintenance == <<pass, new, old>>
attachmentVars ==
  <<database, files, writers, maintenance, restored, reading, faults>>

NoRemoval == [at |-> "off", source |-> None, paths |-> {}]
Idle == [at |-> "idle", blob |-> None, loc |-> None, retried |-> FALSE,
         moved |-> FALSE]

Referenced == {b \in Blob : \E s \in Source : <<s, b>> \in rows}
LiveIn(p) == {b \in Referenced : index[b] = p}
UniqueTo(s) == {b \in Blob : /\ <<s, b>> \in rows
                             /\ \A t \in Source \ {s} : <<t, b>> \notin rows}
Resolvable(b) == IF index[b] = None THEN b \in loose ELSE b \in file[index[b]]
PackFiles == {p \in Pack : file[p] # {}}

\* Ids are never used twice while anything still names them.
FreshPack == {p \in Pack : /\ file[p] = {} /\ p \notin record
                           /\ \A b \in Blob : index[b] # p
                           /\ \A r \in Reader : reading[r].loc # p}

\* A read is followed while its blob keeps a reference and is moved at most
\* once; nothing is promised to the others.
Watch ==
  reading' = [r \in Reader |->
    LET b == reading[r].blob
        moved == b # None /\ index'[b] # index[b] IN
    CASE b = None -> Idle
      [] \/ \A s \in Source : <<s, b>> \notin rows'
         \/ moved /\ reading[r].moved -> Idle
      [] OTHER -> [reading[r] EXCEPT !.moved = @ \/ moved]]

\* A new archive, or one restored from a snapshot as loose files, with the
\* pack metadata of the archive it was taken from.
AttachmentsInit ==
  /\ \/ /\ restored = "clean" /\ loose = {}
        /\ sources = {} /\ rows = {} /\ record = {}
        /\ index = [b \in Blob |-> None]
     \/ /\ restored = "clearing" /\ loose = Blob
        /\ sources = Source /\ rows = Source \X Blob
        /\ \E p \in Pack : /\ record = {p}
                           /\ index \in [Blob -> {None, p}]
  /\ runs = {}
  /\ file = [p \in Pack |-> {}]
  /\ syncing = {} /\ stored = [s \in Source |-> None]
  /\ removal = NoRemoval /\ removals = 0
  /\ pass = "off" /\ new = None /\ old = {}
  /\ reading = [r \in Reader |-> Idle]
  /\ faults = 0

----------------------------------------------------------------------------
(* Syncs.  They hold the mutation lease, which no pass shares. *)

StartSync(s) ==
  /\ restored # "clearing" /\ pass = "off" /\ s \notin syncing
  /\ sources' = sources \cup {s} /\ runs' = runs \cup {s}
  /\ syncing' = syncing \cup {s}
  /\ UNCHANGED <<rows, record, index, files, stored, removal, removals, maintenance,
                 restored, reading, faults>>

\* The file is on disk, and verified, before the row that names it.
StoreAttachmentFile(s, b) ==
  /\ s \in syncing /\ stored[s] = None
  /\ loose' = loose \cup {b}
  /\ stored' = [stored EXCEPT ![s] = b]
  /\ UNCHANGED <<database, file, syncing, removal, removals, maintenance, restored,
                 reading, faults>>

\* The insert is refused when the account has gone, or fails.
UpsertAttachment(s) ==
  /\ stored[s] # None
  /\ rows' \in {rows} \cup
               IF s \in sources THEN {rows \cup {<<s, stored[s]>>}} ELSE {}
  /\ stored' = [stored EXCEPT ![s] = None]
  /\ UNCHANGED <<sources, runs, record, index, files, syncing, removal,
                 removals, maintenance, restored, faults>>
  /\ Watch

EndSync(s) ==
  /\ s \in syncing /\ stored[s] = None
  /\ syncing' = syncing \ {s} /\ runs' = runs \ {s}
  /\ UNCHANGED <<sources, rows, record, index, files, stored, removal,
                 removals, maintenance, restored, reading, faults>>

\* Replaced inline media, deduplication, permanent deletion: rows go, the
\* mapping of the blob stays.  The operation gate keeps passes out.
RowGoes(s, b) ==
  /\ pass = "off" /\ restored # "clearing" /\ <<s, b>> \in rows
  /\ rows' = rows \ {<<s, b>>}
  /\ UNCHANGED <<sources, runs, record, index, files, writers, maintenance,
                 restored, faults>>
  /\ Watch

----------------------------------------------------------------------------
(* remove-account *)

AttachmentPathsUniqueToSource(s) ==
  /\ removal.at = "off" /\ pass = "off" /\ restored # "clearing"
  /\ s \in sources
  /\ removals < MaxRemovals /\ removals' = removals + 1
  /\ removal' = [at |-> "collected", source |-> s, paths |-> UniqueTo(s)]
  /\ UNCHANGED <<database, files, syncing, stored, maintenance, restored,
                 reading, faults>>

\* Mutant: the mappings of blobs that another account shares go too.
RemoveSourceWithShared ==
  /\ removal.at = "collected"
  /\ LET s == removal.source IN
     /\ sources' = sources \ {s} /\ runs' = runs \ {s}
     /\ rows' = {row \in rows : row[1] # s}
     /\ index' = [b \in Blob |-> IF <<s, b>> \in rows THEN None ELSE index[b]]
  /\ removal' = IF runs # {} THEN NoRemoval
                ELSE [removal EXCEPT !.at = "removed"]
  /\ UNCHANGED <<record, files, syncing, stored, removals, maintenance, restored,
                 faults>>
  /\ Watch

\* One exclusive transaction; every run counts, those of other accounts too.
RemoveSourceSerialized ==
  /\ removal.at = "collected"
  /\ LET s == removal.source IN
     /\ sources' = sources \ {s} /\ runs' = runs \ {s}
     /\ rows' = {row \in rows : row[1] # s}
     /\ index' = [b \in Blob |-> IF b \in UniqueTo(s) THEN None ELSE index[b]]
  /\ removal' = IF runs # {} THEN NoRemoval
                ELSE [removal EXCEPT !.at = "removed"]
  /\ UNCHANGED <<record, files, syncing, stored, removals, maintenance, restored,
                 faults>>
  /\ Watch

\* Mutant: runs are not looked at again under the lock.
DeleteOrphanedFilesUnchecked ==
  /\ removal.at = "removed"
  /\ loose' = loose \ (removal.paths \ Referenced)
  /\ removal' = NoRemoval
  /\ UNCHANGED <<database, file, syncing, stored, removals, maintenance, restored,
                 reading, faults>>

\* Under the exclusive lock: runs again, then every path; a file that cannot
\* be removed stays behind.
DeleteOrphanedAttachmentFiles ==
  /\ removal.at = "removed"
  /\ LET orphans == removal.paths \ Referenced IN
     \/ /\ runs # {} /\ UNCHANGED <<loose, faults>>
     \/ /\ runs = {} /\ loose' = loose \ orphans /\ UNCHANGED faults
     \/ /\ runs = {} /\ faults < MaxFaults /\ faults' = faults + 1
        /\ \E kept \in SUBSET orphans : loose' = loose \ (orphans \ kept)
  /\ removal' = NoRemoval
  /\ UNCHANGED <<database, file, syncing, stored, removals, maintenance, restored,
                 reading>>

----------------------------------------------------------------------------
(* Maintenance: pack, repack, unpack.  A pass names the step it is at. *)

\* No pass starts while a mutation lease is out.
Begin(step) ==
  /\ pass = "off" /\ syncing = {} /\ removal.at = "off"
  /\ restored # "clearing"
  /\ pass' = step
  /\ UNCHANGED <<database, files, writers, new, old, restored, reading, faults>>

BeginPack == Begin("dangling")
BeginRepack == Begin("prune repack")
\* Offline: no daemon, so no reader.
BeginUnpack == /\ \A r \in Reader : reading[r] = Idle
               /\ Begin("prune unpack")

Go(step) ==
  /\ pass' = step
  /\ UNCHANGED <<database, files, writers, new, old, reading, faults>>

\* The rows of a pack, mappings and record, in one transaction.
DeletePackRecord(p) ==
  /\ record' = record \ {p}
  /\ index' = [b \in Blob |-> IF index[b] = p THEN None ELSE index[b]]

DropDangling ==
  /\ pass = "dangling"
  /\ \E p \in record \ PackFiles : DeletePackRecord(p)
  /\ UNCHANGED <<sources, rows, runs, files, writers, maintenance, restored,
                 faults>>
  /\ Watch

NoneDangling ==
  /\ pass = "dangling" /\ record \subseteq PackFiles
  /\ Go("prune") /\ restored' = "clean"

PruneUnreferencedPackIndex ==
  /\ pass \in {"prune", "prune repack", "prune unpack"}
  /\ index' = [b \in Blob |-> IF b \in Referenced THEN index[b] ELSE None]
  /\ pass' = CASE pass = "prune" -> "orphans"
               [] pass = "prune repack" -> "retire empty"
               [] OTHER -> "unpack"
  /\ UNCHANGED <<sources, rows, runs, record, files, writers, new, old,
                 restored, faults>>
  /\ Watch

\* A pack file without a record: what it alone still holds for a reference
\* is adopted, a file nobody needs is deleted.
NeededFrom(p) == {b \in file[p] \cap Referenced :
                    index[b] = None \/ b \notin file[index[b]]}

AdoptPackedBlobs ==
  /\ pass = "orphans"
  /\ \E p \in PackFiles \ record :
       /\ NeededFrom(p) # {}
       /\ record' = record \cup {p}
       /\ index' = [b \in Blob |-> IF b \in NeededFrom(p) THEN p ELSE index[b]]
  /\ UNCHANGED <<sources, rows, runs, files, writers, maintenance, restored,
                 faults>>
  /\ Watch

DeleteOrphanPack ==
  /\ pass = "orphans"
  /\ \E p \in PackFiles \ record :
       /\ NeededFrom(p) = {}
       /\ file' = [file EXCEPT ![p] = {}]
  /\ UNCHANGED <<database, loose, writers, maintenance, restored, reading, faults>>

NoOrphans ==
  /\ pass = "orphans" /\ PackFiles \subseteq record
  /\ Go("pack") /\ UNCHANGED restored

ListUnpackedBlobs == {b \in Referenced : index[b] = None}

SealPack ==
  /\ pass = "pack"
  /\ \E p \in FreshPack, entries \in SUBSET (ListUnpackedBlobs \cap loose) :
       /\ entries # {}
       /\ file' = [file EXCEPT ![p] = entries]
       /\ new' = p
  /\ pass' = "sealed"
  /\ UNCHANGED <<database, loose, writers, old, restored, reading, faults>>

\* INSERT OR IGNORE: a mapping that is there wins.
RecordPackedBlobs ==
  /\ pass = "sealed"
  /\ record' = record \cup {new}
  /\ index' = [b \in Blob |-> IF b \in file[new] /\ index[b] = None
                              THEN new ELSE index[b]]
  /\ pass' = "recorded"
  /\ UNCHANGED <<sources, rows, runs, files, writers, new, old, restored, faults>>
  /\ Watch

DeletePackedLoose ==
  /\ pass = "recorded"
  /\ loose' = loose \ file[new]
  /\ pass' = "pack" /\ new' = None
  /\ UNCHANGED <<database, file, writers, old, restored, reading, faults>>

\* Nothing left, or the budget is used up.
PackEnds == /\ pass = "pack"
            /\ Go("sweep") /\ UNCHANGED restored

\* The walk over the loose files.  A packed copy is read before the loose one
\* goes; when it cannot be read the mapping goes instead.
Sweepable == {b \in loose : b \notin Referenced \/ index[b] # None}

SweepLoose ==
  /\ pass = "sweep"
  /\ \E b \in Sweepable :
       IF b \notin Referenced \/ b \in file[index[b]]
       THEN loose' = loose \ {b} /\ UNCHANGED index
       ELSE index' = [index EXCEPT ![b] = None] /\ UNCHANGED loose
  /\ UNCHANGED <<sources, rows, runs, record, file, writers, maintenance,
                 restored, faults>>
  /\ Watch

\* The daily job goes on to repack.
SweepEnds ==
  /\ pass = "sweep" /\ Sweepable = {}
  /\ \E next \in {"off", "prune repack"} : Go(next)
  /\ UNCHANGED restored

\* Mutant: a pack counts as live while it holds the bytes of a live blob, also
\* when the mapping has moved on.
EmptyByFooter == {p \in record : file[p] \cap Referenced = {}}

Empty == {p \in record : LiveIn(p) = {}}

\* Files first; a file that cannot be deleted keeps its record for a retry.
RetirePack ==
  /\ pass \in {"retire empty", "retire old"}
  /\ \E p \in Empty \ old :
       /\ old' = old \cup {p}
       /\ \/ file' = [file EXCEPT ![p] = {}] /\ UNCHANGED faults
          \/ faults < MaxFaults /\ faults' = faults + 1 /\ UNCHANGED file
  /\ UNCHANGED <<database, loose, writers, pass, new, restored, reading>>

DeleteEmptyPackRecord ==
  /\ pass \in {"retire empty", "retire old"}
  /\ \E p \in Empty : p \in old /\ file[p] = {} /\ DeletePackRecord(p)
  /\ UNCHANGED <<sources, rows, runs, files, writers, maintenance, restored,
                 faults>>
  /\ Watch

NoneToRetire ==
  /\ pass \in {"retire empty", "retire old"}
  /\ \A p \in Empty : p \in old /\ file[p] # {}
  /\ pass' = IF pass = "retire empty" THEN "repack" ELSE "off"
  /\ old' = {}
  /\ UNCHANGED <<database, files, writers, new, restored, reading, faults>>

\* The live entries of sparse packs, whose thresholds are left out.
SealRepack ==
  /\ pass = "repack"
  /\ \E p \in FreshPack, from \in (SUBSET record) \ {{}} :
       LET live == UNION {LiveIn(q) : q \in from} IN
       /\ \A q \in from : LiveIn(q) # {} /\ LiveIn(q) \subseteq file[q]
                          /\ LiveIn(q) # file[q]
       /\ file' = [file EXCEPT ![p] = live]
       /\ new' = p /\ old' = from
  /\ pass' = "repack sealed"
  /\ UNCHANGED <<database, loose, writers, restored, reading, faults>>

\* Exactly the live mappings of the selected packs move, or none.
CommitRepack ==
  /\ pass = "repack sealed"
  /\ old \subseteq record
  /\ file[new] = {b \in Referenced : index[b] \in old}
  /\ record' = record \cup {new}
  /\ index' = [b \in Blob |-> IF b \in file[new] THEN new ELSE index[b]]
  /\ pass' = "retire old" /\ new' = None /\ old' = {}
  /\ UNCHANGED <<sources, rows, runs, files, writers, restored, faults>>
  /\ Watch

RepackEnds == /\ pass = "repack"
              /\ Go("off") /\ UNCHANGED restored

\* Offline: loose copies, then the rows, then the file, pack by pack.
UnpackBlobs ==
  /\ pass = "unpack"
  /\ \E p \in record :
       /\ LiveIn(p) \subseteq file[p]
       /\ loose' = loose \cup LiveIn(p)
       /\ new' = p
  /\ pass' = "unpacked"
  /\ UNCHANGED <<database, file, writers, old, restored, reading, faults>>

DropUnpacked ==
  /\ pass = "unpacked"
  /\ DeletePackRecord(new)
  /\ pass' = "dropped"
  /\ UNCHANGED <<sources, rows, runs, files, writers, new, old, restored, faults>>
  /\ Watch

DeleteUnpackedFile ==
  /\ pass = "dropped"
  /\ file' = [file EXCEPT ![new] = {}]
  /\ pass' = "unpack" /\ new' = None
  /\ UNCHANGED <<database, loose, writers, old, restored, reading, faults>>

UnpackEnds ==
  /\ pass = "unpack" /\ \A p \in record : ~(LiveIn(p) \subseteq file[p])
  /\ Go("off") /\ UNCHANGED restored

----------------------------------------------------------------------------
(* Restore, kill, readers *)

ClearAttachmentPackMetadata ==
  /\ restored = "clearing"
  /\ record' = {} /\ index' = [b \in Blob |-> None]
  /\ restored' = "clean"
  /\ UNCHANGED <<sources, rows, runs, files, writers, maintenance, faults>>
  /\ Watch

\* A restore of packs as packs: the files, then all authority at once.
ReplaceRestoredPacks ==
  /\ restored = "clearing"
  /\ \E p \in FreshPack, entries \in (SUBSET Referenced) \ {{}} :
       /\ file' = [file EXCEPT ![p] = entries]
       /\ loose' = loose \ entries
       /\ record' = {p}
       /\ index' = [b \in Blob |-> IF b \in entries THEN p ELSE None]
  /\ restored' = "clean"
  /\ UNCHANGED <<sources, rows, runs, writers, maintenance, faults>>
  /\ Watch

\* Every process ends where it stands; the rows of the runs stay behind.
Kill ==
  /\ faults < MaxFaults /\ faults' = faults + 1
  /\ syncing' = {} /\ stored' = [s \in Source |-> None]
  /\ removal' = NoRemoval
  /\ pass' = "off" /\ new' = None /\ old' = {}
  /\ reading' = [r \in Reader |-> Idle]
  /\ restored' = IF restored = "clearing" THEN "left" ELSE restored
  /\ UNCHANGED <<database, files, removals>>

\* One query for liveness and place: without a reference there is no answer.
ResolveAttachmentBlob(r, b) ==
  /\ restored = "clean"
  /\ pass \notin {"prune unpack", "unpack", "unpacked", "dropped"}
  /\ \/ /\ reading[r] = Idle /\ b \in Referenced
        /\ reading' = [reading EXCEPT ![r] =
             [Idle EXCEPT !.at = "open", !.blob = b, !.loc = index[b]]]
     \/ /\ reading[r].at = "again" /\ reading[r].blob = b
        /\ reading' = [reading EXCEPT
             ![r].at = "open", ![r].loc = index[b], ![r].retried = TRUE]
  /\ UNCHANGED <<database, files, writers, maintenance, restored, faults>>

\* Mutant: the library does not ask again.
OpenOnce(r) ==
  /\ reading[r].at = "open"
  /\ LET found == IF reading[r].loc = None THEN reading[r].blob \in loose
                  ELSE reading[r].blob \in file[reading[r].loc] IN
     reading' = [reading EXCEPT ![r] = IF found THEN Idle
                                       ELSE [@ EXCEPT !.at = "failed"]]
  /\ UNCHANGED <<database, files, writers, maintenance, restored, faults>>

\* The library asks again once when the place no longer holds the blob.
Open(r) ==
  /\ reading[r].at = "open"
  /\ LET found == IF reading[r].loc = None THEN reading[r].blob \in loose
                  ELSE reading[r].blob \in file[reading[r].loc] IN
     reading' = [reading EXCEPT ![r] =
       IF found THEN Idle
       ELSE IF reading[r].retried THEN [@ EXCEPT !.at = "failed"]
       ELSE [@ EXCEPT !.at = "again", !.loc = None]]
  /\ UNCHANGED <<database, files, writers, maintenance, restored, faults>>

----------------------------------------------------------------------------
PackStep ==
  \/ DropDangling \/ NoneDangling \/ AdoptPackedBlobs \/ DeleteOrphanPack
  \/ NoOrphans \/ SealPack \/ RecordPackedBlobs \/ DeletePackedLoose
  \/ PackEnds \/ SweepLoose \/ SweepEnds

RepackStep == \/ RetirePack \/ DeleteEmptyPackRecord \/ NoneToRetire
              \/ SealRepack \/ CommitRepack \/ RepackEnds

UnpackStep == UnpackBlobs \/ DropUnpacked \/ DeleteUnpackedFile \/ UnpackEnds

PassStep == \/ PruneUnreferencedPackIndex
            \/ PackStep \/ RepackStep \/ UnpackStep

RemovalStep == RemoveSourceSerialized \/ DeleteOrphanedAttachmentFiles

AttachmentsNext ==
  \/ \E s \in Source : \/ StartSync(s) \/ UpsertAttachment(s) \/ EndSync(s)
                       \/ AttachmentPathsUniqueToSource(s)
                       \/ \E b \in Blob : \/ StoreAttachmentFile(s, b)
                                          \/ RowGoes(s, b)
  \/ RemovalStep
  \/ BeginPack \/ BeginRepack \/ BeginUnpack \/ PassStep
  \/ ClearAttachmentPackMetadata \/ ReplaceRestoredPacks
  \/ Kill
  \/ \E r \in Reader : \/ Open(r)
                       \/ \E b \in Blob : ResolveAttachmentBlob(r, b)

AttachmentsSafety == AttachmentsInit /\ [][AttachmentsNext]_attachmentVars

\* A sync ends, a command goes on, a pass goes on, and the daily job gets the
\* gate again and again; both its phases come in turn.
AttachmentsFairness ==
  /\ \A s \in Source : /\ WF_attachmentVars(UpsertAttachment(s))
                       /\ SF_attachmentVars(EndSync(s))
  /\ WF_attachmentVars(RemovalStep)
  /\ WF_attachmentVars(PassStep)
  /\ WF_attachmentVars(ClearAttachmentPackMetadata)
  /\ SF_attachmentVars(BeginPack) /\ SF_attachmentVars(BeginRepack)

AttachmentsSpec == AttachmentsSafety /\ AttachmentsFairness

----------------------------------------------------------------------------
(* Properties *)

Steps == {"off", "dangling", "prune", "orphans", "pack", "sealed", "recorded",
          "sweep", "prune repack", "retire empty", "repack", "repack sealed",
          "retire old", "prune unpack", "unpack", "unpacked", "dropped"}

\* Every variable has its type.
AttachmentsTypeOK ==
  /\ sources \subseteq Source /\ runs \subseteq Source
  /\ syncing \subseteq Source
  /\ rows \subseteq Source \X Blob
  /\ loose \subseteq Blob
  /\ file \in [Pack -> SUBSET Blob] /\ record \subseteq Pack
  /\ index \in [Blob -> Pack \cup {None}]
  /\ stored \in [Source -> Blob \cup {None}]
  /\ removal \in [at : {"off", "collected", "removed"},
                  source : Source \cup {None}, paths : SUBSET Blob]
  /\ pass \in Steps /\ new \in Pack \cup {None} /\ old \subseteq Pack
  /\ restored \in {"clean", "clearing", "left"}
  /\ reading \in [Reader ->
       [at : {"idle", "open", "again", "failed"}, blob : Blob \cup {None},
        loc : Pack \cup {None}, retried : BOOLEAN, moved : BOOLEAN]]
  /\ faults \in 0..MaxFaults /\ removals \in 0..MaxRemovals

\* Wherever a sync, a removal, a pass or a kill stands, every blob that an
\* attachment row names is where one resolution finds it: in the pack its
\* mapping names, or loose when it has none.
Readable == restored = "clean" => \A b \in Referenced : Resolvable(b)

\* Even after a restore that stopped before it dropped the stale metadata, no
\* step of a pass deletes the last copy of a blob an attachment row names.
NothingLost == \A b \in Referenced : b \in loose \/ \E p \in Pack : b \in file[p]

\* A read that looks again once finds its blob, whatever pass runs under it,
\* as long as a row names the blob and it is moved no more than once.
ReadsFindIt == \A r \in Reader : reading[r].at # "failed"

\* A file no row names, and a pack of which no mapping is live, is taken from
\* disk in the end, whichever command or kill left it there.
GarbageGoes ==
  /\ \A b \in Blob :
       b \in loose /\ b \notin Referenced ~> b \notin loose \/ b \in Referenced
  /\ \A p \in Pack :
       file[p] # {} /\ LiveIn(p) = {} ~> file[p] = {} \/ LiveIn(p) # {}
=============================================================================
