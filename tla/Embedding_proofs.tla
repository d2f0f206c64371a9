--------------------------- MODULE Embedding_proofs ---------------------------
(***************************************************************************)
(* Proofs about Embedding, for any number of messages and generations and  *)
(* any batch size.                                                         *)
(***************************************************************************)
EXTENDS Embedding, FiniteSetTheorems, WellFoundedInduction, TLAPS

Stage == {"idle", "scan", "embed", "skip", "stamp", "advance", "drain",
          "drainStamp", "drainSkip", "count", "promote"}
Batching == {"embed", "skip", "stamp", "advance", "drain", "drainStamp",
             "drainSkip"}
Draining == {"drain", "drainStamp", "drainSkip"}

Job == [pc : Stage, gen : Gen \cup {0}, mode : {"once", "backstop"},
        via : {"daemon", "cli"}, building : BOOLEAN, after : Message \cup {0},
        ids : SUBSET Message, left : SUBSET Message, skip : SUBSET Message,
        drops : SUBSET Message, ok : BOOLEAN, safe : Message \cup {0},
        broke : BOOLEAN, fails : Nat]

\* EmbeddingTypeOK without its cardinalities, and the other variables.
IndexTyped ==
  /\ text \in [Message -> Kind \cup {"absent", "gone"}]
  /\ stamp \in [Message -> Gen \cup {0}]
  /\ state \in [Gen -> {"none", "building", "active", "retired"}]
  /\ vector \in [Gen -> [Message -> {"none", "current", "stale"}]]
  /\ watermark \in [Gen -> Message \cup {0}]
  /\ unseen \subseteq fresh /\ fresh \subseteq Message

OthersTyped ==
  /\ repair \in [pc : {"off", "texts", "lower"}, ids : SUBSET Message]
  /\ repair.pc # "off" => repair.ids # {}
  /\ command \in [kind : {"none", "retire", "activate"}, gen : Gen \cup {0},
                  force : BOOLEAN]
  /\ command.kind # "none" => command.gen \in Gen
  /\ changed \subseteq Message /\ lies \subseteq Message
  /\ storing \in Message \cup {0}

OneEach == \A g, h \in Gen :
  state[g] = state[h] /\ state[g] \in {"building", "active"} => g = h

\* A job and the rows it holds: what it has in hand comes from its batch.
JobTyped ==
  /\ job \in Job
  /\ job.pc # "idle" => job.gen \in Gen
  /\ IF job.pc \in Batching THEN job.ids # {} ELSE job.ids = {}
  /\ job.left \cup job.skip \cup job.drops \subseteq job.ids
  /\ job.left \cap job.drops = {}
  /\ job.pc \in {"stamp", "drainStamp", "drainSkip"} => job.left # {}
  /\ job.pc \in {"embed", "advance"} => job.left = {}
  /\ job.pc # "skip" => job.skip = {}
  /\ job.pc \notin Draining => job.drops = {}

\* No id is left out; what is not there has no stamp, and what never was is in
\* nobody's hands.
InOrder ==
  /\ \A m, n \in Message : text[m] = "absent" /\ m < n => text[n] = "absent"
  /\ \A m \in Message : ~Live(m) => stamp[m] = 0
  /\ \A m \in fresh : text[m] # "absent"

\* CoveredIsCurrent; what repair-encoding has reset is excused no more.
Covered == \A m \in Message :
  /\ Live(m) /\ stamp[m] # 0 /\ m # storing /\ m \notin lies
  /\ ~(repair.pc = "texts" /\ m \in repair.ids)
  => vector[stamp[m]][m] = IF text[m] = "plain" THEN "current" ELSE "none"

\* The rows the worker is to stamp with vectors, and those without.
StampsNext(m) ==
  \/ job.pc \in {"skip", "stamp"} /\ m \in job.left
  \/ job.pc = "drainStamp" /\ m = Min(job.left)

SkipsNext(m) ==
  \/ job.pc = "skip" /\ m \in job.skip
  \/ job.pc = "drainSkip" /\ m = Min(job.left)
  \/ job.pc \in Draining /\ m \in job.drops

\* What the worker is about to stamp is as it has read it, where last_modified
\* still is the one it has read and the row was not rewritten in that second.
InHand == \A m \in fresh \ unseen :
  /\ StampsNext(m) => text[m] = "plain" /\ vector[job.gen][m] = "current"
  /\ SkipsNext(m) => text[m] # "plain"

\* A row that is not stamped has changed since it was first stored.
Settled(m) == Live(m) /\ stamp[m] = 0 => m \in changed

\* A cursor may stand at x.
Passed(x) == \A m \in Message : m <= x => text[m] # "absent" /\ Settled(m)

WatermarksBehind == \A g \in Gen : Passed(watermark[g])

CursorsBehind == Passed(job.after) /\ Passed(job.safe)

\* The rows of a batch, and of the gaps between them.
BatchBehind == job.pc \in Batching =>
  /\ \A x \in job.ids, m \in Message :
       m <= x => text[m] # "absent" /\ (m \notin job.ids => Settled(m))
  /\ job.pc \in {"skip", "stamp"} => \A m \in job.ids : m \in fresh \/ Settled(m)
  /\ job.pc = "skip" => job.ids \subseteq job.left \cup job.skip
  /\ job.pc = "stamp" => \A m \in job.ids \ job.left : Settled(m)
  /\ job.pc = "advance" => \A m \in job.ids : Settled(m)
  /\ job.pc \in Draining =>
       /\ \A m \in job.ids \ (job.left \cup job.drops) : Settled(m)
       /\ \A m \in job.drops : m \in fresh \/ Settled(m)
       /\ ~job.broke => job.drops = {}
  /\ job.pc \in {"drainStamp", "drainSkip"} =>
       Min(job.left) \in fresh \/ Settled(Min(job.left))

\* The inductive invariant.
EmbeddingInv ==
  /\ IndexTyped /\ OthersTyped /\ OneEach /\ JobTyped
  /\ InOrder /\ Covered /\ InHand
  /\ WatermarksBehind /\ CursorsBehind /\ BatchBehind

-----------------------------------------------------------------------------
(* Smallest and largest elements.                                          *)

\* A well-founded relation that holds the order of the numbers gives every set
\* of them its smallest.
LEMMA SmallestOf ==
  ASSUME NEW R, IsWellFoundedOn(R, Nat),
         \A x, y \in Nat : y < x => <<y, x>> \in R,
         NEW S \in SUBSET Nat, S # {}
  PROVE  \E x \in S : \A y \in S : x <= y
<1>1. PICK x \in S : \A y \in S : ~(<<y, x>> \in R)
  BY WFMin
<1>2. ASSUME NEW y \in S PROVE x <= y
  <2>1. x \in Nat /\ y \in Nat /\ ~(y < x)
    BY <1>1
  <2> QED
    BY <2>1
<1> QED
  BY <1>2

LEMMA SmallestNat ==
  ASSUME NEW S \in SUBSET Nat, S # {}
  PROVE  \E x \in S : \A y \in S : x <= y
<1>1. IsWellFoundedOn(OpToRel(<, Nat), Nat)
  BY NatLessThanWellFounded, Zenon
<1>2. \A x, y \in Nat : y < x => <<y, x>> \in OpToRel(<, Nat)
  BY Zenon DEF OpToRel
<1> QED
  BY <1>1, <1>2, SmallestOf, Zenon

LEMMA MinLemma ==
  ASSUME NEW S \in SUBSET Nat, S # {}
  PROVE  Min(S) \in S /\ \A y \in S : Min(S) <= y
BY SmallestNat DEF Min

\* The distances of a bounded set's elements from its bound have a smallest.
LEMMA MaxLemma ==
  ASSUME NEW N \in Nat, NEW S \in SUBSET (0 .. N), S # {}
  PROVE  Max(S) \in S /\ \A y \in S : Max(S) >= y
<1> DEFINE T == {N - x : x \in S}
<1>1. T \in SUBSET Nat 
  BY SMT
<1>5. T # {}
  OBVIOUS
<1>2. PICK t \in T : \A y \in T : t <= y
  BY <1>1, <1>5, SmallestNat
<1>3. PICK x \in S : t = N - x
  BY <1>2
<1>4. \A y \in S : x >= y
  BY <1>2, <1>3
<1> QED
  BY <1>4 DEF Max

-----------------------------------------------------------------------------
(* What the steps have in common.                                          *)

Keeps(m) ==
  text[m] # "absent" => text'[m] # "absent" /\ (Settled(m) => Settled(m)')

\* A job that holds no batch.
Between(j) ==
  /\ j \in Job /\ j.pc \notin Batching
  /\ j.pc # "idle" => j.gen \in Gen
  /\ j.ids = {} /\ j.left = {} /\ j.skip = {} /\ j.drops = {}

\* A cursor stays where it may stand.
LEMMA PassedStays ==
  ASSUME NEW x, \A m \in Message : Keeps(m), Passed(x)
  PROVE  \A m \in Message : m <= x => text'[m] # "absent" /\ Settled(m)'
BY DEF Passed, Keeps

LEMMA TargetIsGen == Target # 0 => Target \in Gen
<1>1. \E g \in Gen \cup {0} :
        IF InState("building") # {} THEN g \in InState("building")
        ELSE IF InState("active") # {} THEN g \in InState("active")
        ELSE g = 0
  BY DEF InState
<1>2. Target \in Gen \cup {0}
  BY <1>1 DEF Target
<1> QED
  BY <1>2

LEMMA NoJobIsBetween ==
  Between(NoJob) /\ NoJob.after = 0 /\ NoJob.safe = 0 /\ NoJob.pc = "idle"
BY DEF Between, NoJob, Job, Stage, Batching

LEMMA RunningIsBetween ==
  ASSUME IndexTyped, NEW g \in Gen, NEW via \in {"daemon", "cli"},
         NEW mode \in {"once", "backstop"}, NEW building \in BOOLEAN
  PROVE  /\ Between(Running(g, via, mode, building))
         /\ Running(g, via, mode, building).after \in {0, watermark[g]}
         /\ Running(g, via, mode, building).safe = 0
BY ZenonT(60) DEF Between, Running, NoJob, Job, Stage, Batching, IndexTyped

LEMMA AfterRunsIsBetween ==
  ASSUME job \in Job, job.gen \in Gen
  PROVE  Between(AfterRuns) /\ AfterRuns.after = 0 /\ AfterRuns.safe = 0
BY ZenonT(60) DEF Between, AfterRuns, NoJob, Job, Stage, Batching

LEMMA RunEndsBetween ==
  ASSUME IndexTyped, JobTyped, job.pc # "idle", RunEnds
  PROVE  Between(job') /\ job'.after = 0 /\ job'.safe = 0 /\ LetGo
<1>1. job.gen \in Gen /\ job \in Job
  BY DEF JobTyped
<1>2. job.building \in BOOLEAN
  BY <1>1 DEF Job
<1>3. CASE job' = Running(job.gen, "daemon", "backstop", job.building)
  <2>1. job'.after = 0
    BY <1>3 DEF Running, NoJob
  <2> QED
    BY <1>1, <1>2, <1>3, <2>1, RunningIsBetween DEF RunEnds
<1>4. CASE job' = AfterRuns
  BY <1>1, <1>4, AfterRunsIsBetween DEF RunEnds
<1> QED
  BY <1>3, <1>4 DEF RunEnds

LEMMA RunFailsBetween ==
  ASSUME JobTyped, job.pc # "idle", RunFails
  PROVE  Between(job') /\ job'.after = 0 /\ job'.safe = 0 /\ LetGo
BY AfterRunsIsBetween, NoJobIsBetween DEF RunFails, JobTyped

LEMMA FailOrRescanBetween ==
  ASSUME JobTyped, job.pc # "idle", NEW j \in Job, j.gen \in Gen,
         j.ids = {}, j.left = {}, j.skip = {}, j.drops = {}, FailOrRescan(j)
  PROVE  /\ Between(job') /\ LetGo
         /\ job'.after \in {0, j.after} /\ job'.safe \in {0, j.safe}
<1>1. CASE RunFails
  BY <1>1, RunFailsBetween
<1>2. CASE job' = [j EXCEPT !.pc = "scan"] /\ LetGo
  BY <1>2 DEF Between, Job, Stage, Batching
<1> QED
  BY <1>1, <1>2 DEF FailOrRescan

\* A job without a batch relies on its cursors alone.
LEMMA BetweenKeeps ==
  ASSUME Between(job'), \A m \in Message : Keeps(m),
         job'.after \in Nat, job'.safe \in Nat,
         \E x \in Nat : job'.after <= x /\ Passed(x),
         \E x \in Nat : job'.safe <= x /\ Passed(x)
  PROVE  JobTyped' /\ InHand' /\ CursorsBehind' /\ BatchBehind'
<1>1. JobTyped'
  BY DEF Between, JobTyped, Batching, Draining
<1>2. InHand'
  BY DEF Between, InHand, StampsNext, SkipsNext, Batching, Draining
<1>3. BatchBehind'
  BY DEF Between, BatchBehind
<1>4. CursorsBehind'
  <2>1. ASSUME NEW y \in Nat, NEW x \in Nat, y <= x, Passed(x),
               NEW m \in Message, m <= y
        PROVE  text'[m] # "absent" /\ Settled(m)'
    BY <2>1, PassedStays DEF Message
  <2> QED
    BY <2>1 DEF CursorsBehind, Passed
<1> QED
  BY <1>1, <1>2, <1>3, <1>4

\* A cursor may always stand at the beginning.
LEMMA PassedNothing == Passed(0)
BY EmbeddingAssumption DEF Passed, Message

\* A step of the worker, or a fault, that stamps rows and takes no stamp away.
LEMMA BatchLeavesKeeps ==
  ASSUME EmbeddingInv, BatchLeaves,
         stamp' \in [Message -> Gen \cup {0}],
         \A m \in fresh' : m \in fresh \/ text[m] # "absent",
         \A m \in Message : stamp'[m] # stamp[m] => stamp'[m] # 0 /\ Live(m),
         changed' \subseteq changed, lies' \subseteq Message,
         \A m \in changed \ changed' : stamp'[m] # 0
  PROVE  /\ OthersTyped' /\ OneEach' /\ InOrder'
         /\ \A m \in Message : Keeps(m) /\ text'[m] = text[m]
<1>1. \A m \in Message : stamp'[m] = 0 => stamp[m] = 0
  OBVIOUS
<1>2. OthersTyped' /\ OneEach'
  BY DEF EmbeddingInv, BatchLeaves, OthersTyped, OneEach
<1>3. InOrder'
  BY DEF EmbeddingInv, BatchLeaves, InOrder, Live, Kind
<1>4. \A m \in Message : Keeps(m) /\ text'[m] = text[m]
  BY <1>1 DEF BatchLeaves, Keeps, Settled, Live
<1> QED
  BY <1>2, <1>3, <1>4

LEMMA BatchFrameKeeps ==
  ASSUME EmbeddingInv, BatchFrame,
         \A m \in fresh' : m \in fresh \/ text[m] # "absent"
  PROVE  /\ OthersTyped' /\ OneEach' /\ InOrder'
         /\ \A m \in Message : Keeps(m) /\ text'[m] = text[m]
BY BatchLeavesKeeps DEF BatchFrame, history, EmbeddingInv, IndexTyped, OthersTyped

\* Watermarks that stay or move to where a cursor may stand.
LEMMA WatermarksKeep ==
  ASSUME EmbeddingInv, \A m \in Message : Keeps(m), watermark' = watermark
  PROVE  WatermarksBehind'
<1> SUFFICES ASSUME NEW g \in Gen, NEW m \in Message, m <= watermark[g]
             PROVE  text'[m] # "absent" /\ Settled(m)'
  BY DEF WatermarksBehind, Passed
<1> QED
  BY PassedStays DEF EmbeddingInv, WatermarksBehind

LEMMA WatermarkSet ==
  ASSUME EmbeddingInv, \A m \in Message : Keeps(m), NEW id \in Message \cup {0},
         SetWatermark(id), job.gen \in Gen,
         \A m \in Message : m <= id => text'[m] # "absent" /\ Settled(m)'
  PROVE  WatermarksBehind' /\ watermark' \in [Gen -> Message \cup {0}]
<1>1. watermark' \in [Gen -> Message \cup {0}]
  BY DEF SetWatermark, EmbeddingInv, IndexTyped
<1>2. \A g \in Gen : watermark'[g] \in {watermark[g], id}
  BY DEF SetWatermark, EmbeddingInv, IndexTyped
<1>3. SUFFICES ASSUME NEW g \in Gen, NEW m \in Message, m <= watermark'[g]
               PROVE  text'[m] # "absent" /\ Settled(m)'
  BY <1>1 DEF WatermarksBehind, Passed
<1> QED
  BY <1>2, <1>3, PassedStays DEF EmbeddingInv, WatermarksBehind

-----------------------------------------------------------------------------
(* Messages.                                                               *)

\* What the worker holds survives a change of other rows, and of rows that
\* leave its hands.
LEMMA RowsMove ==
  ASSUME EmbeddingInv, job' = job, fresh' \subseteq fresh,
         \A m \in Message : Keeps(m),
         \A m \in fresh \ fresh' : Settled(m)',
         \A m \in fresh' \ unseen' :
           /\ m \notin unseen /\ text'[m] = text[m]
           /\ \A g \in Gen : vector'[g][m] = vector[g][m]
  PROVE  JobTyped' /\ InHand' /\ CursorsBehind' /\ BatchBehind'
<1>1. JobTyped'
  BY DEF EmbeddingInv, JobTyped
<1>2. InHand'
  BY DEF EmbeddingInv, InHand, StampsNext, SkipsNext, JobTyped
<1>3. CursorsBehind'
  BY PassedStays DEF EmbeddingInv, CursorsBehind, Passed
<1>4. ASSUME NEW m \in Message, m \in fresh \/ Settled(m), text[m] # "absent"
      PROVE  m \in fresh' \/ Settled(m)'
  BY <1>4 DEF Keeps
<1>5. BatchBehind'
  <2> SUFFICES ASSUME job.pc \in Batching
               PROVE  BatchBehind'
    BY DEF BatchBehind
  <2> DEFINE K(m) == text'[m] # "absent" /\ (Settled(m) => Settled(m)')
                     /\ (m \in fresh \/ Settled(m) => m \in fresh' \/ Settled(m)')
  <2>0. /\ job.ids \subseteq Message /\ job.left \subseteq job.ids
        /\ job.drops \subseteq job.ids
    BY DEF EmbeddingInv, JobTyped, Job
  <2>1. \A x \in job.ids, m \in Message :
          m <= x => text[m] # "absent" /\ (m \notin job.ids => Settled(m))
    BY DEF EmbeddingInv, BatchBehind
  <2>2. \A m \in job.ids : K(m)
    <3> TAKE m \in job.ids
    <3>1. m \in Message /\ m <= m
      BY <2>0 DEF Message
    <3> QED
      BY <2>1, <3>1, <1>4 DEF Keeps
  <2>3. \A x \in job.ids, m \in Message :
          m <= x => text'[m] # "absent" /\ (m \notin job.ids => Settled(m)')
    BY <2>1 DEF Keeps
  <2>4. job.pc \in {"drainStamp", "drainSkip"} => Min(job.left) \in job.ids
    BY <2>0, MinLemma DEF EmbeddingInv, JobTyped, Message
  <2> HIDE DEF K
  <2>5. /\ job.pc \in {"skip", "stamp"} => \A m \in job.ids : m \in fresh' \/ Settled(m)'
        /\ job.pc = "skip" => job.ids \subseteq job.left \cup job.skip
        /\ job.pc = "stamp" => \A m \in job.ids \ job.left : Settled(m)'
        /\ job.pc = "advance" => \A m \in job.ids : Settled(m)'
    BY <2>2 DEF K, EmbeddingInv, BatchBehind
  <2>6. job.pc \in Draining =>
          /\ \A m \in job.ids \ (job.left \cup job.drops) : Settled(m)'
          /\ \A m \in job.drops : m \in fresh' \/ Settled(m)'
          /\ ~job.broke => job.drops = {}
    BY <2>0, <2>2 DEF K, EmbeddingInv, BatchBehind
  <2>7. job.pc \in {"drainStamp", "drainSkip"} =>
          Min(job.left) \in fresh' \/ Settled(Min(job.left))'
    BY <2>2, <2>4 DEF K, EmbeddingInv, BatchBehind
  <2> QED
    BY <2>3, <2>5, <2>6, <2>7 DEF BatchBehind
<1> QED
  BY <1>1, <1>2, <1>3, <1>5

LEMMA ArriveKeeps ==
  ASSUME EmbeddingInv, NEW m \in Message, NEW k \in Kind, Arrive(m, k)
  PROVE  EmbeddingInv'
<1>0. /\ ~Live(m) /\ \A n \in Message : n + 1 = m => Live(n)
      /\ Touch({m} \cap unseen, {m})
      /\ changed' = IF text[m] = "gone" THEN changed \cup {m} ELSE changed
      /\ UNCHANGED <<stamp, state, vector, watermark, job, storing, repair,
                     command, lies>>
  BY EmbeddingAssumption DEF Arrive, index, Message
<1>1. IndexTyped /\ \A n \in Message : text'[n] = IF n = m THEN k ELSE text[n]
  BY DEF EmbeddingInv, IndexTyped, Arrive
<1>2. /\ fresh' \subseteq fresh /\ unseen' \subseteq fresh'
      /\ fresh \ fresh' \subseteq {m} \cap unseen
      /\ m \in fresh' => m \in unseen'
      /\ \A n \in fresh' \ unseen' : n \notin unseen
  BY <1>0 DEF Touch
<1>3. m \in fresh => text[m] = "gone"
  BY <1>0, <1>1 DEF EmbeddingInv, InOrder, Live, IndexTyped
<1>4. text' \in [Message -> Kind \cup {"absent", "gone"}]
  BY <1>1 DEF Arrive, IndexTyped
<1>5. IndexTyped'
  BY <1>0, <1>1, <1>2, <1>4 DEF IndexTyped
<1>6. OthersTyped' /\ OneEach'
  BY <1>0 DEF EmbeddingInv, OthersTyped, OneEach
<1>7. InOrder'
  <2>1. ASSUME NEW n \in Message, n < m PROVE text[n] # "absent"
    <3>1. m - 1 \in Message /\ (n = m - 1 \/ n < m - 1)
      BY <2>1, EmbeddingAssumption DEF Message
    <3>2. text[m - 1] # "absent"
      BY <1>0, <3>1, EmbeddingAssumption DEF Message, Live, Kind
    <3> QED
      BY <3>1, <3>2 DEF EmbeddingInv, InOrder
  <2>2. \A n \in Message : text'[n] = "absent" => text[n] = "absent" /\ n # m
    BY <1>1 DEF Kind
  <2>3. \A a, b \in Message : text'[a] = "absent" /\ a < b => text'[b] = "absent"
    BY <1>1, <2>1, <2>2 DEF EmbeddingInv, InOrder
  <2>4. \A n \in Message : ~Live(n)' => stamp'[n] = 0
    BY <1>0, <1>1 DEF EmbeddingInv, InOrder, Live
  <2>5. \A n \in fresh' : text'[n] # "absent"
    BY <1>1, <1>2, <2>2 DEF EmbeddingInv, InOrder, IndexTyped
  <2> QED
    BY <2>3, <2>4, <2>5 DEF InOrder
<1>8. Covered'
  BY <1>0, <1>1 DEF EmbeddingInv, Covered, InOrder, Live
<1>9. \A n \in Message : Keeps(n)
  BY <1>0, <1>1 DEF Keeps, Settled, Live, Kind, IndexTyped
<1>10. WatermarksBehind'
  BY <1>0, <1>9, WatermarksKeep
<1>11. \A n \in fresh \ fresh' : Settled(n)'
  BY <1>0, <1>2, <1>3 DEF Settled
<1>12. JobTyped' /\ InHand' /\ CursorsBehind' /\ BatchBehind'
  <2>1. \A n \in fresh' \ unseen' : n \in Message \ {m} /\ n \notin unseen
    BY <1>1, <1>2 DEF IndexTyped
  <2> QED
    BY <1>0, <1>1, <1>2, <1>9, <1>11, <2>1, RowsMove
<1> QED
  BY <1>5, <1>6, <1>7, <1>8, <1>10, <1>12 DEF EmbeddingInv

\* What any change of a stored row keeps.
LEMMA RowChangesKeeps ==
  ASSUME EmbeddingInv, NEW m \in Message, NEW rewritten \in SUBSET {m},
         RowChanges(m, rewritten),
         text' \in [Message -> Kind \cup {"absent", "gone"}],
         stamp' \in [Message -> Gen \cup {0}],
         vector' \in [Gen -> [Message -> {"none", "current", "stale"}]],
         \A n \in Message \ {m} : text'[n] = text[n] /\ stamp'[n] = stamp[n],
         \A g \in Gen, n \in Message \ {m} : vector'[g][n] = vector[g][n],
         text'[m] \in Kind,
         m \in rewritten \/ (text' = text /\ vector' = vector)
  PROVE  /\ IndexTyped' /\ OneEach' /\ InOrder'
         /\ JobTyped' /\ InHand' /\ CursorsBehind' /\ BatchBehind'
         /\ WatermarksBehind' /\ changed' \subseteq Message
         /\ lies' \subseteq Message /\ command' = command
         /\ m # storing /\ \A n \in lies : n \in lies' \/ stamp'[n] = 0
<1>1. /\ Live(m) /\ m # storing /\ Touch({m}, rewritten)
      /\ changed' = IF stamp'[m] = 0 THEN changed \cup {m} ELSE changed
      /\ lies' = {n \in lies : stamp'[n] # 0}
      /\ UNCHANGED <<state, watermark, job, command>>
  BY DEF RowChanges
<1>2. /\ fresh' \subseteq fresh /\ unseen' \subseteq fresh'
      /\ fresh \ fresh' \subseteq {m}
      /\ \A n \in fresh' \ unseen' : n \notin unseen /\ n \notin rewritten
  BY <1>1 DEF Touch
<1>3. /\ IndexTyped' /\ OneEach'
      /\ changed' \subseteq Message /\ lies' \subseteq Message
  BY <1>1, <1>2 DEF EmbeddingInv, IndexTyped, OneEach, OthersTyped
<1>4. InOrder'
  <2>1. text[m] # "absent" /\ text'[m] # "absent"
    BY <1>1 DEF Live, Kind
  <2>2. \A n \in Message : text'[n] = "absent" <=> text[n] = "absent"
    BY <2>1
  <2>3. \A n \in Message : ~Live(n)' => ~Live(n) /\ stamp'[n] = stamp[n]
    BY DEF Live
  <2>4. fresh \subseteq Message /\ InOrder
    BY DEF EmbeddingInv, IndexTyped
  <2> QED
    BY <1>2, <2>2, <2>3, <2>4 DEF InOrder
<1>5. Settled(m)'
  BY <1>1 DEF Settled
<1>6. \A n \in Message : Keeps(n)
  <2>1. \A n \in Message \ {m} : Keeps(n)
    BY <1>1 DEF Keeps, Settled, Live
  <2>2. text'[m] # "absent"
    BY DEF Kind
  <2> QED
    BY <1>5, <2>1, <2>2 DEF Keeps
<1>7. WatermarksBehind'
  BY <1>1, <1>6, WatermarksKeep
<1>8. JobTyped' /\ InHand' /\ CursorsBehind' /\ BatchBehind'
  <2>1. \A n \in fresh \ fresh' : Settled(n)'
    BY <1>2, <1>5
  <2>2. ASSUME NEW n \in fresh' \ unseen'
        PROVE  /\ n \notin unseen /\ text'[n] = text[n]
               /\ \A g \in Gen : vector'[g][n] = vector[g][n]
    <3>1. n \in Message
      BY <1>2 DEF EmbeddingInv, IndexTyped
    <3> QED
      BY <1>2, <3>1
  <2> QED
    BY <1>1, <1>2, <1>6, <2>1, <2>2, RowsMove
<1> QED
  BY <1>1, <1>3, <1>4, <1>7, <1>8

LEMMA OutdatedTyped ==
  ASSUME IndexTyped, NEW m \in Message
  PROVE  /\ Outdated(m) \in [Gen -> [Message -> {"none", "current", "stale"}]]
         /\ \A g \in Gen, n \in Message \ {m} : Outdated(m)[g][n] = vector[g][n]
BY DEF Outdated, IndexTyped

LEMMA UpsertMessageKeeps ==
  ASSUME EmbeddingInv, NEW m \in Message, NEW k \in Kind, NEW same \in BOOLEAN,
         UpsertMessage(m, k, same)
  PROVE  EmbeddingInv'
<1> DEFINE rewritten == IF same THEN {} ELSE {m}
<1>1. /\ text' = IF same THEN text ELSE [text EXCEPT ![m] = k]
      /\ stamp' = IF same THEN stamp ELSE [stamp EXCEPT ![m] = 0]
      /\ vector' = IF same THEN vector ELSE Outdated(m)
      /\ RowChanges(m, rewritten) /\ UNCHANGED <<storing, repair>> /\ IndexTyped
      /\ Live(m)
  BY DEF UpsertMessage, EmbeddingInv, IndexTyped, RowChanges
<1>2. /\ text' \in [Message -> Kind \cup {"absent", "gone"}]
      /\ stamp' \in [Message -> Gen \cup {0}]
      /\ \A n \in Message \ {m} : text'[n] = text[n] /\ stamp'[n] = stamp[n]
      /\ text'[m] \in Kind
      /\ same \/ stamp'[m] = 0
  BY <1>1 DEF IndexTyped, Live
<1>3. /\ vector' \in [Gen -> [Message -> {"none", "current", "stale"}]]
      /\ \A g \in Gen, n \in Message \ {m} : vector'[g][n] = vector[g][n]
  BY <1>1, OutdatedTyped DEF IndexTyped
<1>4. rewritten \in SUBSET {m} /\ (m \in rewritten \/ (text' = text /\ vector' = vector))
  BY <1>1
<1> HIDE DEF rewritten
<1>5. /\ IndexTyped' /\ OneEach' /\ InOrder'
      /\ JobTyped' /\ InHand' /\ CursorsBehind' /\ BatchBehind'
      /\ WatermarksBehind' /\ changed' \subseteq Message
      /\ lies' \subseteq Message /\ command' = command
      /\ \A n \in lies : n \in lies' \/ stamp'[n] = 0
  BY <1>1, <1>2, <1>3, <1>4, RowChangesKeeps
<1>6. Covered'
  BY <1>1, <1>2, <1>3, <1>5 DEF EmbeddingInv, Covered, Live, IndexTyped
<1>7. OthersTyped'
  BY <1>1, <1>5 DEF EmbeddingInv, OthersTyped
<1> QED
  BY <1>5, <1>6, <1>7 DEF EmbeddingInv

\* The row is excused until its stamp is cleared.
LEMMA UpsertMessageBodyKeeps ==
  ASSUME EmbeddingInv, NEW m \in Message, NEW k \in Kind, UpsertMessageBody(m, k)
  PROVE  EmbeddingInv'
<1>1. /\ text' = [text EXCEPT ![m] = k] /\ stamp' = stamp
      /\ vector' = Outdated(m) /\ storing = 0 /\ storing' = m
      /\ RowChanges(m, {m}) /\ UNCHANGED repair /\ IndexTyped
  BY DEF UpsertMessageBody, EmbeddingInv
<1>2. /\ text' \in [Message -> Kind \cup {"absent", "gone"}]
      /\ stamp' \in [Message -> Gen \cup {0}]
      /\ \A n \in Message \ {m} : text'[n] = text[n] /\ stamp'[n] = stamp[n]
      /\ text'[m] \in Kind
  BY <1>1 DEF IndexTyped
<1>3. /\ vector' \in [Gen -> [Message -> {"none", "current", "stale"}]]
      /\ \A g \in Gen, n \in Message \ {m} : vector'[g][n] = vector[g][n]
  BY <1>1, OutdatedTyped
<1>4. /\ IndexTyped' /\ OneEach' /\ InOrder'
      /\ JobTyped' /\ InHand' /\ CursorsBehind' /\ BatchBehind'
      /\ WatermarksBehind' /\ changed' \subseteq Message
      /\ lies' \subseteq Message /\ command' = command
      /\ \A n \in lies : n \in lies' \/ stamp'[n] = 0
  BY <1>1, <1>2, <1>3, RowChangesKeeps
<1>5. Covered'
  <2> SUFFICES ASSUME NEW n \in Message \ {m}, Live(n), stamp[n] # 0, n \notin lies,
                      ~(repair.pc = "texts" /\ n \in repair.ids)
               PROVE  vector[stamp[n]][n] = IF text[n] = "plain" THEN "current"
                                                                ELSE "none"
    BY <1>1, <1>2, <1>3, <1>4 DEF Covered, Live, IndexTyped
  <2>1. n # storing
    BY <1>1, EmbeddingAssumption DEF Message
  <2> QED
    BY <2>1 DEF EmbeddingInv, Covered
<1>6. OthersTyped'
  BY <1>1, <1>4 DEF EmbeddingInv, OthersTyped
<1> QED
  BY <1>4, <1>5, <1>6 DEF EmbeddingInv

LEMMA ClearStampKeeps ==
  ASSUME EmbeddingInv, ClearStamp
  PROVE  EmbeddingInv'
<1>1. /\ storing # 0 /\ storing' = 0
      /\ stamp' = [stamp EXCEPT ![storing] = 0]
      /\ Touch(IF stamp[storing] = 0 THEN {} ELSE {storing}, {})
      /\ changed' = changed \cup {storing} /\ lies' = lies \ {storing}
      /\ UNCHANGED <<text, state, vector, watermark, job, repair, command>>
      /\ IndexTyped /\ storing \in Message /\ 0 \notin Message
  BY EmbeddingAssumption DEF ClearStamp, index, EmbeddingInv, OthersTyped, Message
<1>2. \A n \in Message : stamp'[n] = IF n = storing THEN 0 ELSE stamp[n]
  BY <1>1 DEF IndexTyped
<1>3. /\ fresh' \subseteq fresh /\ unseen' \subseteq fresh'
      /\ fresh \ fresh' \subseteq {storing}
      /\ \A n \in fresh' \ unseen' : n \notin unseen
  BY <1>1 DEF Touch
<1>4. IndexTyped' /\ OneEach' /\ OthersTyped'
  BY <1>1, <1>3 DEF EmbeddingInv, IndexTyped, OneEach, OthersTyped
<1>5. InOrder'
  BY <1>1, <1>2, <1>3 DEF EmbeddingInv, InOrder, Live
<1>6. Covered'
  BY <1>1, <1>2 DEF EmbeddingInv, Covered, Live
<1>7. \A n \in Message : n = storing => Settled(n)'
  BY <1>1 DEF Settled
<1>8. \A n \in Message : Keeps(n)
  BY <1>1, <1>2 DEF Keeps, Settled, Live
<1>9. WatermarksBehind'
  BY <1>1, <1>8, WatermarksKeep
<1>10. JobTyped' /\ InHand' /\ CursorsBehind' /\ BatchBehind'
  BY <1>1, <1>3, <1>7, <1>8, RowsMove
<1> QED
  BY <1>4, <1>5, <1>6, <1>9, <1>10 DEF EmbeddingInv

LEMMA ClearStampFailsKeeps ==
  ASSUME EmbeddingInv, ClearStampFails
  PROVE  EmbeddingInv'
<1>1. /\ storing' = 0 /\ storing \in Message
      /\ lies' = IF stamp[storing] = 0 THEN lies ELSE lies \cup {storing}
      /\ UNCHANGED <<text, stamp, state, vector, watermark, job, fresh, unseen,
                     repair, command, changed>>
  BY DEF ClearStampFails, rows, index, work, held, EmbeddingInv, OthersTyped
<1>2. IndexTyped' /\ OneEach' /\ OthersTyped' /\ InOrder'
  BY <1>1 DEF EmbeddingInv, IndexTyped, OneEach, OthersTyped, InOrder, Live
<1>3. Covered'
  BY <1>1 DEF EmbeddingInv, Covered, Live
<1>4. \A n \in Message : Keeps(n)
  BY <1>1 DEF Keeps, Settled, Live
<1>5. WatermarksBehind'
  BY <1>1, <1>4, WatermarksKeep
<1>6. JobTyped' /\ InHand' /\ CursorsBehind' /\ BatchBehind'
  BY <1>1, <1>4, RowsMove
<1> QED
  BY <1>2, <1>3, <1>5, <1>6 DEF EmbeddingInv

\* A row that is gone counts as settled, whatever it leaves in the index.
LEMMA RemoveMessageKeeps ==
  ASSUME EmbeddingInv, NEW m \in Message, RemoveMessage(m)
  PROVE  EmbeddingInv'
<1>1. /\ text' = [text EXCEPT ![m] = "gone"] /\ stamp' = [stamp EXCEPT ![m] = 0]
      /\ vector' = Outdated(m) /\ Live(m)
      /\ unseen' = (unseen \cup {m}) \cap fresh
      /\ changed' = changed \ {m} /\ lies' = lies \ {m}
      /\ UNCHANGED <<state, watermark, job, fresh, storing, repair, command>>
      /\ IndexTyped
  BY DEF RemoveMessage, EmbeddingInv
<1>2. \A n \in Message : /\ text'[n] = IF n = m THEN "gone" ELSE text[n]
                         /\ stamp'[n] = IF n = m THEN 0 ELSE stamp[n]
  BY <1>1 DEF IndexTyped
<1>3. /\ vector' \in [Gen -> [Message -> {"none", "current", "stale"}]]
      /\ \A g \in Gen, n \in Message \ {m} : vector'[g][n] = vector[g][n]
  BY <1>1, OutdatedTyped
<1>4. IndexTyped' /\ OneEach' /\ OthersTyped'
  BY <1>1, <1>3 DEF EmbeddingInv, IndexTyped, OneEach, OthersTyped
<1>5. InOrder'
  <2>1. \A n \in Message : text'[n] = "absent" <=> text[n] = "absent"
    BY <1>1, <1>2 DEF Live, Kind
  <2> QED
    BY <1>1, <1>2, <2>1 DEF EmbeddingInv, InOrder, Live, IndexTyped
<1>6. Covered'
  BY <1>1, <1>2, <1>3 DEF EmbeddingInv, Covered, Live, IndexTyped
<1>7. \A n \in Message : Keeps(n)
  BY <1>1, <1>2 DEF Keeps, Settled, Live, Kind
<1>8. WatermarksBehind'
  BY <1>1, <1>7, WatermarksKeep
<1>9. JobTyped' /\ InHand' /\ CursorsBehind' /\ BatchBehind'
  <2>1. \A n \in fresh' \ unseen' : n \in Message \ {m} /\ n \notin unseen
    BY <1>1 DEF IndexTyped
  <2> QED
    BY <1>1, <1>2, <1>3, <1>7, <2>1, RowsMove
<1> QED
  BY <1>4, <1>5, <1>6, <1>8, <1>9 DEF EmbeddingInv

\* The row is excused until its stamp is reset.
LEMMA RepairTextKeeps ==
  ASSUME EmbeddingInv, NEW m \in Message, RepairText(m)
  PROVE  EmbeddingInv'
<1>1. /\ text' = [text EXCEPT ![m] = "plain"] /\ stamp' = stamp
      /\ vector' = Outdated(m) /\ storing' = storing
      /\ RowChanges(m, {m}) /\ IndexTyped
      /\ repair' = [pc |-> "texts", ids |-> repair.ids \cup {m}]
      /\ repair.pc = "texts" \/ repair.pc = "off"
  BY DEF RepairText, EmbeddingInv
<1>2. /\ text' \in [Message -> Kind \cup {"absent", "gone"}]
      /\ stamp' \in [Message -> Gen \cup {0}]
      /\ \A n \in Message \ {m} : text'[n] = text[n] /\ stamp'[n] = stamp[n]
      /\ text'[m] \in Kind
  BY <1>1 DEF IndexTyped, Kind
<1>3. /\ vector' \in [Gen -> [Message -> {"none", "current", "stale"}]]
      /\ \A g \in Gen, n \in Message \ {m} : vector'[g][n] = vector[g][n]
  BY <1>1, OutdatedTyped
<1>4. /\ IndexTyped' /\ OneEach' /\ InOrder'
      /\ JobTyped' /\ InHand' /\ CursorsBehind' /\ BatchBehind'
      /\ WatermarksBehind' /\ changed' \subseteq Message
      /\ lies' \subseteq Message /\ command' = command
      /\ \A n \in lies : n \in lies' \/ stamp'[n] = 0
  BY <1>1, <1>2, <1>3, RowChangesKeeps
<1>5. Covered'
  <2>1. \A n \in Message : ~(repair'.pc = "texts" /\ n \in repair'.ids) =>
          n # m /\ n \notin repair.ids
    BY <1>1
  <2> QED
    BY <1>1, <1>2, <1>3, <1>4, <2>1 DEF EmbeddingInv, Covered, Live, IndexTyped
<1>6. OthersTyped'
  BY <1>1, <1>4 DEF EmbeddingInv, OthersTyped
<1> QED
  BY <1>4, <1>5, <1>6 DEF EmbeddingInv

LEMMA ResetEmbedGenKeeps ==
  ASSUME EmbeddingInv, ResetEmbedGen
  PROVE  EmbeddingInv'
<1>1. /\ repair.ids \subseteq Message /\ repair.pc = "texts"
      /\ repair'.ids = repair.ids /\ repair'.pc = "lower" /\ IndexTyped
      /\ repair' \in [pc : {"off", "texts", "lower"}, ids : SUBSET Message]
      /\ stamp' = [m \in Message |-> IF m \in repair.ids THEN 0 ELSE stamp[m]]
      /\ Touch({m \in repair.ids : Live(m)}, {})
      /\ changed' = changed \cup {m \in repair.ids : Live(m)}
      /\ lies' = lies \ repair.ids
      /\ UNCHANGED <<text, state, vector, watermark, job, storing, command>>
  BY DEF ResetEmbedGen, index, EmbeddingInv, OthersTyped
<1>2. \A n \in Message : stamp'[n] = IF n \in repair.ids THEN 0 ELSE stamp[n]
  BY <1>1
<1>3. /\ fresh' \subseteq fresh /\ unseen' \subseteq fresh'
      /\ fresh \ fresh' \subseteq repair.ids
      /\ \A n \in fresh' \ unseen' : n \notin unseen
  BY <1>1 DEF Touch
<1>4. IndexTyped' /\ OneEach'
  BY <1>1, <1>3 DEF IndexTyped, EmbeddingInv, OneEach
<1>5. OthersTyped'
  BY <1>1 DEF EmbeddingInv, OthersTyped
<1>6. InOrder'
  BY <1>1, <1>2, <1>3 DEF EmbeddingInv, InOrder, Live
<1>7. Covered'
  BY <1>1, <1>2 DEF EmbeddingInv, Covered, Live, IndexTyped
<1>8. \A n \in repair.ids : Settled(n)'
  BY <1>1 DEF Settled, Live
<1>9. \A n \in Message : Keeps(n)
  BY <1>1, <1>2, <1>8 DEF Keeps, Settled, Live
<1>10. WatermarksBehind'
  BY <1>1, <1>9, WatermarksKeep
<1>11. JobTyped' /\ InHand' /\ CursorsBehind' /\ BatchBehind'
  BY <1>1, <1>3, <1>8, <1>9, RowsMove
<1> QED
  BY <1>4, <1>5, <1>6, <1>7, <1>10, <1>11 DEF EmbeddingInv

LEMMA ResetWatermarkBelowKeeps ==
  ASSUME EmbeddingInv, ResetWatermarkBelow
  PROVE  EmbeddingInv'
<1> USE DEF ResetWatermarkBelow, rows, work, held, history
<1> DEFINE floor == Min(repair.ids) - 1
<1>0. repair.ids \subseteq Message /\ repair.ids # {} /\ IndexTyped
  BY DEF EmbeddingInv, OthersTyped
<1>1. Min(repair.ids) \in Message
  BY <1>0, MinLemma DEF Message
<1>2. floor \in Message \cup {0}
  BY <1>1, EmbeddingAssumption DEF Message
<1>3. \A g \in Gen : watermark'[g] \in Message \cup {0} /\ watermark'[g] <= watermark[g]
  <2> TAKE g \in Gen
  <2>1. watermark[g] \in Message \cup {0}
    BY <1>0 DEF IndexTyped
  <2>2. {watermark[g], floor} \in SUBSET Nat
    BY <1>2, <2>1 DEF Message
  <2>3. LET w == Min({watermark[g], floor})
        IN w \in {watermark[g], floor} /\ w <= watermark[g]
    BY <2>2, MinLemma
  <2>4. watermark'[g] = Min({watermark[g], floor})
    OBVIOUS
  <2> HIDE DEF floor
  <2> QED
    BY <1>2, <2>1, <2>3, <2>4
<1>4. IndexTyped'
  <2>1. watermark' \in [Gen -> Message \cup {0}]
    BY <1>3
  <2> QED
    BY <1>0, <2>1 DEF IndexTyped
<1>5. OthersTyped' /\ OneEach' /\ InOrder'
  BY DEF EmbeddingInv, OthersTyped, OneEach, InOrder, Live, NoRepair
<1>6. Covered'
  <2>1. repair.pc = "lower"
    OBVIOUS
  <2> QED
    BY <2>1 DEF EmbeddingInv, Covered, Live
<1>7. \A n \in Message : Keeps(n)
  BY DEF Keeps, Settled, Live
<1>8. WatermarksBehind'
  <2> SUFFICES ASSUME NEW g \in Gen, NEW m \in Message, m <= watermark'[g]
               PROVE  text'[m] # "absent" /\ Settled(m)'
    BY DEF WatermarksBehind, Passed
  <2>1. m <= watermark[g]
    BY <1>0, <1>3 DEF Message, IndexTyped
  <2> QED
    BY <1>7, <2>1, PassedStays DEF EmbeddingInv, WatermarksBehind
<1>9. JobTyped' /\ InHand' /\ CursorsBehind' /\ BatchBehind'
  BY <1>7, RowsMove
<1> QED
  BY <1>4, <1>5, <1>6, <1>8, <1>9 DEF EmbeddingInv

-----------------------------------------------------------------------------
(* Generations, and jobs that begin and end.                               *)

\* A step that touches no message and no batch.
LEMMA QuietKeeps ==
  ASSUME EmbeddingInv,
         UNCHANGED <<text, stamp, vector, watermark, fresh, unseen, storing, repair,
                     changed, lies>>,
         state' \in [Gen -> {"none", "building", "active", "retired"}],
         OneEach',
         command' \in [kind : {"none", "retire", "activate"}, gen : Gen \cup {0},
                       force : BOOLEAN],
         command'.kind # "none" => command'.gen \in Gen,
         \/ job' = job
         \/ /\ Between(job') /\ job'.safe \in {0, job.safe}
            /\ job'.after \in {0, job.after} \/ \E g \in Gen : job'.after = watermark[g]
  PROVE  EmbeddingInv'
<1>1. IndexTyped' /\ OthersTyped' /\ InOrder' /\ Covered'
  BY DEF EmbeddingInv, IndexTyped, OthersTyped, InOrder, Covered, Live
<1>2. \A n \in Message : Keeps(n)
  BY DEF Keeps, Settled, Live
<1>3. WatermarksBehind'
  BY <1>2, WatermarksKeep
<1>4. JobTyped' /\ InHand' /\ CursorsBehind' /\ BatchBehind'
  <2>1. CASE job' = job
    BY <1>2, <2>1, RowsMove
  <2>2. CASE /\ Between(job') /\ job'.safe \in {0, job.safe}
             /\ job'.after \in {0, job.after} \/ \E g \in Gen : job'.after = watermark[g]
    <3>1. \A g \in Gen : watermark[g] \in Nat /\ Passed(watermark[g])
      BY DEF EmbeddingInv, IndexTyped, Message, WatermarksBehind
    <3>0. /\ job.after \in Nat /\ Passed(job.after)
          /\ job.safe \in Nat /\ Passed(job.safe)
      BY DEF EmbeddingInv, JobTyped, Job, Message, CursorsBehind
    <3>2. job'.after \in Nat /\ job'.safe \in Nat
      BY <2>2, <3>0, <3>1
    <3>3. \E x \in Nat : job'.after <= x /\ Passed(x)
      BY <2>2, <3>0, <3>1, PassedNothing
    <3>4. \E x \in Nat : job'.safe <= x /\ Passed(x)
      BY <2>2, <3>0, PassedNothing
    <3> QED
      BY <1>2, <2>2, <3>2, <3>3, <3>4, BetweenKeeps
  <2> QED
    BY <2>1, <2>2
<1> QED
  BY <1>1, <1>3, <1>4 DEF EmbeddingInv

\* At most one generation serves after a promotion, and one is built.
LEMMA PromotedIsOne ==
  ASSUME IndexTyped, OneEach, NEW g \in Gen
  PROVE  /\ Promoted(g) \in [Gen -> {"none", "building", "active", "retired"}]
         /\ \A h, i \in Gen : Promoted(g)[h] = Promoted(g)[i]
              /\ Promoted(g)[h] \in {"building", "active"} => h = i
         /\ \A h \in Gen : state[h] = "active" /\ Promoted(g)[h] = "retired"
              => Promoted(g)[g] = "active"
BY DEF Promoted, IndexTyped, OneEach

LEMMA EmbeddingsCommandKeeps ==
  ASSUME EmbeddingInv, NEW kind \in {"retire", "activate"}, NEW g \in Gen,
         NEW force \in BOOLEAN, EmbeddingsCommand(kind, g, force)
  PROVE  EmbeddingInv'
<1> USE DEF EmbeddingsCommand, rows, index, work, held, history
<1>1. OneEach' /\ state' \in [Gen -> {"none", "building", "active", "retired"}]
  BY DEF EmbeddingInv, OneEach, IndexTyped
<1> QED
  BY <1>1, QuietKeeps

LEMMA ActivateGenerationKeeps ==
  ASSUME EmbeddingInv, ActivateGeneration
  PROVE  EmbeddingInv'
<1> USE DEF ActivateGeneration, rows, work, held, history
<1>1. command.gen \in Gen /\ IndexTyped /\ OneEach
  BY DEF EmbeddingInv, OthersTyped
<1>2. OneEach' /\ state' \in [Gen -> {"none", "building", "active", "retired"}]
  BY <1>1, PromotedIsOne DEF OneEach
<1> QED
  BY <1>2, QuietKeeps DEF NoCommand

LEMMA RetireGenerationKeeps ==
  ASSUME EmbeddingInv, RetireGeneration
  PROVE  EmbeddingInv'
<1> USE DEF RetireGeneration, rows, work, held, history
<1>1. command.gen \in Gen /\ IndexTyped /\ OneEach
  BY DEF EmbeddingInv, OthersTyped
<1>2. OneEach' /\ state' \in [Gen -> {"none", "building", "active", "retired"}]
  BY <1>1 DEF OneEach, IndexTyped
<1> QED
  BY <1>2, QuietKeeps DEF NoCommand

\* A step that leaves the operator's command and the generations alone.
LEMMA SameCommand ==
  ASSUME EmbeddingInv, UNCHANGED <<state, command>>
  PROVE  /\ state' \in [Gen -> {"none", "building", "active", "retired"}]
         /\ OneEach'
         /\ command' \in [kind : {"none", "retire", "activate"},
                          gen : Gen \cup {0}, force : BOOLEAN]
         /\ command'.kind # "none" => command'.gen \in Gen
BY DEF EmbeddingInv, OneEach, IndexTyped, OthersTyped

LEMMA BackstopDueKeeps ==
  ASSUME EmbeddingInv, NEW g \in Gen, BackstopDue(g)
  PROVE  EmbeddingInv'
BY SameCommand, QuietKeeps DEF BackstopDue, rows, index, held, history

LEMMA CountMissingKeeps ==
  ASSUME EmbeddingInv, CountMissing
  PROVE  EmbeddingInv'
<1> USE DEF CountMissing, rows, index, held, history
<1>1. job \in Job /\ job.gen \in Gen /\ job.left \cup job.skip \cup job.drops \subseteq job.ids
  BY DEF EmbeddingInv, JobTyped
<1>2. job.ids = {}
  BY DEF EmbeddingInv, JobTyped, Batching
<1>3. CASE job' = NoJob
  BY <1>3, NoJobIsBetween, SameCommand, QuietKeeps
<1>4. CASE job' = [job EXCEPT !.pc = "promote"]
  <2>1. Between(job') /\ job'.after = job.after /\ job'.safe = job.safe
    BY <1>1, <1>2, <1>4 DEF Between, Job, Stage, Batching
  <2> QED
    BY <1>1, <1>4, <2>1, SameCommand, QuietKeeps
<1> QED
  BY <1>3, <1>4

LEMMA PromoteBuiltKeeps ==
  ASSUME EmbeddingInv, PromoteBuilt
  PROVE  EmbeddingInv'
<1> USE DEF PromoteBuilt, rows, held, history
<1>1. job.gen \in Gen /\ IndexTyped /\ OneEach
  BY DEF EmbeddingInv, JobTyped
<1>2. OneEach' /\ state' \in [Gen -> {"none", "building", "active", "retired"}]
  BY <1>1, PromotedIsOne DEF OneEach
<1>3. /\ command' \in [kind : {"none", "retire", "activate"}, gen : Gen \cup {0},
                       force : BOOLEAN]
      /\ command'.kind # "none" => command'.gen \in Gen
  BY DEF EmbeddingInv, OthersTyped
<1> QED
  BY <1>2, <1>3, NoJobIsBetween, QuietKeeps

LEMMA EmbedJobRunKeeps ==
  ASSUME EmbeddingInv, EmbedJobRun
  PROVE  EmbeddingInv'
<1> USE DEF EmbedJobRun, rows, index, held, history
<1>1. Target \in Gen /\ (state[Target] = "building") \in BOOLEAN /\ IndexTyped
  BY TargetIsGen DEF EmbeddingInv
<1>2. /\ Between(job') /\ job'.safe = 0
      /\ job'.after \in {0, watermark[Target]}
  BY <1>1, RunningIsBetween
<1> QED
  BY <1>1, <1>2, SameCommand, QuietKeeps

LEMMA BuildCommandKeeps ==
  ASSUME EmbeddingInv, NEW full \in BOOLEAN, NEW mode \in {"once", "backstop"},
         BuildCommand(full, mode)
  PROVE  EmbeddingInv'
<1> DEFINE new == full /\ InState("building") = {}
           g == IF new THEN Min(InState("none")) ELSE Target
<1>0. /\ IF new THEN InState("none") # {} ELSE Target # 0
      /\ state' = IF new THEN [state EXCEPT ![g] = "building"] ELSE state
      /\ job' = Running(g, "cli", mode, state'[g] = "building")
      /\ UNCHANGED <<text, stamp, vector, watermark, fresh, unseen, storing, repair,
                     changed, lies, command>>
  BY DEF BuildCommand, rows, held, history
<1>1. g \in Gen
  <2>1. InState("none") \in SUBSET Nat /\ InState("none") \subseteq Gen
    BY DEF InState, Gen
  <2> QED
    BY <1>0, <2>1, MinLemma, TargetIsGen
<1> HIDE DEF g
<1>2. IndexTyped /\ OneEach /\ (state'[g] = "building") \in BOOLEAN
  BY DEF EmbeddingInv
<1>3. Between(job') /\ job'.safe = 0 /\ job'.after \in {0, watermark[g]}
  BY <1>0, <1>1, <1>2, RunningIsBetween
<1>4. state' \in [Gen -> {"none", "building", "active", "retired"}]
  BY <1>0, <1>1, <1>2 DEF IndexTyped
<1>5. OneEach'
  BY <1>0, <1>1, <1>2 DEF OneEach, IndexTyped, InState
<1>6. /\ command' \in [kind : {"none", "retire", "activate"}, gen : Gen \cup {0},
                       force : BOOLEAN]
      /\ command'.kind # "none" => command'.gen \in Gen
  BY <1>0 DEF EmbeddingInv, OthersTyped
<1> QED
  BY <1>0, <1>1, <1>3, <1>4, <1>5, <1>6, QuietKeeps

-----------------------------------------------------------------------------
(* The worker: what its steps are made of.                                 *)

LEMMA CursorsStay ==
  ASSUME EmbeddingInv, \A m \in Message : Keeps(m),
         job'.after = job.after, job'.safe \in {0, job.safe}
  PROVE  CursorsBehind'
<1>1. Passed(job.after) /\ Passed(job'.safe)
  BY PassedNothing DEF EmbeddingInv, CursorsBehind
<1>2. \A m \in Message : m <= job'.after => text'[m] # "absent" /\ Settled(m)'
  BY <1>1, PassedStays
<1>3. \A m \in Message : m <= job'.safe => text'[m] # "absent" /\ Settled(m)'
  BY <1>1, PassedStays
<1> QED
  BY <1>2, <1>3 DEF CursorsBehind, Passed

\* A batch that ends early leaves its cursors where they may stand.
LEMMA EndingKeeps ==
  ASSUME EmbeddingInv, BatchFrame, vector' = vector,
         WatermarksBehind', watermark' \in [Gen -> Message \cup {0}],
         Between(job'), LetGo,
         job'.after \in {0, job.after, job.safe}, job'.safe \in {0, job.safe}
  PROVE  EmbeddingInv'
<1>1. IndexTyped' /\ Covered'
  BY DEF EmbeddingInv, BatchFrame, BatchLeaves, history, LetGo, IndexTyped, Covered,
     Live
<1>2. /\ OthersTyped' /\ OneEach' /\ InOrder'
      /\ \A m \in Message : Keeps(m)
  BY BatchFrameKeeps DEF LetGo
<1>3. JobTyped' /\ InHand' /\ CursorsBehind' /\ BatchBehind'
  <2>1. /\ job.after \in Nat /\ Passed(job.after)
        /\ job.safe \in Nat /\ Passed(job.safe)
    BY DEF EmbeddingInv, JobTyped, Job, Message, CursorsBehind
  <2>2. job'.after \in Nat /\ job'.safe \in Nat
    BY <2>1
  <2>3. \E x \in Nat : job'.after <= x /\ Passed(x)
    BY <2>1, PassedNothing
  <2>4. \E x \in Nat : job'.safe <= x /\ Passed(x)
    BY <2>1, PassedNothing
  <2> QED
    BY <1>2, <2>2, <2>3, <2>4, BetweenKeeps
<1> QED
  BY <1>1, <1>2, <1>3 DEF EmbeddingInv

LEMMA AdvanceSafelyKeeps ==
  ASSUME EmbeddingInv, \A m \in Message : Keeps(m), AdvanceSafely,
         job.gen \in Gen
  PROVE  WatermarksBehind' /\ watermark' \in [Gen -> Message \cup {0}]
<1>1. CASE UNCHANGED watermark
  BY <1>1, WatermarksKeep DEF EmbeddingInv, IndexTyped
<1>2. CASE SetWatermark(job.safe)
  <2>1. job.safe \in Message \cup {0}
    BY DEF EmbeddingInv, JobTyped, Job
  <2>2. \A m \in Message : m <= job.safe => text'[m] # "absent" /\ Settled(m)'
    BY PassedStays DEF EmbeddingInv, CursorsBehind
  <2> QED
    BY <1>2, <2>1, <2>2, WatermarkSet
<1> QED
  BY <1>1, <1>2 DEF AdvanceSafely

\* Vectors of the present text make no stamp lie.
LEMMA VectorisedKeeps ==
  ASSUME EmbeddingInv, BatchFrame, NEW ids \in SUBSET Message,
         \A m \in ids : text[m] = "plain", vector' = Vectorised(ids),
         job.gen \in Gen
  PROVE  /\ vector' \in [Gen -> [Message -> {"none", "current", "stale"}]]
         /\ Covered'
         /\ \A m \in Message : m \in ids \/ vector[job.gen][m] = "current"
                                  => vector'[job.gen][m] = "current"
<1>1. IndexTyped
  BY DEF EmbeddingInv
<1>2. \A g \in Gen, m \in Message :
        vector'[g][m] = IF g = job.gen /\ m \in ids THEN "current" ELSE vector[g][m]
  BY <1>1 DEF Vectorised, IndexTyped
<1>3. vector' \in [Gen -> [Message -> {"none", "current", "stale"}]]
  BY <1>1 DEF Vectorised, IndexTyped
<1>4. Covered'
  BY <1>1, <1>2 DEF EmbeddingInv, BatchFrame, BatchLeaves, history, Covered,
     Live, IndexTyped
<1> QED
  BY <1>2, <1>3, <1>4

\* Stamping rows without text: only those that are as they were read, which
\* have no text.
LEMMA StampSkippedKeeps ==
  ASSUME EmbeddingInv, BatchLeaves, NEW ids \in SUBSET Message, StampSkipped(ids),
         \A m \in ids \cap (fresh \ unseen) : text[m] # "plain", job.gen \in Gen,
         UNCHANGED held
  PROVE  /\ stamp' \in [Message -> Gen \cup {0}]
         /\ vector' \in [Gen -> [Message -> {"none", "current", "stale"}]]
         /\ Covered' /\ OthersTyped' /\ OneEach' /\ InOrder'
         /\ \A m \in Message : Keeps(m) /\ text'[m] = text[m]
         /\ \A m \in ids \cap fresh : Settled(m)'
         /\ \A m \in Message \ ids : vector'[job.gen][m] = vector[job.gen][m]
<1> DEFINE landed == {m \in ids : Lands(m)}
           live == {m \in landed : Live(m)}
<1>1. /\ IndexTyped /\ fresh' = fresh /\ unseen' = unseen /\ Stamp(live)
      /\ vector' = [vector EXCEPT ![job.gen] =
                      [m \in Message |-> IF m \in landed THEN "none" ELSE @[m]]]
  BY DEF EmbeddingInv, StampSkipped, held
<1>2. \A m \in Message : stamp'[m] = IF m \in live THEN job.gen ELSE stamp[m]
  BY <1>1 DEF Stamp
<1>3. \A g \in Gen, m \in Message :
        vector'[g][m] = IF g = job.gen /\ m \in landed THEN "none" ELSE vector[g][m]
  BY <1>1 DEF IndexTyped
<1>4. stamp' \in [Message -> Gen \cup {0}]
  BY <1>1 DEF Stamp, IndexTyped
<1>5. vector' \in [Gen -> [Message -> {"none", "current", "stale"}]]
  BY <1>1 DEF IndexTyped
<1>6. \A m \in Message : stamp'[m] # stamp[m] => stamp'[m] # 0 /\ Live(m)
  BY <1>2 DEF Gen
<1>7. /\ changed' = changed \ live /\ lies' = (lies \ live) \cup (live \cap unseen)
      /\ live \subseteq Message
  BY <1>1 DEF Stamp
<1>8. /\ OthersTyped' /\ OneEach' /\ InOrder'
      /\ \A m \in Message : Keeps(m) /\ text'[m] = text[m]
  <2>1. lies' \subseteq Message
    BY <1>7 DEF EmbeddingInv, OthersTyped
  <2>2. \A m \in changed \ changed' : stamp'[m] # 0
    BY <1>2, <1>7 DEF Gen
  <2> QED
    BY <1>1, <1>4, <1>6, <1>7, <2>1, <2>2, BatchLeavesKeeps
<1>9. Covered'
  <2> SUFFICES ASSUME NEW m \in Message, Live(m), stamp'[m] # 0, m # storing,
                      m \notin lies', ~(repair.pc = "texts" /\ m \in repair.ids)
               PROVE  vector'[stamp'[m]][m] =
                        IF text[m] = "plain" THEN "current" ELSE "none"
    BY <1>8 DEF Covered, Live, BatchLeaves
  <2>1. CASE m \in landed
    <3>1. m \in live /\ m \in fresh \ unseen /\ m \in ids
      BY <1>7, <2>1 DEF Lands
    <3> QED
      BY <1>2, <1>3, <2>1, <3>1
  <2>2. CASE m \notin landed
    <3>1. stamp'[m] = stamp[m] /\ stamp[m] \in Gen /\ m \notin lies
      BY <1>1, <1>2, <1>7, <2>2 DEF IndexTyped
    <3>2. vector'[stamp[m]][m] = vector[stamp[m]][m]
      BY <1>3, <2>2, <3>1
    <3> QED
      BY <3>1, <3>2 DEF EmbeddingInv, Covered
  <2> QED
    BY <2>1, <2>2
<1>10. \A m \in ids \cap fresh : Settled(m)'
  <2> SUFFICES ASSUME NEW m \in ids \cap fresh, Live(m) PROVE stamp'[m] # 0
    BY <1>8 DEF Settled, Live
  <2> QED
    BY <1>2 DEF Lands, Gen
<1> QED
  BY <1>3, <1>4, <1>5, <1>8, <1>9, <1>10

\* Stamping an embedded row, only when it is as it was read.
LEMMA SetEmbedGenIfUnchangedKeeps ==
  ASSUME EmbeddingInv, BatchLeaves, NEW n \in Message, SetEmbedGenIfUnchanged(n),
         n \in fresh \ unseen => text[n] = "plain" /\ vector[job.gen][n] = "current",
         job.gen \in Gen, UNCHANGED held, vector' = vector
  PROVE  /\ stamp' \in [Message -> Gen \cup {0}]
         /\ Covered' /\ OthersTyped' /\ OneEach' /\ InOrder'
         /\ \A m \in Message : Keeps(m) /\ text'[m] = text[m]
         /\ n \in fresh => Settled(n)'
<1> DEFINE landed == {m \in {n} : Lands(m)}
<1>1. IndexTyped /\ fresh' = fresh /\ unseen' = unseen /\ Stamp(landed)
  BY DEF EmbeddingInv, SetEmbedGenIfUnchanged, held
<1>2. \A m \in Message : stamp'[m] = IF m \in landed THEN job.gen ELSE stamp[m]
  BY <1>1 DEF Stamp
<1>3. stamp' \in [Message -> Gen \cup {0}]
  BY <1>1 DEF Stamp, IndexTyped
<1>4. \A m \in landed : Live(m) /\ m \in fresh
  BY DEF Lands, Live, Kind
<1>5. /\ changed' = changed \ landed
      /\ lies' = (lies \ landed) \cup (landed \cap unseen)
  BY <1>1 DEF Stamp
<1>6. /\ OthersTyped' /\ OneEach' /\ InOrder'
      /\ \A m \in Message : Keeps(m) /\ text'[m] = text[m]
  <2>1. changed' \subseteq changed /\ lies' \subseteq Message
    BY <1>5 DEF EmbeddingInv, OthersTyped
  <2>2. \A m \in changed \ changed' : stamp'[m] # 0
    BY <1>2, <1>5 DEF Gen
  <2>3. \A m \in Message : stamp'[m] # stamp[m] => stamp'[m] # 0 /\ Live(m)
    BY <1>2, <1>4 DEF Gen
  <2> QED
    BY <1>1, <1>3, <2>1, <2>2, <2>3, BatchLeavesKeeps
<1>7. Covered'
  <2> SUFFICES ASSUME NEW m \in Message, Live(m), stamp'[m] # 0, m # storing,
                      m \notin lies', ~(repair.pc = "texts" /\ m \in repair.ids)
               PROVE  vector[stamp'[m]][m] =
                        IF text[m] = "plain" THEN "current" ELSE "none"
    BY <1>6 DEF Covered, Live, BatchLeaves
  <2>1. CASE m \in landed
    BY <1>2, <1>4, <1>5, <2>1
  <2>2. CASE m \notin landed
    BY <1>2, <1>5, <2>2 DEF EmbeddingInv, Covered
  <2> QED
    BY <2>1, <2>2
<1>8. n \in fresh => Settled(n)'
  <2> SUFFICES ASSUME n \in fresh, Live(n) PROVE stamp'[n] # 0
    BY <1>6 DEF Settled, Live
  <2> QED
    BY <1>2 DEF Lands, Gen
<1> QED
  BY <1>3, <1>6, <1>7, <1>8

-----------------------------------------------------------------------------
(* The worker's steps.                                                     *)

\* The rows of a batch are the first the scan found.
LEMMA FirstFound ==
  ASSUME NEW found \in SUBSET Message, NEW x \in found, NEW m \in found, m <= x,
         Cardinality({n \in found : n < x}) < BatchSize
  PROVE  Cardinality({n \in found : n < m}) < BatchSize
<1>1. IsFiniteSet(Message)
  BY FS_Interval, EmbeddingAssumption DEF Message
<1>2. IsFiniteSet({n \in found : n < x})
  BY <1>1, FS_Subset
<1>3. {n \in found : n < m} \subseteq {n \in found : n < x}
  <2>1. \A n \in found : n \in Int
    BY EmbeddingAssumption DEF Message
  <2> QED
    BY <2>1
<1>4. /\ IsFiniteSet({n \in found : n < m})
      /\ Cardinality({n \in found : n < m}) <= Cardinality({n \in found : n < x})
  BY <1>2, <1>3, FS_Subset
<1>5. /\ Cardinality({n \in found : n < m}) \in Nat
      /\ Cardinality({n \in found : n < x}) \in Nat
  BY <1>2, <1>4, FS_CardinalityType
<1> QED
  BY <1>4, <1>5, EmbeddingAssumption

\* What lies before the batch and is not in it has been passed, is stamped or
\* is gone.
LEMMA ScanForEmbeddingKeeps ==
  ASSUME EmbeddingInv, ScanForEmbedding
  PROVE  EmbeddingInv'
<1> DEFINE found == {m \in Missing(job.gen) : m > job.after}
           ids == {m \in found : Cardinality({n \in found : n < m}) < BatchSize}
<1>0. /\ job.pc = "scan" /\ BatchFrame /\ UNCHANGED <<vector, watermark>>
      /\ IF ids = {} THEN RunEnds
         ELSE /\ job' = [job EXCEPT !.pc = "embed", !.ids = ids]
              /\ UNCHANGED <<held, recent>>
  BY DEF ScanForEmbedding
<1>1. /\ IndexTyped /\ JobTyped /\ job \in Job /\ job.gen \in Gen
      /\ job.left = {} /\ job.skip = {} /\ job.drops = {}
  BY <1>0 DEF EmbeddingInv, JobTyped, Batching
<1>2. found \subseteq Message /\ ids \subseteq found
  BY DEF Missing
<1>3. CASE ids = {}
  <2>1. \A m \in Message : Keeps(m)
    BY <1>0, <1>1, <1>3, BatchFrameKeeps, RunEndsBetween DEF LetGo
  <2>2. WatermarksBehind' /\ watermark' \in [Gen -> Message \cup {0}]
    BY <1>0, <1>1, <2>1, WatermarksKeep DEF IndexTyped
  <2>3. Between(job') /\ job'.after = 0 /\ job'.safe = 0 /\ LetGo
    BY <1>0, <1>1, <1>3, RunEndsBetween
  <2> QED
    BY <1>0, <2>2, <2>3, EndingKeeps
<1>4. CASE ids # {}
  <2>0. fresh' = fresh /\ unseen' = unseen /\ job' = [job EXCEPT !.pc = "embed", !.ids = ids]
    BY <1>0, <1>4 DEF held
  <2>1. /\ OthersTyped' /\ OneEach' /\ InOrder'
        /\ \A m \in Message : Keeps(m) /\ text'[m] = text[m]
    BY <1>0, <2>0, BatchFrameKeeps
  <2>2. IndexTyped' /\ Covered'
    BY <1>0, <1>1, <2>0 DEF EmbeddingInv, BatchFrame, BatchLeaves, history,
       IndexTyped, Covered, Live
  <2>3. WatermarksBehind'
    BY <1>0, <2>1, WatermarksKeep
  <2>4. ASSUME NEW x \in ids, NEW m \in Message, m <= x
        PROVE  text[m] # "absent" /\ (m \notin ids => Settled(m))
    <3>1. x \in Message /\ text[x] # "absent"
      BY <1>2 DEF Missing, Live, Kind
    <3>2. text[m] # "absent"
      BY <2>4, <3>1 DEF EmbeddingInv, InOrder, Message
    <3>3. CASE m <= job.after
      BY <3>3, <3>2 DEF EmbeddingInv, CursorsBehind, Passed
    <3>4. CASE ~(m <= job.after)
      <4>1. m > job.after
        BY <1>1, <3>4 DEF Job, Message
      <4>2. m \in found => m \in ids
        BY <1>2, <2>4, FirstFound
      <4>3. m \notin Missing(job.gen) => Settled(m)
        BY <1>1 DEF Missing, Settled, Gen
      <4> QED
        BY <3>2, <4>1, <4>2, <4>3
    <3> QED
      BY <3>3, <3>4
  <2> HIDE DEF ids, found
  <2>5. ids \subseteq Message
    BY <1>2
  <2>6. /\ job'.pc = "embed" /\ job'.ids = ids /\ job'.left = {}
        /\ job'.skip = {} /\ job'.drops = {} /\ job'.gen = job.gen
        /\ job'.after = job.after /\ job'.safe = job.safe /\ job' \in Job
    BY <1>1, <2>0, <2>5 DEF Job, Stage
  <2>7. JobTyped'
    BY <1>1, <1>4, <2>5, <2>6 DEF JobTyped, Batching
  <2>8. InHand'
    BY <2>6 DEF InHand, StampsNext, SkipsNext, Draining
  <2>9. CursorsBehind'
    BY <2>1, <2>6, CursorsStay
  <2>10. BatchBehind'
    <3>1. \A x \in ids, m \in Message :
            m <= x => text'[m] # "absent" /\ (m \notin ids => Settled(m)')
      BY <2>1, <2>4 DEF Keeps
    <3> QED
      BY <2>6, <3>1 DEF BatchBehind, Draining
  <2> QED
    BY <2>1, <2>2, <2>3, <2>7, <2>8, <2>9, <2>10 DEF EmbeddingInv
<1> QED
  BY <1>3, <1>4

LEMMA EmbedBatchKeeps ==
  ASSUME EmbeddingInv, EmbedBatch
  PROVE  EmbeddingInv'
<1> DEFINE plain == {m \in job.ids : text[m] = "plain"}
           refused == {m \in job.ids : text[m] = "refused"}
<1>0. /\ job.pc = "embed" /\ BatchFrame /\ UNCHANGED watermark
      /\ \/ /\ refused # {}
            /\ job' = [job EXCEPT !.pc = "drain", !.left = job.ids, !.drops = {},
                         !.ok = FALSE, !.safe = 0, !.broke = FALSE, !.fails = @ + 1]
            /\ UNCHANGED <<held, vector>>
         \/ /\ RunEnds /\ UNCHANGED vector
         \/ /\ vector' = Vectorised(plain)
            /\ job' = [job EXCEPT !.left = plain, !.skip = job.ids \ plain,
                         !.pc = IF job.ids = plain THEN "stamp" ELSE "skip"]
            /\ Read(job.ids)
  BY DEF EmbedBatch
<1>1. /\ IndexTyped /\ JobTyped /\ job \in Job /\ job.gen \in Gen
      /\ job.left = {} /\ job.skip = {} /\ job.drops = {}
      /\ job.ids # {} /\ job.ids \subseteq Message
  BY <1>0 DEF EmbeddingInv, JobTyped, Batching, Draining, Job
<1>2. \A x \in job.ids, m \in Message :
        m <= x => text[m] # "absent" /\ (m \notin job.ids => Settled(m))
  BY <1>0 DEF EmbeddingInv, BatchBehind, Batching
<1>3. \A m \in job.ids : m <= m /\ m \in Message
  BY <1>1, EmbeddingAssumption DEF Message
<1>4. \A m \in fresh' : m \in fresh \/ text[m] # "absent"
  <2>1. CASE RunEnds
    BY <1>0, <1>1, <2>1, RunEndsBetween DEF LetGo
  <2> QED
    BY <1>0, <1>2, <1>3, <2>1 DEF held, Read
<1>5. /\ OthersTyped' /\ OneEach' /\ InOrder'
      /\ \A m \in Message : Keeps(m) /\ text'[m] = text[m]
  BY <1>0, <1>4, BatchFrameKeeps
<1>6. WatermarksBehind' /\ watermark' \in [Gen -> Message \cup {0}]
  BY <1>0, <1>1, <1>5, WatermarksKeep DEF IndexTyped
<1>7. \A x \in job.ids, m \in Message :
        m <= x => text'[m] # "absent" /\ (m \notin job.ids => Settled(m)')
  BY <1>2, <1>5 DEF Keeps
<1>8. CASE /\ job' = [job EXCEPT !.pc = "drain", !.left = job.ids, !.drops = {},
                        !.ok = FALSE, !.safe = 0, !.broke = FALSE, !.fails = @ + 1]
           /\ UNCHANGED <<held, vector>>
  <2>1. /\ job'.pc = "drain" /\ job'.ids = job.ids /\ job'.left = job.ids
        /\ job'.skip = {} /\ job'.drops = {} /\ job'.gen = job.gen
        /\ job'.after = job.after /\ job'.safe = 0 /\ job' \in Job
    <3>1. job.fails + 1 \in Nat
      BY <1>1 DEF Job
    <3>2. job' \in Job
      BY <1>1, <1>8, <3>1 DEF Job, Stage
    <3> QED
      BY <1>1, <1>8, <3>2 DEF Job
  <2>2. IndexTyped' /\ Covered'
    BY <1>0, <1>1, <1>8 DEF EmbeddingInv, BatchFrame, BatchLeaves, history, held,
       IndexTyped, Covered, Live
  <2>3. JobTyped'
    BY <1>1, <2>1 DEF JobTyped, Batching, Draining
  <2>4. InHand'
    BY <2>1 DEF InHand, StampsNext, SkipsNext
  <2>5. CursorsBehind'
    BY <1>5, <2>1, CursorsStay
  <2>6. BatchBehind'
    BY <1>7, <2>1 DEF BatchBehind
  <2> QED
    BY <1>5, <1>6, <2>2, <2>3, <2>4, <2>5, <2>6 DEF EmbeddingInv
<1>9. CASE RunEnds /\ UNCHANGED vector
  <2>1. Between(job') /\ job'.after = 0 /\ job'.safe = 0 /\ LetGo
    BY <1>0, <1>1, <1>9, RunEndsBetween
  <2> QED
    BY <1>0, <1>6, <1>9, <2>1, EndingKeeps
<1>10. CASE /\ vector' = Vectorised(plain)
            /\ job' = [job EXCEPT !.left = plain, !.skip = job.ids \ plain,
                         !.pc = IF job.ids = plain THEN "stamp" ELSE "skip"]
            /\ Read(job.ids)
  <2>0. plain \subseteq job.ids /\ \A m \in job.ids : m \in plain <=> text[m] = "plain"
    OBVIOUS
  <2>1. /\ vector' \in [Gen -> [Message -> {"none", "current", "stale"}]]
        /\ Covered' /\ \A m \in plain : vector'[job.gen][m] = "current"
    <3>1. plain \in SUBSET Message /\ \A m \in plain : text[m] = "plain"
      BY <1>1
    <3> HIDE DEF plain
    <3> QED
      BY <1>0, <1>1, <1>10, <3>1, VectorisedKeeps
  <2> HIDE DEF plain, refused
  <2>2. /\ job'.pc \in {"stamp", "skip"} /\ job'.ids = job.ids /\ job'.left = plain
        /\ job'.skip = job.ids \ plain /\ job'.drops = {} /\ job'.gen = job.gen
        /\ job'.after = job.after /\ job'.safe = job.safe /\ job' \in Job
        /\ job'.pc = "stamp" => plain = job.ids
    BY <1>1, <1>10, <2>0, ZenonT(60) DEF Job, Stage
  <2>3. IndexTyped'
    BY <1>0, <1>1, <1>6, <1>10, <2>1 DEF BatchFrame, BatchLeaves, Read,
       IndexTyped
  <2>4. JobTyped'
    BY <1>1, <2>0, <2>2 DEF JobTyped, Batching, Draining
  <2>5. InHand'
    BY <1>1, <1>5, <1>10, <2>0, <2>1, <2>2 DEF InHand, Read, StampsNext, SkipsNext, Draining
  <2>6. CursorsBehind'
    BY <1>5, <2>2, CursorsStay
  <2>7. BatchBehind'
    BY <1>7, <1>10, <2>0, <2>2 DEF Read, BatchBehind, Draining
  <2> QED
    BY <1>5, <1>6, <2>1, <2>3, <2>4, <2>5, <2>6, <2>7 DEF EmbeddingInv
<1> QED
  BY <1>0, <1>8, <1>9, <1>10

\* The steps that stamp.
LEMMA StampSkippedBatchKeeps ==
  ASSUME EmbeddingInv, StampSkippedBatch
  PROVE  EmbeddingInv'
<1>0. /\ job.pc = "skip" /\ StampSkipped(job.skip) /\ BatchLeaves
      /\ job' = [job EXCEPT !.skip = {}, !.fails = IF job.left = {} THEN 0 ELSE @,
                            !.pc = IF job.left = {} THEN "advance" ELSE "stamp"]
      /\ UNCHANGED <<watermark, held>>
  BY DEF StampSkippedBatch
<1>1. /\ IndexTyped /\ JobTyped /\ job \in Job /\ job.gen \in Gen
      /\ job.drops = {} /\ job.skip \subseteq Message
      /\ job.ids # {} /\ job.ids \subseteq Message /\ job.left \subseteq job.ids
  BY <1>0 DEF EmbeddingInv, JobTyped, Batching, Draining, Job
<1>2. /\ \A x \in job.ids, m \in Message :
           m <= x => text[m] # "absent" /\ (m \notin job.ids => Settled(m))
      /\ \A m \in job.ids : m \in fresh \/ Settled(m)
      /\ job.ids \subseteq job.left \cup job.skip
  BY <1>0 DEF EmbeddingInv, BatchBehind, Batching
<1>3. \A m \in job.ids : m <= m /\ m \in Message
  BY <1>1, EmbeddingAssumption DEF Message
<1>4. \A m \in job.skip \cap (fresh \ unseen) : text[m] # "plain"
  BY <1>0 DEF EmbeddingInv, InHand, SkipsNext
<1>5. /\ stamp' \in [Message -> Gen \cup {0}]
      /\ vector' \in [Gen -> [Message -> {"none", "current", "stale"}]]
      /\ Covered' /\ OthersTyped' /\ OneEach' /\ InOrder'
      /\ \A m \in Message : Keeps(m) /\ text'[m] = text[m]
      /\ \A m \in job.skip \cap fresh : Settled(m)'
      /\ \A m \in Message \ job.skip : vector'[job.gen][m] = vector[job.gen][m]
  BY <1>0, <1>1, <1>4, StampSkippedKeeps
<1>6. WatermarksBehind' /\ IndexTyped'
  BY <1>0, <1>1, <1>5, WatermarksKeep, SMTT(30) DEF BatchLeaves, held, IndexTyped
<1>7. /\ job'.pc = IF job.left = {} THEN "advance" ELSE "stamp"
      /\ job'.ids = job.ids /\ job'.left = job.left
      /\ job'.skip = {} /\ job'.drops = {} /\ job'.gen = job.gen
      /\ job'.after = job.after /\ job'.safe = job.safe /\ job' \in Job
  BY <1>0, <1>1 DEF Job, Stage
<1>8. JobTyped'
  BY <1>1, <1>7 DEF JobTyped, Batching, Draining
<1>9. InHand'
  <2> SUFFICES ASSUME NEW m \in fresh \ unseen, m \in job.left
               PROVE  text[m] = "plain" /\ vector'[job.gen][m] = "current"
    BY <1>0, <1>1, <1>5, <1>7 DEF held, InHand, StampsNext, SkipsNext, Draining
  <2>1. text[m] = "plain" /\ vector[job.gen][m] = "current"
    BY <1>0 DEF EmbeddingInv, InHand, StampsNext
  <2> QED
    BY <1>1, <1>4, <1>5, <2>1
<1>10. CursorsBehind'
  BY <1>5, <1>7, CursorsStay
<1>11. BatchBehind'
  <2>1. \A x \in job.ids, m \in Message :
          m <= x => text'[m] # "absent" /\ (m \notin job.ids => Settled(m)')
    BY <1>2, <1>5 DEF Keeps
  <2>2. \A m \in job.ids : m \in fresh \/ Settled(m)'
    BY <1>2, <1>3, <1>5 DEF Keeps
  <2>3. \A m \in job.ids \ job.left : Settled(m)'
    BY <1>2, <1>5, <2>2
  <2> QED
    BY <1>0, <1>7, <2>1, <2>2, <2>3 DEF held, BatchBehind, Draining
<1> QED
  BY <1>5, <1>6, <1>8, <1>9, <1>10, <1>11 DEF EmbeddingInv

LEMMA StampCoveredKeeps ==
  ASSUME EmbeddingInv, StampCovered
  PROVE  EmbeddingInv'
<1>2. PICK n \in job.left : n = Min(job.left)
  <2>1. job.left # {} /\ job.left \in SUBSET Nat
    BY DEF StampCovered, EmbeddingInv, JobTyped, Job, Message
  <2> QED
    BY <2>1, MinLemma
<1> DEFINE more == job.left \ {n}
<1>0. /\ job.pc = "stamp" /\ SetEmbedGenIfUnchanged(n) /\ BatchLeaves
      /\ job' = [job EXCEPT !.left = more, !.fails = IF more = {} THEN 0 ELSE @,
                            !.pc = IF more = {} THEN "advance" ELSE "stamp"]
      /\ UNCHANGED <<vector, watermark, held>>
  BY <1>2 DEF StampCovered
<1>1. /\ IndexTyped /\ JobTyped /\ job \in Job /\ job.gen \in Gen
      /\ job.drops = {} /\ job.skip = {} /\ job.left # {}
      /\ job.ids # {} /\ job.ids \subseteq Message /\ job.left \subseteq job.ids
  BY <1>0 DEF EmbeddingInv, JobTyped, Batching, Draining, Job
<1>3. /\ \A x \in job.ids, m \in Message :
           m <= x => text[m] # "absent" /\ (m \notin job.ids => Settled(m))
      /\ \A m \in job.ids : m \in fresh \/ Settled(m)
      /\ \A m \in job.ids \ job.left : Settled(m)
  BY <1>0 DEF EmbeddingInv, BatchBehind, Batching
<1>4. \A m \in job.ids : m <= m /\ m \in Message
  BY <1>1, EmbeddingAssumption DEF Message
<1>5. \A m \in (fresh \ unseen) \cap job.left :
        text[m] = "plain" /\ vector[job.gen][m] = "current"
  BY <1>0 DEF EmbeddingInv, InHand, StampsNext
<1>6. /\ stamp' \in [Message -> Gen \cup {0}]
      /\ Covered' /\ OthersTyped' /\ OneEach' /\ InOrder'
      /\ \A m \in Message : Keeps(m) /\ text'[m] = text[m]
      /\ n \in fresh => Settled(n)'
  <2>1. n \in Message /\ (n \in fresh \ unseen => text[n] = "plain"
                                        /\ vector[job.gen][n] = "current")
    BY <1>1, <1>2, <1>5
  <2> QED
    BY <1>0, <1>1, <2>1, SetEmbedGenIfUnchangedKeeps
<1>7. WatermarksBehind' /\ IndexTyped'
  BY <1>0, <1>1, <1>6, WatermarksKeep, SMTT(30) DEF BatchLeaves, held, IndexTyped
<1>8. /\ job'.pc = IF more = {} THEN "advance" ELSE "stamp"
      /\ job'.ids = job.ids /\ job'.left = more
      /\ job'.skip = {} /\ job'.drops = {} /\ job'.gen = job.gen
      /\ job'.after = job.after /\ job'.safe = job.safe /\ job' \in Job
  BY <1>0, <1>1 DEF Job, Stage
<1>9. JobTyped'
  BY <1>1, <1>8 DEF JobTyped, Batching, Draining
<1>10. InHand'
  BY <1>0, <1>1, <1>5, <1>6, <1>8 DEF held, InHand, StampsNext, SkipsNext, Draining
<1>11. CursorsBehind'
  BY <1>6, <1>8, CursorsStay
<1>12. BatchBehind'
  <2>1. \A x \in job.ids, m \in Message :
          m <= x => text'[m] # "absent" /\ (m \notin job.ids => Settled(m)')
    BY <1>3, <1>6 DEF Keeps
  <2>2. \A m \in job.ids : m \in fresh \/ Settled(m)'
    BY <1>3, <1>4, <1>6 DEF Keeps
  <2>3. \A m \in job.ids \ more : Settled(m)'
    <3>1. \A m \in job.ids \ more : m = n \/ m \in job.ids \ job.left
      OBVIOUS
    <3>2. Settled(n)'
      BY <1>1, <1>2, <1>6, <2>2
    <3>3. \A m \in job.ids \ job.left : Settled(m)'
      BY <1>3, <1>4, <1>6 DEF Keeps
    <3> HIDE DEF more
    <3> QED
      BY <3>1, <3>2, <3>3
  <2> QED
    BY <1>0, <1>8, <2>1, <2>2, <2>3 DEF held, BatchBehind, Draining
<1> QED
  BY <1>6, <1>7, <1>9, <1>10, <1>11, <1>12 DEF EmbeddingInv

\* The batch is settled, and so is all before it.
LEMMA AdvanceWatermarkKeeps ==
  ASSUME EmbeddingInv, AdvanceWatermark
  PROVE  EmbeddingInv'
<1> DEFINE last == Max(job.ids)
<1>0. /\ job.pc = "advance" /\ SetWatermark(last) /\ BatchFrame
      /\ job' = [job EXCEPT !.pc = "scan", !.after = last, !.ids = {}]
      /\ LetGo /\ UNCHANGED vector
  BY DEF AdvanceWatermark
<1>1. /\ IndexTyped /\ JobTyped /\ job \in Job /\ job.gen \in Gen
      /\ job.left = {} /\ job.drops = {} /\ job.skip = {}
      /\ job.ids # {} /\ job.ids \subseteq Message
  BY <1>0 DEF EmbeddingInv, JobTyped, Batching, Draining, Job
<1>2. last \in job.ids
  <2>1. MessageCount \in Nat /\ job.ids \in SUBSET (0 .. MessageCount)
    BY <1>1, EmbeddingAssumption DEF Message
  <2> QED
    BY <1>1, <2>1, MaxLemma
<1> HIDE DEF last
<1>3. Passed(last)
  BY <1>0, <1>2 DEF EmbeddingInv, BatchBehind, Batching, Passed
<1>4. \A m \in Message : Keeps(m)
  BY <1>0, BatchFrameKeeps DEF LetGo
<1>5. WatermarksBehind' /\ watermark' \in [Gen -> Message \cup {0}]
  <2>1. \A m \in Message : m <= last => text'[m] # "absent" /\ Settled(m)'
    BY <1>3, <1>4, PassedStays
  <2> QED
    BY <1>0, <1>1, <1>2, <1>4, <2>1, WatermarkSet
<1>6. Between(job') /\ job'.after = last /\ job'.safe = job.safe
  BY <1>0, <1>1, <1>2 DEF Between, Job, Stage, Batching
<1>7. JobTyped' /\ InHand' /\ CursorsBehind' /\ BatchBehind'
  <2>1. last \in Nat /\ job.safe \in Nat /\ Passed(job.safe)
    BY <1>1, <1>2 DEF Message, Job, EmbeddingInv, CursorsBehind
  <2>2. /\ \E x \in Nat : job'.after <= x /\ Passed(x)
        /\ \E x \in Nat : job'.safe <= x /\ Passed(x)
    BY <1>3, <1>6, <2>1
  <2> QED
    BY <1>4, <1>6, <2>1, <2>2, BetweenKeeps
<1>8. OthersTyped' /\ OneEach' /\ InOrder'
  BY <1>0, BatchFrameKeeps DEF LetGo
<1>9. IndexTyped' /\ Covered'
  BY <1>0, <1>1, <1>5 DEF EmbeddingInv, BatchFrame, BatchLeaves, history, LetGo,
     IndexTyped, Covered, Live
<1> QED
  BY <1>5, <1>7, <1>8, <1>9 DEF EmbeddingInv

\* The row read next is held by the worker from now on.
LEMMA DrainEmbedKeeps ==
  ASSUME EmbeddingInv, DrainEmbed
  PROVE  EmbeddingInv'
<1>0. PICK n \in job.left : n = Min(job.left) /\ \A m \in job.left : n <= m
  <2>1. job.left # {} /\ job.left \in SUBSET Nat
    BY DEF DrainEmbed, EmbeddingInv, JobTyped, Job, Message
  <2> QED
    BY <2>1, MinLemma
<1>1. /\ job.pc = "drain" /\ BatchFrame
      /\ \/ /\ text[n] = "refused"
            /\ job' = [job EXCEPT !.left = @ \ {n}, !.drops = @ \cup {n},
                                  !.broke = TRUE]
            /\ Read({n})
            /\ UNCHANGED <<vector, watermark>>
         \/ RunEnds /\ AdvanceSafely /\ UNCHANGED vector
         \/ /\ text[n] = "plain"
            /\ vector' = Vectorised({n})
            /\ job' = [job EXCEPT !.pc = "drainStamp", !.ok = TRUE]
            /\ Read({n})
            /\ UNCHANGED watermark
         \/ /\ text[n] \in {"blank", "gone"}
            /\ job' = [job EXCEPT !.pc = "drainSkip"]
            /\ Read({n})
            /\ UNCHANGED <<vector, watermark>>
  BY <1>0 DEF DrainEmbed, Next1
<1>2. /\ IndexTyped /\ JobTyped /\ job \in Job /\ job.gen \in Gen
      /\ job.skip = {} /\ job.left # {} /\ n \in Message
      /\ job.ids # {} /\ job.ids \subseteq Message
      /\ job.left \subseteq job.ids /\ job.drops \subseteq job.ids
      /\ n \notin job.drops
  BY <1>0, <1>1 DEF EmbeddingInv, JobTyped, Batching, Draining, Job
<1>3. /\ \A x \in job.ids, m \in Message :
           m <= x => text[m] # "absent" /\ (m \notin job.ids => Settled(m))
      /\ \A m \in job.ids \ (job.left \cup job.drops) : Settled(m)
      /\ \A m \in job.drops : m \in fresh \/ Settled(m)
      /\ ~job.broke => job.drops = {}
  BY <1>1 DEF EmbeddingInv, BatchBehind, Batching, Draining
<1>4. \A m \in job.ids : m <= m /\ m \in Message
  BY <1>2, EmbeddingAssumption DEF Message
<1>5. \A m \in (fresh \ unseen) \cap job.drops : text[m] # "plain"
  BY <1>1 DEF EmbeddingInv, InHand, SkipsNext, Draining
<1>6. CASE RunEnds /\ AdvanceSafely /\ UNCHANGED vector
  <2>1. Between(job') /\ job'.after = 0 /\ job'.safe = 0 /\ LetGo
    BY <1>1, <1>2, <1>6, RunEndsBetween
  <2>2. \A m \in Message : Keeps(m)
    BY <1>1, <2>1, BatchFrameKeeps DEF LetGo
  <2>3. WatermarksBehind' /\ watermark' \in [Gen -> Message \cup {0}]
    BY <1>2, <1>6, <2>2, AdvanceSafelyKeeps
  <2> QED
    BY <1>1, <1>6, <2>1, <2>3, EndingKeeps
<1>7. ASSUME Read({n}), watermark' = watermark,
             vector' = vector \/ (text[n] = "plain" /\ vector' = Vectorised({n})),
             job' \in Job, job'.ids = job.ids, job'.skip = {}, job'.gen = job.gen,
             job'.after = job.after, job'.safe = job.safe,
             \/ /\ job'.pc = "drain" /\ text[n] = "refused"
                /\ job'.left = job.left \ {n} /\ job'.drops = job.drops \cup {n}
                /\ job'.broke = TRUE
             \/ /\ job'.left = job.left /\ job'.drops = job.drops
                /\ job'.broke = job.broke
                /\ \/ job'.pc = "drainStamp" /\ text[n] = "plain"
                      /\ vector' = Vectorised({n})
                   \/ job'.pc = "drainSkip" /\ text[n] # "plain" /\ vector' = vector
      PROVE  EmbeddingInv'
  <2>1. /\ OthersTyped' /\ OneEach' /\ InOrder'
        /\ \A m \in Message : Keeps(m) /\ text'[m] = text[m]
    BY <1>1, <1>2, <1>0, <1>3, <1>4, <1>7, BatchFrameKeeps DEF Read
  <2>2. /\ vector' \in [Gen -> [Message -> {"none", "current", "stale"}]]
        /\ Covered'
        /\ job'.pc = "drainStamp" => vector'[job.gen][n] = "current"
    <3>1. CASE vector' = vector /\ job'.pc # "drainStamp"
      BY <1>1, <1>2, <3>1 DEF EmbeddingInv, BatchFrame, BatchLeaves, history,
         Covered, Live, IndexTyped
    <3>2. CASE text[n] = "plain" /\ vector' = Vectorised({n})
      <4>1. {n} \in SUBSET Message /\ \A m \in {n} : text[m] = "plain"
        BY <1>2, <3>2
      <4> QED
        BY <1>1, <1>2, <3>2, <4>1, VectorisedKeeps
    <3> QED
      BY <1>7, <3>1, <3>2
  <2>3. IndexTyped'
    BY <1>1, <1>2, <1>7, <2>2 DEF BatchFrame, BatchLeaves, Read, IndexTyped
  <2>4. WatermarksBehind'
    BY <1>7, <2>1, WatermarksKeep
  <2>5. JobTyped'
    BY <1>0, <1>2, <1>7 DEF JobTyped, Batching, Draining
  <2>6. InHand'
    <3> SUFFICES ASSUME NEW m \in fresh' \ unseen'
                 PROVE  /\ StampsNext(m)' => text'[m] = "plain"
                                             /\ vector'[job'.gen][m] = "current"
                        /\ SkipsNext(m)' => text'[m] # "plain"
      BY DEF InHand
    <3>1. m \in Message /\ (m \in fresh \ unseen \/ m = n)
      BY <1>2, <1>7 DEF Read, IndexTyped
    <3>2. StampsNext(m)' => job'.pc = "drainStamp" /\ m = n
      BY <1>0, <1>7 DEF StampsNext
    <3>3. SkipsNext(m)' => (job'.pc # "drainStamp" /\ m = n) \/ m \in job.drops
      BY <1>0, <1>7 DEF SkipsNext
    <3>4. m \in job.drops => text[m] # "plain"
      BY <1>2, <1>5, <3>1
    <3> QED
      BY <1>7, <2>1, <2>2, <3>1, <3>2, <3>3, <3>4
  <2>7. CursorsBehind'
    BY <1>7, <2>1, CursorsStay
  <2>8. BatchBehind'
    <3>1. \A x \in job.ids, m \in Message :
            m <= x => text'[m] # "absent" /\ (m \notin job.ids => Settled(m)')
      BY <1>3, <2>1 DEF Keeps
    <3>2. \A m \in job.ids \ (job.left \cup job.drops) : Settled(m)'
      BY <1>3, <1>4, <2>1 DEF Keeps
    <3>3. \A m \in job.drops : m \in fresh' \/ Settled(m)'
      BY <1>2, <1>3, <1>4, <1>7, <2>1 DEF Keeps, Read
    <3>4. n \in fresh'
      BY <1>7 DEF Read
    <3>5. job'.pc \in {"drainStamp", "drainSkip"} => Min(job'.left) = n
      BY <1>0, <1>7
    <3> QED
      BY <1>3, <1>7, <3>1, <3>2, <3>3, <3>4, <3>5 DEF BatchBehind, Draining
  <2> QED
    BY <2>1, <2>2, <2>3, <2>4, <2>5, <2>6, <2>7, <2>8 DEF EmbeddingInv
<1>8. CASE /\ text[n] = "refused"
           /\ job' = [job EXCEPT !.left = @ \ {n}, !.drops = @ \cup {n},
                                 !.broke = TRUE]
           /\ Read({n})
           /\ UNCHANGED <<vector, watermark>>
  <2>1. job' \in Job
    BY <1>2, <1>8 DEF Job
  <2> QED
    BY <1>1, <1>2, <1>7, <1>8, <2>1 DEF Job
<1>9. CASE /\ text[n] = "plain"
           /\ vector' = Vectorised({n})
           /\ job' = [job EXCEPT !.pc = "drainStamp", !.ok = TRUE]
           /\ Read({n})
           /\ UNCHANGED watermark
  <2>1. job' \in Job
    BY <1>2, <1>9 DEF Job, Stage
  <2> QED
    BY <1>1, <1>2, <1>7, <1>9, <2>1 DEF Job
<1>10. CASE /\ text[n] \in {"blank", "gone"}
            /\ job' = [job EXCEPT !.pc = "drainSkip"]
            /\ Read({n})
            /\ UNCHANGED <<vector, watermark>>
  <2>1. job' \in Job
    BY <1>2, <1>10 DEF Job, Stage
  <2> QED
    BY <1>1, <1>2, <1>7, <1>10, <2>1 DEF Job
<1> QED
  BY <1>1, <1>6, <1>8, <1>9, <1>10

\* The prefix the watermark may pass grows only while nothing was left behind.
LEMMA DrainStampKeeps ==
  ASSUME EmbeddingInv, DrainStamp
  PROVE  EmbeddingInv'
<1>0. PICK n \in job.left : n = Min(job.left) /\ \A m \in job.left : n <= m
  <2>1. job.left # {} /\ job.left \in SUBSET Nat
    BY DEF DrainStamp, EmbeddingInv, JobTyped, Job, Message
  <2> QED
    BY <2>1, MinLemma
<1> DEFINE landed == Lands(n)
<1>1. /\ job.pc \in {"drainStamp", "drainSkip"} /\ BatchLeaves
      /\ IF job.pc = "drainSkip" THEN StampSkipped({n})
         ELSE SetEmbedGenIfUnchanged(n) /\ UNCHANGED vector
      /\ job' = [job EXCEPT !.pc = "drain", !.left = @ \ {n},
                   !.safe = IF landed /\ ~job.broke THEN n ELSE @,
                   !.broke = @ \/ ~landed]
      /\ UNCHANGED <<watermark, held>>
  BY <1>0 DEF DrainStamp, Next1
<1>2. /\ IndexTyped /\ JobTyped /\ job \in Job /\ job.gen \in Gen
      /\ job.skip = {} /\ job.left # {} /\ n \in Message
      /\ job.ids # {} /\ job.ids \subseteq Message
      /\ job.left \subseteq job.ids /\ job.drops \subseteq job.ids
      /\ job.left \cap job.drops = {} /\ job.safe \in Message \cup {0}
      /\ job.broke \in BOOLEAN
  BY <1>0, <1>1 DEF EmbeddingInv, JobTyped, Batching, Draining, Job
<1>3. /\ \A x \in job.ids, m \in Message :
           m <= x => text[m] # "absent" /\ (m \notin job.ids => Settled(m))
      /\ \A m \in job.ids \ (job.left \cup job.drops) : Settled(m)
      /\ \A m \in job.drops : m \in fresh \/ Settled(m)
      /\ ~job.broke => job.drops = {}
      /\ n \in fresh \/ Settled(n)
  BY <1>0, <1>1 DEF EmbeddingInv, BatchBehind, Batching, Draining
<1>4. \A m \in job.ids : m <= m /\ m \in Message
  BY <1>2, EmbeddingAssumption DEF Message
<1>5. \A m \in (fresh \ unseen) \cap job.drops : text[m] # "plain"
  BY <1>1 DEF EmbeddingInv, InHand, SkipsNext, Draining
<1>6. /\ stamp' \in [Message -> Gen \cup {0}]
      /\ vector' \in [Gen -> [Message -> {"none", "current", "stale"}]]
      /\ Covered' /\ OthersTyped' /\ OneEach' /\ InOrder'
      /\ \A m \in Message : Keeps(m) /\ text'[m] = text[m]
      /\ n \in fresh => Settled(n)'
  <2>1. CASE job.pc = "drainSkip"
    <3>1. \A m \in {n} \cap (fresh \ unseen) : text[m] # "plain"
      BY <1>0, <2>1 DEF EmbeddingInv, InHand, SkipsNext
    <3>2. {n} \in SUBSET Message
      BY <1>2
    <3>3. \A m \in {n} \cap fresh : Settled(m)'
      BY <1>1, <1>2, <2>1, <3>1, <3>2, StampSkippedKeeps
    <3> QED
      BY <1>1, <1>2, <2>1, <3>1, <3>2, <3>3, StampSkippedKeeps
  <2>2. CASE job.pc = "drainStamp"
    <3>1. n \in fresh \ unseen => text[n] = "plain" /\ vector[job.gen][n] = "current"
      BY <1>0, <2>2 DEF EmbeddingInv, InHand, StampsNext
    <3> QED
      BY <1>1, <1>2, <2>2, <3>1, SetEmbedGenIfUnchangedKeeps DEF IndexTyped
  <2> QED
    BY <1>1, <2>1, <2>2
<1>7. WatermarksBehind' /\ IndexTyped'
  BY <1>1, <1>2, <1>6, WatermarksKeep DEF BatchLeaves, held, IndexTyped
<1>8. /\ job'.pc = "drain" /\ job'.ids = job.ids /\ job'.left = job.left \ {n}
      /\ job'.skip = {} /\ job'.drops = job.drops /\ job'.gen = job.gen
      /\ job'.after = job.after /\ job' \in Job
      /\ job'.safe = IF landed /\ ~job.broke THEN n ELSE job.safe
      /\ ~job'.broke => ~job.broke
  <2>1. job' \in Job
    BY <1>1, <1>2, ZenonT(60) DEF Job, Stage
  <2> QED
    BY <1>1, <1>2, <2>1 DEF Job
<1>9. JobTyped'
  BY <1>2, <1>8 DEF JobTyped, Batching, Draining
<1>10. InHand'
  BY <1>1, <1>2, <1>5, <1>6, <1>8 DEF held, InHand, StampsNext, SkipsNext, Draining, IndexTyped
<1>11. Settled(n)'
  BY <1>2, <1>3, <1>4, <1>6 DEF Keeps
<1>12. \A m \in job.ids \ (job'.left \cup job'.drops) : Settled(m)'
  <2>1. \A m \in job.ids \ (job.left \cup job.drops) : Settled(m)'
    BY <1>3, <1>4, <1>6 DEF Keeps
  <2> QED
    BY <1>8, <1>11, <2>1
<1>13. \A x \in job.ids, m \in Message :
         m <= x => text'[m] # "absent" /\ (m \notin job.ids => Settled(m)')
  BY <1>3, <1>6 DEF Keeps
<1>14. CursorsBehind'
  <2>1. CASE job'.safe = job.safe
    BY <1>6, <1>8, <2>1, CursorsStay
  <2>2. CASE landed /\ ~job.broke
    <3>1. \A m \in Message : m <= n => text'[m] # "absent" /\ Settled(m)'
      <4> SUFFICES ASSUME NEW m \in Message, m <= n
                   PROVE  text'[m] # "absent" /\ Settled(m)'
        OBVIOUS
      <4>1. text'[m] # "absent" /\ (m \notin job.ids => Settled(m)')
        BY <1>2, <1>13
      <4>2. m \in job.left => m = n
        BY <1>0, <1>2, EmbeddingAssumption DEF Message
      <4>3. job.drops = {}
        BY <1>3, <2>2
      <4> QED
        BY <1>8, <1>11, <1>12, <4>1, <4>2, <4>3
    <3>2. Passed(job.after)
      BY DEF EmbeddingInv, CursorsBehind
    <3>3. \A m \in Message : m <= job.after => text'[m] # "absent" /\ Settled(m)'
      BY <1>6, <3>2, PassedStays
    <3> QED
      BY <1>8, <2>2, <3>1, <3>3 DEF CursorsBehind, Passed
  <2> QED
    BY <1>8, <2>1, <2>2
<1>15. BatchBehind'
  <2>1. \A m \in job.drops : m \in fresh' \/ Settled(m)'
    BY <1>1, <1>2, <1>3, <1>4, <1>6 DEF Keeps, held
  <2> QED
    BY <1>3, <1>8, <1>12, <1>13, <2>1 DEF BatchBehind, Draining
<1> QED
  BY <1>6, <1>7, <1>9, <1>10, <1>14, <1>15 DEF EmbeddingInv

LEMMA DrainEndsKeeps ==
  ASSUME EmbeddingInv, DrainEnds
  PROVE  EmbeddingInv'
<1> DEFINE j == [job EXCEPT !.after = Max({@, job.safe}), !.ids = {}, !.drops = {}]
<1>1. /\ job.pc = "drain" /\ job.left = {} /\ BatchLeaves
      /\ \/ /\ StampSkipped(job.drops)
            /\ job' = [job EXCEPT !.pc = "advance", !.drops = {},
                                  !.fails = IF job.ok THEN 0 ELSE @]
            /\ UNCHANGED <<held, watermark>>
         \/ AdvanceSafely /\ FailOrRescan(j) /\ UNCHANGED <<stamp, history, vector>>
  BY DEF DrainEnds
<1>2. /\ IndexTyped /\ JobTyped /\ job \in Job /\ job.gen \in Gen
      /\ job.skip = {} /\ job.ids # {} /\ job.ids \subseteq Message
      /\ job.drops \subseteq job.ids
      /\ job.safe \in Message \cup {0} /\ job.after \in Message \cup {0}
  BY <1>1 DEF EmbeddingInv, JobTyped, Batching, Draining, Job
<1>3. CASE /\ StampSkipped(job.drops)
           /\ job' = [job EXCEPT !.pc = "advance", !.drops = {},
                                 !.fails = IF job.ok THEN 0 ELSE @]
           /\ UNCHANGED <<held, watermark>>
  <2>1. /\ \A x \in job.ids, m \in Message :
             m <= x => text[m] # "absent" /\ (m \notin job.ids => Settled(m))
        /\ \A m \in job.ids \ job.drops : Settled(m)
        /\ \A m \in job.drops : m \in fresh \/ Settled(m)
    BY <1>1 DEF EmbeddingInv, BatchBehind, Batching, Draining
  <2>2. \A m \in job.ids : m <= m /\ m \in Message
    BY <1>2, EmbeddingAssumption DEF Message
  <2>3. \A m \in job.drops \cap (fresh \ unseen) : text[m] # "plain"
    BY <1>1 DEF EmbeddingInv, InHand, SkipsNext, Draining
  <2>4. /\ stamp' \in [Message -> Gen \cup {0}]
        /\ vector' \in [Gen -> [Message -> {"none", "current", "stale"}]]
        /\ Covered' /\ OthersTyped' /\ OneEach' /\ InOrder'
        /\ \A m \in Message : Keeps(m) /\ text'[m] = text[m]
        /\ \A m \in job.drops \cap fresh : Settled(m)'
    <3>1. job.drops \in SUBSET Message
      BY <1>2
    <3> QED
      BY <1>1, <1>2, <1>3, <2>3, <3>1, StampSkippedKeeps
  <2>5. WatermarksBehind' /\ IndexTyped'
    BY <1>1, <1>2, <1>3, <2>4, WatermarksKeep DEF BatchLeaves, held, IndexTyped
  <2>6. /\ job'.pc = "advance" /\ job'.ids = job.ids /\ job'.left = {}
        /\ job'.skip = {} /\ job'.drops = {} /\ job'.gen = job.gen
        /\ job'.after = job.after /\ job'.safe = job.safe /\ job' \in Job
    BY <1>1, <1>2, <1>3 DEF Job, Stage
  <2>7. JobTyped'
    BY <1>2, <2>6 DEF JobTyped, Batching, Draining
  <2>8. InHand'
    BY <2>6 DEF InHand, StampsNext, SkipsNext, Draining
  <2>9. CursorsBehind'
    BY <2>4, <2>6, CursorsStay
  <2>10. BatchBehind'
    <3>1. \A x \in job.ids, m \in Message :
            m <= x => text'[m] # "absent" /\ (m \notin job.ids => Settled(m)')
      BY <2>1, <2>4 DEF Keeps
    <3>2. \A m \in job.ids : Settled(m)'
      BY <1>2, <2>1, <2>2, <2>4 DEF Keeps
    <3> QED
      BY <2>6, <3>1, <3>2 DEF BatchBehind, Draining
  <2> QED
    BY <2>4, <2>5, <2>7, <2>8, <2>9, <2>10 DEF EmbeddingInv
<1>4. CASE AdvanceSafely /\ FailOrRescan(j) /\ UNCHANGED <<stamp, history, vector>>
  <2>1. Max({job.after, job.safe}) \in {job.after, job.safe}
    <3>1. /\ MessageCount \in Nat
          /\ {job.after, job.safe} \in SUBSET (0 .. MessageCount)
      BY <1>2, EmbeddingAssumption DEF Message
    <3> QED
      BY <3>1, MaxLemma
  <2>2. /\ j.after = Max({job.after, job.safe}) /\ j.safe = job.safe
        /\ j.gen = job.gen /\ j.ids = {} /\ j.left = {} /\ j.skip = {}
        /\ j.drops = {} /\ j \in Job
    BY <1>1, <1>2, <2>1 DEF Job
  <2> HIDE DEF j
  <2>3. /\ Between(job') /\ LetGo
        /\ job'.after \in {0, j.after} /\ job'.safe \in {0, j.safe}
    BY <1>1, <1>2, <1>4, <2>2, FailOrRescanBetween
  <2>4. BatchFrame /\ \A m \in Message : Keeps(m)
    BY <1>1, <1>4, <2>3, BatchFrameKeeps DEF BatchFrame, LetGo
  <2>5. WatermarksBehind' /\ watermark' \in [Gen -> Message \cup {0}]
    BY <1>2, <1>4, <2>4, AdvanceSafelyKeeps
  <2> QED
    BY <1>4, <2>1, <2>2, <2>3, <2>4, <2>5, EndingKeeps
<1> QED
  BY <1>1, <1>3, <1>4

-----------------------------------------------------------------------------
(* Faults.                                                                 *)

LEMMA BatchFailsKeeps ==
  ASSUME EmbeddingInv, BatchFails
  PROVE  EmbeddingInv'
<1> DEFINE j == [job EXCEPT !.fails = @ + 1, !.ids = {}, !.left = {}, !.skip = {}]
<1>1. /\ job.pc \in {"embed", "skip", "stamp"} /\ BatchFrame /\ FailOrRescan(j)
      /\ UNCHANGED <<vector, watermark>>
  BY DEF BatchFails
<1>2. /\ IndexTyped /\ JobTyped /\ job \in Job /\ job.gen \in Gen
      /\ job.drops = {} /\ job.fails + 1 \in Nat
  BY <1>1 DEF EmbeddingInv, JobTyped, Draining, Job
<1>3. j \in Job
  BY <1>2 DEF Job
<1>4. /\ j.after = job.after /\ j.safe = job.safe
      /\ j.gen = job.gen /\ j.ids = {} /\ j.left = {} /\ j.skip = {}
      /\ j.drops = {}
  BY <1>2 DEF Job
<1> HIDE DEF j
<1>5. /\ Between(job') /\ LetGo
      /\ job'.after \in {0, j.after} /\ job'.safe \in {0, j.safe}
  BY <1>1, <1>2, <1>3, <1>4, FailOrRescanBetween
<1>6. \A m \in Message : Keeps(m)
  BY <1>1, <1>5, BatchFrameKeeps DEF LetGo
<1>7. WatermarksBehind' /\ watermark' \in [Gen -> Message \cup {0}]
  BY <1>1, <1>2, <1>6, WatermarksKeep DEF IndexTyped
<1> QED
  BY <1>1, <1>4, <1>5, <1>7, EndingKeeps

LEMMA DrainFailsKeeps ==
  ASSUME EmbeddingInv, DrainFails
  PROVE  EmbeddingInv'
<1>1. /\ job.pc \in Draining /\ BatchFrame /\ AdvanceSafely /\ RunFails
      /\ UNCHANGED vector
  BY DEF DrainFails, Draining
<1>2. IndexTyped /\ JobTyped /\ job.pc # "idle" /\ job.gen \in Gen
  BY <1>1 DEF EmbeddingInv, JobTyped, Draining
<1>3. Between(job') /\ job'.after = 0 /\ job'.safe = 0 /\ LetGo
  BY <1>1, <1>2, RunFailsBetween
<1>4. \A m \in Message : Keeps(m)
  BY <1>1, <1>3, BatchFrameKeeps DEF LetGo
<1>5. WatermarksBehind' /\ watermark' \in [Gen -> Message \cup {0}]
  BY <1>1, <1>2, <1>4, AdvanceSafelyKeeps
<1> QED
  BY <1>1, <1>3, <1>5, EndingKeeps

LEMMA KillKeeps ==
  ASSUME EmbeddingInv, Kill
  PROVE  EmbeddingInv'
<1>1. /\ BatchFrame /\ job' = NoJob /\ LetGo
      /\ UNCHANGED <<vector, watermark>> /\ IndexTyped
  BY DEF Kill, EmbeddingInv
<1>2. \A m \in Message : Keeps(m)
  BY <1>1, BatchFrameKeeps DEF LetGo
<1>3. WatermarksBehind' /\ watermark' \in [Gen -> Message \cup {0}]
  BY <1>1, <1>2, WatermarksKeep DEF IndexTyped
<1> QED
  BY <1>1, <1>3, NoJobIsBetween, EndingKeeps

-----------------------------------------------------------------------------
(* The theorems.                                                           *)

LEMMA EmbeddingInitInv == EmbeddingInit => EmbeddingInv
<1> SUFFICES ASSUME EmbeddingInit
             PROVE  EmbeddingInv
  OBVIOUS
<1> USE DEF EmbeddingInit
<1>1. IndexTyped /\ OneEach
  BY DEF IndexTyped, OneEach
<1>2. OthersTyped
  BY DEF OthersTyped, NoRepair, NoCommand
<1>3. JobTyped
  BY NoJobIsBetween DEF JobTyped, Between, Draining, Batching
<1>4. InOrder /\ Covered /\ InHand
  BY DEF InOrder, Covered, Live, InHand
<1>5. WatermarksBehind /\ CursorsBehind
  BY NoJobIsBetween, PassedNothing DEF WatermarksBehind, CursorsBehind
<1>6. BatchBehind
  BY NoJobIsBetween DEF BatchBehind, Between
<1> QED
  BY <1>1, <1>2, <1>3, <1>4, <1>5, <1>6 DEF EmbeddingInv

LEMMA EmbeddingStepInv ==
  ASSUME EmbeddingInv, [EmbeddingNext]_embedVars
  PROVE  EmbeddingInv'
<1>1. CASE UNCHANGED embedVars
  <2>1. UNCHANGED <<text, stamp, vector, watermark, fresh, unseen, storing, repair,
                    changed, lies, state, command, job>>
    BY <1>1 DEF embedVars, rows, index, work, held, history
  <2> QED
    BY <2>1, SameCommand, QuietKeeps
<1>2. CASE \E m \in Message, k \in Kind :
             \/ Arrive(m, k)
             \/ \E same \in BOOLEAN : UpsertMessage(m, k, same)
             \/ UpsertMessageBody(m, k)
  BY <1>2, ArriveKeeps, UpsertMessageKeeps, UpsertMessageBodyKeeps
<1>3. CASE \E m \in Message : RemoveMessage(m) \/ RepairText(m)
  BY <1>3, RemoveMessageKeeps, RepairTextKeeps
<1>4. CASE ClearStamp \/ ClearStampFails \/ RepairStep
  BY <1>4, ClearStampKeeps, ClearStampFailsKeeps, ResetEmbedGenKeeps,
     ResetWatermarkBelowKeeps DEF RepairStep
<1>5. CASE \E kind \in {"retire", "activate"}, g \in Gen, force \in BOOLEAN :
             EmbeddingsCommand(kind, g, force)
  BY <1>5, EmbeddingsCommandKeeps
<1>6. CASE ActivateGeneration \/ RetireGeneration \/ EmbedJobRun
  BY <1>6, ActivateGenerationKeeps, RetireGenerationKeeps, EmbedJobRunKeeps
<1>7. CASE \E full \in BOOLEAN, mode \in {"once", "backstop"} :
             BuildCommand(full, mode)
  BY <1>7, BuildCommandKeeps
<1>8. CASE \E g \in Gen : BackstopDue(g)
  BY <1>8, BackstopDueKeeps
<1>9. CASE WorkerStep
  BY <1>9, ScanForEmbeddingKeeps, EmbedBatchKeeps, StampSkippedBatchKeeps,
     StampCoveredKeeps, AdvanceWatermarkKeeps, DrainEmbedKeeps,
     DrainStampKeeps, DrainEndsKeeps, CountMissingKeeps, PromoteBuiltKeeps
     DEF WorkerStep
<1>10. CASE BatchFails \/ DrainFails \/ Kill
  BY <1>10, BatchFailsKeeps, DrainFailsKeeps, KillKeeps
<1> QED
  BY <1>1, <1>2, <1>3, <1>4, <1>5, <1>6, <1>7, <1>8, <1>9, <1>10
     DEF EmbeddingNext

\* Every behaviour of the index keeps the inductive invariant.
THEOREM EmbeddingInvariant == EmbeddingSpec => []EmbeddingInv
<1>1. EmbeddingInv /\ [EmbeddingNext]_embedVars => EmbeddingInv'
  BY EmbeddingStepInv
<1> QED
  BY EmbeddingInitInv, <1>1, PTL DEF EmbeddingSpec

LEMMA AtMostOne ==
  ASSUME IndexTyped, OneEach, NEW s \in {"building", "active"}
  PROVE  Cardinality(InState(s)) <= 1
<1>1. CASE InState(s) = {}
  BY <1>1, FS_EmptySet
<1>2. CASE InState(s) # {}
  <2>1. PICK g \in Gen : InState(s) = {g}
    BY <1>2 DEF InState, OneEach
  <2>2. Cardinality({g}) = 1
    BY FS_Singleton, Zenon
  <2> QED
    BY <2>1, <2>2
<1> QED
  BY <1>1, <1>2

\* The parts of the state keep their types, and at most one generation serves
\* and one is built, whatever rebuilds, activations and retirements interleave.
THEOREM EmbeddingTypeCorrect == EmbeddingSpec => []EmbeddingTypeOK
<1>1. EmbeddingInv => EmbeddingTypeOK
  BY AtMostOne DEF EmbeddingInv, EmbeddingTypeOK, IndexTyped, OthersTyped,
     JobTyped, Job
<1> QED
  BY EmbeddingInvariant, <1>1, PTL

\* No stamp lies but where CoveredIsCurrent says, for any number of messages,
\* generations, edits and kills: of a row whose change was not lost in the second
\* of the worker's read or by a killed sync, what it stamps is what it embedded.
THEOREM StampsNeverLie == EmbeddingSpec => []CoveredIsCurrent
<1>1. EmbeddingInv => CoveredIsCurrent
  BY DEF EmbeddingInv, Covered, CoveredIsCurrent
<1> QED
  BY EmbeddingInvariant, <1>1, PTL

\* The watermark leaves behind only what changed after it was first stored, or
\* came under the id of a removed row.
THEOREM NobodyLeftBehind == EmbeddingSpec => []StragglersExcused
<1>1. EmbeddingInv => StragglersExcused
  BY DEF EmbeddingInv, WatermarksBehind, Passed, Settled, StragglersExcused,
         InState
<1> QED
  BY EmbeddingInvariant, <1>1, PTL

\* A serving generation is replaced or forced out, never just lost.
THEOREM ServingGoesOn == EmbeddingSpec => ServesUntilReplaced
<1> DEFINE Served == \A g \in Gen : state[g] = "active" /\ state'[g] = "retired"
                        => command.force \/ \E h \in Gen : state'[h] = "active"
<1>1. ASSUME EmbeddingInv, [EmbeddingNext]_embedVars PROVE Served
  <2>0. /\ IndexTyped /\ OneEach
        /\ command.kind # "none" => command.gen \in Gen
        /\ job.pc # "idle" => job.gen \in Gen
    BY <1>1 DEF EmbeddingInv, OthersTyped, JobTyped
  <2>1. CASE UNCHANGED state
    BY <2>1
  <2>2. CASE ActivateGeneration
    BY <2>0, <2>2, PromotedIsOne DEF ActivateGeneration
  <2>3. CASE PromoteBuilt
    BY <2>0, <2>3, PromotedIsOne DEF PromoteBuilt
  <2>4. CASE RetireGeneration
    BY <2>0, <2>4 DEF RetireGeneration, IndexTyped
  <2>5. ASSUME NEW full \in BOOLEAN, NEW mode \in {"once", "backstop"},
               BuildCommand(full, mode)
        PROVE  \A g \in Gen : state[g] = "active" => state'[g] # "retired"
    BY <2>0, <2>5 DEF BuildCommand, IndexTyped
  <2>6. \/ UNCHANGED state
        \/ ActivateGeneration \/ PromoteBuilt \/ RetireGeneration
        \/ \E full \in BOOLEAN, mode \in {"once", "backstop"} :
             BuildCommand(full, mode)
    BY <1>1 DEF EmbeddingNext, embedVars, index, RepairStep, WorkerStep, Arrive,
       UpsertMessage, UpsertMessageBody, ClearStamp, ClearStampFails, RemoveMessage,
       RepairText, RowChanges, ResetEmbedGen, ResetWatermarkBelow,
       EmbeddingsCommand, EmbedJobRun, BackstopDue, CountMissing, BatchFrame,
       BatchLeaves, ScanForEmbedding, EmbedBatch,
       StampSkippedBatch, StampCovered, AdvanceWatermark, DrainEmbed, DrainStamp,
       DrainEnds, BatchFails, DrainFails, Kill
  <2> QED
    BY <2>1, <2>2, <2>3, <2>4, <2>5, <2>6
<1>2. EmbeddingInv /\ [EmbeddingNext]_embedVars => Served
  BY <1>1
<1> QED
  BY EmbeddingInvariant, <1>2, PTL DEF EmbeddingSpec, ServesUntilReplaced
=============================================================================
