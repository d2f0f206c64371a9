--------------------------- MODULE Deletion_proofs ---------------------------
(***************************************************************************)
(* Proofs about Deletion, for manifests and batches of any length and any  *)
(* number of faults.                                                       *)
(***************************************************************************)
EXTENDS Deletion, SequenceTheorems, FiniteSetTheorems, TLAPS

Execution == [method : {"none", "trash", "delete"}, lastIndex : 0..MessageCount,
              succeeded : Nat, failed : Nat, failedIDs : Seq(Message)]
Manifests == [status : Status \cup {"absent", "torn"}, execution : Execution]
Tallies == [succeeded : Nat, failed : Nat, failedIDs : Seq(Message)]
Phase == {"none", "trash", "retry", "batch", "single"}
Step == {"idle", "begin", "check", "call", "mark", "final", "move", "write",
         "cancel"}

\* What is gone from the server, and what the archive knows of.
Gone == {m \in Message : remote[m] # "live"}
Noted == {m \in Message : local[m] # "live"} \cup markErrors

\* ProgressIsTrue and the second half of MarksAreTrue, of one record.
Truth(e, gone, noted) ==
  /\ e \in Execution
  /\ 1..e.lastIndex \subseteq gone \cup ToSet(e.failedIDs)
  /\ 1..e.lastIndex \subseteq noted \cup ToSet(e.failedIDs)
  /\ e.succeeded + e.failed = e.lastIndex
  /\ e.failed = Len(e.failedIDs)

\* The same of a running command, with `rest` still to be tried again.
Tallied(at, count, rest, gone, noted) ==
  /\ at \in 0..MessageCount /\ count \in Tallies /\ rest \in Seq(Message)
  /\ 1..at \subseteq gone \cup ToSet(count.failedIDs) \cup ToSet(rest)
  /\ 1..at \subseteq noted \cup ToSet(count.failedIDs) \cup ToSet(rest)
  /\ count.failed = Len(count.failedIDs)
  /\ count.succeeded + count.failed + Len(rest) = at

Typed ==
  /\ remote \in [Message -> {"live", "trashed", "deleted"}]
  /\ local \in [Message -> {"live", "marked", "removed"}]
  /\ markErrors \subseteq Message
  /\ file \in [Status -> Manifests] /\ manifest \in Manifests
  /\ pending \in [dir : Status, content : Manifests, next : {"idle", "check", "move"}]
  /\ step \in Step /\ phase \in Phase /\ ctxDone \in BOOLEAN
  /\ batchEnd \in 0..MessageCount /\ tried \subseteq Message
  /\ faults \in 0..MaxFaults

\* Nothing is taken for deleted that is there, and every record that a run may
\* read, hold or write is true.
RecordsTrue ==
  /\ \A m \in Message : local[m] # "live" => m \in Gone
  /\ \A d \in Status : Truth(file[d].execution, Gone, Noted)
  /\ Truth(manifest.execution, Gone, Noted)
  /\ Truth(pending.content.execution, Gone, Noted)

\* Which steps belong to delete-staged.
Placed ==
  /\ step \in {"idle", "cancel"} => phase = "none"
  /\ step \notin {"idle", "cancel", "write"} => phase # "none"
  /\ step = "begin" => phase = "retry"
  /\ step = "write" /\ phase = "none" => pending.next = "idle"

RunTrue ==
  /\ IF phase = "none" \/ step = "begin"
     THEN index = 0 /\ batchEnd = 0 /\ retry = <<>> /\ tally = NoTally /\ tried = {}
     ELSE Tallied(index, tally, retry, Gone, Noted)
  /\ phase # "retry" => retry = <<>>
  /\ step \in {"call", "mark"} => Left
  /\ step = "mark" => Targets \subseteq Gone
  /\ step = "final" => index = MessageCount /\ phase \in {"trash", "batch"}

\* Until the outcome replaces it the manifest holds the earlier failures.
Retried ==
  phase \in {"retry", "batch", "single"} /\ step \notin {"begin", "move"}
    /\ ~(step = "write" /\ pending.next = "move")
  => ToSet(manifest.execution.failedIDs) \subseteq tried \cup ToSet(retry)

\* The inductive invariant.
DeletionInv == Typed /\ RecordsTrue /\ Placed /\ RunTrue /\ Retried

-----------------------------------------------------------------------------
(* Lists of failed messages.                                               *)

LEMMA EmptyList == <<>> \in Seq(Message) /\ ToSet(<<>>) = {} /\ Len(<<>>) = 0
BY DEF ToSet

LEMMA AppendList ==
  ASSUME NEW s \in Seq(Message), NEW x \in Message
  PROVE  /\ Append(s, x) \in Seq(Message) /\ Len(Append(s, x)) = Len(s) + 1
         /\ ToSet(Append(s, x)) = ToSet(s) \cup {x}
<1>1. /\ Append(s, x) \in Seq(Message) /\ Len(Append(s, x)) = Len(s) + 1
      /\ \A i \in 1..Len(s) : Append(s, x)[i] = s[i]
      /\ Append(s, x)[Len(s) + 1] = x
  BY AppendProperties
<1>2. DOMAIN s = 1..Len(s) /\ DOMAIN Append(s, x) = 1..Len(s) + 1 /\ Len(s) \in Nat
  BY <1>1, LenProperties
<1>3. ASSUME NEW y PROVE y \in ToSet(Append(s, x)) <=> y \in ToSet(s) \/ y = x
  BY <1>1, <1>2 DEF ToSet
<1> QED
  BY <1>1, <1>3

LEMMA TailList ==
  ASSUME NEW s \in Seq(Message), s # <<>>
  PROVE  /\ Head(s) \in Message /\ Tail(s) \in Seq(Message)
         /\ Len(s) = Len(Tail(s)) + 1
         /\ ToSet(s) = {Head(s)} \cup ToSet(Tail(s))
<1>1. /\ Head(s) \in Message /\ Tail(s) \in Seq(Message)
      /\ Len(Tail(s)) = Len(s) - 1
      /\ \A i \in 1..Len(Tail(s)) : Tail(s)[i] = s[i + 1]
      /\ Head(s) = s[1]
  BY HeadTailProperties
<1>2. /\ DOMAIN s = 1..Len(s) /\ DOMAIN Tail(s) = 1..Len(Tail(s))
      /\ Len(s) \in Nat /\ Len(Tail(s)) \in Nat
  BY <1>1, LenProperties
<1>3. ASSUME NEW y PROVE y \in ToSet(s) <=> y = Head(s) \/ y \in ToSet(Tail(s))
  <2>1. ASSUME y \in ToSet(s) PROVE y = Head(s) \/ y \in ToSet(Tail(s))
    <3>1. PICK i \in 1..Len(s) : y = s[i]
      BY <1>2, <2>1 DEF ToSet
    <3>2. CASE i = 1
      BY <1>1, <3>1, <3>2
    <3>3. CASE i # 1
      <4>1. i - 1 \in 1..Len(Tail(s)) /\ (i - 1) + 1 = i
        BY <1>1, <1>2, <3>1, <3>3
      <4>2. y = Tail(s)[i - 1]
        BY <1>1, <3>1, <4>1
      <4> QED
        BY <1>2, <4>1, <4>2 DEF ToSet
    <3> QED
      BY <3>2, <3>3
  <2>2. ASSUME y = Head(s) \/ y \in ToSet(Tail(s)) PROVE y \in ToSet(s)
    BY <1>1, <1>2, <2>2 DEF ToSet
  <2> QED
    BY <2>1, <2>2
<1> QED
  BY <1>1, <1>2, <1>3

LEMMA ConcatList ==
  ASSUME NEW s \in Seq(Message), NEW t \in Seq(Message)
  PROVE  /\ s \o t \in Seq(Message) /\ Len(s \o t) = Len(s) + Len(t)
         /\ ToSet(s \o t) = ToSet(s) \cup ToSet(t)
<1>1. /\ s \o t \in Seq(Message) /\ Len(s \o t) = Len(s) + Len(t)
      /\ \A i \in 1..Len(s) + Len(t) :
           (s \o t)[i] = IF i <= Len(s) THEN s[i] ELSE t[i - Len(s)]
  BY ConcatProperties
<1>2. /\ DOMAIN s = 1..Len(s) /\ DOMAIN t = 1..Len(t)
      /\ DOMAIN (s \o t) = 1..Len(s) + Len(t)
      /\ Len(s) \in Nat /\ Len(t) \in Nat
  BY <1>1, LenProperties
<1>3. ASSUME NEW y PROVE y \in ToSet(s \o t) <=> y \in ToSet(s) \/ y \in ToSet(t)
  <2>1. ASSUME NEW i \in 1..Len(s) + Len(t), y = (s \o t)[i]
        PROVE  y \in ToSet(s) \/ y \in ToSet(t)
    <3>1. CASE i <= Len(s)
      BY <1>1, <1>2, <2>1, <3>1 DEF ToSet
    <3>2. CASE ~(i <= Len(s))
      <4>1. i - Len(s) \in 1..Len(t) /\ y = t[i - Len(s)]
        BY <1>1, <1>2, <2>1, <3>2
      <4> QED
        BY <1>2, <4>1 DEF ToSet
    <3> QED
      BY <3>1, <3>2
  <2>2. ASSUME NEW i \in 1..Len(s), y = s[i] PROVE y \in ToSet(s \o t)
    BY <1>1, <1>2, <2>2 DEF ToSet
  <2>3. ASSUME NEW i \in 1..Len(t), y = t[i] PROVE y \in ToSet(s \o t)
    <3>1. i + Len(s) \in 1..Len(s) + Len(t) /\ (s \o t)[i + Len(s)] = t[i]
      BY <1>1, <1>2, <2>3
    <3> QED
      BY <1>2, <2>3, <3>1 DEF ToSet
  <2> QED
    BY <1>2, <2>1, <2>2, <2>3 DEF ToSet
<1> QED
  BY <1>1, <1>3

-----------------------------------------------------------------------------
(* Records and tallies.                                                    *)

LEMMA TruthGrows ==
  ASSUME NEW e, NEW gone, NEW noted, NEW gone2, NEW noted2,
         Truth(e, gone, noted), gone \subseteq gone2, noted \subseteq noted2
  PROVE  Truth(e, gone2, noted2)
BY DEF Truth

LEMMA TalliedGrows ==
  ASSUME NEW at, NEW count, NEW rest, NEW gone, NEW noted, NEW gone2, NEW noted2,
         Tallied(at, count, rest, gone, noted),
         gone \subseteq gone2, noted \subseteq noted2
  PROVE  Tallied(at, count, rest, gone2, noted2)
BY DEF Tallied

\* A record without progress is true.
LEMMA NothingYet ==
  ASSUME NEW method \in {"none", "trash", "delete"}, NEW gone, NEW noted
  PROVE  Truth([NoExecution EXCEPT !.method = method], gone, noted)
<1> DEFINE e == [NoExecution EXCEPT !.method = method]
<1>1. /\ e = [method |-> method, lastIndex |-> 0, succeeded |-> 0, failed |-> 0,
             failedIDs |-> <<>>]
      /\ e.lastIndex = 0 /\ e.succeeded = 0 /\ e.failed = 0 /\ e.failedIDs = <<>>
  BY DEF NoExecution
<1> HIDE DEF e
<1>2. 0 \in 0..MessageCount /\ 1..0 = {}
  BY DeletionAssumption
<1>3. e \in Execution
  BY <1>1, <1>2, EmptyList DEF Execution
<1>4. Truth(e, gone, noted)
  <2>1. 1..e.lastIndex = {} /\ e.succeeded + e.failed = e.lastIndex
        /\ e.failed = Len(e.failedIDs)
    BY <1>1, <1>2, EmptyList
  <2> QED
    BY <1>3, <2>1 DEF Truth
<1> QED
  BY <1>4 DEF e

LEMMA NoExecutionTrue == \A gone, noted : Truth(NoExecution, gone, noted)
BY EmptyList, DeletionAssumption DEF Truth, Execution, NoExecution

\* A run goes on where the record stands, with its failures counted, or with
\* its failures to be tried again.
LEMMA ResumeTallied ==
  ASSUME NEW e, NEW gone, NEW noted, Truth(e, gone, noted)
  PROVE  /\ Tallied(e.lastIndex, [succeeded |-> e.succeeded, failed |-> e.failed,
                                  failedIDs |-> e.failedIDs], <<>>, gone, noted)
         /\ Tallied(e.lastIndex,
                    [succeeded |-> e.succeeded,
                     failed |-> IF e.failedIDs = <<>> THEN e.failed ELSE 0,
                     failedIDs |-> <<>>], e.failedIDs, gone, noted)
<1>1. /\ e.lastIndex \in 0..MessageCount /\ e.succeeded \in Nat /\ e.failed \in Nat
      /\ e.failedIDs \in Seq(Message)
      /\ e.succeeded + e.failed = e.lastIndex /\ e.failed = Len(e.failedIDs)
      /\ 1..e.lastIndex \subseteq gone \cup ToSet(e.failedIDs)
      /\ 1..e.lastIndex \subseteq noted \cup ToSet(e.failedIDs)
  BY DEF Truth, Execution
<1>2. e.failedIDs = <<>> => e.failed = 0
  BY <1>1, EmptyList
<1> QED
  BY <1>1, <1>2, EmptyList DEF Tallied, Tallies

\* What is saved of a true tally is a true record.
LEMMA CheckpointTrue ==
  ASSUME NEW at, NEW count, NEW rest, NEW gone, NEW noted,
         Tallied(at, count, rest, gone, noted), NEW e \in Execution
  PROVE  /\ Truth([e EXCEPT !.lastIndex = at, !.succeeded = count.succeeded,
                            !.failed = Len(count.failedIDs \o rest),
                            !.failedIDs = count.failedIDs \o rest], gone, noted)
         /\ rest = <<>> => /\ count.failed = Len(count.failedIDs \o rest)
                           /\ count.failedIDs \o rest = count.failedIDs
<1>1. /\ at \in 0..MessageCount /\ count.succeeded \in Nat
      /\ count.failedIDs \in Seq(Message) /\ rest \in Seq(Message)
      /\ count.failed = Len(count.failedIDs)
      /\ count.succeeded + count.failed + Len(rest) = at
      /\ 1..at \subseteq gone \cup ToSet(count.failedIDs) \cup ToSet(rest)
      /\ 1..at \subseteq noted \cup ToSet(count.failedIDs) \cup ToSet(rest)
  BY DEF Tallied, Tallies
<1> DEFINE ids == count.failedIDs \o rest
<1>2. /\ ids \in Seq(Message) /\ Len(ids) = Len(count.failedIDs) + Len(rest)
      /\ ToSet(ids) = ToSet(count.failedIDs) \cup ToSet(rest)
      /\ Len(rest) \in Nat /\ Len(count.failedIDs) \in Nat
  BY <1>1, ConcatList, LenProperties
<1>3. rest = <<>> => ids = count.failedIDs
  BY <1>1, ConcatEmptySeq
<1> HIDE DEF ids
<1> DEFINE f == [e EXCEPT !.lastIndex = at, !.succeeded = count.succeeded,
                          !.failed = Len(ids), !.failedIDs = ids]
<1>4. /\ f \in Execution
      /\ f.lastIndex = at /\ f.succeeded = count.succeeded
      /\ f.failed = Len(ids) /\ f.failedIDs = ids
  <2>1. f = [method |-> e.method, lastIndex |-> at, succeeded |-> count.succeeded,
             failed |-> Len(ids), failedIDs |-> ids]
    <3> DEFINE f1 == [e EXCEPT !.lastIndex = at]
               f2 == [f1 EXCEPT !.succeeded = count.succeeded]
               f3 == [f2 EXCEPT !.failed = Len(ids)]
               f4 == [f3 EXCEPT !.failedIDs = ids]
    <3>1. f1 = [method |-> e.method, lastIndex |-> at, succeeded |-> e.succeeded,
                failed |-> e.failed, failedIDs |-> e.failedIDs]
      BY DEF Execution
    <3>2. f = f4
      OBVIOUS
    <3> HIDE DEF f1
    <3>3. f2 = [method |-> e.method, lastIndex |-> at, succeeded |-> count.succeeded,
                failed |-> e.failed, failedIDs |-> e.failedIDs]
      BY <3>1
    <3> HIDE DEF f2
    <3>4. f3 = [method |-> e.method, lastIndex |-> at, succeeded |-> count.succeeded,
                failed |-> Len(ids), failedIDs |-> e.failedIDs]
      BY <3>3
    <3> HIDE DEF f3
    <3>5. f4 = [method |-> e.method, lastIndex |-> at, succeeded |-> count.succeeded,
                failed |-> Len(ids), failedIDs |-> ids]
      BY <3>4
    <3> QED
      BY <3>2, <3>5
  <2> HIDE DEF f
  <2>2. e.method \in {"none", "trash", "delete"} /\ Len(ids) \in Nat
    BY <1>2 DEF Execution
  <2>3. f \in Execution
    BY <1>1, <1>2, <2>1, <2>2 DEF Execution
  <2> QED
    BY <2>1, <2>3
<1> HIDE DEF f
<1>5. Truth(f, gone, noted)
  <2>1. f.succeeded + f.failed = f.lastIndex
    BY <1>1, <1>2, <1>4
  <2>2. /\ 1..f.lastIndex \subseteq gone \cup ToSet(f.failedIDs)
        /\ 1..f.lastIndex \subseteq noted \cup ToSet(f.failedIDs)
    BY <1>1, <1>2, <1>4
  <2> QED
    BY <1>4, <2>1, <2>2 DEF Truth
<1>6. rest = <<>> => count.failed = Len(ids)
  BY <1>1, <1>3
<1> QED
  BY <1>3, <1>5, <1>6 DEF f, ids

\* The message that comes next: the first of those to be tried again, or the
\* one after the last passed.
Passed(at, rest, at2, rest2, x) ==
  \/ rest # <<>> /\ at2 = at /\ x = Head(rest) /\ rest2 = Tail(rest)
  \/ rest = <<>> /\ at2 = at + 1 /\ x = at + 1 /\ x \in Message /\ rest2 = rest

LEMMA NextPassed ==
  ASSUME NEW at \in 0..MessageCount, NEW rest \in Seq(Message),
         NEW at2, NEW rest2, NEW x, Passed(at, rest, at2, rest2, x)
  PROVE  /\ x \in Message /\ at2 \in 0..MessageCount /\ rest2 \in Seq(Message)
         /\ Len(rest) \in Nat /\ Len(rest2) \in Nat
         /\ at2 + Len(rest) = at + Len(rest2) + 1
         /\ 1..at2 \subseteq 1..at \cup {x}
         /\ ToSet(rest) \subseteq ToSet(rest2) \cup {x}
<1>1. CASE rest # <<>> /\ at2 = at /\ x = Head(rest) /\ rest2 = Tail(rest)
  <2>1. /\ x \in Message /\ rest2 \in Seq(Message) /\ Len(rest) = Len(rest2) + 1
        /\ ToSet(rest) = {x} \cup ToSet(rest2)
    BY <1>1, TailList
  <2>2. Len(rest2) \in Nat
    BY <2>1, LenProperties
  <2> QED
    BY <1>1, <2>1, <2>2
<1>2. CASE rest = <<>> /\ at2 = at + 1 /\ x = at + 1 /\ x \in Message /\ rest2 = rest
  <2>1. at2 \in 0..MessageCount /\ Len(rest) = 0 /\ Len(rest2) = 0
    BY <1>2, EmptyList, DeletionAssumption DEF Message
  <2>2. 1..at2 \subseteq 1..at \cup {x}
    BY <1>2
  <2> QED
    BY <1>2, <2>1, <2>2
<1> QED
  BY <1>1, <1>2 DEF Passed

LEMMA TalliedParts ==
  ASSUME NEW at, NEW count, NEW rest, NEW gone, NEW noted,
         Tallied(at, count, rest, gone, noted)
  PROVE  /\ at \in 0..MessageCount /\ count.succeeded \in Nat /\ count.failed \in Nat
         /\ count.failedIDs \in Seq(Message) /\ rest \in Seq(Message) /\ count \in Tallies
         /\ count.failed = Len(count.failedIDs) /\ Len(rest) \in Nat
         /\ count.succeeded + count.failed + Len(rest) = at
         /\ 1..at \subseteq gone \cup ToSet(count.failedIDs) \cup ToSet(rest)
         /\ 1..at \subseteq noted \cup ToSet(count.failedIDs) \cup ToSet(rest)
<1>1. rest \in Seq(Message) => Len(rest) \in Nat
  BY LenProperties
<1> QED
  BY <1>1 DEF Tallied, Tallies

LEMMA FailureTallied ==
  ASSUME NEW at, NEW count, NEW rest, NEW gone, NEW noted,
         Tallied(at, count, rest, gone, noted),
         NEW at2, NEW rest2, NEW x, Passed(at, rest, at2, rest2, x)
  PROVE  Tallied(at2, [count EXCEPT !.failed = @ + 1,
                                    !.failedIDs = Append(@, x)], rest2, gone, noted)
<1>1. /\ at \in 0..MessageCount /\ count.succeeded \in Nat /\ count.failed \in Nat
      /\ count.failedIDs \in Seq(Message) /\ rest \in Seq(Message) /\ count \in Tallies
      /\ count.failed = Len(count.failedIDs)
      /\ count.succeeded + count.failed + Len(rest) = at
      /\ 1..at \subseteq gone \cup ToSet(count.failedIDs) \cup ToSet(rest)
      /\ 1..at \subseteq noted \cup ToSet(count.failedIDs) \cup ToSet(rest)
  BY TalliedParts
<1>2. /\ x \in Message /\ at2 \in 0..MessageCount /\ rest2 \in Seq(Message)
      /\ Len(rest) \in Nat /\ Len(rest2) \in Nat
      /\ at2 + Len(rest) = at + Len(rest2) + 1
      /\ 1..at2 \subseteq 1..at \cup {x}
      /\ ToSet(rest) \subseteq ToSet(rest2) \cup {x}
  BY <1>1, NextPassed
<1> DEFINE ids == Append(count.failedIDs, x)
           c == [count EXCEPT !.failed = @ + 1, !.failedIDs = Append(@, x)]
<1>3. /\ ids \in Seq(Message) /\ Len(ids) = Len(count.failedIDs) + 1
      /\ ToSet(ids) = ToSet(count.failedIDs) \cup {x}
  BY <1>1, <1>2, AppendList
<1>4. c = [count EXCEPT !.failed = count.failed + 1, !.failedIDs = ids]
  OBVIOUS
<1> HIDE DEF ids
<1>5. /\ c \in Tallies /\ c.succeeded = count.succeeded
      /\ c.failed = count.failed + 1 /\ c.failedIDs = ids
  <2> HIDE DEF c
  <2>1. c = [succeeded |-> count.succeeded, failed |-> count.failed + 1,
             failedIDs |-> ids]
    BY <1>1, <1>4 DEF Tallies
  <2>2. c \in Tallies
    BY <1>1, <1>3, <2>1 DEF Tallies
  <2> QED
    BY <2>1, <2>2
<1> HIDE DEF c
<1>6. /\ 1..at2 \subseteq gone \cup ToSet(c.failedIDs) \cup ToSet(rest2)
      /\ 1..at2 \subseteq noted \cup ToSet(c.failedIDs) \cup ToSet(rest2)
  BY <1>1, <1>2, <1>3, <1>5
<1>7. c.failed = Len(c.failedIDs) /\ c.succeeded + c.failed + Len(rest2) = at2
  <2>1. c.failed = Len(c.failedIDs)
    BY <1>1, <1>3, <1>5
  <2>2. count.succeeded + (count.failed + 1) + Len(rest2) = at2
    <3> DEFINE s == count.succeeded
               f == count.failed
               l == Len(rest)
               l2 == Len(rest2)
    <3>1. /\ s \in Nat /\ f \in Nat /\ l \in Nat /\ l2 \in Nat
          /\ at \in Int /\ at2 \in Int /\ s + f + l = at /\ at2 + l = at + l2 + 1
      BY <1>1, <1>2
    <3> HIDE DEF s, f, l, l2
    <3>2. s + (f + 1) + l2 = at2
      BY <3>1
    <3> QED
      BY <3>2 DEF s, f, l2
  <2> QED
    BY <1>5, <2>1, <2>2
<1>8. Tallied(at2, c, rest2, gone, noted)
  BY <1>2, <1>5, <1>6, <1>7 DEF Tallied
<1> QED
  BY <1>8 DEF c

LEMMA SuccessTallied ==
  ASSUME NEW at, NEW count, NEW rest, NEW gone, NEW noted,
         Tallied(at, count, rest, gone, noted),
         NEW at2, NEW rest2, NEW x, Passed(at, rest, at2, rest2, x),
         x \in gone, x \in noted
  PROVE  Tallied(at2, [count EXCEPT !.succeeded = @ + 1], rest2, gone, noted)
<1>1. /\ at \in 0..MessageCount /\ count.succeeded \in Nat /\ count.failed \in Nat
      /\ count.failedIDs \in Seq(Message) /\ rest \in Seq(Message) /\ count \in Tallies
      /\ count.failed = Len(count.failedIDs)
      /\ count.succeeded + count.failed + Len(rest) = at
      /\ 1..at \subseteq gone \cup ToSet(count.failedIDs) \cup ToSet(rest)
      /\ 1..at \subseteq noted \cup ToSet(count.failedIDs) \cup ToSet(rest)
  BY TalliedParts
<1>2. /\ x \in Message /\ at2 \in 0..MessageCount /\ rest2 \in Seq(Message)
      /\ Len(rest) \in Nat /\ Len(rest2) \in Nat
      /\ at2 + Len(rest) = at + Len(rest2) + 1
      /\ 1..at2 \subseteq 1..at \cup {x}
      /\ ToSet(rest) \subseteq ToSet(rest2) \cup {x}
  BY <1>1, NextPassed
<1> DEFINE c == [count EXCEPT !.succeeded = @ + 1]
<1>3. /\ c \in Tallies /\ c.succeeded = count.succeeded + 1
      /\ c.failed = count.failed /\ c.failedIDs = count.failedIDs
  BY <1>1 DEF Tallies
<1> HIDE DEF c
<1>4. /\ 1..at2 \subseteq gone \cup ToSet(c.failedIDs) \cup ToSet(rest2)
      /\ 1..at2 \subseteq noted \cup ToSet(c.failedIDs) \cup ToSet(rest2)
  BY <1>1, <1>2, <1>3
<1>5. c.failed = Len(c.failedIDs) /\ c.succeeded + c.failed + Len(rest2) = at2
  <2>1. c.failed = Len(c.failedIDs)
    BY <1>1, <1>3
  <2>2. (count.succeeded + 1) + count.failed + Len(rest2) = at2
    <3> DEFINE s == count.succeeded
               f == count.failed
               l == Len(rest)
               l2 == Len(rest2)
    <3>1. /\ s \in Nat /\ f \in Nat /\ l \in Nat /\ l2 \in Nat
          /\ at \in Int /\ at2 \in Int /\ s + f + l = at /\ at2 + l = at + l2 + 1
      BY <1>1, <1>2
    <3> HIDE DEF s, f, l, l2
    <3>2. (s + 1) + f + l2 = at2
      BY <3>1
    <3> QED
      BY <3>2 DEF s, f, l2
  <2> QED
    BY <1>3, <2>1, <2>2
<1>6. Tallied(at2, c, rest2, gone, noted)
  BY <1>2, <1>3, <1>4, <1>5 DEF Tallied
<1> QED
  BY <1>6 DEF c

LEMMA BatchTallied ==
  ASSUME NEW at, NEW count, NEW gone, NEW noted,
         Tallied(at, count, <<>>, gone, noted),
         NEW to \in 0..MessageCount, at <= to,
         at + 1..to \subseteq gone, at + 1..to \subseteq noted
  PROVE  Tallied(to, [count EXCEPT !.succeeded = @ + (to - at)], <<>>, gone, noted)
<1>1. /\ at \in 0..MessageCount /\ count.succeeded \in Nat /\ count.failed \in Nat
      /\ count.failedIDs \in Seq(Message) /\ count \in Tallies
      /\ count.failed = Len(count.failedIDs)
      /\ count.succeeded + count.failed = at
      /\ 1..at \subseteq gone \cup ToSet(count.failedIDs)
      /\ 1..at \subseteq noted \cup ToSet(count.failedIDs)
  BY TalliedParts, EmptyList
<1>2. to - at \in Nat
  BY <1>1, DeletionAssumption
<1>3. 1..to \subseteq 1..at \cup (at + 1..to)
  BY <1>1, DeletionAssumption
<1> DEFINE c == [count EXCEPT !.succeeded = @ + (to - at)]
<1>4. /\ c \in Tallies /\ c.succeeded = count.succeeded + (to - at)
      /\ c.failed = count.failed /\ c.failedIDs = count.failedIDs
  BY <1>1, <1>2, SMTT(30) DEF Tallies
<1> HIDE DEF c
<1>5. c.failed = Len(c.failedIDs) /\ c.succeeded + c.failed + Len(<<>>) = to
  <2>1. c.failed = Len(c.failedIDs)
    BY <1>1, <1>4
  <2>2. count.succeeded + (to - at) + count.failed = to
    BY <1>1
  <2>3. c.succeeded + c.failed = to
    BY <1>4, <2>2
  <2> QED
    BY <2>1, <2>3, EmptyList
<1>6. Tallied(to, c, <<>>, gone, noted)
  BY <1>1, <1>3, <1>4, <1>5, EmptyList DEF Tallied
<1> QED
  BY <1>6 DEF c

-----------------------------------------------------------------------------
(* Writes and moves of the manifest's file.                                *)

LEMMA MadeManifest ==
  ASSUME NEW status \in Status \cup {"absent", "torn"}, NEW e \in Execution
  PROVE  /\ Manifest(status, e) \in Manifests
         /\ Manifest(status, e).status = status /\ Manifest(status, e).execution = e
BY DEF Manifest, Manifests

LEMMA NoManifest ==
  \A gone, noted : /\ Absent \in Manifests /\ Torn \in Manifests
                   /\ Truth(Absent.execution, gone, noted)
                   /\ Truth(Torn.execution, gone, noted)
<1>1. NoExecution \in Execution
  BY NoExecutionTrue DEF Truth
<1>2. /\ Absent \in Manifests /\ Torn \in Manifests
      /\ Absent.execution = NoExecution /\ Torn.execution = NoExecution
  BY <1>1 DEF Absent, Torn, Manifest, Manifests
<1> QED
  BY <1>2, NoExecutionTrue

LEMMA NoWriteTyped ==
  /\ NoWrite \in [dir : Status, content : Manifests, next : {"idle", "check", "move"}]
  /\ NoWrite.content = Absent
BY NoManifest DEF NoWrite, Status

LEMMA NothingGoes ==
  ASSUME UNCHANGED <<remote, local, markErrors>>
  PROVE  Gone' = Gone /\ Noted' = Noted
BY DEF Gone, Noted

\* What every record still satisfies while more messages go.
LEMMA RecordsGrow ==
  ASSUME RecordsTrue, Gone \subseteq Gone', Noted \subseteq Noted'
  PROVE  /\ \A d \in Status : Truth(file[d].execution, Gone', Noted')
         /\ Truth(manifest.execution, Gone', Noted')
         /\ Truth(pending.content.execution, Gone', Noted')
<1>1. ASSUME NEW d \in Status PROVE Truth(file[d].execution, Gone', Noted')
  BY TruthGrows DEF RecordsTrue
<1>2. Truth(manifest.execution, Gone', Noted')
  BY TruthGrows DEF RecordsTrue
<1>3. Truth(pending.content.execution, Gone', Noted')
  BY TruthGrows DEF RecordsTrue
<1> QED
  BY <1>1, <1>2, <1>3

\* The part of the invariant about the files.
LEMMA FileReplaced ==
  ASSUME file \in [Status -> Manifests], NEW gone, NEW noted,
         \A d \in Status : Truth(file[d].execution, gone, noted),
         NEW a, NEW x \in Manifests, Truth(x.execution, gone, noted),
         file' = [file EXCEPT ![a] = x]
  PROVE  /\ file' \in [Status -> Manifests]
         /\ \A d \in Status : Truth(file'[d].execution, gone, noted)
<1>1. file' \in [Status -> Manifests]
  OBVIOUS
<1>2. ASSUME NEW d \in Status PROVE file'[d] = file[d] \/ file'[d] = x
  OBVIOUS
<1>3. ASSUME NEW d \in Status PROVE Truth(file'[d].execution, gone, noted)
  BY <1>2
<1> QED
  BY <1>1, <1>3

LEMMA FileMoved ==
  ASSUME file \in [Status -> Manifests], NEW gone, NEW noted,
         \A d \in Status : Truth(file[d].execution, gone, noted),
         NEW a, NEW b \in Status,
         file' = [file EXCEPT ![a] = file[b], ![b] = Absent]
  PROVE  /\ file' \in [Status -> Manifests]
         /\ \A d \in Status : Truth(file'[d].execution, gone, noted)
<1>1. Absent \in Manifests /\ Truth(Absent.execution, gone, noted)
  BY NoManifest
<1>2. file' \in [Status -> Manifests]
  BY <1>1
<1>3. ASSUME NEW d \in Status
      PROVE  file'[d] = file[d] \/ file'[d] = file[b] \/ file'[d] = Absent
  BY <1>1
<1>4. ASSUME NEW d \in Status PROVE Truth(file'[d].execution, gone, noted)
  BY <1>1, <1>3
<1> QED
  BY <1>2, <1>4

LEMMA FileCutShort ==
  ASSUME file \in [Status -> Manifests], NEW gone, NEW noted,
         \A d \in Status : Truth(file[d].execution, gone, noted),
         CutShort \/ file' = file
  PROVE  /\ file' \in [Status -> Manifests]
         /\ \A d \in Status : Truth(file'[d].execution, gone, noted)
<1>1. CASE file' = file
  BY <1>1
<1>2. CASE file' = [file EXCEPT ![pending.dir] = Torn]
  <2>1. Torn \in Manifests /\ Truth(Torn.execution, gone, noted)
    BY NoManifest
  <2> QED
    BY <1>2, <2>1, FileReplaced
<1> QED
  BY <1>1, <1>2 DEF CutShort

LEMMA SaveTrue ==
  ASSUME file \in [Status -> Manifests], NEW gone, NEW noted,
         \A d \in Status : Truth(file[d].execution, gone, noted),
         NEW dir \in Status, NEW content \in Manifests,
         Truth(content.execution, gone, noted),
         NEW then \in {"idle", "check", "move"}, Save(dir, content, then)
  PROVE  /\ file' \in [Status -> Manifests]
         /\ \A d \in Status : Truth(file'[d].execution, gone, noted)
         /\ pending' \in [dir : Status, content : Manifests,
                          next : {"idle", "check", "move"}]
         /\ Truth(pending'.content.execution, gone, noted)
         /\ pending'.next = then /\ step' = "write"
<1>1. /\ file' \in [Status -> Manifests]
      /\ \A d \in Status : Truth(file'[d].execution, gone, noted)
  BY DEF Save
<1>2. /\ pending' \in [dir : Status, content : Manifests,
                       next : {"idle", "check", "move"}]
      /\ pending'.content = content /\ pending'.next = then /\ step' = "write"
  BY DEF Save
<1> QED
  BY <1>1, <1>2

LEMMA SaveCheckpointTrue ==
  ASSUME file \in [Status -> Manifests], NEW gone, NEW noted,
         \A d \in Status : Truth(file[d].execution, gone, noted),
         manifest \in Manifests,
         phase # "retry" => retry = <<>>,
         NEW at, NEW count, Tallied(at, count, retry, gone, noted),
         NEW then \in {"idle", "check", "move"}, SaveCheckpoint(at, count, then)
  PROVE  /\ file' \in [Status -> Manifests]
         /\ \A d \in Status : Truth(file'[d].execution, gone, noted)
         /\ pending' \in [dir : Status, content : Manifests,
                          next : {"idle", "check", "move"}]
         /\ Truth(pending'.content.execution, gone, noted)
         /\ pending'.next = then /\ step' = "write"
<1> DEFINE ids == count.failedIDs \o retry
           e == [manifest.execution EXCEPT
                   !.lastIndex = at, !.succeeded = count.succeeded,
                   !.failed = IF phase = "retry" THEN Len(ids) ELSE count.failed,
                   !.failedIDs = ids]
           e2 == [manifest.execution EXCEPT
                   !.lastIndex = at, !.succeeded = count.succeeded,
                   !.failed = Len(ids), !.failedIDs = ids]
<1>1. Save("in_progress", Manifest(manifest.status, e), then)
  BY DEF SaveCheckpoint
<1>2. /\ manifest.execution \in Execution
      /\ manifest.status \in Status \cup {"absent", "torn"}
  BY DEF Manifests
<1>3. Truth(e2, gone, noted) /\ (retry = <<>> => count.failed = Len(ids))
  BY <1>2, CheckpointTrue
<1>4. (IF phase = "retry" THEN Len(ids) ELSE count.failed) = Len(ids)
  BY <1>3
<1>5. e = e2
  BY <1>4
<1> HIDE DEF e, e2
<1>6. Truth(e, gone, noted) /\ e \in Execution
  BY <1>3, <1>5 DEF Truth
<1>7. /\ Manifest(manifest.status, e) \in Manifests
      /\ Manifest(manifest.status, e).execution = e
  BY <1>2, <1>6, MadeManifest
<1>8. "in_progress" \in Status
  BY DEF Status
<1> QED
  BY <1>1, <1>6, <1>7, <1>8, SaveTrue

-----------------------------------------------------------------------------
(* Steps that leave server and archive alone.                              *)

LEMMA NothingKept ==
  ASSUME Forget
  PROVE  /\ phase' = "none" /\ ctxDone' = FALSE /\ manifest' = Absent
         /\ index' = 0 /\ batchEnd' = 0 /\ retry' = <<>>
         /\ tally' = NoTally /\ tried' = {}
         /\ 0 \in 0..MessageCount
BY DeletionAssumption DEF Forget

\* A command that ends leaves a true record behind.
LEMMA EndKeeps ==
  ASSUME DeletionInv, Forget, step' = "idle",
         UNCHANGED <<remote, local, markErrors>>,
         file' \in [Status -> Manifests],
         \A d \in Status : Truth(file'[d].execution, Gone, Noted),
         pending' = pending \/ pending' = NoWrite, faults' \in 0..MaxFaults
  PROVE  DeletionInv'
<1>1. Gone' = Gone /\ Noted' = Noted
  BY NothingGoes
<1>2. /\ Absent \in Manifests /\ Truth(Absent.execution, Gone, Noted)
      /\ NoWrite.content = Absent
      /\ NoWrite \in [dir : Status, content : Manifests, next : {"idle", "check", "move"}]
  BY NoManifest, NoWriteTyped
<1>3. /\ phase' = "none" /\ ctxDone' = FALSE /\ manifest' = Absent
      /\ index' = 0 /\ batchEnd' = 0 /\ retry' = <<>>
      /\ tally' = NoTally /\ tried' = {} /\ 0 \in 0..MessageCount
  BY NothingKept
<1>4. Typed'
  BY <1>2, <1>3 DEF DeletionInv, Typed, Step, Phase
<1>5. Truth(pending'.content.execution, Gone, Noted)
  BY <1>2 DEF DeletionInv, RecordsTrue
<1>6. RecordsTrue'
  BY <1>1, <1>2, <1>3, <1>5 DEF DeletionInv, RecordsTrue
<1>7. Placed' /\ RunTrue' /\ Retried'
  BY <1>3 DEF Placed, RunTrue, Retried
<1> QED
  BY <1>4, <1>6, <1>7 DEF DeletionInv

\* A running command goes on where it stood.
LEMMA GoesOn ==
  ASSUME DeletionInv, step = "write", step' = pending.next,
         step' # "idle", UNCHANGED memory,
         UNCHANGED <<remote, local, markErrors>>,
         file' \in [Status -> Manifests],
         \A d \in Status : Truth(file'[d].execution, Gone, Noted),
         pending' = NoWrite, faults' \in 0..MaxFaults
  PROVE  DeletionInv'
<1>1. Gone' = Gone /\ Noted' = Noted
  BY NothingGoes
<1>2. /\ Absent \in Manifests /\ Truth(Absent.execution, Gone, Noted)
      /\ NoWrite.content = Absent
      /\ NoWrite \in [dir : Status, content : Manifests, next : {"idle", "check", "move"}]
  BY NoManifest, NoWriteTyped
<1>3. /\ phase' = phase /\ ctxDone' = ctxDone /\ manifest' = manifest
      /\ index' = index /\ batchEnd' = batchEnd /\ retry' = retry
      /\ tally' = tally /\ tried' = tried
  BY DEF memory
<1>4. step' \in {"check", "move"} /\ pending.next \in {"check", "move"}
  BY DEF DeletionInv, Typed
<1>5. Typed'
  BY <1>2, <1>3, <1>4 DEF DeletionInv, Typed, Step
<1>6. RecordsTrue'
  BY <1>1, <1>2, <1>3 DEF DeletionInv, RecordsTrue
<1>7. phase # "none"
  BY <1>4 DEF DeletionInv, Placed
<1>8. Placed'
  BY <1>3, <1>4, <1>7 DEF Placed
<1>9. RunTrue'
  BY <1>1, <1>3, <1>4, <1>7 DEF DeletionInv, RunTrue
<1>10. Retried'
  BY <1>3, <1>4 DEF DeletionInv, Retried
<1> QED
  BY <1>5, <1>6, <1>8, <1>9, <1>10 DEF DeletionInv

LEMMA WriteKeeps ==
  ASSUME DeletionInv, Write
  PROVE  DeletionInv'
<1>1. /\ step = "write" /\ file' = [file EXCEPT ![pending.dir] = pending.content]
      /\ step' = pending.next /\ EndsAt(pending.next) /\ pending' = NoWrite
      /\ UNCHANGED <<remote, local, markErrors>> /\ faults' = faults
  BY DEF Write
<1>2. /\ file \in [Status -> Manifests] /\ pending.content \in Manifests
      /\ faults \in 0..MaxFaults
      /\ \A d \in Status : Truth(file[d].execution, Gone, Noted)
      /\ Truth(pending.content.execution, Gone, Noted)
  BY DEF DeletionInv, Typed, RecordsTrue
<1>3. /\ file' \in [Status -> Manifests]
      /\ \A d \in Status : Truth(file'[d].execution, Gone, Noted)
  BY <1>1, <1>2, FileReplaced
<1>4. CASE pending.next = "idle"
  BY <1>1, <1>2, <1>3, <1>4, EndKeeps DEF EndsAt
<1>5. CASE pending.next # "idle"
  BY <1>1, <1>2, <1>3, <1>5, GoesOn DEF EndsAt
<1> QED
  BY <1>4, <1>5

LEMMA FaultTyped ==
  ASSUME NEW kind, Fault(kind), faults \in 0..MaxFaults
  PROVE  faults' \in 0..MaxFaults
BY DeletionAssumption DEF Fault

LEMMA WriteFailsKeeps ==
  ASSUME DeletionInv, WriteFails
  PROVE  DeletionInv'
<1>1. /\ step = "write" /\ pending' = NoWrite
      /\ UNCHANGED <<remote, local, markErrors>> /\ CutShort
  BY DEF WriteFails
<1>2. /\ file' \in [Status -> Manifests] /\ faults \in 0..MaxFaults
      /\ \A d \in Status : Truth(file'[d].execution, Gone, Noted)
  BY <1>1, FileCutShort DEF DeletionInv, Typed, RecordsTrue
<1>3. faults' \in 0..MaxFaults
  BY <1>2, FaultTyped DEF WriteFails
<1>4. /\ step' = "idle" \/ step' = pending.next
      /\ IF step' = "idle" THEN Forget ELSE UNCHANGED memory
  BY DEF WriteFails, EndsAt
<1>5. CASE step' = "idle"
  BY <1>1, <1>2, <1>3, <1>4, <1>5, EndKeeps
<1>6. CASE step' # "idle"
  BY <1>1, <1>2, <1>3, <1>4, <1>6, GoesOn
<1> QED
  BY <1>5, <1>6

LEMMA KillKeeps ==
  ASSUME DeletionInv, Kill
  PROVE  DeletionInv'
<1>1. /\ step' = "idle" /\ Forget /\ pending' = NoWrite
      /\ UNCHANGED <<remote, local, markErrors>> /\ (CutShort \/ file' = file)
  BY DEF Kill
<1>2. /\ file' \in [Status -> Manifests] /\ faults \in 0..MaxFaults
      /\ \A d \in Status : Truth(file'[d].execution, Gone, Noted)
  BY <1>1, FileCutShort DEF DeletionInv, Typed, RecordsTrue
<1>3. faults' \in 0..MaxFaults
  BY <1>2, FaultTyped DEF Kill
<1> QED
  BY <1>1, <1>2, <1>3, EndKeeps

LEMMA MoveToOutcomeKeeps ==
  ASSUME DeletionInv, MoveToOutcome
  PROVE  DeletionInv'
<1>1. /\ step' = "idle" /\ Forget /\ pending' = pending
      /\ UNCHANGED <<remote, local, markErrors>> /\ faults' = faults
      /\ \/ file' = file
         \/ file' = [file EXCEPT ![manifest.status] = file["in_progress"],
                                 !["in_progress"] = Absent]
  BY DEF MoveToOutcome
<1>2. /\ file \in [Status -> Manifests] /\ faults \in 0..MaxFaults
      /\ \A d \in Status : Truth(file[d].execution, Gone, Noted)
      /\ "in_progress" \in Status
  BY DEF DeletionInv, Typed, RecordsTrue, Status
<1>3. /\ file' \in [Status -> Manifests]
      /\ \A d \in Status : Truth(file'[d].execution, Gone, Noted)
  BY <1>1, <1>2, FileMoved
<1> QED
  BY <1>1, <1>2, <1>3, EndKeeps

LEMMA InterruptKeeps ==
  ASSUME DeletionInv, Interrupt
  PROVE  DeletionInv'
<1>1. /\ UNCHANGED <<remote, local, markErrors>> /\ file' = file /\ step' = step
      /\ phase' = phase /\ manifest' = manifest /\ index' = index
      /\ batchEnd' = batchEnd /\ retry' = retry /\ tally' = tally
      /\ tried' = tried /\ pending' = pending /\ ctxDone' = TRUE
  BY DEF Interrupt, disk
<1>2. faults' \in 0..MaxFaults
  BY FaultTyped DEF Interrupt, DeletionInv, Typed
<1>3. Gone' = Gone /\ Noted' = Noted
  BY <1>1, NothingGoes
<1>4. Typed'
  BY <1>1, <1>2 DEF DeletionInv, Typed
<1>5. RecordsTrue' /\ Placed' /\ Retried'
  BY <1>1, <1>3 DEF DeletionInv, RecordsTrue, Placed, Retried
<1>6. Left' = Left /\ Targets' = Targets
  BY <1>1 DEF Left, Targets, NextMessage
<1>7. RunTrue'
  BY <1>1, <1>3, <1>6 DEF DeletionInv, RunTrue
<1> QED
  BY <1>4, <1>5, <1>7 DEF DeletionInv

\* Nothing changes but the place of a command that has no tally yet.
LEMMA LoopEndsKeeps ==
  ASSUME DeletionInv, LoopEnds
  PROVE  DeletionInv'
<1>1. /\ UNCHANGED <<remote, local, markErrors>> /\ file' = file
      /\ manifest' = manifest /\ index' = index /\ ctxDone' = ctxDone
      /\ batchEnd' = batchEnd /\ retry' = retry /\ tally' = tally
      /\ tried' = tried /\ pending' = pending /\ faults' = faults
      /\ step = "check" /\ ~Left
      /\ IF phase \in {"retry", "single"} THEN phase' = "batch" /\ step' = step
                                          ELSE step' = "final" /\ phase' = phase
  BY DEF LoopEnds, disk
<1>2. Gone' = Gone /\ Noted' = Noted
  BY <1>1, NothingGoes
<1>3. Typed'
  BY <1>1 DEF DeletionInv, Typed, Step, Phase
<1>4. phase # "none" /\ phase \in Phase
  BY <1>1 DEF DeletionInv, Placed, Typed
<1>5. RecordsTrue' /\ Placed'
  BY <1>1, <1>2, <1>4 DEF DeletionInv, RecordsTrue, Placed
<1>6. Tallied(index, tally, retry, Gone, Noted) /\ index \in 0..MessageCount
  BY <1>1, <1>4 DEF DeletionInv, RunTrue, Tallied
<1>7. retry = <<>> /\ phase' # "none"
  BY <1>1, <1>4 DEF DeletionInv, RunTrue, Left
<1>8. step' = "final" => index = MessageCount /\ phase' \in {"trash", "batch"}
  BY <1>1, <1>4, <1>6, DeletionAssumption DEF Left, Phase
<1>9. RunTrue'
  BY <1>1, <1>2, <1>6, <1>7, <1>8 DEF RunTrue
<1>10. Retried'
  BY <1>1, <1>4, <1>7 DEF DeletionInv, Retried, Phase
<1> QED
  BY <1>3, <1>5, <1>9, <1>10 DEF DeletionInv

-----------------------------------------------------------------------------
(* The start and the saves of a run.                                       *)

LEMMA FoundTrue ==
  ASSUME file \in [Status -> Manifests], NEW gone, NEW noted,
         \A d \in Status : Truth(file[d].execution, gone, noted)
  PROVE  Found \in Manifests /\ Truth(Found.execution, gone, noted)
<1>1. /\ "pending" \in Status /\ "in_progress" \in Status /\ "completed" \in Status
      /\ "failed" \in Status /\ "cancelled" \in Status
  BY DEF Status
<1>2. Absent \in Manifests /\ Truth(Absent.execution, gone, noted)
  BY NoManifest
<1>3. \/ Found = file["pending"] \/ Found = file["in_progress"]
      \/ Found = file["completed"] \/ Found = file["failed"]
      \/ Found = file["cancelled"] \/ Found = Absent
  BY DEF Found
<1> QED
  BY <1>1, <1>2, <1>3

LEMMA PrepareTrue ==
  ASSUME file \in [Status -> Manifests], NEW gone, NEW noted,
         \A d \in Status : Truth(file[d].execution, gone, noted),
         NEW method \in {"trash", "delete"}, Prepare(method)
  PROVE  /\ file' \in [Status -> Manifests]
         /\ \A d \in Status : Truth(file'[d].execution, gone, noted)
         /\ manifest' \in Manifests /\ Truth(manifest'.execution, gone, noted)
<1>1. Found \in Manifests /\ Truth(Found.execution, gone, noted)
  BY FoundTrue
<1>2. Truth([NoExecution EXCEPT !.method = method], gone, noted)
  BY NothingYet
<1>3. PICK e : /\ manifest' = Manifest("in_progress", e)
               /\ e = [NoExecution EXCEPT !.method = method] \/ e = Found.execution
  BY DEF Prepare
<1>4. Truth(e, gone, noted) /\ e \in Execution
  BY <1>1, <1>2, <1>3 DEF Truth
<1>5. manifest' \in Manifests /\ manifest'.execution = e
  BY <1>3, <1>4, MadeManifest DEF Status
<1>6. /\ file' \in [Status -> Manifests]
      /\ \A d \in Status : Truth(file'[d].execution, gone, noted)
  <2>1. CASE file' = file
    BY <2>1
  <2>2. CASE file' = [file EXCEPT !["in_progress"] = file["pending"],
                                  !["pending"] = Absent]
    BY <2>2, FileMoved DEF Status
  <2> QED
    BY <2>1, <2>2 DEF Prepare
<1> QED
  BY <1>4, <1>5, <1>6

LEMMA StartTrashKeeps ==
  ASSUME DeletionInv, StartTrash
  PROVE  DeletionInv'
<1>1. /\ file \in [Status -> Manifests]
      /\ \A d \in Status : Truth(file[d].execution, Gone, Noted)
      /\ step = "idle" /\ phase = "none" /\ retry = <<>>
  BY DEF DeletionInv, Typed, RecordsTrue, Placed, RunTrue, StartTrash
<1>2. Prepare("trash")
  BY DEF StartTrash
<1>3. /\ file' \in [Status -> Manifests]
      /\ \A d \in Status : Truth(file'[d].execution, Gone, Noted)
      /\ manifest' \in Manifests /\ Truth(manifest'.execution, Gone, Noted)
  BY <1>1, <1>2, PrepareTrue
<1>4. /\ UNCHANGED <<remote, local, markErrors>>
      /\ step' = "check" /\ phase' = "trash" /\ ctxDone' = ctxDone
      /\ batchEnd' = batchEnd /\ retry' = retry /\ tried' = tried
      /\ pending' = pending /\ faults' = faults
      /\ index' = manifest'.execution.lastIndex
      /\ tally' = [succeeded |-> manifest'.execution.succeeded,
                   failed |-> manifest'.execution.failed,
                   failedIDs |-> manifest'.execution.failedIDs]
  BY DEF StartTrash
<1>5. Gone' = Gone /\ Noted' = Noted
  BY <1>4, NothingGoes
<1>6. Typed'
  BY <1>3, <1>4 DEF DeletionInv, Typed, Step, Phase
<1>7. RecordsTrue' /\ Placed' /\ Retried'
  BY <1>3, <1>4, <1>5 DEF DeletionInv, RecordsTrue, Placed, Retried
<1>8. Tallied(index', tally', retry', Gone, Noted)
  BY <1>1, <1>3, <1>4, ResumeTallied
<1>9. RunTrue'
  BY <1>1, <1>4, <1>5, <1>8 DEF RunTrue
<1> QED
  BY <1>6, <1>7, <1>9 DEF DeletionInv

LEMMA StartDeleteKeeps ==
  ASSUME DeletionInv, StartDelete
  PROVE  DeletionInv'
<1>1. /\ file \in [Status -> Manifests]
      /\ \A d \in Status : Truth(file[d].execution, Gone, Noted)
      /\ step = "idle" /\ phase = "none"
  BY DEF DeletionInv, Typed, RecordsTrue, Placed, StartDelete
<1>2. Prepare("delete")
  BY DEF StartDelete
<1>3. /\ file' \in [Status -> Manifests]
      /\ \A d \in Status : Truth(file'[d].execution, Gone, Noted)
      /\ manifest' \in Manifests /\ Truth(manifest'.execution, Gone, Noted)
  BY <1>1, <1>2, PrepareTrue
<1>4. /\ UNCHANGED <<remote, local, markErrors>>
      /\ step' = "begin" /\ phase' = "retry" /\ ctxDone' = ctxDone /\ index' = index
      /\ batchEnd' = batchEnd /\ retry' = retry /\ tried' = tried /\ tally' = tally
      /\ pending' = pending /\ faults' = faults
  BY DEF StartDelete
<1>5. Gone' = Gone /\ Noted' = Noted
  BY <1>4, NothingGoes
<1>6. Typed'
  BY <1>3, <1>4 DEF DeletionInv, Typed, Step, Phase
<1>7. RecordsTrue' /\ Placed' /\ Retried'
  BY <1>3, <1>4, <1>5 DEF DeletionInv, RecordsTrue, Placed, Retried
<1>8. RunTrue'
  BY <1>1, <1>4 DEF DeletionInv, RunTrue
<1> QED
  BY <1>6, <1>7, <1>8 DEF DeletionInv

LEMMA BeginKeeps ==
  ASSUME DeletionInv, Begin
  PROVE  DeletionInv'
<1>1. /\ file \in [Status -> Manifests] /\ manifest \in Manifests
      /\ \A d \in Status : Truth(file[d].execution, Gone, Noted)
      /\ Truth(manifest.execution, Gone, Noted) /\ "in_progress" \in Status
      /\ step = "begin" /\ phase = "retry"
  BY DEF DeletionInv, Typed, RecordsTrue, Placed, Begin, Status
<1>2. Save("in_progress", manifest, "check")
  BY DEF Begin
<1>3. /\ file' \in [Status -> Manifests]
      /\ \A d \in Status : Truth(file'[d].execution, Gone, Noted)
      /\ pending' \in [dir : Status, content : Manifests,
                       next : {"idle", "check", "move"}]
      /\ Truth(pending'.content.execution, Gone, Noted)
      /\ pending'.next = "check" /\ step' = "write"
  BY <1>1, <1>2, SaveTrue
<1>4. /\ UNCHANGED <<remote, local, markErrors>>
      /\ phase' = phase /\ ctxDone' = ctxDone /\ manifest' = manifest
      /\ batchEnd' = batchEnd /\ tried' = tried /\ faults' = faults
      /\ index' = manifest.execution.lastIndex
      /\ retry' = manifest.execution.failedIDs
      /\ tally' = [succeeded |-> manifest.execution.succeeded,
                   failed |-> IF manifest.execution.failedIDs = <<>>
                              THEN manifest.execution.failed ELSE 0,
                   failedIDs |-> <<>>]
  BY DEF Begin
<1>5. Gone' = Gone /\ Noted' = Noted
  BY <1>4, NothingGoes
<1>6. Typed'
  BY <1>3, <1>4 DEF DeletionInv, Typed, Step
<1>7. RecordsTrue' /\ Placed' /\ Retried'
  BY <1>1, <1>3, <1>4, <1>5 DEF DeletionInv, RecordsTrue, Placed, Retried
<1>8. Tallied(index', tally', retry', Gone, Noted)
  BY <1>1, <1>4, ResumeTallied
<1>9. RunTrue'
  BY <1>1, <1>3, <1>4, <1>5, <1>8 DEF RunTrue
<1> QED
  BY <1>6, <1>7, <1>9 DEF DeletionInv

\* A run that saves its tally and stops.
LEMMA StopKeeps ==
  ASSUME DeletionInv, step \in {"check", "call"}, SaveCheckpoint(index, tally, "idle"),
         UNCHANGED <<remote, local, markErrors>>, UNCHANGED memory,
         faults' \in 0..MaxFaults
  PROVE  DeletionInv'
<1>1. /\ file \in [Status -> Manifests] /\ manifest \in Manifests
      /\ \A d \in Status : Truth(file[d].execution, Gone, Noted)
      /\ phase # "none" /\ (phase # "retry" => retry = <<>>)
      /\ Tallied(index, tally, retry, Gone, Noted)
  BY DEF DeletionInv, Typed, RecordsTrue, Placed, RunTrue
<1>2. /\ file' \in [Status -> Manifests]
      /\ \A d \in Status : Truth(file'[d].execution, Gone, Noted)
      /\ pending' \in [dir : Status, content : Manifests,
                       next : {"idle", "check", "move"}]
      /\ Truth(pending'.content.execution, Gone, Noted)
      /\ pending'.next = "idle" /\ step' = "write"
  BY <1>1, SaveCheckpointTrue
<1>3. /\ phase' = phase /\ ctxDone' = ctxDone /\ manifest' = manifest
      /\ index' = index /\ batchEnd' = batchEnd /\ retry' = retry
      /\ tally' = tally /\ tried' = tried
  BY DEF memory
<1>4. Gone' = Gone /\ Noted' = Noted
  BY NothingGoes
<1>5. Typed'
  BY <1>2, <1>3 DEF DeletionInv, Typed, Step
<1>6. RecordsTrue' /\ Placed' /\ Retried'
  BY <1>1, <1>2, <1>3, <1>4 DEF DeletionInv, RecordsTrue, Placed, Retried
<1>7. RunTrue'
  BY <1>1, <1>2, <1>3, <1>4 DEF RunTrue
<1> QED
  BY <1>5, <1>6, <1>7 DEF DeletionInv

LEMMA CheckKeeps ==
  ASSUME DeletionInv, Check
  PROVE  DeletionInv'
<1>1. /\ step = "check" /\ Left /\ faults' = faults
      /\ UNCHANGED <<remote, local, markErrors>> /\ UNCHANGED memory
  BY DEF Check
<1>2. faults' \in 0..MaxFaults
  BY <1>1 DEF DeletionInv, Typed
<1>3. CASE ctxDone
  BY <1>1, <1>2, <1>3, StopKeeps DEF Check
<1>4. CASE ~ctxDone
  <2>1. step' = "call" /\ file' = file /\ pending' = pending
    BY <1>4 DEF Check
  <2>2. /\ phase' = phase /\ ctxDone' = ctxDone /\ manifest' = manifest
        /\ index' = index /\ batchEnd' = batchEnd /\ retry' = retry
        /\ tally' = tally /\ tried' = tried
    BY <1>1 DEF memory
  <2>3. Gone' = Gone /\ Noted' = Noted /\ Left' = Left
    BY <1>1, <2>2, NothingGoes DEF Left
  <2>4. Typed'
    BY <1>1, <2>1, <2>2 DEF DeletionInv, Typed, Step
  <2>5. phase # "none"
    BY <1>1 DEF DeletionInv, Placed
  <2>6. RecordsTrue' /\ Placed' /\ Retried'
    BY <1>1, <2>1, <2>2, <2>3, <2>5 DEF DeletionInv, RecordsTrue, Placed, Retried
  <2>7. RunTrue'
    BY <1>1, <2>1, <2>2, <2>3, <2>5 DEF DeletionInv, RunTrue
  <2> QED
    BY <2>4, <2>6, <2>7 DEF DeletionInv
<1> QED
  BY <1>3, <1>4

LEMMA ScopeMissingKeeps ==
  ASSUME DeletionInv, ScopeMissing
  PROVE  DeletionInv'
<1>1. /\ step = "call" /\ SaveCheckpoint(index, tally, "idle")
      /\ UNCHANGED <<remote, local, markErrors>> /\ UNCHANGED memory
  BY DEF ScopeMissing
<1>2. faults' \in 0..MaxFaults
  BY FaultTyped DEF DeletionInv, Typed, ScopeMissing
<1> QED
  BY <1>1, <1>2, StopKeeps

LEMMA FinalizeKeeps ==
  ASSUME DeletionInv, Finalize
  PROVE  DeletionInv'
<1>1. /\ file \in [Status -> Manifests] /\ manifest \in Manifests
      /\ \A d \in Status : Truth(file[d].execution, Gone, Noted)
      /\ step = "final" /\ phase \in {"trash", "batch"} /\ index = MessageCount
      /\ retry = <<>> /\ Tallied(index, tally, retry, Gone, Noted)
      /\ "in_progress" \in Status
  BY DEF DeletionInv, Typed, RecordsTrue, RunTrue, Finalize, Status
<1> DEFINE e == [manifest.execution EXCEPT
                   !.lastIndex = MessageCount, !.succeeded = tally.succeeded,
                   !.failed = tally.failed, !.failedIDs = tally.failedIDs]
           ids == tally.failedIDs \o retry
<1>2. manifest.execution \in Execution
  BY <1>1 DEF Manifests
<1>3. /\ Truth([manifest.execution EXCEPT
                 !.lastIndex = index, !.succeeded = tally.succeeded,
                 !.failed = Len(ids), !.failedIDs = ids], Gone, Noted)
      /\ tally.failed = Len(ids) /\ ids = tally.failedIDs
  BY <1>1, <1>2, CheckpointTrue
<1>4. e = [manifest.execution EXCEPT
             !.lastIndex = index, !.succeeded = tally.succeeded,
             !.failed = Len(ids), !.failedIDs = ids]
  BY <1>1, <1>3
<1>5. manifest' = Manifest(Outcome, e) /\ Save("in_progress", manifest', "move")
  BY DEF Finalize
<1> HIDE DEF e, ids
<1>6. Truth(e, Gone, Noted) /\ e \in Execution
  BY <1>3, <1>4 DEF Truth
<1>7. Outcome \in Status
  BY DEF Outcome, Status
<1>8. manifest' \in Manifests /\ manifest'.execution = e
  BY <1>5, <1>6, <1>7, MadeManifest
<1>9. /\ file' \in [Status -> Manifests]
      /\ \A d \in Status : Truth(file'[d].execution, Gone, Noted)
      /\ pending' \in [dir : Status, content : Manifests,
                       next : {"idle", "check", "move"}]
      /\ Truth(pending'.content.execution, Gone, Noted)
      /\ pending'.next = "move" /\ step' = "write"
  BY <1>1, <1>5, <1>6, <1>8, SaveTrue
<1>10. /\ UNCHANGED <<remote, local, markErrors>>
       /\ phase' = phase /\ ctxDone' = ctxDone /\ index' = index
       /\ batchEnd' = batchEnd /\ retry' = retry
       /\ tally' = tally /\ tried' = tried /\ faults' = faults
  BY DEF Finalize
<1>11. Gone' = Gone /\ Noted' = Noted
  BY <1>10, NothingGoes
<1>12. Typed'
  BY <1>8, <1>9, <1>10 DEF DeletionInv, Typed, Step
<1>13. RecordsTrue' /\ Placed' /\ Retried'
  BY <1>1, <1>6, <1>8, <1>9, <1>10, <1>11 DEF DeletionInv, RecordsTrue, Placed, Retried
<1>14. RunTrue'
  BY <1>1, <1>9, <1>10, <1>11 DEF RunTrue
<1> QED
  BY <1>12, <1>13, <1>14 DEF DeletionInv

LEMMA CancelKeeps ==
  ASSUME DeletionInv, Cancel
  PROVE  DeletionInv'
<1>1. PICK from \in {"pending", "in_progress"} :
        /\ file' = [file EXCEPT !["cancelled"] = file[from], ![from] = Absent]
        /\ IF Loads(file[from])
           THEN step' = "cancel" /\ manifest' = Manifest("cancelled", file[from].execution)
           ELSE step' = step /\ manifest' = manifest
  BY DEF Cancel
<1>2. /\ UNCHANGED <<remote, local, markErrors>> /\ step = "idle"
      /\ phase' = phase /\ ctxDone' = ctxDone /\ index' = index
      /\ batchEnd' = batchEnd /\ retry' = retry /\ pending' = pending
      /\ tally' = tally /\ tried' = tried /\ faults' = faults
  BY DEF Cancel
<1>3. /\ file \in [Status -> Manifests] /\ manifest \in Manifests
      /\ \A d \in Status : Truth(file[d].execution, Gone, Noted)
      /\ Truth(manifest.execution, Gone, Noted)
      /\ phase = "none" /\ from \in Status
  BY <1>2 DEF DeletionInv, Typed, RecordsTrue, Placed, Status
<1>4. /\ file' \in [Status -> Manifests]
      /\ \A d \in Status : Truth(file'[d].execution, Gone, Noted)
  BY <1>1, <1>3, FileMoved
<1>5. file[from].execution \in Execution /\ "cancelled" \in Status
  BY <1>3 DEF Manifests, Status
<1>6. /\ manifest' \in Manifests /\ Truth(manifest'.execution, Gone, Noted)
      /\ step' \in {"idle", "cancel"}
  <2>1. CASE Loads(file[from])
    BY <1>1, <1>3, <1>5, <2>1, MadeManifest
  <2>2. CASE ~Loads(file[from])
    BY <1>1, <1>2, <1>3, <2>2
  <2> QED
    BY <2>1, <2>2
<1>7. Gone' = Gone /\ Noted' = Noted
  BY <1>2, NothingGoes
<1>8. Typed'
  BY <1>2, <1>4, <1>6 DEF DeletionInv, Typed, Step
<1>9. RecordsTrue' /\ Placed' /\ Retried'
  BY <1>2, <1>3, <1>4, <1>6, <1>7 DEF DeletionInv, RecordsTrue, Placed, Retried
<1>10. RunTrue'
  BY <1>2, <1>3, <1>6 DEF DeletionInv, RunTrue
<1> QED
  BY <1>8, <1>9, <1>10 DEF DeletionInv

LEMMA CancelSavesKeeps ==
  ASSUME DeletionInv, CancelSaves
  PROVE  DeletionInv'
<1>1. /\ step = "cancel" /\ Save("cancelled", manifest, "idle")
      /\ UNCHANGED <<remote, local, markErrors>> /\ faults' = faults
      /\ phase' = phase /\ ctxDone' = ctxDone /\ manifest' = manifest
      /\ index' = index /\ batchEnd' = batchEnd /\ retry' = retry
      /\ tally' = tally /\ tried' = tried
  BY DEF CancelSaves, memory
<1>2. /\ file \in [Status -> Manifests] /\ manifest \in Manifests
      /\ \A d \in Status : Truth(file[d].execution, Gone, Noted)
      /\ Truth(manifest.execution, Gone, Noted)
      /\ phase = "none" /\ "cancelled" \in Status
  BY <1>1 DEF DeletionInv, Typed, RecordsTrue, Placed, Status
<1>3. /\ file' \in [Status -> Manifests]
      /\ \A d \in Status : Truth(file'[d].execution, Gone, Noted)
      /\ pending' \in [dir : Status, content : Manifests,
                       next : {"idle", "check", "move"}]
      /\ Truth(pending'.content.execution, Gone, Noted)
      /\ pending'.next = "idle" /\ step' = "write"
  BY <1>1, <1>2, SaveTrue
<1>4. Gone' = Gone /\ Noted' = Noted
  BY <1>1, NothingGoes
<1>5. Typed'
  BY <1>1, <1>3 DEF DeletionInv, Typed, Step
<1>6. RecordsTrue' /\ Placed' /\ Retried'
  BY <1>1, <1>2, <1>3, <1>4 DEF DeletionInv, RecordsTrue, Placed, Retried
<1>7. RunTrue'
  BY <1>1, <1>2, <1>3 DEF DeletionInv, RunTrue
<1> QED
  BY <1>5, <1>6, <1>7 DEF DeletionInv

-----------------------------------------------------------------------------
(* Calls and marks.                                                        *)

\* What is called next are messages of the list, outside a batch the one that
\* Passed speaks of.
LEMMA TargetsListed ==
  ASSUME DeletionInv, step \in {"call", "mark"}
  PROVE  /\ index \in 0..MessageCount /\ retry \in Seq(Message)
         /\ Tallied(index, tally, retry, Gone, Noted)
         /\ phase # "none" /\ Targets \subseteq Message
         /\ phase = "batch" => /\ retry = <<>> /\ index < MessageCount
                               /\ Targets = index + 1..Least(index + BatchLimit, MessageCount)
         /\ phase # "batch" => /\ Targets = {NextMessage} /\ NextMessage \in Message
                               /\ phase = "retry" => retry # <<>>
                               /\ phase # "retry" => /\ retry = <<>>
                                                     /\ NextMessage = index + 1
<1>1. /\ phase # "none" /\ Left /\ (phase # "retry" => retry = <<>>)
      /\ Tallied(index, tally, retry, Gone, Noted)
      /\ batchEnd \in 0..MessageCount /\ phase \in Phase
  BY DEF DeletionInv, Typed, Placed, RunTrue
<1>2. index \in 0..MessageCount /\ retry \in Seq(Message)
  BY <1>1 DEF Tallied
<1>3. CASE phase = "batch"
  <2>1. index < MessageCount /\ Targets = index + 1..Least(index + BatchLimit, MessageCount)
    BY <1>1, <1>3 DEF Left, Targets
  <2>2. Targets \subseteq Message
    BY <1>2, <2>1, DeletionAssumption DEF Least, Message
  <2> QED
    BY <1>1, <1>2, <1>3, <2>1, <2>2
<1>4. CASE phase = "retry"
  <2>1. retry # <<>> /\ Targets = {NextMessage} /\ NextMessage = Head(retry)
    BY <1>1, <1>4 DEF Left, Targets, NextMessage
  <2>2. Head(retry) \in Message
    BY <1>2, <2>1, TailList
  <2> QED
    BY <1>1, <1>2, <1>4, <2>1, <2>2
<1>5. CASE phase \in {"trash", "single"}
  <2>1. index < MessageCount
    BY <1>1, <1>2, <1>5, DeletionAssumption DEF Left
  <2>2. Targets = {NextMessage} /\ NextMessage = index + 1
    BY <1>5 DEF Targets, NextMessage
  <2>3. index + 1 \in Message
    BY <1>2, <2>1, DeletionAssumption DEF Message
  <2> QED
    BY <1>1, <1>2, <1>5, <2>2, <2>3
<1> QED
  BY <1>1, <1>3, <1>4, <1>5 DEF Phase

LEMMA EffectGoes ==
  ASSUME remote \in [Message -> {"live", "trashed", "deleted"}],
         remote' = Effect, Targets \subseteq Message
  PROVE  /\ remote' \in [Message -> {"live", "trashed", "deleted"}]
         /\ Gone \subseteq Gone' /\ Targets \subseteq Gone'
<1>1. ASSUME NEW m \in Message
      PROVE  /\ Effect[m] \in {"live", "trashed", "deleted"}
             /\ remote[m] # "live" => Effect[m] # "live"
             /\ m \in Targets => Effect[m] # "live"
  <2>1. Effect[m] = IF m \notin Targets \/ remote[m] = "deleted" THEN remote[m]
                    ELSE IF phase = "trash" THEN "trashed" ELSE "deleted"
    BY DEF Effect
  <2> QED
    BY <2>1
<1>2. Effect \in [Message -> {"live", "trashed", "deleted"}]
  BY <1>1 DEF Effect
<1> QED
  BY <1>1, <1>2 DEF Gone

LEMMA CallSucceedsKeeps ==
  ASSUME DeletionInv, CallSucceeds
  PROVE  DeletionInv'
<1>1. /\ step = "call" /\ remote' = Effect /\ step' = "mark" /\ file' = file
      /\ local' = local /\ markErrors' = markErrors /\ faults' = faults
      /\ phase' = phase /\ ctxDone' = ctxDone /\ manifest' = manifest
      /\ index' = index /\ batchEnd' = batchEnd /\ retry' = retry
      /\ tally' = tally /\ tried' = tried /\ pending' = pending
  BY DEF CallSucceeds, memory
<1>2. /\ phase # "none" /\ Targets \subseteq Message
      /\ Tallied(index, tally, retry, Gone, Noted)
  BY <1>1, TargetsListed
<1>3. /\ remote' \in [Message -> {"live", "trashed", "deleted"}]
      /\ Gone \subseteq Gone' /\ Targets \subseteq Gone'
  BY <1>1, <1>2, EffectGoes DEF DeletionInv, Typed
<1>4. Noted' = Noted /\ Left' = Left /\ Targets' = Targets
  BY <1>1 DEF Noted, Left, Targets, NextMessage
<1>5. Typed'
  BY <1>1, <1>3 DEF DeletionInv, Typed, Step
<1>6. RecordsTrue'
  <2>1. \A m \in Message : local'[m] # "live" => m \in Gone'
    BY <1>1, <1>3 DEF DeletionInv, RecordsTrue
  <2>2. /\ \A d \in Status : Truth(file[d].execution, Gone', Noted')
        /\ Truth(manifest.execution, Gone', Noted')
        /\ Truth(pending.content.execution, Gone', Noted')
    BY <1>3, <1>4, RecordsGrow DEF DeletionInv
  <2> QED
    BY <1>1, <2>1, <2>2 DEF RecordsTrue
<1>7. Placed' /\ Retried'
  BY <1>1, <1>2 DEF DeletionInv, Placed, Retried
<1>8. Tallied(index, tally, retry, Gone', Noted')
  BY <1>2, <1>3, <1>4, TalliedGrows
<1>9. RunTrue'
  BY <1>1, <1>2, <1>3, <1>4, <1>8 DEF DeletionInv, RunTrue
<1> QED
  BY <1>5, <1>6, <1>7, <1>9 DEF DeletionInv

\* Outside a batch one message has been passed, with its tally.
LEMMA PassKeeps ==
  ASSUME DeletionInv, step \in {"call", "mark"}, phase # "batch",
         NEW count, Pass(count),
         Tallied(index', count, retry', Gone', Noted'),
         Gone \subseteq Gone', Noted \subseteq Noted',
         \A m \in Message : local'[m] # "live" => m \in Gone',
         remote' \in [Message -> {"live", "trashed", "deleted"}],
         local' \in [Message -> {"live", "marked", "removed"}],
         markErrors' \subseteq Message, faults' \in 0..MaxFaults
  PROVE  DeletionInv'
<1>1. /\ phase # "none" /\ phase \in Phase /\ Targets = {NextMessage}
      /\ NextMessage \in Message /\ index \in 0..MessageCount
      /\ retry \in Seq(Message)
      /\ phase = "retry" => retry # <<>>
      /\ phase # "retry" => retry = <<>>
  BY TargetsListed DEF DeletionInv, Typed
<1>2. /\ tally' = count /\ tried' = tried \cup Targets
      /\ phase' = phase /\ ctxDone' = ctxDone /\ manifest' = manifest
      /\ batchEnd' = batchEnd
      /\ phase = "retry" => retry' = Tail(retry) /\ index' = index
      /\ phase # "retry" => index' = index + 1 /\ retry' = retry
  BY DEF Pass
<1>3. /\ file \in [Status -> Manifests] /\ manifest \in Manifests
      /\ \A d \in Status : Truth(file[d].execution, Gone', Noted')
      /\ Truth(manifest.execution, Gone', Noted')
      /\ Truth(pending.content.execution, Gone', Noted')
      /\ pending \in [dir : Status, content : Manifests,
                      next : {"idle", "check", "move"}]
  BY RecordsGrow DEF DeletionInv, Typed
<1>4. /\ file' \in [Status -> Manifests]
      /\ \A d \in Status : Truth(file'[d].execution, Gone', Noted')
      /\ pending' \in [dir : Status, content : Manifests,
                       next : {"idle", "check", "move"}]
      /\ Truth(pending'.content.execution, Gone', Noted')
      /\ step' = "check" \/ (step' = "write" /\ pending'.next = "check")
  <2>1. CASE phase = "trash" /\ (index + 1) % CheckpointAt = 0
    <3>1. SaveCheckpoint(index + 1, count, "check")
      BY <2>1 DEF Pass
    <3>2. Tallied(index + 1, count, retry, Gone', Noted')
      BY <1>2, <2>1
    <3> QED
      BY <1>1, <1>3, <3>1, <3>2, SaveCheckpointTrue
  <2>2. CASE ~(phase = "trash" /\ (index + 1) % CheckpointAt = 0)
    <3>1. step' = "check" /\ file' = file /\ pending' = pending
      BY <2>2 DEF Pass
    <3> QED
      BY <1>3, <3>1
  <2> QED
    BY <2>1, <2>2
<1>5. Typed'
  <2>1. tried' \subseteq Message
    BY <1>1, <1>2 DEF DeletionInv, Typed
  <2> QED
    BY <1>2, <1>3, <1>4, <2>1 DEF DeletionInv, Typed, Step
<1>6. RecordsTrue'
  BY <1>2, <1>3, <1>4 DEF RecordsTrue
<1>7. Placed'
  BY <1>1, <1>2, <1>4 DEF Placed
<1>8. RunTrue'
  BY <1>1, <1>2, <1>4 DEF RunTrue
<1>9. Retried'
  <2>1. phase = "retry" => ToSet(retry) = {NextMessage} \cup ToSet(retry')
    BY <1>1, <1>2, TailList DEF NextMessage
  <2>2. phase \in {"retry", "single"} =>
          ToSet(manifest.execution.failedIDs) \subseteq tried \cup ToSet(retry)
    BY DEF DeletionInv, Retried
  <2>3. phase \in {"retry", "single"} =>
          ToSet(manifest.execution.failedIDs) \subseteq tried' \cup ToSet(retry')
    BY <1>1, <1>2, <2>1, <2>2
  <2> QED
    BY <1>2, <2>3 DEF Retried
<1> QED
  BY <1>5, <1>6, <1>7, <1>8, <1>9 DEF DeletionInv

LEMMA NextIsPassed ==
  ASSUME DeletionInv, step \in {"call", "mark"}, phase # "batch",
         NEW count, Pass(count)
  PROVE  Passed(index, retry, index', retry', NextMessage)
<1>1. /\ NextMessage \in Message
      /\ phase = "retry" => retry # <<>>
      /\ phase # "retry" => retry = <<>> /\ NextMessage = index + 1
  BY TargetsListed
<1>2. /\ phase = "retry" => retry' = Tail(retry) /\ index' = index
      /\ phase # "retry" => index' = index + 1 /\ retry' = retry
  BY DEF Pass
<1> QED
  BY <1>1, <1>2 DEF Passed, NextMessage

LEMMA CallFailsKeeps ==
  ASSUME DeletionInv, CallFails
  PROVE  DeletionInv'
<1>1. /\ step = "call" /\ remote' \in {remote, Effect}
      /\ local' = local /\ markErrors' = markErrors
  BY DEF CallFails
<1>2. /\ phase # "none" /\ Targets \subseteq Message
      /\ index \in 0..MessageCount
      /\ Tallied(index, tally, retry, Gone, Noted)
  BY <1>1, TargetsListed
<1>3. /\ remote' \in [Message -> {"live", "trashed", "deleted"}]
      /\ Gone \subseteq Gone' /\ Noted' = Noted
  <2>1. CASE remote' = remote
    BY <1>1, <2>1 DEF DeletionInv, Typed, Gone, Noted
  <2>2. CASE remote' = Effect
    BY <1>1, <1>2, <2>2, EffectGoes DEF DeletionInv, Typed, Noted
  <2> QED
    BY <1>1, <2>1, <2>2
<1>4. \A m \in Message : local'[m] # "live" => m \in Gone'
  BY <1>1, <1>3 DEF DeletionInv, RecordsTrue
<1>5. faults' \in 0..MaxFaults
  <2>1. CASE ctxDone
    BY <2>1 DEF CallFails, DeletionInv, Typed
  <2>2. CASE ~ctxDone
    BY <2>2, FaultTyped DEF CallFails, DeletionInv, Typed
  <2> QED
    BY <2>1, <2>2
<1>6. Tallied(index, tally, retry, Gone', Noted')
  BY <1>2, <1>3, TalliedGrows
<1>7. CASE phase = "batch"
  <2>1. /\ phase' = "single" /\ step' = "check"
        /\ batchEnd' = Least(index + BatchLimit, MessageCount)
        /\ file' = file /\ pending' = pending /\ ctxDone' = ctxDone
        /\ manifest' = manifest /\ index' = index /\ retry' = retry
        /\ tally' = tally /\ tried' = tried
    BY <1>7 DEF CallFails
  <2>2. batchEnd' \in 0..MessageCount
    BY <1>2, <2>1, DeletionAssumption DEF Least
  <2>3. Typed'
    BY <1>1, <1>3, <1>5, <2>1, <2>2 DEF DeletionInv, Typed, Step, Phase
  <2>4. /\ \A d \in Status : Truth(file[d].execution, Gone', Noted')
        /\ Truth(manifest.execution, Gone', Noted')
        /\ Truth(pending.content.execution, Gone', Noted')
    BY <1>3, RecordsGrow DEF DeletionInv
  <2>5. RecordsTrue' /\ Placed'
    BY <1>4, <2>1, <2>4 DEF RecordsTrue, Placed
  <2>6. retry = <<>>
    BY <1>7 DEF DeletionInv, RunTrue
  <2>7. RunTrue'
    BY <1>6, <2>1, <2>6 DEF RunTrue
  <2>8. Retried'
    BY <1>1, <1>7, <2>1 DEF DeletionInv, Retried
  <2> QED
    BY <2>3, <2>5, <2>7, <2>8 DEF DeletionInv
<1>8. CASE phase # "batch"
  <2> DEFINE count == [tally EXCEPT !.failed = @ + 1,
                                    !.failedIDs = Append(@, NextMessage)]
  <2>1. Pass(count)
    BY <1>8 DEF CallFails
  <2>2. Passed(index, retry, index', retry', NextMessage)
    BY <1>1, <1>8, <2>1, NextIsPassed
  <2>3. Tallied(index', count, retry', Gone', Noted')
    BY <1>6, <2>2, FailureTallied
  <2> HIDE DEF count
  <2>4. /\ local' \in [Message -> {"live", "marked", "removed"}]
        /\ markErrors' \subseteq Message
    BY <1>1 DEF DeletionInv, Typed
  <2> QED
    BY <1>1, <1>3, <1>4, <1>5, <1>8, <2>1, <2>3, <2>4, PassKeeps
<1> QED
  BY <1>7, <1>8

LEMMA MarkDeletedKeeps ==
  ASSUME DeletionInv, MarkDeleted
  PROVE  DeletionInv'
<1>1. step = "mark" /\ remote' = remote
  BY DEF MarkDeleted
<1>2. /\ phase # "none" /\ Targets \subseteq Message
      /\ index \in 0..MessageCount /\ retry \in Seq(Message)
      /\ Tallied(index, tally, retry, Gone, Noted)
      /\ Targets \subseteq Gone
  BY <1>1, TargetsListed DEF DeletionInv, RunTrue
<1>3. PICK missed \in SUBSET Targets :
        /\ IF missed = {} THEN faults' = faults ELSE Fault("db")
        /\ markErrors' = markErrors \cup missed
        /\ local' = [m \in Message |->
             IF m \notin Targets \ missed \/ local[m] = "removed" THEN local[m]
             ELSE IF phase \in {"retry", "single"} THEN "removed" ELSE "marked"]
  BY DEF MarkDeleted
<1>4. faults' \in 0..MaxFaults
  <2>1. CASE missed = {}
    BY <1>3, <2>1 DEF DeletionInv, Typed
  <2>2. CASE missed # {}
    BY <1>3, <2>2, FaultTyped DEF DeletionInv, Typed
  <2> QED
    BY <2>1, <2>2
<1>5. Gone' = Gone
  BY <1>1 DEF Gone
<1>6. /\ remote' \in [Message -> {"live", "trashed", "deleted"}]
      /\ local \in [Message -> {"live", "marked", "removed"}]
      /\ markErrors \subseteq Message
  BY <1>1 DEF DeletionInv, Typed
<1>7. ASSUME NEW m \in Message
      PROVE  /\ local'[m] \in {"live", "marked", "removed"}
             /\ local'[m] # "live" => local[m] # "live" \/ m \in Targets
             /\ local[m] # "live" => local'[m] # "live"
             /\ m \in Targets \ missed => local'[m] # "live"
  <2>1. local'[m] = IF m \notin Targets \ missed \/ local[m] = "removed" THEN local[m]
                    ELSE IF phase \in {"retry", "single"} THEN "removed" ELSE "marked"
    BY <1>3
  <2> QED
    BY <1>6, <2>1
<1>8. /\ local' \in [Message -> {"live", "marked", "removed"}]
      /\ markErrors' \subseteq Message
  <2>1. local' = [m \in Message |-> local'[m]]
    BY <1>3
  <2> QED
    BY <1>2, <1>3, <1>6, <1>7, <2>1
<1>9. Noted \subseteq Noted' /\ Targets \subseteq Noted'
  BY <1>2, <1>3, <1>7 DEF Noted
<1>10. \A m \in Message : local'[m] # "live" => m \in Gone'
  BY <1>2, <1>5, <1>7 DEF DeletionInv, RecordsTrue
<1>11. Tallied(index, tally, retry, Gone', Noted')
  BY <1>2, <1>5, <1>9, TalliedGrows
<1> DEFINE count == [tally EXCEPT !.succeeded = @ + Cardinality(Targets)]
<1>12. CASE phase = "batch"
  <2> DEFINE to == Least(index + BatchLimit, MessageCount)
  <2>1. /\ retry = <<>> /\ index < MessageCount /\ Targets = index + 1..to
    BY <1>1, <1>12, TargetsListed
  <2>2. to \in 0..MessageCount /\ index < to
    BY <1>2, <2>1, DeletionAssumption DEF Least
  <2> HIDE DEF to
  <2>3. Cardinality(Targets) = to - index
    <3>1. index + 1 \in Int /\ to \in Int
      BY <1>2, <2>2
    <3>2. Cardinality(index + 1..to) = IF index + 1 > to THEN 0 ELSE to - (index + 1) + 1
      BY <3>1, FS_Interval
    <3> QED
      BY <1>2, <2>1, <2>2, <3>2
  <2>4. /\ index' = to /\ tally' = [tally EXCEPT !.succeeded = @ + (to - index)]
        /\ tried' = tried \cup Targets /\ step' = "check"
        /\ file' = file /\ pending' = pending /\ phase' = phase /\ ctxDone' = ctxDone
        /\ manifest' = manifest /\ batchEnd' = batchEnd /\ retry' = retry
    <3>1. /\ index' = index + Cardinality(Targets) /\ tally' = count
          /\ tried' = tried \cup Targets /\ step' = "check"
          /\ file' = file /\ pending' = pending /\ phase' = phase
          /\ ctxDone' = ctxDone /\ manifest' = manifest
          /\ batchEnd' = batchEnd /\ retry' = retry
      BY <1>12 DEF MarkDeleted
    <3>2. index + (to - index) = to
      BY <1>2, <2>2
    <3> QED
      BY <2>3, <3>1, <3>2
  <2>5. Tallied(index', tally', <<>>, Gone', Noted')
    <3>1. index + 1..to \subseteq Gone' /\ index + 1..to \subseteq Noted' /\ index <= to
      BY <1>2, <1>5, <1>9, <2>1, <2>2
    <3>2. Tallied(index, tally, <<>>, Gone', Noted')
      BY <1>11, <2>1
    <3> QED
      BY <2>2, <2>4, <3>1, <3>2, BatchTallied
  <2>6. tried' \subseteq Message
    BY <1>2, <2>4 DEF DeletionInv, Typed
  <2>7. Typed'
    BY <1>4, <1>6, <1>8, <2>4, <2>6 DEF DeletionInv, Typed, Step
  <2>8. /\ \A d \in Status : Truth(file[d].execution, Gone', Noted')
        /\ Truth(manifest.execution, Gone', Noted')
        /\ Truth(pending.content.execution, Gone', Noted')
    BY <1>5, <1>9, RecordsGrow DEF DeletionInv
  <2>9. RecordsTrue' /\ Placed'
    BY <1>2, <1>10, <2>4, <2>8 DEF RecordsTrue, Placed
  <2>10. RunTrue'
    BY <1>2, <1>12, <2>1, <2>4, <2>5 DEF RunTrue
  <2>11. Retried'
    BY <1>1, <1>12, <2>4 DEF DeletionInv, Retried
  <2> QED
    BY <2>7, <2>9, <2>10, <2>11 DEF DeletionInv
<1>13. CASE phase # "batch"
  <2>1. Targets = {NextMessage}
    BY <1>1, <1>13, TargetsListed
  <2>2. Cardinality(Targets) = 1
    BY <2>1, FS_Singleton
  <2>3. Pass(count)
    BY <1>13 DEF MarkDeleted
  <2>4. Passed(index, retry, index', retry', NextMessage)
    BY <1>1, <1>13, <2>3, NextIsPassed
  <2>5. Tallied(index', [tally EXCEPT !.succeeded = @ + 1], retry', Gone', Noted')
    BY <1>2, <1>5, <1>9, <1>11, <2>1, <2>4, SuccessTallied
  <2>6. count = [tally EXCEPT !.succeeded = @ + 1]
    BY <2>2
  <2> HIDE DEF count
  <2>7. Tallied(index', count, retry', Gone', Noted')
    BY <2>5, <2>6
  <2> QED
    BY <1>1, <1>4, <1>5, <1>6, <1>8, <1>9, <1>10, <1>13, <2>3, <2>7, PassKeeps
<1> QED
  BY <1>12, <1>13

-----------------------------------------------------------------------------
(* The inductive invariant and what follows from it.                       *)

LEMMA InitHolds == DeletionInit => DeletionInv
<1> SUFFICES ASSUME DeletionInit PROVE DeletionInv
  OBVIOUS
<1>1. /\ file = [d \in Status |-> IF d = "pending" THEN Manifest("pending", NoExecution)
                                                   ELSE Absent]
      /\ remote \in [Message -> {"live", "deleted"}]
      /\ local = [m \in Message |-> "live"] /\ markErrors = {}
      /\ step = "idle" /\ phase = "none" /\ ctxDone = FALSE
      /\ manifest = Absent /\ index = 0 /\ batchEnd = 0 /\ retry = <<>>
      /\ tally = NoTally /\ tried = {} /\ pending = NoWrite /\ faults = 0
  BY DEF DeletionInit
<1>2. /\ Absent \in Manifests /\ Truth(Absent.execution, Gone, Noted)
      /\ NoWrite.content = Absent
      /\ NoWrite \in [dir : Status, content : Manifests, next : {"idle", "check", "move"}]
  BY NoManifest, NoWriteTyped
<1>3. NoExecution \in Execution /\ Truth(NoExecution, Gone, Noted)
  BY NoExecutionTrue DEF Truth
<1>4. /\ Manifest("pending", NoExecution) \in Manifests
      /\ Manifest("pending", NoExecution).execution = NoExecution
  BY <1>3, MadeManifest DEF Status
<1>5. file \in [Status -> Manifests]
  BY <1>1, <1>2, <1>4
<1>6. \A d \in Status : Truth(file[d].execution, Gone, Noted)
  BY <1>1, <1>2, <1>3, <1>4
<1>7. Typed
  <2>1. 0 \in 0..MessageCount /\ 0 \in 0..MaxFaults
    BY DeletionAssumption
  <2> QED
    BY <1>1, <1>2, <1>5, <2>1 DEF Typed, Step, Phase
<1>8. RecordsTrue
  BY <1>1, <1>2, <1>6 DEF RecordsTrue
<1>9. Placed /\ RunTrue /\ Retried
  BY <1>1 DEF Placed, RunTrue, Retried
<1> QED
  BY <1>7, <1>8, <1>9 DEF DeletionInv

LEMMA StutterKeeps ==
  ASSUME DeletionInv, UNCHANGED vars
  PROVE  DeletionInv'
<1>1. /\ UNCHANGED <<file, remote, local, markErrors, step, phase, ctxDone>>
      /\ UNCHANGED <<manifest, index, batchEnd, retry, tally, tried, pending, faults>>
  BY DEF vars
<1>2. Gone' = Gone /\ Noted' = Noted /\ Left' = Left /\ Targets' = Targets
  BY <1>1 DEF Gone, Noted, Left, Targets, NextMessage
<1>3. Typed' /\ Placed' /\ Retried'
  BY <1>1 DEF DeletionInv, Typed, Placed, Retried
<1>4. RecordsTrue'
  BY <1>1, <1>2 DEF DeletionInv, RecordsTrue
<1>5. RunTrue'
  BY <1>1, <1>2 DEF DeletionInv, RunTrue
<1> QED
  BY <1>3, <1>4, <1>5 DEF DeletionInv

THEOREM DeletionInvariant == DeletionSpec => []DeletionInv
<1>1. DeletionInit => DeletionInv
  BY InitHolds
<1>2. DeletionInv /\ [DeletionNext]_vars => DeletionInv'
  <2> SUFFICES ASSUME DeletionInv, [DeletionNext]_vars PROVE DeletionInv'
    OBVIOUS
  <2>1. CASE StartTrash
    BY <2>1, StartTrashKeeps
  <2>2. CASE StartDelete
    BY <2>2, StartDeleteKeeps
  <2>3. CASE Cancel
    BY <2>3, CancelKeeps
  <2>4. CASE Write
    BY <2>4, WriteKeeps
  <2>5. CASE WriteFails
    BY <2>5, WriteFailsKeeps
  <2>6. CASE Begin
    BY <2>6, BeginKeeps
  <2>7. CASE Check
    BY <2>7, CheckKeeps
  <2>8. CASE LoopEnds
    BY <2>8, LoopEndsKeeps
  <2>9. CASE CallSucceeds
    BY <2>9, CallSucceedsKeeps
  <2>10. CASE CallFails
    BY <2>10, CallFailsKeeps
  <2>11. CASE ScopeMissing
    BY <2>11, ScopeMissingKeeps
  <2>12. CASE MarkDeleted
    BY <2>12, MarkDeletedKeeps
  <2>13. CASE Finalize
    BY <2>13, FinalizeKeeps
  <2>14. CASE MoveToOutcome
    BY <2>14, MoveToOutcomeKeeps
  <2>15. CASE CancelSaves
    BY <2>15, CancelSavesKeeps
  <2>16. CASE Interrupt
    BY <2>16, InterruptKeeps
  <2>17. CASE Kill
    BY <2>17, KillKeeps
  <2>18. CASE UNCHANGED vars
    BY <2>18, StutterKeeps
  <2> QED
    BY <2>1, <2>2, <2>3, <2>4, <2>5, <2>6, <2>7, <2>8, <2>9, <2>10, <2>11, <2>12,
       <2>13, <2>14, <2>15, <2>16, <2>17, <2>18 DEF DeletionNext, CommandStep
<1> QED
  BY <1>1, <1>2, PTL DEF DeletionSpec

\* A list of failures of a true record or tally is no longer than what was passed.
LEMMA TrueListIsShort ==
  /\ \A e, gone, noted : Truth(e, gone, noted) => IsFailedList(e.failedIDs)
  /\ \A at, count, rest, gone, noted : Tallied(at, count, rest, gone, noted) =>
       IsFailedList(count.failedIDs) /\ IsFailedList(rest)
<1>1. ASSUME NEW e, NEW gone, NEW noted, Truth(e, gone, noted)
      PROVE  IsFailedList(e.failedIDs)
  <2>1. /\ e.failedIDs \in Seq(Message) /\ e.succeeded \in Nat /\ e.failed \in Nat
        /\ e.lastIndex \in 0..MessageCount
        /\ e.succeeded + e.failed = e.lastIndex /\ e.failed = Len(e.failedIDs)
    BY <1>1 DEF Truth, Execution
  <2>2. Len(e.failedIDs) <= 2 * MessageCount
    BY <2>1, DeletionAssumption
  <2> QED
    BY <2>1, <2>2 DEF IsFailedList
<1>2. ASSUME NEW at, NEW count, NEW rest, NEW gone, NEW noted,
             Tallied(at, count, rest, gone, noted)
      PROVE  IsFailedList(count.failedIDs) /\ IsFailedList(rest)
  <2>1. /\ at \in 0..MessageCount /\ count.succeeded \in Nat /\ count.failed \in Nat
        /\ count.failedIDs \in Seq(Message) /\ rest \in Seq(Message)
        /\ count.failed = Len(count.failedIDs) /\ Len(rest) \in Nat
        /\ count.succeeded + count.failed + Len(rest) = at
    BY <1>2, TalliedParts
  <2>2. Len(count.failedIDs) <= 2 * MessageCount /\ Len(rest) <= 2 * MessageCount
    BY <2>1, DeletionAssumption
  <2> QED
    BY <2>1, <2>2 DEF IsFailedList
<1> QED
  BY <1>1, <1>2

LEMMA TrueManifestTyped ==
  ASSUME NEW m \in Manifests, NEW gone, NEW noted, Truth(m.execution, gone, noted)
  PROVE  IsManifest(m)
<1>1. IsFailedList(m.execution.failedIDs)
  BY TrueListIsShort
<1>2. m.execution \in Execution /\ m.status \in Status \cup {"absent", "torn"}
  BY DEF Manifests
<1> QED
  BY <1>1, <1>2 DEF IsManifest, Execution

\* Type correctness, for lists and batches of any length.
THEOREM DeletionTypeCorrect == DeletionSpec => []DeletionTypeOK
<1>1. DeletionInv => DeletionTypeOK
  <2> SUFFICES ASSUME DeletionInv PROVE DeletionTypeOK
    OBVIOUS
  <2>1. Typed /\ RecordsTrue /\ RunTrue
    BY DEF DeletionInv
  <2>2. DOMAIN file = Status /\ \A d \in Status : IsManifest(file[d])
    BY <2>1, TrueManifestTyped DEF Typed, RecordsTrue
  <2>3. IsManifest(manifest) /\ pending.dir \in Status /\ IsManifest(pending.content)
    <3>1. pending.content \in Manifests /\ pending.dir \in Status
      BY <2>1 DEF Typed
    <3> QED
      BY <2>1, <3>1, TrueManifestTyped DEF Typed, RecordsTrue
  <2>4. /\ index \in 0..MessageCount /\ IsFailedList(retry)
        /\ tally.succeeded \in Nat /\ tally.failed \in Nat
        /\ IsFailedList(tally.failedIDs)
    <3>1. CASE phase = "none" \/ step = "begin"
      <4>1. index = 0 /\ retry = <<>> /\ tally = NoTally
        BY <2>1, <3>1 DEF RunTrue
      <4>2. IsFailedList(<<>>) /\ 0 \in 0..MessageCount
        BY EmptyList, DeletionAssumption DEF IsFailedList
      <4> QED
        BY <4>1, <4>2 DEF NoTally
    <3>2. CASE ~(phase = "none" \/ step = "begin")
      <4>1. Tallied(index, tally, retry, Gone, Noted)
        BY <2>1, <3>2 DEF RunTrue
      <4> QED
        BY <4>1, TalliedParts, TrueListIsShort
    <3> QED
      BY <3>1, <3>2
  <2> QED
    BY <2>1, <2>2, <2>3, <2>4 DEF DeletionTypeOK, Typed, Step, Phase
<1> QED
  BY <1>1, DeletionInvariant, PTL

\* The record in the file tells the truth whenever a run may resume from it.
THEOREM RecordTellsTheTruth == DeletionSpec => []ProgressIsTrue
<1>1. DeletionInv => ProgressIsTrue
  <2> SUFFICES ASSUME DeletionInv, NEW d \in Status
               PROVE  LET e == file[d].execution
                      IN /\ \A m \in 1..e.lastIndex :
                              remote[m] # "live" \/ m \in ToSet(e.failedIDs)
                         /\ e.succeeded + e.failed = e.lastIndex
                         /\ e.failed = Len(e.failedIDs)
    BY DEF ProgressIsTrue
  <2>1. Truth(file[d].execution, Gone, Noted)
    BY DEF DeletionInv, RecordsTrue
  <2> QED
    BY <2>1 DEF Truth, Gone
<1> QED
  BY <1>1, DeletionInvariant, PTL

\* The archive's marks agree with the server.
THEOREM MarksTellTheTruth == DeletionSpec => []MarksAreTrue
<1>1. DeletionInv => MarksAreTrue
  <2> SUFFICES ASSUME DeletionInv PROVE MarksAreTrue
    OBVIOUS
  <2>1. \A m \in Message : local[m] # "live" => remote[m] # "live"
    BY DEF DeletionInv, RecordsTrue, Gone
  <2>2. ASSUME NEW d \in Status, NEW m \in 1..file[d].execution.lastIndex
        PROVE  local[m] # "live" \/ m \in ToSet(file[d].execution.failedIDs)
                 \/ m \in markErrors
    <3>1. Truth(file[d].execution, Gone, Noted)
      BY DEF DeletionInv, RecordsTrue
    <3> QED
      BY <3>1 DEF Truth, Noted
  <2> QED
    BY <2>1, <2>2 DEF MarksAreTrue
<1> QED
  BY <1>1, DeletionInvariant, PTL

\* A permanent batch is completed only when every failure of an earlier run has
\* been tried again.
THEOREM NoFailureIsDropped == DeletionSpec => FailuresTriedAgain
<1>1. DeletionInv => (step = "final" /\ phase # "trash" =>
                        ToSet(manifest.execution.failedIDs) \subseteq tried)
  <2> SUFFICES ASSUME DeletionInv, step = "final", phase # "trash"
               PROVE  ToSet(manifest.execution.failedIDs) \subseteq tried
    OBVIOUS
  <2>1. phase = "batch" /\ retry = <<>>
    BY DEF DeletionInv, RunTrue
  <2>2. ToSet(manifest.execution.failedIDs) \subseteq tried \cup ToSet(retry)
    BY <2>1 DEF DeletionInv, Retried
  <2> QED
    BY <2>1, <2>2, EmptyList
<1> QED
  BY <1>1, DeletionInvariant, PTL DEF FailuresTriedAgain

-----------------------------------------------------------------------------
(* A cancelled batch stays cancelled.                                      *)

Ended == {"completed", "failed"}

AnyStale == \E d \in {"completed", "failed", "cancelled"} : Stale(d)

\* A batch in pending is nowhere else; one in cancelled is not executed, and
\* nothing lies in in_progress that could be, unless a stale file says so.
StaysCancelled ==
  /\ file["pending"] # Absent =>
       /\ step = "idle" /\ file["pending"].status = "pending"
       /\ \A d \in Status \ {"pending"} : file[d] = Absent
  /\ file["cancelled"] # Absent /\ ~AnyStale =>
       phase = "none" /\ file["in_progress"] = Absent

\* delete-staged writes in in_progress and moves the file to an outcome;
\* cancel-deletion writes in cancelled, when in_progress is empty.
WritesInPlace ==
  /\ step = "cancel" => file["in_progress"] = Absent
  /\ step = "write" /\ phase = "none" =>
       file["in_progress"] = Absent /\ pending.dir = "cancelled"
  /\ step = "write" /\ phase # "none" => pending.dir = "in_progress"
  /\ step = "move" => manifest.status \in Ended
  /\ step = "write" /\ pending.next = "move" => manifest.status \in Ended

LEMMA Names ==
  /\ "pending" \in Status /\ "in_progress" \in Status /\ "cancelled" \in Status
  /\ Ended \subseteq Status
  /\ ~Loads(Absent) /\ Absent.status = "absent"
BY DEF Status, Ended, Loads, Absent, Manifest

\* A step of the executor that writes nothing.
LEMMA GoesOnInPlace ==
  ASSUME DeletionInv, StaysCancelled, phase # "none", phase' # "none",
         file' = file, step' \in {"begin", "check", "call", "mark", "final"}
  PROVE  StaysCancelled' /\ WritesInPlace'
<1>1. step # "idle"
  BY DEF DeletionInv, Placed
<1>2. AnyStale' <=> AnyStale
  BY DEF AnyStale, Stale
<1> QED
  BY <1>1, <1>2 DEF StaysCancelled, WritesInPlace

\* A step of the executor that begins a save.
LEMMA SavesInPlace ==
  ASSUME DeletionInv, StaysCancelled, phase # "none", phase' = phase,
         NEW content, NEW then, Save("in_progress", content, then),
         then = "move" => manifest'.status \in Ended
  PROVE  StaysCancelled' /\ WritesInPlace'
<1>1. /\ step # "idle" /\ file' = file /\ step' = "write"
      /\ pending'.dir = "in_progress" /\ pending'.next = then
  BY DEF DeletionInv, Placed, Save
<1>2. AnyStale' <=> AnyStale
  BY <1>1 DEF AnyStale, Stale
<1> QED
  BY <1>1, <1>2 DEF StaysCancelled, WritesInPlace

LEMMA PassInPlace ==
  ASSUME DeletionInv, StaysCancelled, phase # "none", NEW count, Pass(count)
  PROVE  StaysCancelled' /\ WritesInPlace'
<1>1. phase' = phase
  BY DEF Pass
<1>2. CASE phase = "trash" /\ (index + 1) % CheckpointAt = 0
  <2>1. SaveCheckpoint(index + 1, count, "check")
    BY <1>2 DEF Pass
  <2>2. PICK content : Save("in_progress", content, "check")
    BY <2>1 DEF SaveCheckpoint
  <2> QED
    BY <1>1, <2>2, SavesInPlace
<1>3. CASE ~(phase = "trash" /\ (index + 1) % CheckpointAt = 0)
  <2>1. step' = "check" /\ file' = file
    BY <1>3 DEF Pass
  <2> QED
    BY <1>1, <2>1, GoesOnInPlace
<1> QED
  BY <1>2, <1>3

LEMMA StopsInPlace ==
  ASSUME DeletionInv, StaysCancelled, phase # "none", phase' = phase,
         NEW at, NEW count, SaveCheckpoint(at, count, "idle")
  PROVE  StaysCancelled' /\ WritesInPlace'
<1>1. PICK content : Save("in_progress", content, "idle")
  BY DEF SaveCheckpoint
<1> QED
  BY <1>1, SavesInPlace

\* Only a stale file lets delete-staged take up a cancelled batch.
LEMMA StartsInPlace ==
  ASSUME DeletionInv, StaysCancelled, step = "idle",
         NEW method, Prepare(method), phase' # "none", step' \in {"begin", "check"}
  PROVE  StaysCancelled' /\ WritesInPlace'
<1>1. file \in [Status -> Manifests]
  BY DEF DeletionInv, Typed
<1>2. CASE Found.status = "pending"
  <2>1. /\ file["pending"] # Absent
        /\ file' = [file EXCEPT !["in_progress"] = file["pending"], !["pending"] = Absent]
    BY <1>2 DEF Prepare
  <2>2. file["cancelled"] = Absent
    BY <2>1, Names DEF StaysCancelled
  <2>3. file'["cancelled"] = Absent /\ file'["pending"] = Absent
    BY <1>1, <2>1, <2>2, Names
  <2> QED
    BY <2>3 DEF StaysCancelled, WritesInPlace
<1>3. CASE Found.status # "pending"
  <2>1. Found.status = "in_progress" /\ file' = file
    BY <1>3 DEF Prepare
  <2>2. \/ Found = file["pending"] \/ Found = file["in_progress"]
        \/ \E d \in {"completed", "failed", "cancelled"} : Found = file[d]
        \/ Found = Absent
    BY DEF Found
  <2>3. AnyStale' <=> AnyStale
    BY <2>1 DEF AnyStale, Stale
  <2>4. ASSUME file["cancelled"] # Absent, ~AnyStale PROVE FALSE
    <3>1. file["in_progress"] = Absent
      BY <2>4 DEF StaysCancelled
    <3>2. file["pending"] = Absent
      BY <2>4, Names DEF StaysCancelled
    <3>3. PICK d \in {"completed", "failed", "cancelled"} : file[d].status = "in_progress"
      BY <2>1, <2>2, <3>1, <3>2, Names
    <3>4. Stale(d)
      BY <3>3, Names DEF Stale, Loads
    <3> QED
      BY <2>4, <3>4 DEF AnyStale
  <2>5. file["pending"] = Absent
    <3>1. ASSUME file["pending"] # Absent PROVE FALSE
      <4>1. file["pending"].status = "pending"
        BY <3>1 DEF StaysCancelled
      <4>2. \A d \in {"in_progress", "completed", "failed", "cancelled"} :
              file[d] = Absent
        BY <3>1 DEF StaysCancelled, Status
      <4> QED
        BY <2>1, <2>2, <4>1, <4>2, Names
    <3> QED
      BY <3>1
  <2> QED
    BY <2>1, <2>3, <2>4, <2>5 DEF StaysCancelled, WritesInPlace
<1> QED
  BY <1>2, <1>3

\* Writes, complete or cut short, and kills.
LEMMA WrittenInPlace ==
  ASSUME DeletionInv, StaysCancelled, WritesInPlace, step = "write",
         NEW x, file' \in {file, [file EXCEPT ![pending.dir] = x]},
         \/ phase' = "none" /\ step' = "idle"
         \/ /\ phase' = phase /\ manifest' = manifest /\ phase # "none"
            /\ step' = pending.next /\ step' # "idle"
  PROVE  StaysCancelled' /\ WritesInPlace'
<1>1. /\ file \in [Status -> Manifests] /\ pending.dir \in Status
      /\ pending.next \in {"idle", "check", "move"}
  BY DEF DeletionInv, Typed
<1>2. file["pending"] = Absent /\ step' \in {"idle", "check", "move"}
  BY <1>1 DEF StaysCancelled
<1>3. /\ \A d \in Status \ {pending.dir} : file'[d] = file[d]
      /\ pending.dir \in {"in_progress", "cancelled"}
  BY <1>1 DEF WritesInPlace
<1>4. file'["pending"] = Absent
  BY <1>2, <1>3, Names
<1>5. WritesInPlace'
  BY <1>2 DEF WritesInPlace
<1>6. CASE phase = "none"
  <2>1. phase' = "none" /\ file'["in_progress"] = Absent
    BY <1>3, <1>6, Names DEF WritesInPlace
  <2> QED
    BY <1>4, <1>5, <2>1 DEF StaysCancelled
<1>7. CASE phase # "none"
  <2>1. \A d \in {"completed", "failed", "cancelled"} : file'[d] = file[d]
    BY <1>3, <1>7 DEF WritesInPlace, Status
  <2>2. AnyStale' <=> AnyStale
    BY <2>1 DEF AnyStale, Stale
  <2>3. file'["cancelled"] = file["cancelled"]
    BY <2>1
  <2> QED
    BY <1>4, <1>5, <1>7, <2>2, <2>3 DEF StaysCancelled
<1> QED
  BY <1>6, <1>7

LEMMA WriteInPlace ==
  ASSUME DeletionInv, StaysCancelled, WritesInPlace, Write \/ WriteFails
  PROVE  StaysCancelled' /\ WritesInPlace'
<1>1. step = "write" /\ (phase = "none" => pending.next = "idle")
  BY DEF DeletionInv, Placed, Write, WriteFails
<1>2. \/ file' = [file EXCEPT ![pending.dir] = pending.content]
      \/ file' \in {file, [file EXCEPT ![pending.dir] = Torn]}
  BY DEF Write, WriteFails, CutShort
<1>3. /\ step' = "idle" \/ step' = pending.next
      /\ step' = "idle" => phase' = "none"
      /\ step' # "idle" => phase' = phase /\ manifest' = manifest
  BY DEF Write, WriteFails, EndsAt, Forget, memory
<1>4. \/ phase' = "none" /\ step' = "idle"
      \/ /\ phase' = phase /\ manifest' = manifest /\ phase # "none"
         /\ step' = pending.next /\ step' # "idle"
  BY <1>1, <1>3
<1> QED
  BY <1>1, <1>2, <1>4, WrittenInPlace

LEMMA KillInPlace ==
  ASSUME DeletionInv, StaysCancelled, WritesInPlace, Kill
  PROVE  StaysCancelled' /\ WritesInPlace'
<1>1. step # "idle" /\ step' = "idle" /\ phase' = "none"
  BY DEF Kill, Forget
<1>2. CASE step = "write"
  BY <1>1, <1>2, WrittenInPlace DEF Kill, CutShort
<1>3. CASE step # "write"
  <2>1. file' = file
    BY <1>3 DEF Kill
  <2>2. AnyStale' <=> AnyStale
    BY <2>1 DEF AnyStale, Stale
  <2> QED
    BY <1>1, <2>1, <2>2 DEF StaysCancelled, WritesInPlace
<1> QED
  BY <1>2, <1>3

LEMMA MoveInPlace ==
  ASSUME DeletionInv, StaysCancelled, WritesInPlace, MoveToOutcome
  PROVE  StaysCancelled' /\ WritesInPlace'
<1>1. /\ step = "move" /\ step' = "idle" /\ phase' = "none"
      /\ IF file["in_progress"] = Absent
         THEN file' = file
         ELSE file' = [file EXCEPT ![manifest.status] = file["in_progress"],
                                   !["in_progress"] = Absent]
      /\ file \in [Status -> Manifests]
  BY DEF MoveToOutcome, Forget, DeletionInv, Typed
<1>2. file["pending"] = Absent /\ manifest.status \in Ended
  BY <1>1 DEF StaysCancelled, WritesInPlace
<1>3. file'["in_progress"] = Absent
  BY <1>1, Names
<1>4. file'["pending"] = Absent
  BY <1>1, <1>2, Names DEF Ended
<1> QED
  BY <1>1, <1>3, <1>4 DEF StaysCancelled, WritesInPlace

LEMMA CancelInPlace ==
  ASSUME DeletionInv, StaysCancelled, Cancel
  PROVE  StaysCancelled' /\ WritesInPlace'
<1>1. PICK from \in {"pending", "in_progress"} :
        /\ file[from] # Absent
        /\ from = "in_progress" => file["pending"] = Absent
        /\ file' = [file EXCEPT !["cancelled"] = file[from], ![from] = Absent]
        /\ step' = "cancel" \/ step' = step
  BY DEF Cancel
<1>2. /\ step = "idle" /\ phase = "none" /\ phase' = "none"
      /\ file \in [Status -> Manifests]
  BY DEF Cancel, DeletionInv, Typed, Placed
<1>3. from = "pending" => file["in_progress"] = Absent
  BY <1>1, Names DEF StaysCancelled
<1>4. file'["in_progress"] = Absent /\ file'["pending"] = Absent
  BY <1>1, <1>2, <1>3, Names
<1> QED
  BY <1>1, <1>2, <1>4 DEF StaysCancelled, WritesInPlace

LEMMA CancelSavesInPlace ==
  ASSUME DeletionInv, StaysCancelled, WritesInPlace, CancelSaves
  PROVE  StaysCancelled' /\ WritesInPlace'
<1>1. /\ step = "cancel" /\ step' = "write" /\ file' = file
      /\ phase = "none" /\ phase' = "none"
      /\ pending'.dir = "cancelled" /\ pending'.next = "idle"
  BY DEF CancelSaves, Save, memory, DeletionInv, Placed
<1>2. AnyStale' <=> AnyStale
  BY <1>1 DEF AnyStale, Stale
<1> QED
  BY <1>1, <1>2 DEF StaysCancelled, WritesInPlace

LEMMA FinalizeInPlace ==
  ASSUME DeletionInv, StaysCancelled, Finalize
  PROVE  StaysCancelled' /\ WritesInPlace'
<1>1. PICK e : /\ manifest' = Manifest(Outcome, e)
               /\ Save("in_progress", manifest', "move")
  BY DEF Finalize
<1>2. phase # "none" /\ phase' = phase
  BY DEF Finalize, DeletionInv, Placed
<1>3. manifest'.status \in Ended
  BY <1>1 DEF Outcome, Manifest, Ended
<1> QED
  BY <1>1, <1>2, <1>3, SavesInPlace

LEMMA RunInPlace ==
  ASSUME DeletionInv, StaysCancelled,
         Begin \/ Check \/ LoopEnds \/ CallSucceeds \/ CallFails \/ ScopeMissing
           \/ MarkDeleted
  PROVE  StaysCancelled' /\ WritesInPlace'
<1>1. phase # "none"
  BY DEF DeletionInv, Placed, Begin, Check, LoopEnds, CallSucceeds, CallFails,
         ScopeMissing, MarkDeleted
<1>2. CASE Begin
  BY <1>1, <1>2, SavesInPlace DEF Begin
<1>3. CASE Check
  <2>1. phase' = phase
    BY <1>3 DEF Check, memory
  <2>2. CASE ctxDone
    BY <1>1, <1>3, <2>1, <2>2, StopsInPlace DEF Check
  <2>3. CASE ~ctxDone
    BY <1>1, <1>3, <2>1, <2>3, GoesOnInPlace DEF Check
  <2> QED
    BY <2>2, <2>3
<1>4. CASE LoopEnds
  BY <1>1, <1>4, GoesOnInPlace DEF LoopEnds, disk
<1>5. CASE CallSucceeds
  BY <1>1, <1>5, GoesOnInPlace DEF CallSucceeds, memory
<1>6. CASE CallFails
  <2>1. CASE phase = "batch"
    <3>1. phase' = "single" /\ step' = "check" /\ file' = file
      BY <1>6, <2>1 DEF CallFails
    <3> QED
      BY <1>1, <3>1, GoesOnInPlace
  <2>2. CASE phase # "batch"
    <3>1. PICK count : Pass(count)
      BY <1>6, <2>2 DEF CallFails
    <3> QED
      BY <1>1, <3>1, PassInPlace
  <2> QED
    BY <2>1, <2>2
<1>7. CASE ScopeMissing
  BY <1>1, <1>7, StopsInPlace DEF ScopeMissing, memory
<1>8. CASE MarkDeleted
  <2>1. CASE phase = "batch"
    <3>1. phase' = phase /\ step' = "check" /\ file' = file
      BY <1>8, <2>1 DEF MarkDeleted
    <3> QED
      BY <1>1, <3>1, GoesOnInPlace
  <2>2. CASE phase # "batch"
    <3>1. PICK count : Pass(count)
      BY <1>8, <2>2 DEF MarkDeleted
    <3> QED
      BY <1>1, <3>1, PassInPlace
  <2> QED
    BY <2>1, <2>2
<1> QED
  BY <1>2, <1>3, <1>4, <1>5, <1>6, <1>7, <1>8

\* Whatever fails or is killed, a cancelled batch is executed again only while
\* a file in a final directory still says inside that it is in progress.
THEOREM CancelledForGood == DeletionSpec => CancelledIsFinal
<1> DEFINE Kept == StaysCancelled /\ WritesInPlace
<1>1. DeletionInit => Kept
  <2> SUFFICES ASSUME DeletionInit PROVE Kept
    OBVIOUS
  <2>1. /\ file = [d \in Status |-> IF d = "pending" THEN Manifest("pending", NoExecution)
                                                     ELSE Absent]
        /\ step = "idle" /\ phase = "none"
    BY DEF DeletionInit
  <2>2. /\ \A d \in Status \ {"pending"} : file[d] = Absent
        /\ file["pending"].status = "pending"
    BY <2>1, Names DEF Manifest
  <2> QED
    BY <2>1, <2>2, Names DEF StaysCancelled, WritesInPlace
<1>2. DeletionInv /\ Kept /\ [DeletionNext]_vars => Kept'
  <2> SUFFICES ASSUME DeletionInv, StaysCancelled, WritesInPlace, [DeletionNext]_vars
               PROVE  StaysCancelled' /\ WritesInPlace'
    OBVIOUS
  <2>1. CASE StartTrash
    BY <2>1, StartsInPlace DEF StartTrash
  <2>2. CASE StartDelete
    BY <2>2, StartsInPlace DEF StartDelete
  <2>3. CASE Cancel
    BY <2>3, CancelInPlace
  <2>4. CASE Write \/ WriteFails
    BY <2>4, WriteInPlace
  <2>5. CASE Begin \/ Check \/ LoopEnds \/ CallSucceeds \/ CallFails \/ ScopeMissing
               \/ MarkDeleted
    BY <2>5, RunInPlace
  <2>6. CASE Finalize
    BY <2>6, FinalizeInPlace
  <2>7. CASE MoveToOutcome
    BY <2>7, MoveInPlace
  <2>8. CASE CancelSaves
    BY <2>8, CancelSavesInPlace
  <2>9. CASE Interrupt \/ UNCHANGED vars
    <3>1. UNCHANGED <<file, step, phase, manifest, pending>>
      BY <2>9 DEF Interrupt, disk, vars
    <3>2. AnyStale' <=> AnyStale
      BY <3>1 DEF AnyStale, Stale
    <3> QED
      BY <3>1, <3>2 DEF StaysCancelled, WritesInPlace
  <2>10. CASE Kill
    BY <2>10, KillInPlace
  <2> QED
    BY <2>1, <2>2, <2>3, <2>4, <2>5, <2>6, <2>7, <2>8, <2>9, <2>10
       DEF DeletionNext, CommandStep
<1>3. DeletionInv /\ Kept /\ [DeletionNext]_vars =>
        (file["cancelled"] # Absent
           /\ ~(\E d \in {"completed", "failed", "cancelled"} : Stale(d))
         => UNCHANGED remote)
  <2> SUFFICES ASSUME DeletionInv, StaysCancelled, [DeletionNext]_vars,
                      file["cancelled"] # Absent, ~AnyStale
               PROVE  UNCHANGED remote
    BY DEF AnyStale
  <2>1. phase = "none"
    BY DEF StaysCancelled
  <2>2. ~CallSucceeds /\ ~CallFails
    BY <2>1 DEF DeletionInv, Placed, CallSucceeds, CallFails
  <2> QED
    BY <2>2 DEF DeletionNext, CommandStep, StartTrash, StartDelete, Cancel, Write,
       WriteFails, Begin, Check, LoopEnds, ScopeMissing, MarkDeleted, Finalize,
       MoveToOutcome, CancelSaves, Interrupt, Kill, disk, vars
<1>4. QED
  BY <1>1, <1>2, <1>3, DeletionInvariant, PTL DEF DeletionSpec, CancelledIsFinal
=============================================================================
