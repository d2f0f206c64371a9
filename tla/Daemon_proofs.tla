---------------------------- MODULE Daemon_proofs ----------------------------
(***************************************************************************)
(* Proofs about Daemon, for any finite number of threads of each kind and  *)
(* any choice of the waits that may run out.                               *)
(***************************************************************************)
EXTENDS Daemon, SequenceTheorems, FiniteSetTheorems, TLAPS

\* What a thread that works will have to let go of.
Duties(t) == CASE t \in Request -> <<"gate", "external">>
               [] t \in Reader -> <<"external">>
               [] OTHER -> AfterWork(t)

\* What a thread holds, and has to let go of, where it stands.
Held(t, place, calls) ==
  CASE place = "claimed" -> ToSet(AfterRefusal(t))
    [] place \in {"asking", "queued"} -> ToSet(Untrack(t))
    [] place \in {"working", "embedding"} -> ToSet(Duties(t))
    [] place = "ending" -> ToSet(calls)
    [] OTHER -> {}

Owes(t) == Held(t, pc[t], todo[t])
Owing(call) == {t \in Thread : call \in Owes(t)}

\* A list of deferred calls: none is made twice, and a run leaves the wait
\* group with the last.
IsDuty(t, calls) ==
  /\ calls \in Seq(Release) /\ IsInjective(calls)
  /\ t \in Scheduled /\ calls # <<>> => calls[Len(calls)] = "wg"

ThreadsTyped ==
  /\ pc \in [Thread -> Place]
  /\ todo \in [Thread -> Seq(Release)]
  /\ \A t \in Thread : /\ IsDuty(t, todo[t])
                       /\ pc[t] = "ending" => todo[t] # <<>>
  /\ \A t \in Reader : pc[t] \notin {"claimed", "asking", "queued"}
  /\ \A t \in Scheduled : pc[t] # "arrived"
  /\ \A t \in Thread : pc[t] = "probing" => t = IndexBuild

SwitchesTyped ==
  /\ draining \in BOOLEAN /\ idleDraining \in BOOLEAN /\ cancelled \in BOOLEAN
  /\ stopped \in BOOLEAN /\ embedSet \in BOOLEAN
  /\ phase \in Phase /\ timedOut \subseteq Timeouts

QueueTrue ==
  /\ queue \in Seq(Thread) /\ IsInjective(queue)
  /\ ToSet(queue) = {t \in Thread : pc[t] = "queued"}

\* The gate and every counter stand for the threads that hold them.
HoldersTrue ==
  /\ worker \in Thread \cup {NoThread}
  /\ \A t \in Thread : worker = t <=> "gate" \in Owes(t)

CountersTrue ==
  /\ work = Cardinality(Owing("work"))
  /\ external = Cardinality(Owing("external"))
  /\ wg = Cardinality(Owing("wg"))

FlagsTrue ==
  /\ running \in [Name -> BOOLEAN]
  /\ \A t \in Thread : "flag" \in Owes(t) => t \in Scheduled /\ running[NameOf(t)]
  /\ \A s, t \in Thread :
       "flag" \in Owes(s) /\ "flag" \in Owes(t) /\ NameOf(s) = NameOf(t) => s = t
  /\ \A n \in Name : running[n] => \E t \in Scheduled : NameOf(t) = n /\ "flag" \in Owes(t)

\* How far the main goroutine has come says who is gone.
MainTrue ==
  /\ phase \in {"api", "halt", "sched", "gate", "init", "closed"} => draining
  /\ phase \in {"sched", "gate", "init", "closed"} => stopped
  /\ phase \in {"halt", "sched", "gate", "init", "closed"} /\ "api" \notin timedOut
       => \A t \in Http : pc[t] = "off"
  /\ phase \in {"gate", "init", "closed"} /\ "sched" \notin timedOut
       => \A t \in Scheduled \cup EmbedTick : pc[t] = "off"
  /\ phase \in {"init", "closed"} /\ "drain" \notin timedOut => worker = NoThread
  /\ phase = "closed" /\ "drain" \notin timedOut => pc[VectorInit] = "off"

\* The inductive invariant.
DaemonInv ==
  /\ ThreadsTyped /\ SwitchesTyped /\ QueueTrue
  /\ HoldersTrue /\ CountersTrue /\ FlagsTrue
  /\ MainTrue /\ IdleInterruptsNothing

-----------------------------------------------------------------------------
(* Kinds of threads, and lists of deferred calls.                          *)

LEMMA Kinds ==
  /\ Request \subseteq Thread /\ Reader \subseteq Thread /\ Http \subseteq Thread
  /\ Scheduled \subseteq Thread /\ SyncRun \subseteq Scheduled /\ JobRun \subseteq Scheduled
  /\ EmbedTick \subseteq Thread /\ VectorInit \in Thread /\ IndexBuild \in Thread
  /\ NoThread \notin Thread
  /\ \A t \in Request : t \notin Reader \cup Scheduled \cup EmbedTick \cup {VectorInit, IndexBuild}
  /\ \A t \in Reader : t \notin Scheduled \cup EmbedTick \cup {VectorInit, IndexBuild}
  /\ \A t \in Scheduled : t \notin Http \cup EmbedTick \cup {VectorInit, IndexBuild}
  /\ \A t \in EmbedTick : t \notin Http \cup {VectorInit, IndexBuild}
  /\ \A t \in SyncRun : t \notin JobRun
  /\ VectorInit # IndexBuild
BY DaemonAssumption DEF Thread, Http, Scheduled

LEMMA NoCalls ==
  /\ <<>> \in Seq(Release) /\ Len(<<>>) = 0 /\ ToSet(<<>>) = {} /\ IsInjective(<<>>)
BY DEF ToSet, IsInjective

LEMMA OneCall ==
  ASSUME NEW a \in Release
  PROVE  /\ <<a>> \in Seq(Release) /\ <<a>> # <<>>
         /\ Len(<<a>>) = 1 /\ <<a>>[1] = a
         /\ ToSet(<<a>>) = {a} /\ IsInjective(<<a>>)
BY DEF ToSet, IsInjective

LEMMA TwoCalls ==
  ASSUME NEW a \in Release, NEW b \in Release, a # b
  PROVE  /\ <<a, b>> \in Seq(Release) /\ <<a, b>> # <<>>
         /\ Len(<<a, b>>) = 2 /\ <<a, b>>[2] = b
         /\ ToSet(<<a, b>>) = {a, b} /\ IsInjective(<<a, b>>)
BY DEF ToSet, IsInjective

LEMMA FourCalls ==
  ASSUME NEW a \in Release, NEW b \in Release, NEW c \in Release, NEW d \in Release,
         a \notin {b, c, d}, b \notin {c, d}, c # d
  PROVE  /\ <<a, b, c, d>> \in Seq(Release) /\ <<a, b, c, d>> # <<>>
         /\ Len(<<a, b, c, d>>) = 4 /\ <<a, b, c, d>>[4] = d
         /\ ToSet(<<a, b, c, d>>) = {a, b, c, d} /\ IsInjective(<<a, b, c, d>>)
BY DEF ToSet, IsInjective

LEMMA ThreeCalls ==
  ASSUME NEW a \in Release, NEW b \in Release, NEW c \in Release,
         a \notin {b, c}, b # c
  PROVE  /\ <<a>> \o <<b, c>> \in Seq(Release) /\ <<a>> \o <<b, c>> # <<>>
         /\ Len(<<a>> \o <<b, c>>) = 3 /\ (<<a>> \o <<b, c>>)[3] = c
         /\ ToSet(<<a>> \o <<b, c>>) = {a, b, c} /\ IsInjective(<<a>> \o <<b, c>>)
<1>1. <<a>> \o <<b, c>> = <<a, b, c>>
  <2> DEFINE s == <<a>> \o <<b, c>>
             l == <<a, b, c>>
  <2>1. /\ <<a>> \in Seq(Release) /\ Len(<<a>>) = 1 /\ <<a>>[1] = a
        /\ <<b, c>> \in Seq(Release) /\ Len(<<b, c>>) = 2
        /\ <<b, c>>[1] = b /\ <<b, c>>[2] = c
        /\ l \in Seq(Release) /\ Len(l) = 3
        /\ l[1] = a /\ l[2] = b /\ l[3] = c
    OBVIOUS
  <2>2. /\ s \in Seq(Release) /\ Len(s) = 3
        /\ \A i \in 1..3 : s[i] = IF i <= 1 THEN <<a>>[i] ELSE <<b, c>>[i - 1]
    BY <2>1, ConcatProperties
  <2>3. s[1] = a /\ s[2] = b /\ s[3] = c
    BY <2>1, <2>2
  <2>4. \A i \in 1..Len(s) : s[i] = l[i]
    BY <2>1, <2>2, <2>3
  <2> QED
    BY <2>1, <2>2, <2>4, SeqEqual
<1>2. /\ <<a, b, c>> \in Seq(Release) /\ <<a, b, c>> # <<>>
      /\ Len(<<a, b, c>>) = 3 /\ <<a, b, c>>[3] = c
      /\ ToSet(<<a, b, c>>) = {a, b, c} /\ IsInjective(<<a, b, c>>)
  BY DEF ToSet, IsInjective
<1> QED
  BY <1>1, <1>2

LEMMA RefusalDuty ==
  ASSUME NEW t \in Thread
  PROVE  /\ IsDuty(t, AfterRefusal(t))
         /\ ToSet(AfterRefusal(t)) = IF t \in Scheduled THEN {"flag", "wg"} ELSE {}
<1>1. "flag" \in Release /\ "wg" \in Release
  BY DEF Release
<1> QED
  BY <1>1, NoCalls, TwoCalls DEF IsDuty, AfterRefusal

LEMMA UntrackDuty ==
  ASSUME NEW t \in Thread
  PROVE  /\ IsDuty(t, Untrack(t))
         /\ ToSet(Untrack(t)) = CASE t \in Request -> {"external"}
                                  [] t = IndexBuild -> {}
                                  [] t \in Scheduled -> {"work", "flag", "wg"}
                                  [] OTHER -> {"work"}
<1>1. {"flag", "wg", "work", "external"} \subseteq Release
  BY DEF Release
<1>2. CASE t \in Request
  BY <1>1, <1>2, Kinds, OneCall DEF IsDuty, Untrack
<1>3. CASE t = IndexBuild
  BY <1>3, Kinds, NoCalls DEF IsDuty, Untrack
<1>4. CASE t \in Scheduled
  <2>1. Untrack(t) = <<"work">> \o <<"flag", "wg">>
    BY <1>4, Kinds DEF Untrack, AfterRefusal
  <2>2. t \notin Request /\ t # IndexBuild
    BY <1>4, Kinds DEF Http
  <2> QED
    BY <1>1, <1>4, <2>1, <2>2, ThreeCalls DEF IsDuty
<1>5. CASE t \notin Scheduled /\ t \notin Request /\ t # IndexBuild
  <2>1. Untrack(t) = <<"work">> \o <<>>
    BY <1>5, Kinds DEF Untrack, AfterRefusal
  <2>2. Untrack(t) = <<"work">>
    BY <1>1, <2>1, OneCall, ConcatEmptySeq
  <2> QED
    BY <1>1, <1>5, <2>2, OneCall DEF IsDuty
<1> QED
  BY <1>2, <1>3, <1>4, <1>5

LEMMA WorkDuty ==
  ASSUME NEW t \in Thread
  PROVE  /\ IsDuty(t, Duties(t))
         /\ ToSet(Duties(t)) = CASE t \in Request -> {"gate", "external"}
                                 [] t \in Reader -> {"external"}
                                 [] t = IndexBuild -> {"gate"}
                                 [] t \in Scheduled -> {"gate", "work", "flag", "wg"}
                                 [] OTHER -> {"gate", "work"}
<1>1. {"flag", "wg", "work", "external", "gate"} \subseteq Release
  BY DEF Release
<1>2. CASE t \in Request
  <2>1. Duties(t) = <<"gate", "external">> /\ t \notin Scheduled
    BY <1>2, Kinds DEF Duties
  <2> QED
    BY <1>1, <1>2, <2>1, TwoCalls, Kinds DEF IsDuty
<1>3. CASE t \in Reader
  <2>1. Duties(t) = <<"external">> /\ t \notin Scheduled /\ t \notin Request
    BY <1>3, Kinds DEF Duties
  <2> QED
    BY <1>1, <1>3, <2>1, OneCall, Kinds DEF IsDuty
<1>4. CASE t \in SyncRun
  <2>1. t \in Scheduled /\ t \notin Request /\ t \notin Reader /\ t # IndexBuild
    BY <1>4, Kinds DEF Http
  <2>2. Duties(t) = <<"gate", "work", "flag", "wg">>
    BY <1>4, <2>1, Kinds DEF Duties, AfterWork
  <2> QED
    BY <1>1, <2>1, <2>2, FourCalls DEF IsDuty
<1>5. CASE t \in JobRun
  <2>1. t \in Scheduled /\ t \notin SyncRun /\ t \notin Request /\ t \notin Reader /\ t # IndexBuild
    BY <1>5, Kinds DEF Http
  <2>2. Duties(t) = <<"flag", "gate", "work", "wg">>
    BY <1>5, <2>1, Kinds DEF Duties, AfterWork
  <2> QED
    BY <1>1, <2>1, <2>2, FourCalls DEF IsDuty
<1>6. CASE t = IndexBuild
  <2>1. t \notin Scheduled /\ t \notin SyncRun /\ t \notin JobRun /\ t \notin Request /\ t \notin Reader
    BY <1>6, Kinds
  <2>2. Duties(t) = <<"gate">>
    BY <1>6, <2>1 DEF Duties, AfterWork
  <2> QED
    BY <1>1, <1>6, <2>1, <2>2, OneCall DEF IsDuty
<1>7. CASE t \notin Http /\ t \notin Scheduled /\ t # IndexBuild
  <2>1. t \notin SyncRun /\ t \notin JobRun /\ t \notin Request /\ t \notin Reader
    BY <1>7 DEF Http, Scheduled
  <2>2. Duties(t) = <<"gate", "work">>
    BY <1>7, <2>1 DEF Duties, AfterWork
  <2> QED
    BY <1>1, <1>7, <2>1, <2>2, TwoCalls DEF IsDuty
<1> QED
  BY <1>2, <1>3, <1>4, <1>5, <1>6, <1>7 DEF Http, Scheduled

-----------------------------------------------------------------------------
(* Lists without repetition: the deferred calls and the queue.             *)

LEMMA TailOfInjective ==
  ASSUME NEW S, NEW s \in Seq(S), s # <<>>, IsInjective(s)
  PROVE  /\ Tail(s) \in Seq(S) /\ IsInjective(Tail(s))
         /\ Head(s) \in S /\ Head(s) \in ToSet(s)
         /\ ToSet(Tail(s)) = ToSet(s) \ {Head(s)}
         /\ Tail(s) # <<>> => /\ Tail(s)[Len(Tail(s))] = s[Len(s)]
                              /\ Head(s) # s[Len(s)]
<1> DEFINE r == Tail(s)
<1>1. /\ Head(s) \in S /\ r \in Seq(S) /\ Len(r) = Len(s) - 1
      /\ \A i \in 1..Len(r) : r[i] = s[i + 1]
      /\ Head(s) = s[1]
  BY HeadTailProperties
<1>2. /\ DOMAIN s = 1..Len(s) /\ DOMAIN r = 1..Len(r)
      /\ Len(s) \in Nat \ {0} /\ Len(r) \in Nat
  BY <1>1, LenProperties, EmptySeq
<1>3. \A i, j \in 1..Len(s) : s[i] = s[j] => i = j
  BY <1>2 DEF IsInjective
<1>4. IsInjective(r)
  <2>1. ASSUME NEW i \in 1..Len(r), NEW j \in 1..Len(r), r[i] = r[j] PROVE i = j
    <3>1. s[i + 1] = s[j + 1] /\ i + 1 \in 1..Len(s) /\ j + 1 \in 1..Len(s)
      BY <1>1, <1>2, <2>1
    <3>2. i + 1 = j + 1
      BY <1>3, <3>1
    <3> QED
      BY <3>2
  <2> QED
    BY <1>2, <2>1 DEF IsInjective
<1>5. ASSUME NEW y PROVE y \in ToSet(r) <=> y \in ToSet(s) /\ y # Head(s)
  <2>1. ASSUME y \in ToSet(r) PROVE y \in ToSet(s) /\ y # Head(s)
    <3>1. PICK i \in 1..Len(r) : y = r[i]
      BY <1>2, <2>1 DEF ToSet
    <3>2. y = s[i + 1] /\ i + 1 \in 1..Len(s) /\ i + 1 # 1 /\ 1 \in 1..Len(s)
      BY <1>1, <1>2, <3>1
    <3> QED
      BY <1>1, <1>2, <1>3, <3>2 DEF ToSet
  <2>2. ASSUME y \in ToSet(s), y # Head(s) PROVE y \in ToSet(r)
    <3>1. PICK i \in 1..Len(s) : y = s[i]
      BY <1>2, <2>2 DEF ToSet
    <3>2. i # 1
      BY <1>1, <2>2, <3>1
    <3>3. i - 1 \in 1..Len(r) /\ (i - 1) + 1 = i
      BY <1>1, <1>2, <3>1, <3>2
    <3>4. y = r[i - 1]
      BY <1>1, <3>1, <3>3
    <3> QED
      BY <1>2, <3>3, <3>4 DEF ToSet
  <2> QED
    BY <2>1, <2>2
<1>6. Head(s) \in ToSet(s)
  BY <1>1, <1>2 DEF ToSet
<1>7. ASSUME r # <<>> PROVE r[Len(r)] = s[Len(s)] /\ Head(s) # s[Len(s)]
  <2>1. Len(r) \in Nat \ {0}
    BY <1>1, <1>7, EmptySeq
  <2>2. Len(r) \in 1..Len(r) /\ Len(r) + 1 = Len(s) /\ Len(s) # 1
        /\ 1 \in 1..Len(s) /\ Len(s) \in 1..Len(s)
    BY <1>1, <1>2, <2>1
  <2> QED
    BY <1>1, <1>3, <2>2
<1> QED
  BY <1>1, <1>4, <1>5, <1>6, <1>7

LEMMA AppendToInjective ==
  ASSUME NEW S, NEW s \in Seq(S), IsInjective(s), NEW x \in S, x \notin ToSet(s)
  PROVE  /\ Append(s, x) \in Seq(S) /\ IsInjective(Append(s, x))
         /\ ToSet(Append(s, x)) = ToSet(s) \cup {x}
<1> DEFINE r == Append(s, x)
<1>1. /\ r \in Seq(S) /\ Len(r) = Len(s) + 1
      /\ \A i \in 1..Len(s) : r[i] = s[i]
      /\ r[Len(s) + 1] = x
  BY AppendProperties
<1>2. DOMAIN s = 1..Len(s) /\ DOMAIN r = 1..Len(s) + 1 /\ Len(s) \in Nat
  BY <1>1, LenProperties
<1>3. \A i \in 1..Len(s) : s[i] \in ToSet(s) /\ s[i] # x
  BY <1>2 DEF ToSet
<1>4. \A i, j \in 1..Len(s) : s[i] = s[j] => i = j
  BY <1>2 DEF IsInjective
<1>5. ASSUME NEW i \in 1..Len(s) + 1, NEW j \in 1..Len(s) + 1, r[i] = r[j] PROVE i = j
  <2>1. CASE i \in 1..Len(s) /\ j \in 1..Len(s)
    BY <1>1, <1>4, <1>5, <2>1
  <2>2. CASE i = Len(s) + 1 /\ j \in 1..Len(s)
    BY <1>1, <1>3, <1>5, <2>2
  <2>3. CASE j = Len(s) + 1 /\ i \in 1..Len(s)
    BY <1>1, <1>3, <1>5, <2>3
  <2> QED
    BY <1>2, <2>1, <2>2, <2>3
<1>6. ASSUME NEW y PROVE y \in ToSet(r) <=> y \in ToSet(s) \/ y = x
  BY <1>1, <1>2 DEF ToSet
<1> QED
  BY <1>1, <1>2, <1>5, <1>6 DEF IsInjective

LEMMA RemoveFromInjective ==
  ASSUME NEW S, NEW s \in Seq(S), IsInjective(s), NEW k \in DOMAIN s
  PROVE  /\ RemoveAt(s, k) \in Seq(S) /\ IsInjective(RemoveAt(s, k))
         /\ ToSet(RemoveAt(s, k)) = ToSet(s) \ {s[k]}
<1> DEFINE a == SubSeq(s, 1, k - 1)
           b == SubSeq(s, k + 1, Len(s))
           r == a \o b
<1>1. /\ Len(s) \in Nat /\ DOMAIN s = 1..Len(s) /\ k \in 1..Len(s)
      /\ \A i \in 1..Len(s) : s[i] \in S
  BY LenProperties, ElementOfSeq
<1>2. /\ a \in Seq(S) /\ Len(a) = k - 1
      /\ \A i \in 1..k - 1 : a[i] = s[i]
  <2>1. \A i \in 1..k - 1 : s[i] \in S
    BY <1>1
  <2>2. /\ a \in Seq(S) /\ Len(a) = IF 1 <= k - 1 THEN (k - 1) - 1 + 1 ELSE 0
        /\ \A i \in 1..(k - 1) - 1 + 1 : a[i] = s[1 + i - 1]
    BY <1>1, <2>1, SubSeqProperties
  <2>3. \A i \in 1..k - 1 : 1 + i - 1 = i /\ i \in 1..(k - 1) - 1 + 1
    BY <1>1
  <2> QED
    BY <1>1, <2>2, <2>3
<1>3. /\ b \in Seq(S) /\ Len(b) = Len(s) - k
      /\ \A i \in 1..Len(s) - k : b[i] = s[k + i]
  <2>1. \A i \in k + 1..Len(s) : s[i] \in S
    BY <1>1
  <2>2. /\ b \in Seq(S)
        /\ Len(b) = IF k + 1 <= Len(s) THEN Len(s) - (k + 1) + 1 ELSE 0
        /\ \A i \in 1..Len(s) - (k + 1) + 1 : b[i] = s[(k + 1) + i - 1]
    BY <1>1, <2>1, SubSeqProperties
  <2>3. \A i \in 1..Len(s) - k : (k + 1) + i - 1 = k + i /\ i \in 1..Len(s) - (k + 1) + 1
    BY <1>1
  <2> QED
    BY <1>1, <2>2, <2>3
<1>4. /\ r \in Seq(S) /\ Len(r) = Len(s) - 1
      /\ \A i \in 1..Len(s) - 1 : r[i] = IF i < k THEN s[i] ELSE s[i + 1]
  <2>1. /\ r \in Seq(S) /\ Len(r) = Len(a) + Len(b)
        /\ \A i \in 1..Len(a) + Len(b) : r[i] = IF i <= Len(a) THEN a[i] ELSE b[i - Len(a)]
    BY <1>2, <1>3, ConcatProperties
  <2>2. Len(a) + Len(b) = Len(s) - 1
    BY <1>1, <1>2, <1>3, SMTT(30)
  <2>3. ASSUME NEW i \in 1..Len(s) - 1 PROVE r[i] = IF i < k THEN s[i] ELSE s[i + 1]
    <3>1. CASE i < k
      <4>1. i <= Len(a) /\ i \in 1..k - 1
        BY <1>1, <1>2, <3>1
      <4> QED
        BY <1>2, <2>1, <2>2, <3>1, <4>1
    <3>2. CASE ~(i < k)
      <4>1. ~(i <= Len(a)) /\ i - Len(a) \in 1..Len(s) - k /\ k + (i - Len(a)) = i + 1
        BY <1>1, <1>2, <3>2
      <4>2. r[i] = b[i - Len(a)]
        BY <2>1, <2>2, <4>1
      <4> QED
        BY <1>3, <3>2, <4>1, <4>2
    <3> QED
      BY <3>1, <3>2
  <2> QED
    BY <2>1, <2>2, <2>3
<1>5. \A i, j \in 1..Len(s) : s[i] = s[j] => i = j
  BY <1>1 DEF IsInjective
<1>6. DOMAIN r = 1..Len(s) - 1
  BY <1>4, LenProperties
<1>7. ASSUME NEW i \in 1..Len(s) - 1, NEW j \in 1..Len(s) - 1, r[i] = r[j] PROVE i = j
  <2> DEFINE from(n) == IF n < k THEN n ELSE n + 1
  <2>1. from(i) \in 1..Len(s) /\ from(j) \in 1..Len(s)
    BY <1>1
  <2>2. s[from(i)] = s[from(j)]
    BY <1>4, <1>7
  <2>3. from(i) = from(j)
    BY <1>5, <2>1, <2>2
  <2> QED
    BY <1>1, <2>3
<1>8. ASSUME NEW y PROVE y \in ToSet(r) <=> y \in ToSet(s) /\ y # s[k]
  <2>1. ASSUME y \in ToSet(r) PROVE y \in ToSet(s) /\ y # s[k]
    <3>1. PICK i \in 1..Len(s) - 1 : y = r[i]
      BY <1>6, <2>1 DEF ToSet
    <3>2. PICK n \in 1..Len(s) : n # k /\ y = s[n]
      <4>1. CASE i < k
        <5>1. i \in 1..Len(s) /\ i # k /\ y = s[i]
          BY <1>1, <1>4, <3>1, <4>1
        <5> QED
          BY <5>1
      <4>2. CASE ~(i < k)
        <5>1. i + 1 \in 1..Len(s) /\ i + 1 # k
          BY <1>1, <4>2
        <5>2. y = s[i + 1]
          BY <1>4, <3>1, <4>2
        <5> QED
          BY <5>1, <5>2
      <4> QED
        BY <4>1, <4>2
    <3> QED
      BY <1>1, <1>5, <3>2 DEF ToSet
  <2>2. ASSUME y \in ToSet(s), y # s[k] PROVE y \in ToSet(r)
    <3>1. PICK n \in 1..Len(s) : y = s[n]
      BY <1>1, <2>2 DEF ToSet
    <3>2. n # k
      BY <2>2, <3>1
    <3>3. CASE n < k
      <4>1. n \in 1..Len(s) - 1 /\ r[n] = y
        BY <1>1, <1>4, <3>1, <3>3
      <4> QED
        BY <1>6, <4>1 DEF ToSet
    <3>4. CASE n > k
      <4>1. n - 1 \in 1..Len(s) - 1 /\ ~(n - 1 < k) /\ (n - 1) + 1 = n
        BY <1>1, <3>1, <3>4
      <4>2. r[n - 1] = y
        BY <1>4, <3>1, <4>1
      <4> QED
        BY <1>6, <4>1, <4>2 DEF ToSet
    <3> QED
      BY <1>1, <3>2, <3>3, <3>4
  <2> QED
    BY <2>1, <2>2
<1>9. RemoveAt(s, k) = r
  BY DEF RemoveAt
<1> QED
  BY <1>4, <1>6, <1>7, <1>8, <1>9 DEF IsInjective

-----------------------------------------------------------------------------
(* A step of one thread.                                                   *)

LEMMA HeldWhere ==
  ASSUME NEW t \in Thread, NEW place \in Place, NEW calls
  PROVE  /\ place \in {"off", "arrived", "ticked", "probing"} => Held(t, place, calls) = {}
         /\ place = "claimed" => Held(t, place, calls) =
              IF t \in Scheduled THEN {"flag", "wg"} ELSE {}
         /\ place \in {"asking", "queued"} => Held(t, place, calls) =
              CASE t \in Request -> {"external"}
                [] t = IndexBuild -> {}
                [] t \in Scheduled -> {"work", "flag", "wg"}
                [] OTHER -> {"work"}
         /\ place \in {"working", "embedding"} => Held(t, place, calls) =
              CASE t \in Request -> {"gate", "external"}
                [] t \in Reader -> {"external"}
                [] t = IndexBuild -> {"gate"}
                [] t \in Scheduled -> {"gate", "work", "flag", "wg"}
                [] OTHER -> {"gate", "work"}
         /\ place = "ending" => Held(t, place, calls) = ToSet(calls)
<1>1. place \in {"off", "arrived", "ticked", "probing"} => Held(t, place, calls) = {}
  BY DEF Held
<1>2. place = "claimed" => Held(t, place, calls) = ToSet(AfterRefusal(t))
  BY DEF Held
<1>3. place \in {"asking", "queued"} => Held(t, place, calls) = ToSet(Untrack(t))
  BY DEF Held
<1>4. place \in {"working", "embedding"} => Held(t, place, calls) = ToSet(Duties(t))
  BY DEF Held
<1>5. place = "ending" => Held(t, place, calls) = ToSet(calls)
  BY DEF Held
<1> QED
  BY <1>1, <1>2, <1>3, <1>4, <1>5, RefusalDuty, UntrackDuty, WorkDuty

\* Where a thread stands that has returned: what it deferred is what it holds.
Returned(calls) == IF calls = <<>> THEN "off" ELSE "ending"

LEMMA HeldReturned ==
  ASSUME NEW t \in Thread, NEW calls
  PROVE  Held(t, Returned(calls), calls) = ToSet(calls)
BY NoCalls DEF Held, Returned

Moves(t, place, calls) ==
  /\ pc' = [pc EXCEPT ![t] = place]
  /\ todo' = [todo EXCEPT ![t] = calls]

LEMMA GotoMoves ==
  ASSUME ThreadsTyped, NEW t \in Thread, NEW place, Goto(t, place)
  PROVE  Moves(t, place, todo[t])
BY DEF ThreadsTyped, Goto, Moves

LEMMA EndMoves ==
  ASSUME NEW t \in Thread, NEW calls, End(t, calls)
  PROVE  Moves(t, Returned(calls), calls)
BY DEF End, Moves, Returned

LEMMA MovesOwe ==
  ASSUME ThreadsTyped, NEW t \in Thread, NEW place, NEW calls, Moves(t, place, calls)
  PROVE  /\ \A u \in Thread \ {t} : pc'[u] = pc[u] /\ todo'[u] = todo[u] /\ Owes(u)' = Owes(u)
         /\ pc'[t] = place /\ todo'[t] = calls /\ Owes(t)' = Held(t, place, calls)
<1>1. \A u \in Thread \ {t} : pc'[u] = pc[u] /\ todo'[u] = todo[u]
  BY DEF ThreadsTyped, Moves
<1>2. pc'[t] = place /\ todo'[t] = calls
  BY DEF ThreadsTyped, Moves
<1> QED
  BY <1>1, <1>2 DEF Owes

LEMMA MovesTyped ==
  ASSUME ThreadsTyped, NEW t \in Thread, NEW place \in Place, NEW calls,
         Moves(t, place, calls), IsDuty(t, calls),
         place = "ending" => calls # <<>>,
         t \in Reader => place \notin {"claimed", "asking", "queued"},
         t \in Scheduled => place # "arrived",
         place = "probing" => t = IndexBuild
  PROVE  ThreadsTyped'
<1>1. pc' \in [Thread -> Place] /\ todo' \in [Thread -> Seq(Release)]
  BY DEF ThreadsTyped, Moves, IsDuty
<1>2. \A u \in Thread : /\ IsDuty(u, todo'[u])
                        /\ pc'[u] = "ending" => todo'[u] # <<>>
  BY MovesOwe DEF ThreadsTyped
<1>3. /\ \A u \in Reader : pc'[u] \notin {"claimed", "asking", "queued"}
      /\ \A u \in Scheduled : pc'[u] # "arrived"
      /\ \A u \in Thread : pc'[u] = "probing" => u = IndexBuild
  BY MovesOwe, Kinds DEF ThreadsTyped
<1> QED
  BY <1>1, <1>2, <1>3 DEF ThreadsTyped, IsDuty

\* How a counter changes with what one thread holds.
Shift(call, before, after) ==
  IF call \in after THEN IF call \in before THEN 0 ELSE 1
                    ELSE IF call \in before THEN -1 ELSE 0

LEMMA OwingFinite ==
  ASSUME NEW call
  PROVE  /\ IsFiniteSet(Owing(call)) /\ Cardinality(Owing(call)) \in Nat
         /\ Cardinality(Owing(call)) <= Cardinality(Thread)
BY DaemonAssumption, FS_Subset, FS_CardinalityType DEF Owing

LEMMA OwingShifts ==
  ASSUME NEW t \in Thread, NEW call, \A u \in Thread \ {t} : Owes(u)' = Owes(u)
  PROVE  Cardinality(Owing(call))' = Cardinality(Owing(call)) + Shift(call, Owes(t), Owes(t)')
<1>1. CASE call \in Owes(t) <=> call \in Owes(t)'
  <2>1. Owing(call)' = Owing(call)
    BY <1>1 DEF Owing
  <2> QED
    BY <1>1, <2>1, OwingFinite DEF Shift
<1>2. CASE call \in Owes(t)' /\ call \notin Owes(t)
  <2>1. Owing(call)' = Owing(call) \cup {t} /\ t \notin Owing(call)
    BY <1>2 DEF Owing
  <2>2. Cardinality(Owing(call)') = Cardinality(Owing(call)) + 1
    BY <2>1, OwingFinite, FS_AddElement
  <2> QED
    BY <1>2, <2>2 DEF Shift
<1>3. CASE call \notin Owes(t)' /\ call \in Owes(t)
  <2>1. Owing(call)' = Owing(call) \ {t} /\ t \in Owing(call)
    BY <1>3 DEF Owing
  <2>2. Cardinality(Owing(call)') = Cardinality(Owing(call)) - 1
    BY <2>1, OwingFinite, FS_RemoveElement
  <2> QED
    BY <1>3, <2>2, OwingFinite DEF Shift
<1> QED
  BY <1>1, <1>2, <1>3

\* The gate, the counters and the flags change as what t holds does.
Settles(t, after) ==
  /\ work' = work + Shift("work", Owes(t), after)
  /\ external' = external + Shift("external", Owes(t), after)
  /\ wg' = wg + Shift("wg", Owes(t), after)
  /\ worker' = IF "gate" \in after THEN t
               ELSE IF "gate" \in Owes(t) THEN NoThread ELSE worker
  /\ "gate" \in after /\ "gate" \notin Owes(t) => worker = NoThread /\ ~draining
  /\ IF "flag" \in after <=> "flag" \in Owes(t)
     THEN running' = running
     ELSE /\ t \in Scheduled
          /\ IF "flag" \in after
             THEN ~running[NameOf(t)] /\ running' = [running EXCEPT ![NameOf(t)] = TRUE]
             ELSE running' = [running EXCEPT ![NameOf(t)] = FALSE]

LEMMA Named == \A t : NameOf(t) \in Name
BY DEF NameOf, Name

LEMMA SettlesCounters ==
  ASSUME CountersTrue, NEW t \in Thread, \A u \in Thread \ {t} : Owes(u)' = Owes(u),
         Settles(t, Owes(t)')
  PROVE  CountersTrue'
BY OwingShifts DEF CountersTrue, Settles

LEMMA SettlesHolders ==
  ASSUME HoldersTrue, NEW t \in Thread, \A u \in Thread \ {t} : Owes(u)' = Owes(u),
         Settles(t, Owes(t)')
  PROVE  HoldersTrue'
<1>1. CASE "gate" \in Owes(t)'
  <2>1. worker' = t
    BY <1>1 DEF Settles
  <2>2. \A u \in Thread \ {t} : "gate" \notin Owes(u)
    BY <1>1, Kinds DEF Settles, HoldersTrue
  <2> QED
    BY <1>1, <2>1, <2>2 DEF HoldersTrue
<1>2. CASE "gate" \notin Owes(t)' /\ "gate" \in Owes(t)
  <2>1. worker' = NoThread /\ worker = t
    BY <1>2 DEF Settles, HoldersTrue
  <2> QED
    BY <1>2, <2>1, Kinds DEF HoldersTrue
<1>3. CASE "gate" \notin Owes(t)' /\ "gate" \notin Owes(t)
  <2>1. worker' = worker
    BY <1>3 DEF Settles
  <2> QED
    BY <1>3, <2>1 DEF HoldersTrue
<1> QED
  BY <1>1, <1>2, <1>3

LEMMA SettlesFlags ==
  ASSUME FlagsTrue, NEW t \in Thread, \A u \in Thread \ {t} : Owes(u)' = Owes(u),
         Settles(t, Owes(t)')
  PROVE  FlagsTrue'
<1> DEFINE n == NameOf(t)
<1>0. n \in Name
  BY Named
<1>1. CASE "flag" \in Owes(t)' <=> "flag" \in Owes(t)
  <2>1. running' = running
    BY <1>1 DEF Settles
  <2>2. \A u \in Thread : "flag" \in Owes(u)' <=> "flag" \in Owes(u)
    BY <1>1
  <2> QED
    BY <2>1, <2>2, Kinds DEF FlagsTrue
<1>2. CASE "flag" \in Owes(t)' /\ "flag" \notin Owes(t)
  <2>1. t \in Scheduled /\ ~running[n] /\ running' = [running EXCEPT ![n] = TRUE]
    BY <1>2 DEF Settles
  <2>2. \A u \in Thread \ {t} : "flag" \in Owes(u)' => NameOf(u) # n /\ u \in Scheduled
                                                    /\ running[NameOf(u)]
    BY <2>1 DEF FlagsTrue
  <2>3. running' \in [Name -> BOOLEAN] /\ running'[n] = TRUE
        /\ \A m \in Name \ {n} : running'[m] = running[m]
    BY <1>0, <2>1 DEF FlagsTrue
  <2>4. \A u \in Thread : "flag" \in Owes(u)' => u \in Scheduled /\ running'[NameOf(u)]
    BY <2>1, <2>2, <2>3, Named
  <2>5. \A u, v \in Thread : "flag" \in Owes(u)' /\ "flag" \in Owes(v)'
                             /\ NameOf(u) = NameOf(v) => u = v
    BY <2>2 DEF FlagsTrue
  <2>6. \A m \in Name : running'[m] => \E u \in Scheduled : NameOf(u) = m /\ "flag" \in Owes(u)'
    BY <1>2, <2>1, <2>3, Kinds DEF FlagsTrue
  <2> QED
    BY <2>3, <2>4, <2>5, <2>6 DEF FlagsTrue, NameOf
<1>3. CASE "flag" \notin Owes(t)' /\ "flag" \in Owes(t)
  <2>1. t \in Scheduled /\ running' = [running EXCEPT ![n] = FALSE]
    BY <1>3 DEF Settles
  <2>2. \A u \in Thread \ {t} : "flag" \in Owes(u)' => NameOf(u) # n /\ u \in Scheduled
                                                    /\ running[NameOf(u)]
    BY <1>3 DEF FlagsTrue
  <2>3. running' \in [Name -> BOOLEAN] /\ running'[n] = FALSE
        /\ \A m \in Name \ {n} : running'[m] = running[m]
    BY <1>0, <2>1 DEF FlagsTrue
  <2>4. \A u \in Thread : "flag" \in Owes(u)' => u \in Scheduled /\ running'[NameOf(u)]
    BY <1>3, <2>2, <2>3, Named
  <2>5. \A u, v \in Thread : "flag" \in Owes(u)' /\ "flag" \in Owes(v)'
                             /\ NameOf(u) = NameOf(v) => u = v
    BY <1>3, <2>2 DEF FlagsTrue
  <2>6. \A m \in Name : running'[m] => \E u \in Scheduled : NameOf(u) = m /\ "flag" \in Owes(u)'
    BY <2>3, Kinds DEF FlagsTrue
  <2> QED
    BY <2>3, <2>4, <2>5, <2>6 DEF FlagsTrue, NameOf
<1> QED
  BY <1>1, <1>2, <1>3

\* A thread only leaves home while the part of the shutdown that waits for its
\* kind is still to come, and enters only under an open idle tracker.
Allowed(t, place) ==
  /\ t \in Reader => place \notin {"claimed", "asking", "queued"}
  /\ t \in Scheduled => place # "arrived"
  /\ place = "probing" => t = IndexBuild
  /\ pc[t] = "off" /\ place # "off" =>
       /\ t \in Http => phase \in {"serving", "stopping", "cancelled"}
       /\ t \in Scheduled \cup EmbedTick => ~stopped
       /\ t # VectorInit
  /\ idleDraining /\ t # IndexBuild /\ place \in {"asking", "queued", "working", "embedding"}
       => Inside(t)

SameMain == UNCHANGED <<draining, idleDraining, stopped, phase, timedOut>>

LEMMA StepMain ==
  ASSUME ThreadsTyped, MainTrue, NEW t \in Thread, NEW place, NEW calls,
         Moves(t, place, calls), Allowed(t, place), SameMain,
         worker' \in {worker, NoThread} \/ ~draining
  PROVE  MainTrue'
<1>1. \A u \in Thread : pc[u] = "off" /\ pc'[u] # "off" => u = t /\ place # "off"
  BY MovesOwe
<1>2. ASSUME phase \in {"halt", "sched", "gate", "init", "closed"}, "api" \notin timedOut
      PROVE  \A u \in Http : pc'[u] = "off"
  BY <1>1, <1>2, Kinds DEF MainTrue, Allowed
<1>3. ASSUME phase \in {"gate", "init", "closed"}, "sched" \notin timedOut
      PROVE  \A u \in Scheduled \cup EmbedTick : pc'[u] = "off"
  BY <1>1, <1>3, Kinds DEF MainTrue, Allowed
<1>4. ASSUME phase \in {"init", "closed"}, "drain" \notin timedOut
      PROVE  worker' = NoThread
  BY <1>4 DEF MainTrue
<1>5. ASSUME phase = "closed", "drain" \notin timedOut
      PROVE  pc'[VectorInit] = "off"
  BY <1>1, <1>5, Kinds DEF MainTrue, Allowed
<1> QED
  BY <1>2, <1>3, <1>4, <1>5 DEF MainTrue, SameMain

LEMMA StepIdle ==
  ASSUME ThreadsTyped, IdleInterruptsNothing, NEW t \in Thread, NEW place, NEW calls,
         Moves(t, place, calls), Allowed(t, place), SameMain
  PROVE  IdleInterruptsNothing'
<1>1. SUFFICES ASSUME idleDraining, NEW u \in Thread \ {IndexBuild}, Inside(u)'
               PROVE  FALSE
  BY DEF IdleInterruptsNothing, SameMain
<1>2. CASE u = t
  BY <1>1, <1>2, MovesOwe DEF Inside, Allowed, IdleInterruptsNothing
<1>3. CASE u # t
  BY <1>1, <1>3, MovesOwe DEF Inside, IdleInterruptsNothing
<1> QED
  BY <1>2, <1>3

\* What every step of a thread has to respect to keep the invariant.
LEMMA ThreadStepKeeps ==
  ASSUME DaemonInv, NEW t \in Thread, NEW place \in Place, NEW calls,
         Moves(t, place, calls), IsDuty(t, calls), place = "ending" => calls # <<>>,
         Allowed(t, place), Settles(t, Held(t, place, calls)),
         QueueTrue', SameMain, cancelled' \in BOOLEAN, embedSet' \in BOOLEAN
  PROVE  DaemonInv'
<1>1. ThreadsTyped'
  BY MovesTyped DEF DaemonInv, Allowed
<1>2. SwitchesTyped'
  BY DEF DaemonInv, SwitchesTyped, SameMain
<1>3. Settles(t, Owes(t)') /\ \A u \in Thread \ {t} : Owes(u)' = Owes(u)
  BY MovesOwe DEF DaemonInv
<1>4. HoldersTrue' /\ CountersTrue' /\ FlagsTrue'
  BY <1>3, SettlesCounters, SettlesHolders, SettlesFlags DEF DaemonInv
<1>5. worker' \in {worker, NoThread} \/ ~draining
  BY <1>3 DEF Settles, DaemonInv, HoldersTrue
<1>6. MainTrue' /\ IdleInterruptsNothing'
  BY <1>5, StepMain, StepIdle DEF DaemonInv
<1> QED
  BY <1>1, <1>2, <1>4, <1>6 DEF DaemonInv

\* A step that is nobody's turn at the gate leaves the queue as it is.
LEMMA QueueStays ==
  ASSUME ThreadsTyped, QueueTrue, NEW t \in Thread, NEW place, NEW calls,
         Moves(t, place, calls), pc[t] # "queued", place # "queued", queue' = queue
  PROVE  QueueTrue'
<1>1. \A u \in Thread : pc'[u] = "queued" <=> pc[u] = "queued"
  BY MovesOwe
<1> QED
  BY <1>1 DEF QueueTrue

\* A step that takes and drops nothing.
LEMMA NothingSettled ==
  ASSUME DaemonInv, NEW t \in Thread, NEW after,
         \A call \in Release : call \in after <=> call \in Owes(t),
         UNCHANGED <<worker, counters>>
  PROVE  Settles(t, after)
<1>1. work \in Nat /\ external \in Nat /\ wg \in Nat
  BY OwingFinite DEF DaemonInv, CountersTrue
<1>2. {"gate", "work", "external", "wg", "flag"} \subseteq Release
  BY DEF Release
<1>3. "gate" \in after => worker = t
  BY <1>2 DEF DaemonInv, HoldersTrue
<1>4. "gate" \in Owes(t) => "gate" \in after
  BY <1>2
<1> QED
  BY <1>1, <1>2, <1>3, <1>4 DEF Settles, Shift, counters

LEMMA Standing ==
  ASSUME ThreadsTyped, NEW t \in Thread
  PROVE  /\ pc[t] \in Place /\ IsDuty(t, todo[t])
         /\ Owes(t) = Held(t, pc[t], todo[t])
BY DEF ThreadsTyped, Owes

\* A thread goes on with what it holds.
LEMMA MoveKeeps ==
  ASSUME DaemonInv, NEW t \in Thread, NEW place \in Place, place # "ending",
         Goto(t, place), Held(t, place, todo[t]) = Owes(t), Allowed(t, place),
         UNCHANGED <<worker, counters>>,
         QueueTrue' \/ (pc[t] # "queued" /\ place # "queued" /\ queue' = queue),
         SameMain, cancelled' \in BOOLEAN, embedSet' \in BOOLEAN
  PROVE  DaemonInv'
<1>1. Moves(t, place, todo[t]) /\ IsDuty(t, todo[t])
  BY GotoMoves, Standing DEF DaemonInv
<1>2. QueueTrue'
  BY <1>1, QueueStays DEF DaemonInv
<1>3. Settles(t, Held(t, place, todo[t]))
  BY NothingSettled
<1> QED
  BY <1>1, <1>2, <1>3, ThreadStepKeeps

\* A thread returns, and what it holds is what it has deferred.
LEMMA ReturnKeeps ==
  ASSUME DaemonInv, NEW t \in Thread, NEW calls, End(t, calls), IsDuty(t, calls),
         ToSet(calls) = Owes(t), pc[t] # "off",
         UNCHANGED <<worker, counters>>,
         QueueTrue' \/ (pc[t] # "queued" /\ queue' = queue),
         SameMain, cancelled' \in BOOLEAN, embedSet' \in BOOLEAN
  PROVE  DaemonInv'
<1> DEFINE place == Returned(calls)
<1>1. Moves(t, place, calls)
  BY EndMoves
<1>2. place \in Place /\ place \in {"off", "ending"} /\ (place = "ending" => calls # <<>>)
  BY DEF Returned, Place
<1>3. QueueTrue'
  BY <1>1, <1>2, QueueStays DEF DaemonInv
<1>4. Held(t, place, calls) = Owes(t)
  BY HeldReturned
<1>5. Settles(t, Held(t, place, calls))
  BY <1>4, NothingSettled
<1>6. Allowed(t, place)
  BY <1>2 DEF Allowed
<1> QED
  BY <1>1, <1>2, <1>3, <1>5, <1>6, ThreadStepKeeps

-----------------------------------------------------------------------------
(* HTTP.                                                                   *)

LEMMA ArriveKeeps ==
  ASSUME DaemonInv, NEW t \in Http, Arrive(t)
  PROVE  DaemonInv'
<1>1. /\ t \in Thread /\ t \notin Scheduled \cup EmbedTick /\ t # VectorInit
      /\ ThreadsTyped /\ SwitchesTyped
  BY Kinds DEF DaemonInv, Http
<1>2. pc[t] = "off" /\ "arrived" \in Place /\ "off" \in Place
  BY DEF Arrive, Place
<1>3. Owes(t) = {} /\ Held(t, "arrived", todo[t]) = {}
  BY <1>1, <1>2, Standing, HeldWhere
<1>4. Allowed(t, "arrived")
  BY <1>1 DEF Allowed, Arrive
<1>5. SameMain /\ cancelled' \in BOOLEAN /\ embedSet' \in BOOLEAN
  BY <1>1 DEF Arrive, SameMain, SwitchesTyped, gate, switches, main
<1>6. UNCHANGED <<worker, counters>> /\ queue' = queue /\ Goto(t, "arrived")
  BY DEF Arrive, gate
<1> QED
  BY <1>1, <1>2, <1>3, <1>4, <1>5, <1>6, MoveKeeps

LEMMA WrapKeeps ==
  ASSUME DaemonInv, NEW t \in Http, Wrap(t)
  PROVE  DaemonInv'
<1>1. /\ t \in Thread /\ t \notin Scheduled \cup EmbedTick /\ t # VectorInit
      /\ ThreadsTyped /\ SwitchesTyped /\ QueueTrue
  BY Kinds DEF DaemonInv, Http
<1>2. pc[t] = "arrived" /\ Owes(t) = {}
  BY <1>1, Standing, HeldWhere DEF Wrap
<1>3. /\ SameMain /\ cancelled' \in BOOLEAN /\ embedSet' \in BOOLEAN
      /\ queue' = queue /\ worker' = worker /\ UNCHANGED <<running, wg, work>>
  BY <1>1 DEF Wrap, SameMain, SwitchesTyped, gate, switches, main
<1>4. CASE idleDraining
  <2>1. End(t, <<>>) /\ UNCHANGED <<worker, counters>>
    BY <1>3, <1>4 DEF Wrap, counters
  <2>2. IsDuty(t, <<>>) /\ ToSet(<<>>) = Owes(t)
    BY <1>2, NoCalls DEF IsDuty
  <2> QED
    BY <1>1, <1>2, <1>3, <2>1, <2>2, ReturnKeeps
<1>5. CASE ~idleDraining
  <2> DEFINE place == IF t \in Request THEN "asking" ELSE "working"
             after == Held(t, place, todo[t])
  <2>1. external' = external + 1 /\ Goto(t, place)
    BY <1>5 DEF Wrap
  <2>2. place \in Place /\ place \in {"asking", "working"} /\ (t \in Reader => place = "working")
    BY Kinds DEF Place
  <2>3. Moves(t, place, todo[t]) /\ IsDuty(t, todo[t])
    BY <1>1, <2>1, GotoMoves, Standing
  <2>4. after = {"external"}
    BY <1>1, <2>2, HeldWhere, Kinds DEF Http
  <2>5. work \in Nat /\ wg \in Nat
    BY OwingFinite DEF DaemonInv, CountersTrue
  <2>6. Settles(t, after)
    BY <1>2, <1>3, <2>1, <2>4, <2>5 DEF Settles, Shift
  <2>7. Allowed(t, place)
    BY <1>2, <1>5, <2>2 DEF Allowed
  <2>8. QueueTrue'
    BY <1>1, <1>2, <1>3, <2>2, <2>3, QueueStays
  <2> QED
    BY <1>1, <1>3, <2>2, <2>3, <2>6, <2>7, <2>8, ThreadStepKeeps
<1> QED
  BY <1>4, <1>5

LEMMA RequestEndsKeeps ==
  ASSUME DaemonInv, NEW t \in Http, RequestEnds(t)
  PROVE  DaemonInv'
<1>1. t \in Thread /\ ThreadsTyped /\ SwitchesTyped
  BY Kinds DEF DaemonInv, Http
<1>2. pc[t] = "working" /\ Owes(t) = ToSet(Duties(t)) /\ IsDuty(t, Duties(t))
  BY <1>1, Standing, WorkDuty DEF RequestEnds, Held
<1>3. Duties(t) = IF t \in Request THEN <<"gate", "external">> ELSE <<"external">>
  BY Kinds DEF Duties, Http
<1>4. /\ SameMain /\ cancelled' \in BOOLEAN /\ embedSet' \in BOOLEAN
      /\ queue' = queue /\ UNCHANGED <<worker, counters>> /\ End(t, Duties(t))
  BY <1>1, <1>3 DEF RequestEnds, SameMain, SwitchesTyped, gate, switches, main
<1> QED
  BY <1>1, <1>2, <1>4, ReturnKeeps

LEMMA StartIndexBuildKeeps ==
  ASSUME DaemonInv, NEW t \in Reader, StartIndexBuild(t)
  PROVE  DaemonInv'
<1>1. /\ IndexBuild \in Thread /\ IndexBuild # VectorInit
      /\ IndexBuild \notin Http \cup Scheduled \cup EmbedTick
      /\ IndexBuild \notin Request /\ IndexBuild \notin Reader
      /\ ThreadsTyped /\ SwitchesTyped
  BY Kinds DEF DaemonInv, Http
<1>2. pc[IndexBuild] = "off" /\ "probing" \in Place /\ Owes(IndexBuild) = {}
      /\ Held(IndexBuild, "probing", todo[IndexBuild]) = {}
  BY <1>1, Standing, HeldWhere DEF StartIndexBuild, Place
<1>3. Allowed(IndexBuild, "probing")
  BY <1>1 DEF Allowed
<1>4. /\ SameMain /\ cancelled' \in BOOLEAN /\ embedSet' \in BOOLEAN
      /\ queue' = queue /\ UNCHANGED <<worker, counters>> /\ Goto(IndexBuild, "probing")
  BY <1>1 DEF StartIndexBuild, SameMain, SwitchesTyped, gate, switches, main
<1> QED
  BY <1>1, <1>2, <1>3, <1>4, MoveKeeps

LEMMA ProbeEndsKeeps ==
  ASSUME DaemonInv, ProbeEnds
  PROVE  DaemonInv'
<1>1. /\ IndexBuild \in Thread /\ IndexBuild # VectorInit
      /\ IndexBuild \notin Http \cup Scheduled \cup EmbedTick
      /\ IndexBuild \notin Request /\ IndexBuild \notin Reader
      /\ ThreadsTyped /\ SwitchesTyped
  BY Kinds DEF DaemonInv, Http
<1>2. pc[IndexBuild] = "probing" /\ "asking" \in Place /\ Owes(IndexBuild) = {}
      /\ Held(IndexBuild, "asking", todo[IndexBuild]) = {}
  BY <1>1, Standing, HeldWhere DEF ProbeEnds, Place
<1>3. /\ SameMain /\ cancelled' \in BOOLEAN /\ embedSet' \in BOOLEAN
      /\ queue' = queue /\ UNCHANGED <<worker, counters>>
  BY <1>1 DEF ProbeEnds, SameMain, SwitchesTyped, gate, switches, main
<1>4. CASE End(IndexBuild, <<>>)
  <2>1. IsDuty(IndexBuild, <<>>) /\ ToSet(<<>>) = Owes(IndexBuild)
    BY <1>2, NoCalls DEF IsDuty
  <2> QED
    BY <1>1, <1>2, <1>3, <1>4, <2>1, ReturnKeeps
<1>5. CASE Goto(IndexBuild, "asking")
  <2>1. Allowed(IndexBuild, "asking")
    BY <1>1, <1>2 DEF Allowed
  <2> QED
    BY <1>1, <1>2, <1>3, <1>5, <2>1, MoveKeeps
<1> QED
  BY <1>4, <1>5 DEF ProbeEnds

-----------------------------------------------------------------------------
(* The scheduler.                                                          *)

LEMMA TickKeeps ==
  ASSUME DaemonInv, NEW t \in Scheduled \cup EmbedTick, Tick(t)
  PROVE  DaemonInv'
<1>1. t \in Thread /\ t \notin Http /\ t # VectorInit /\ t \notin Reader
      /\ ThreadsTyped /\ SwitchesTyped
  BY Kinds DEF DaemonInv, Http
<1>2. pc[t] = "off" /\ "ticked" \in Place /\ Owes(t) = {} /\ Held(t, "ticked", todo[t]) = {}
  BY <1>1, Standing, HeldWhere DEF Tick, Place
<1>3. Allowed(t, "ticked")
  BY <1>1 DEF Allowed, Tick
<1>4. /\ SameMain /\ cancelled' \in BOOLEAN /\ embedSet' \in BOOLEAN
      /\ queue' = queue /\ UNCHANGED <<worker, counters>> /\ Goto(t, "ticked")
  BY <1>1 DEF Tick, SameMain, SwitchesTyped, gate, switches, main
<1> QED
  BY <1>1, <1>2, <1>3, <1>4, MoveKeeps

LEMMA MarkRunningKeeps ==
  ASSUME DaemonInv, NEW t \in Scheduled, pc[t] \in {"off", "ticked"},
         ~stopped, ~running[NameOf(t)], MarkRunning(t),
         UNCHANGED <<gate, external, work, switches, main>>
  PROVE  DaemonInv'
<1>1. t \in Thread /\ t \notin Http /\ t # VectorInit /\ t \notin Reader
      /\ ThreadsTyped /\ SwitchesTyped /\ QueueTrue
  BY Kinds DEF DaemonInv, Http
<1>2. "claimed" \in Place /\ Owes(t) = {} /\ Held(t, "claimed", todo[t]) = {"flag", "wg"}
  BY <1>1, Standing, HeldWhere DEF Place
<1>3. Moves(t, "claimed", todo[t]) /\ IsDuty(t, todo[t])
  BY <1>1, GotoMoves, Standing DEF MarkRunning
<1>4. Allowed(t, "claimed")
  BY <1>1 DEF Allowed
<1>5. /\ SameMain /\ cancelled' \in BOOLEAN /\ embedSet' \in BOOLEAN
      /\ queue' = queue /\ worker' = worker /\ external' = external /\ work' = work
  BY <1>1 DEF SameMain, SwitchesTyped, gate, switches, main
<1>6. work \in Nat /\ external \in Nat
  BY OwingFinite DEF DaemonInv, CountersTrue
<1>7. Settles(t, Held(t, "claimed", todo[t]))
  BY <1>2, <1>5, <1>6 DEF Settles, Shift, MarkRunning
<1>8. QueueTrue'
  BY <1>1, <1>3, <1>5, QueueStays
<1> QED
  BY <1>1, <1>2, <1>3, <1>4, <1>5, <1>7, <1>8, ThreadStepKeeps

LEMMA ClaimKeeps ==
  ASSUME DaemonInv, NEW t \in Scheduled, Claim(t)
  PROVE  DaemonInv'
<1>1. t \in Thread /\ ThreadsTyped /\ SwitchesTyped
  BY Kinds DEF DaemonInv
<1>2. pc[t] = "ticked" /\ Owes(t) = {}
  BY <1>1, Standing, HeldWhere DEF Claim
<1>3. CASE stopped \/ running[NameOf(t)]
  <2>1. /\ SameMain /\ cancelled' \in BOOLEAN /\ embedSet' \in BOOLEAN
        /\ queue' = queue /\ UNCHANGED <<worker, counters>> /\ End(t, <<>>)
    BY <1>1, <1>3 DEF Claim, SameMain, SwitchesTyped, gate, switches, main, counters
  <2>2. IsDuty(t, <<>>) /\ ToSet(<<>>) = Owes(t)
    BY <1>2, NoCalls DEF IsDuty
  <2> QED
    BY <1>1, <1>2, <2>1, <2>2, ReturnKeeps
<1>4. CASE ~(stopped \/ running[NameOf(t)])
  BY <1>2, <1>4, MarkRunningKeeps DEF Claim
<1> QED
  BY <1>3, <1>4

LEMMA TriggerSyncKeeps ==
  ASSUME DaemonInv, NEW q \in Request, NEW t \in SyncRun, TriggerSync(q, t)
  PROVE  DaemonInv'
BY MarkRunningKeeps, Kinds DEF TriggerSync

LEMMA EmbedTickBeginsKeeps ==
  ASSUME DaemonInv, NEW t \in EmbedTick, EmbedTickBegins(t)
  PROVE  DaemonInv'
<1>1. t \in Thread /\ t \notin Scheduled /\ t \notin Reader /\ ThreadsTyped /\ SwitchesTyped
  BY Kinds DEF DaemonInv, Http
<1>2. pc[t] = "ticked" /\ "claimed" \in Place /\ Owes(t) = {}
      /\ Held(t, "claimed", todo[t]) = {}
  BY <1>1, Standing, HeldWhere DEF EmbedTickBegins, Place
<1>3. /\ SameMain /\ cancelled' \in BOOLEAN /\ embedSet' \in BOOLEAN
      /\ queue' = queue /\ UNCHANGED <<worker, counters>>
  BY <1>1 DEF EmbedTickBegins, SameMain, SwitchesTyped, gate, switches, main
<1>4. CASE stopped
  <2>1. IsDuty(t, <<>>) /\ ToSet(<<>>) = Owes(t) /\ End(t, <<>>)
    BY <1>2, <1>4, NoCalls DEF IsDuty, EmbedTickBegins
  <2> QED
    BY <1>1, <1>2, <1>3, <2>1, ReturnKeeps
<1>5. CASE ~stopped
  <2>1. Goto(t, "claimed") /\ Allowed(t, "claimed")
    BY <1>1, <1>2, <1>5 DEF EmbedTickBegins, Allowed
  <2> QED
    BY <1>1, <1>2, <1>3, <2>1, MoveKeeps
<1> QED
  BY <1>4, <1>5

-----------------------------------------------------------------------------
(* The trackers and the gate.                                              *)

LEMMA BeginWorkKeeps ==
  ASSUME DaemonInv, NEW t \in Scheduled \cup EmbedTick \cup {VectorInit}, BeginWork(t)
  PROVE  DaemonInv'
<1>1. /\ t \in Thread /\ t \notin Http /\ t \notin Request /\ t \notin Reader
      /\ t # IndexBuild /\ ThreadsTyped /\ SwitchesTyped /\ QueueTrue
  BY Kinds DEF DaemonInv, Http
<1>2. pc[t] = "claimed" /\ "asking" \in Place
      /\ Owes(t) = ToSet(AfterRefusal(t)) /\ IsDuty(t, AfterRefusal(t))
      /\ Owes(t) = IF t \in Scheduled THEN {"flag", "wg"} ELSE {}
  BY <1>1, Standing, RefusalDuty DEF BeginWork, Place, Held
<1>3. /\ SameMain /\ cancelled' \in BOOLEAN /\ embedSet' \in BOOLEAN
      /\ queue' = queue /\ worker' = worker /\ UNCHANGED <<running, wg, external>>
  BY <1>1 DEF BeginWork, SameMain, SwitchesTyped, gate, switches, main
<1>4. CASE ContextDone(t) \/ idleDraining
  <2>1. End(t, AfterRefusal(t)) /\ UNCHANGED <<worker, counters>>
    BY <1>3, <1>4 DEF BeginWork, counters
  <2> QED
    BY <1>1, <1>2, <1>3, <2>1, ReturnKeeps
<1>5. CASE ~(ContextDone(t) \/ idleDraining)
  <2> DEFINE after == Held(t, "asking", todo[t])
  <2>1. Goto(t, "asking") /\ work' = work + 1
    BY <1>5 DEF BeginWork
  <2>2. Moves(t, "asking", todo[t]) /\ IsDuty(t, todo[t])
    BY <1>1, <2>1, GotoMoves, Standing
  <2>3. after = IF t \in Scheduled THEN {"work", "flag", "wg"} ELSE {"work"}
    BY <1>1, <1>2, HeldWhere
  <2>4. external \in Nat /\ wg \in Nat
    BY OwingFinite DEF DaemonInv, CountersTrue
  <2>5. Settles(t, after)
    BY <1>2, <1>3, <2>1, <2>3, <2>4 DEF Settles, Shift
  <2>6. Allowed(t, "asking")
    BY <1>1, <1>2, <1>5 DEF Allowed
  <2>7. QueueTrue'
    BY <1>1, <1>2, <1>3, <2>2, QueueStays
  <2> QED
    BY <1>1, <1>2, <1>3, <2>2, <2>5, <2>6, <2>7, ThreadStepKeeps
<1> QED
  BY <1>4, <1>5

LEMMA EnqueueKeeps ==
  ASSUME DaemonInv, NEW t \in Thread, Enqueue(t)
  PROVE  DaemonInv'
<1>1. ThreadsTyped /\ SwitchesTyped /\ QueueTrue
  BY DEF DaemonInv
<1>2. pc[t] = "asking" /\ "queued" \in Place /\ t \notin Reader
      /\ Owes(t) = ToSet(Untrack(t)) /\ IsDuty(t, Untrack(t))
      /\ Held(t, "queued", todo[t]) = Owes(t)
  BY <1>1, Standing, UntrackDuty DEF Enqueue, Place, Held, ThreadsTyped
<1>3. /\ SameMain /\ cancelled' \in BOOLEAN /\ embedSet' \in BOOLEAN
      /\ UNCHANGED <<worker, counters>>
  BY <1>1 DEF Enqueue, SameMain, SwitchesTyped, switches, main
<1>4. CASE ContextDone(t) \/ draining
  <2>1. End(t, Untrack(t)) /\ queue' = queue
    BY <1>4 DEF Enqueue
  <2> QED
    BY <1>1, <1>2, <1>3, <2>1, ReturnKeeps
<1>5. CASE ~(ContextDone(t) \/ draining)
  <2>1. Goto(t, "queued") /\ queue' = Append(queue, t)
    BY <1>5 DEF Enqueue
  <2>2. Moves(t, "queued", todo[t])
    BY <1>1, <2>1, GotoMoves
  <2>3. t \notin ToSet(queue)
    BY <1>1, <1>2 DEF QueueTrue
  <2>4. /\ queue' \in Seq(Thread) /\ IsInjective(queue')
        /\ ToSet(queue') = ToSet(queue) \cup {t}
    BY <1>1, <2>1, <2>3, AppendToInjective DEF QueueTrue
  <2>5. \A u \in Thread : pc'[u] = "queued" <=> pc[u] = "queued" \/ u = t
    BY <1>1, <2>2, MovesOwe
  <2>6. QueueTrue'
    BY <1>1, <2>4, <2>5 DEF QueueTrue
  <2>7. Allowed(t, "queued")
    BY <1>2 DEF Allowed, Inside
  <2> QED
    BY <1>1, <1>2, <1>3, <2>1, <2>6, <2>7, MoveKeeps
<1> QED
  BY <1>4, <1>5

LEMMA AdmitKeeps ==
  ASSUME DaemonInv, NEW t \in Thread, Admit(t)
  PROVE  DaemonInv'
<1>1. ThreadsTyped /\ SwitchesTyped /\ QueueTrue /\ HoldersTrue
  BY DEF DaemonInv
<1>2. /\ queue # <<>> /\ t = Head(queue) /\ queue' = Tail(queue) /\ Goto(t, "working")
      /\ worker = NoThread /\ ~draining /\ worker' = t
  BY DEF Admit, Gate!Acquire
<1>3. /\ queue' \in Seq(Thread) /\ IsInjective(queue')
      /\ t \in ToSet(queue) /\ ToSet(queue') = ToSet(queue) \ {t}
  BY <1>1, <1>2, TailOfInjective DEF QueueTrue
<1>4. pc[t] = "queued" /\ "working" \in Place /\ t \notin Reader
  BY <1>1, <1>3 DEF QueueTrue, ThreadsTyped, Place
<1>5. Moves(t, "working", todo[t]) /\ IsDuty(t, todo[t])
  BY <1>1, <1>2, GotoMoves, Standing
<1>6. \A u \in Thread : pc'[u] = "queued" <=> pc[u] = "queued" /\ u # t
  BY <1>1, <1>5, MovesOwe
<1>7. QueueTrue'
  BY <1>1, <1>3, <1>6 DEF QueueTrue
<1>8. /\ SameMain /\ cancelled' \in BOOLEAN /\ embedSet' \in BOOLEAN
      /\ UNCHANGED <<running, wg, external, work>>
  BY <1>1 DEF Admit, Gate!Acquire, SameMain, SwitchesTyped, switches, main, counters
<1>9. Allowed(t, "working")
  BY <1>4 DEF Allowed, Inside
<1>10. Settles(t, Held(t, "working", todo[t]))
  <2> DEFINE after == Held(t, "working", todo[t])
  <2>1. Owes(t) = CASE t \in Request -> {"external"}
                    [] t = IndexBuild -> {}
                    [] t \in Scheduled -> {"work", "flag", "wg"}
                    [] OTHER -> {"work"}
    BY <1>1, <1>4, Standing, HeldWhere
  <2>2. after = CASE t \in Request -> {"gate", "external"}
                  [] t = IndexBuild -> {"gate"}
                  [] t \in Scheduled -> {"gate", "work", "flag", "wg"}
                  [] OTHER -> {"gate", "work"}
    <3>1. after = ToSet(Duties(t))
      BY DEF Held
    <3> QED
      BY <1>4, <3>1, WorkDuty, SMTT(30)
  <2> HIDE DEF after
  <2>3. after = Owes(t) \cup {"gate"} /\ "gate" \notin Owes(t)
    <3>1. CASE t \in Request
      BY <2>1, <2>2, <3>1
    <3>2. CASE t \notin Request /\ t = IndexBuild
      BY <2>1, <2>2, <3>2
    <3>3. CASE t \notin Request /\ t # IndexBuild /\ t \in Scheduled
      BY <2>1, <2>2, <3>3
    <3>4. CASE t \notin Request /\ t # IndexBuild /\ t \notin Scheduled
      BY <2>1, <2>2, <3>4
    <3> QED
      BY <3>1, <3>2, <3>3, <3>4
  <2>4. work \in Nat /\ external \in Nat /\ wg \in Nat
    BY OwingFinite DEF DaemonInv, CountersTrue
  <2> QED
    BY <1>2, <1>8, <2>3, <2>4 DEF after, Settles, Shift
<1> QED
  BY <1>4, <1>5, <1>7, <1>8, <1>9, <1>10, ThreadStepKeeps

LEMMA LeaveQueueKeeps ==
  ASSUME DaemonInv, NEW t \in Thread, LeaveQueue(t)
  PROVE  DaemonInv'
<1>1. ThreadsTyped /\ SwitchesTyped /\ QueueTrue
  BY DEF DaemonInv
<1>2. pc[t] = "queued" /\ End(t, Untrack(t))
      /\ Owes(t) = ToSet(Untrack(t)) /\ IsDuty(t, Untrack(t))
  BY <1>1, Standing, UntrackDuty DEF LeaveQueue, Held
<1>3. PICK i \in DOMAIN queue : queue[i] = t /\ queue' = RemoveAt(queue, i)
  BY DEF LeaveQueue
<1>4. /\ queue' \in Seq(Thread) /\ IsInjective(queue')
      /\ ToSet(queue') = ToSet(queue) \ {t}
  BY <1>1, <1>3, RemoveFromInjective DEF QueueTrue
<1>5. Moves(t, Returned(Untrack(t)), Untrack(t)) /\ Returned(Untrack(t)) # "queued"
  BY <1>2, EndMoves DEF Returned
<1>6. \A u \in Thread : pc'[u] = "queued" <=> pc[u] = "queued" /\ u # t
  BY <1>1, <1>5, MovesOwe
<1>7. QueueTrue'
  BY <1>1, <1>4, <1>6 DEF QueueTrue
<1>8. /\ SameMain /\ cancelled' \in BOOLEAN /\ embedSet' \in BOOLEAN
      /\ UNCHANGED <<worker, counters>>
  BY <1>1 DEF LeaveQueue, SameMain, SwitchesTyped, switches, main
<1> QED
  BY <1>1, <1>2, <1>7, <1>8, ReturnKeeps

-----------------------------------------------------------------------------
(* Work and its end.                                                       *)

LEMMA WorkEndsKeeps ==
  ASSUME DaemonInv, NEW t \in Scheduled \cup EmbedTick \cup {VectorInit, IndexBuild},
         pc[t] \in {"working", "embedding"}, End(t, AfterWork(t)),
         UNCHANGED <<gate, counters, idleDraining, stopped, main>>,
         cancelled' \in BOOLEAN, embedSet' \in BOOLEAN
  PROVE  DaemonInv'
<1>1. t \in Thread /\ t \notin Request /\ t \notin Reader /\ ThreadsTyped
  BY Kinds DEF DaemonInv, Http
<1>2. Owes(t) = ToSet(Duties(t)) /\ IsDuty(t, Duties(t)) /\ Duties(t) = AfterWork(t)
  BY <1>1, Standing, WorkDuty DEF Held, Duties
<1>3. SameMain /\ queue' = queue /\ UNCHANGED <<worker, counters>>
  BY DEF SameMain, gate, main
<1> QED
  BY <1>1, <1>2, <1>3, ReturnKeeps

LEMMA EndWorkKeeps ==
  ASSUME DaemonInv, NEW t \in Scheduled \cup EmbedTick \cup {IndexBuild}, EndWork(t)
  PROVE  DaemonInv'
<1>1. cancelled' \in BOOLEAN /\ embedSet' \in BOOLEAN
      /\ UNCHANGED <<gate, counters, idleDraining, stopped, main>>
  BY DEF DaemonInv, SwitchesTyped, EndWork, switches
<1> QED
  BY <1>1, WorkEndsKeeps DEF EndWork

LEMMA VectorInitEndsKeeps ==
  ASSUME DaemonInv, VectorInitEnds
  PROVE  DaemonInv'
<1>1. cancelled' \in BOOLEAN /\ embedSet' \in BOOLEAN
      /\ UNCHANGED <<gate, counters, idleDraining, stopped, main>>
  BY DEF DaemonInv, SwitchesTyped, VectorInitEnds
<1> QED
  BY <1>1, WorkEndsKeeps DEF VectorInitEnds

LEMMA PostSyncEmbedKeeps ==
  ASSUME DaemonInv, NEW t \in SyncRun, PostSyncEmbed(t)
  PROVE  DaemonInv'
<1>1. t \in Thread /\ t \notin Reader /\ ThreadsTyped /\ SwitchesTyped
  BY Kinds DEF DaemonInv, Http
<1>2. pc[t] = "working" /\ "embedding" \in Place /\ Held(t, "embedding", todo[t]) = Owes(t)
  BY <1>1, Standing DEF PostSyncEmbed, Place, Held
<1>3. Allowed(t, "embedding")
  BY <1>2 DEF Allowed, Inside
<1>4. /\ SameMain /\ cancelled' \in BOOLEAN /\ embedSet' \in BOOLEAN
      /\ queue' = queue /\ UNCHANGED <<worker, counters>> /\ Goto(t, "embedding")
  BY <1>1 DEF PostSyncEmbed, SameMain, SwitchesTyped, gate, switches, main
<1> QED
  BY <1>1, <1>2, <1>3, <1>4, MoveKeeps

LEMMA LetGoKeeps ==
  ASSUME DaemonInv, NEW t \in Thread, LetGo(t)
  PROVE  DaemonInv'
<1> DEFINE calls == todo[t]
           call == Head(calls)
           rest == Tail(calls)
           place == Returned(rest)
<1>1. ThreadsTyped /\ SwitchesTyped /\ QueueTrue /\ HoldersTrue /\ FlagsTrue
  BY DEF DaemonInv
<1>2. /\ pc[t] = "ending" /\ calls # <<>> /\ Owes(t) = ToSet(calls) /\ IsDuty(t, calls)
  BY <1>1, Standing DEF LetGo, Held, ThreadsTyped
<1>3. /\ call \in Release /\ call \in Owes(t)
      /\ rest \in Seq(Release) /\ IsInjective(rest)
      /\ ToSet(rest) = Owes(t) \ {call}
      /\ rest # <<>> => rest[Len(rest)] = calls[Len(calls)]
  BY <1>2, TailOfInjective DEF IsDuty
<1>4. IsDuty(t, rest)
  BY <1>2, <1>3 DEF IsDuty
<1>5. Moves(t, place, rest)
  BY EndMoves DEF LetGo
<1>6. place \in Place /\ place \in {"off", "ending"} /\ (place = "ending" => rest # <<>>)
  BY DEF Returned, Place
<1>7. Held(t, place, rest) = Owes(t) \ {call}
  BY <1>3, HeldReturned
<1>8. Allowed(t, place)
  BY <1>2, <1>6 DEF Allowed
<1>9. SameMain /\ cancelled' \in BOOLEAN /\ embedSet' \in BOOLEAN /\ queue' = queue
  BY <1>1 DEF LetGo, Gate!Release, SameMain, SwitchesTyped, switches, main
<1>10. QueueTrue'
  BY <1>1, <1>2, <1>5, <1>6, <1>9, QueueStays
<1>11. Settles(t, Owes(t) \ {call})
  <2> DEFINE after == Owes(t) \ {call}
  <2>1. work \in Nat /\ external \in Nat /\ wg \in Nat
    BY OwingFinite DEF DaemonInv, CountersTrue
  <2>2. "flag" \in Owes(t) => t \in Scheduled
    BY <1>1 DEF FlagsTrue
  <2>3. "gate" \in Owes(t) => worker = t
    BY <1>1 DEF HoldersTrue
  <2>4. /\ work' = IF call = "work" THEN work - 1 ELSE work
        /\ external' = IF call = "external" THEN external - 1 ELSE external
        /\ wg' = IF call = "wg" THEN wg - 1 ELSE wg
        /\ running' = IF call = "flag" THEN [running EXCEPT ![NameOf(t)] = FALSE] ELSE running
        /\ worker' = IF call = "gate" THEN NoThread ELSE worker
    BY DEF LetGo, Gate!Release
  <2>5. /\ work' = work + Shift("work", Owes(t), after)
        /\ external' = external + Shift("external", Owes(t), after)
        /\ wg' = wg + Shift("wg", Owes(t), after)
    BY <1>3, <2>1, <2>4 DEF Shift
  <2>6. worker' = IF "gate" \in after THEN t
                  ELSE IF "gate" \in Owes(t) THEN NoThread ELSE worker
    BY <1>3, <2>3, <2>4
  <2>7. "gate" \in after => "gate" \in Owes(t)
    OBVIOUS
  <2>8. IF "flag" \in after <=> "flag" \in Owes(t)
        THEN running' = running
        ELSE t \in Scheduled /\ "flag" \notin after
             /\ running' = [running EXCEPT ![NameOf(t)] = FALSE]
    BY <1>3, <2>2, <2>4
  <2> QED
    BY <2>5, <2>6, <2>7, <2>8 DEF Settles
<1> QED
  BY <1>4, <1>5, <1>6, <1>7, <1>8, <1>9, <1>10, <1>11, ThreadStepKeeps

-----------------------------------------------------------------------------
(* The idle tracker, the main goroutine.                                   *)

Threads == <<pc, todo, worker, queue, counters>>

LEMMA ThreadsStay ==
  ASSUME DaemonInv, UNCHANGED Threads,
         SwitchesTyped', MainTrue', IdleInterruptsNothing'
  PROVE  DaemonInv'
<1>1. \A t \in Thread : Owes(t)' = Owes(t)
  BY DEF Owes, Threads
<1>2. \A call : Owing(call)' = Owing(call)
  BY <1>1 DEF Owing
<1>3. CountersTrue'
  BY <1>2 DEF DaemonInv, CountersTrue, Threads, counters
<1>4. HoldersTrue' /\ FlagsTrue'
  BY <1>1, Kinds DEF DaemonInv, HoldersTrue, FlagsTrue, Threads, counters
<1>5. ThreadsTyped' /\ QueueTrue'
  BY DEF DaemonInv, ThreadsTyped, QueueTrue, Threads
<1> QED
  BY <1>3, <1>4, <1>5 DEF DaemonInv

LEMMA IdleStays ==
  ASSUME DaemonInv, pc' = pc, idleDraining' = idleDraining
  PROVE  IdleInterruptsNothing'
BY DEF DaemonInv, IdleInterruptsNothing, Inside

LEMMA CancelKeeps ==
  ASSUME DaemonInv, UNCHANGED Threads, SameMain,
         cancelled' \in BOOLEAN, embedSet' \in BOOLEAN
  PROVE  DaemonInv'
<1>1. SwitchesTyped'
  BY DEF DaemonInv, SwitchesTyped, SameMain
<1>2. MainTrue'
  BY DEF DaemonInv, MainTrue, SameMain, Threads
<1> QED
  BY <1>1, <1>2, ThreadsStay, IdleStays DEF SameMain, Threads

LEMMA IdleFiresKeeps ==
  ASSUME DaemonInv, IdleFires
  PROVE  DaemonInv'
<1>1. UNCHANGED Threads /\ SwitchesTyped' /\ MainTrue'
  BY DEF DaemonInv, IdleFires, Threads, gate, main, SwitchesTyped, MainTrue
<1>2. \A t \in Thread : "work" \notin Owes(t) /\ "external" \notin Owes(t)
  <2>1. Cardinality(Owing("work")) = 0 /\ Cardinality(Owing("external")) = 0
    BY DEF IdleFires, DaemonInv, CountersTrue
  <2>2. Owing("work") = {} /\ Owing("external") = {}
    BY <2>1, OwingFinite, FS_EmptySet
  <2> QED
    BY <2>2 DEF Owing
<1>3. ASSUME NEW t \in Thread \ {IndexBuild}, Inside(t) PROVE FALSE
  <2>1. Owes(t) = Held(t, pc[t], todo[t]) /\ pc[t] \in Place
    BY Standing DEF DaemonInv
  <2>2. CASE pc[t] \in {"asking", "queued"}
    BY <1>2, <2>1, <2>2, HeldWhere
  <2>3. CASE pc[t] \in {"working", "embedding"}
    BY <1>2, <2>1, <2>3, HeldWhere
  <2> QED
    BY <1>3, <2>2, <2>3 DEF Inside
<1>4. IdleInterruptsNothing'
  BY <1>1, <1>3 DEF IdleInterruptsNothing, Inside, Threads
<1> QED
  BY <1>1, <1>4, ThreadsStay

\* The steps that only move the main goroutine on.
LEMMA AdvanceKeeps ==
  ASSUME DaemonInv, UNCHANGED <<Threads, switches>>, SwitchesTyped', MainTrue'
  PROVE  DaemonInv'
BY ThreadsStay, IdleStays DEF switches, Threads

LEMMA ToStoppingKeeps ==
  ASSUME DaemonInv, Signal \/ CancelSeen
  PROVE  DaemonInv'
<1>1. UNCHANGED <<Threads, switches, draining, timedOut>> /\ phase' = "stopping"
  BY DEF Signal, CancelSeen, Advance, Threads, gate
<1>2. SwitchesTyped' /\ MainTrue'
  BY <1>1 DEF DaemonInv, SwitchesTyped, MainTrue, switches, Phase
<1> QED
  BY <1>1, <1>2, AdvanceKeeps

LEMMA CancelContextKeeps ==
  ASSUME DaemonInv, CancelContext
  PROVE  DaemonInv'
<1>1. /\ UNCHANGED <<Threads, draining, idleDraining, stopped, embedSet, timedOut>>
      /\ cancelled' = TRUE /\ phase' = "cancelled"
  BY DEF CancelContext, Advance, Threads, gate
<1>2. SwitchesTyped' /\ MainTrue'
  BY <1>1 DEF DaemonInv, SwitchesTyped, MainTrue, Phase
<1> QED
  BY <1>1, <1>2, ThreadsStay, IdleStays DEF Threads

LEMMA StartDrainKeeps ==
  ASSUME DaemonInv, StartDrain
  PROVE  DaemonInv'
<1>1. /\ UNCHANGED <<Threads, switches, timedOut>>
      /\ draining' = TRUE /\ phase' = "api"
  BY DEF StartDrain, Gate!Close, Advance, Threads
<1>2. SwitchesTyped' /\ MainTrue'
  BY <1>1 DEF DaemonInv, SwitchesTyped, MainTrue, Phase, switches
<1> QED
  BY <1>1, <1>2, AdvanceKeeps

LEMMA ServerDownKeeps ==
  ASSUME DaemonInv, ServerDown
  PROVE  DaemonInv'
<1>1. /\ UNCHANGED <<Threads, switches, draining, timedOut>>
      /\ phase = "api" /\ phase' = "halt" /\ \A t \in Http : pc[t] = "off"
  BY DEF ServerDown, Advance, Threads, gate
<1>2. SwitchesTyped' /\ MainTrue'
  BY <1>1 DEF DaemonInv, SwitchesTyped, MainTrue, Phase, switches, Threads
<1> QED
  BY <1>1, <1>2, AdvanceKeeps

LEMMA StopSchedulerKeeps ==
  ASSUME DaemonInv, StopScheduler
  PROVE  DaemonInv'
<1>1. /\ UNCHANGED <<Threads, draining, idleDraining, cancelled, embedSet, timedOut>>
      /\ phase = "halt" /\ phase' = "sched" /\ stopped' = TRUE
  BY DEF StopScheduler, Advance, Threads, gate
<1>2. SwitchesTyped' /\ MainTrue'
  BY <1>1 DEF DaemonInv, SwitchesTyped, MainTrue, Phase, Threads
<1> QED
  BY <1>1, <1>2, ThreadsStay, IdleStays DEF Threads

LEMMA SchedulerDownKeeps ==
  ASSUME DaemonInv, SchedulerDown
  PROVE  DaemonInv'
<1>1. /\ UNCHANGED <<Threads, switches, draining, timedOut>>
      /\ phase = "sched" /\ phase' = "gate" /\ wg = 0
      /\ \A t \in Scheduled : pc[t] # "ticked"
      /\ \A t \in EmbedTick : pc[t] = "off"
  BY DEF SchedulerDown, Advance, Threads, gate
<1>2. \A t \in Thread : "wg" \notin Owes(t)
  <2>1. Owing("wg") = {}
    BY <1>1, OwingFinite, FS_EmptySet DEF DaemonInv, CountersTrue
  <2> QED
    BY <2>1 DEF Owing
<1>3. ASSUME NEW t \in Scheduled PROVE pc[t] = "off"
  <2>1. /\ t \in Thread /\ t \notin Request /\ t \notin Http /\ t \notin Reader
        /\ t # IndexBuild
        /\ pc[t] \in Place /\ Owes(t) = Held(t, pc[t], todo[t]) /\ IsDuty(t, todo[t])
        /\ pc[t] = "ending" => todo[t] # <<>>
    BY Kinds, Standing DEF DaemonInv, ThreadsTyped, Http
  <2>2. pc[t] \notin {"claimed", "asking", "queued", "working", "embedding"}
    BY <1>2, <1>3, <2>1, HeldWhere
  <2>3. pc[t] # "ending"
    <3>1. SUFFICES ASSUME pc[t] = "ending" PROVE FALSE
      OBVIOUS
    <3>2. Owes(t) = ToSet(todo[t]) /\ todo[t] # <<>> /\ todo[t] \in Seq(Release)
      BY <2>1, <3>1, HeldWhere DEF IsDuty
    <3>3. Len(todo[t]) \in DOMAIN todo[t]
      BY <3>2, EmptySeq, LenProperties
    <3>4. todo[t][Len(todo[t])] = "wg"
      BY <1>3, <2>1, <3>2 DEF IsDuty
    <3> QED
      BY <1>2, <2>1, <3>2, <3>3, <3>4 DEF ToSet
  <2>4. pc[t] # "arrived" /\ pc[t] # "probing"
    BY <1>3, <2>1 DEF DaemonInv, ThreadsTyped
  <2> QED
    BY <1>1, <2>1, <2>2, <2>3, <2>4 DEF Place
<1>4. SwitchesTyped' /\ MainTrue'
  BY <1>1, <1>3 DEF DaemonInv, SwitchesTyped, MainTrue, Phase, switches, Threads
<1> QED
  BY <1>1, <1>4, AdvanceKeeps

LEMMA GateDownKeeps ==
  ASSUME DaemonInv, GateDown
  PROVE  DaemonInv'
<1>1. /\ UNCHANGED <<Threads, switches, draining, timedOut>>
      /\ phase = "gate" /\ phase' = "init" /\ worker = NoThread
  BY DEF GateDown, Advance, Threads, gate
<1>2. SwitchesTyped' /\ MainTrue'
  BY <1>1 DEF DaemonInv, SwitchesTyped, MainTrue, Phase, switches, Threads
<1> QED
  BY <1>1, <1>2, AdvanceKeeps

LEMMA VectorInitDownKeeps ==
  ASSUME DaemonInv, VectorInitDown
  PROVE  DaemonInv'
<1>1. /\ UNCHANGED <<Threads, switches, draining, timedOut>>
      /\ phase = "init" /\ phase' = "closed" /\ pc[VectorInit] = "off"
  BY DEF VectorInitDown, Advance, Threads, gate
<1>2. SwitchesTyped' /\ MainTrue'
  BY <1>1 DEF DaemonInv, SwitchesTyped, MainTrue, Phase, switches, Threads
<1> QED
  BY <1>1, <1>2, AdvanceKeeps

LEMMA WaitRunsOutKeeps ==
  ASSUME DaemonInv, WaitRunsOut
  PROVE  DaemonInv'
<1>1. UNCHANGED <<Threads, switches, draining>>
  BY DEF WaitRunsOut, Threads, gate
<1>2. \/ "api" \in Timeouts /\ phase = "api" /\ phase' = "halt" /\ timedOut' = timedOut \cup {"api"}
      \/ "sched" \in Timeouts /\ phase = "sched" /\ phase' = "gate"
         /\ timedOut' = timedOut \cup {"sched"}
      \/ "drain" \in Timeouts /\ phase = "gate" /\ phase' = "init"
         /\ timedOut' = timedOut \cup {"drain"}
      \/ "drain" \in Timeouts /\ phase = "init" /\ phase' = "closed"
         /\ timedOut' = timedOut \cup {"drain"}
  BY DEF WaitRunsOut, Advance
<1>3. SwitchesTyped'
  BY <1>1, <1>2 DEF DaemonInv, SwitchesTyped, Phase, switches
<1>4. MainTrue'
  BY <1>1, <1>2 DEF DaemonInv, MainTrue, switches, Threads
<1> QED
  BY <1>1, <1>3, <1>4, AdvanceKeeps

-----------------------------------------------------------------------------
(* The invariant.                                                          *)

LEMMA DaemonInitInv == DaemonInit => DaemonInv
<1> SUFFICES ASSUME DaemonInit PROVE DaemonInv
  OBVIOUS
<1>1. ThreadsTyped
  <2>1. /\ pc \in [Thread -> Place] /\ todo \in [Thread -> Seq(Release)]
        /\ \A t \in Thread : todo[t] = <<>> /\ pc[t] \in {"claimed", "off"}
    BY NoCalls DEF DaemonInit, Place
  <2>2. \A t \in Reader : t \in Thread /\ pc[t] = "off"
    BY Kinds DEF DaemonInit
  <2>3. \A t \in Scheduled : t \in Thread /\ pc[t] = "off"
    BY Kinds DEF DaemonInit
  <2> QED
    BY <2>1, <2>2, <2>3, NoCalls DEF ThreadsTyped, IsDuty
<1>2. \A t \in Thread : Owes(t) = {}
  <2> TAKE t \in Thread
  <2>1. CASE t = VectorInit
    <3>1. Owes(t) = ToSet(AfterRefusal(t)) /\ t \notin Scheduled
      BY <2>1, Kinds DEF DaemonInit, Owes, Held
    <3> QED
      BY <3>1, RefusalDuty
  <2>2. CASE t # VectorInit
    BY <2>2 DEF DaemonInit, Owes, Held
  <2> QED
    BY <2>1, <2>2
<1>3. \A call : Owing(call) = {}
  BY <1>2 DEF Owing
<1>4. CountersTrue
  BY <1>3, FS_EmptySet DEF CountersTrue, DaemonInit
<1>5. HoldersTrue /\ FlagsTrue
  BY <1>2, Kinds DEF DaemonInit, Gate!Init, HoldersTrue, FlagsTrue
<1>6. SwitchesTyped /\ MainTrue /\ IdleInterruptsNothing
  BY DEF DaemonInit, Gate!Init, SwitchesTyped, Phase, MainTrue, IdleInterruptsNothing
<1>7. QueueTrue
  <2>1. <<>> \in Seq(Thread) /\ ToSet(<<>>) = {} /\ IsInjective(<<>>)
    BY NoCalls DEF ToSet
  <2>2. \A t \in Thread : pc[t] # "queued"
    BY DEF DaemonInit
  <2> QED
    BY <2>1, <2>2 DEF DaemonInit, QueueTrue
<1> QED
  BY <1>1, <1>4, <1>5, <1>6, <1>7 DEF DaemonInv

LEMMA OneThreadStepInv ==
  ASSUME DaemonInv, NEW t \in Thread, ThreadStep(t)
  PROVE  DaemonInv'
<1>1. CASE t \in Http /\ (Wrap(t) \/ RequestEnds(t))
  BY <1>1, WrapKeeps, RequestEndsKeeps
<1>2. CASE t \in Scheduled /\ Claim(t)
  BY <1>2, ClaimKeeps
<1>3. CASE t \in EmbedTick /\ EmbedTickBegins(t)
  BY <1>3, EmbedTickBeginsKeeps
<1>4. CASE t \in Scheduled \cup EmbedTick \cup {VectorInit} /\ BeginWork(t)
  BY <1>4, BeginWorkKeeps
<1>5. CASE Enqueue(t) \/ Admit(t) \/ Refuse(t)
  BY <1>5, EnqueueKeeps, AdmitKeeps, LeaveQueueKeeps DEF Refuse
<1>6. CASE t \in Scheduled \cup EmbedTick /\ RunStops(t)
  BY <1>6, EndWorkKeeps DEF RunStops
<1>7. CASE t = VectorInit /\ VectorInitEnds
  BY <1>7, VectorInitEndsKeeps
<1>8. CASE t = IndexBuild /\ (ProbeEnds \/ IndexBuilt)
  BY <1>8, ProbeEndsKeeps, EndWorkKeeps DEF IndexBuilt
<1>9. CASE LetGo(t)
  BY <1>9, LetGoKeeps
<1> QED
  BY <1>1, <1>2, <1>3, <1>4, <1>5, <1>6, <1>7, <1>8, <1>9 DEF ThreadStep

LEMMA DaemonStepInv == DaemonInv /\ [DaemonNext]_daemonVars => DaemonInv'
<1> SUFFICES ASSUME DaemonInv, [DaemonNext]_daemonVars PROVE DaemonInv'
  OBVIOUS
<1>0. cancelled \in BOOLEAN /\ embedSet \in BOOLEAN
  BY DEF DaemonInv, SwitchesTyped
<1>1. CASE \E t \in Thread : ThreadStep(t)
  BY <1>1, OneThreadStepInv
<1>2. CASE \E t \in Http : Arrive(t)
  BY <1>2, ArriveKeeps
<1>3. CASE \E t \in Reader : StopRequested(t) \/ StartIndexBuild(t)
  <2>1. ASSUME NEW t \in Reader, StopRequested(t) PROVE DaemonInv'
    <3>1. UNCHANGED Threads /\ SameMain /\ cancelled' \in BOOLEAN /\ embedSet' \in BOOLEAN
      BY <1>0, <2>1 DEF StopRequested, Threads, SameMain, gate, main
    <3> QED
      BY <3>1, CancelKeeps
  <2> QED
    BY <1>3, <2>1, StartIndexBuildKeeps
<1>4. CASE \E t \in Scheduled \cup EmbedTick : Tick(t) \/ RunEnds(t)
  BY <1>4, TickKeeps, EndWorkKeeps DEF RunEnds
<1>5. CASE \E t \in SyncRun : PostSyncEmbed(t) \/ \E q \in Request : TriggerSync(q, t)
  BY <1>5, PostSyncEmbedKeeps, TriggerSyncKeeps
<1>6. CASE \E t \in Request : GiveUp(t)
  BY <1>6, LeaveQueueKeeps, Kinds DEF GiveUp
<1>7. CASE IdleFires
  BY <1>7, IdleFiresKeeps
<1>8. CASE IdleStops
  <2>1. UNCHANGED Threads /\ SameMain /\ cancelled' \in BOOLEAN /\ embedSet' \in BOOLEAN
    BY <1>0, <1>8 DEF IdleStops, Threads, SameMain, gate, main
  <2> QED
    BY <2>1, CancelKeeps
<1>9. CASE Signal \/ MainStep \/ WaitRunsOut
  BY <1>9, ToStoppingKeeps, CancelContextKeeps, StartDrainKeeps, ServerDownKeeps,
     StopSchedulerKeeps, SchedulerDownKeeps, GateDownKeeps, VectorInitDownKeeps,
     WaitRunsOutKeeps DEF MainStep
<1>10. CASE UNCHANGED daemonVars
  <2>1. UNCHANGED Threads /\ SameMain /\ cancelled' \in BOOLEAN /\ embedSet' \in BOOLEAN
    BY <1>0, <1>10 DEF daemonVars, Threads, SameMain, gate, switches, main
  <2> QED
    BY <2>1, CancelKeeps
<1> QED
  BY <1>1, <1>2, <1>3, <1>4, <1>5, <1>6, <1>7, <1>8, <1>9, <1>10 DEF DaemonNext

LEMMA DaemonAlwaysInv == DaemonSpec => []DaemonInv
BY DaemonInitInv, DaemonStepInv, PTL DEF DaemonSpec

\* The counters of the idle tracker and the scheduler are never negative, for
\* each counts the threads that will give it back, and the gate's queue holds
\* the threads that wait for it, each once.
THEOREM DaemonTypeCorrect == DaemonSpec => []DaemonTypeOK
<1>1. DaemonInv => DaemonTypeOK
  <2> SUFFICES ASSUME DaemonInv PROVE DaemonTypeOK
    OBVIOUS
  <2>1. \A t \in Thread : ToSet(todo[t]) \subseteq Release
    <3> TAKE t \in Thread
    <3>1. todo[t] \in Seq(Release)
      BY DEF DaemonInv, ThreadsTyped
    <3>2. \A i \in 1..Len(todo[t]) : todo[t][i] \in Release
      BY <3>1, ElementOfSeq
    <3>3. DOMAIN todo[t] = 1..Len(todo[t])
      BY <3>1, LenProperties
    <3> QED
      BY <3>2, <3>3 DEF ToSet
  <2>2. /\ wg \in 0..Cardinality(Thread) /\ external \in 0..Cardinality(Thread)
        /\ work \in 0..Cardinality(Thread)
    <3>1. Cardinality(Thread) \in Nat
      BY DaemonAssumption, FS_CardinalityType
    <3> QED
      BY <3>1, OwingFinite DEF DaemonInv, CountersTrue
  <2>3. pc \in [Thread -> Place]
    BY DEF DaemonInv, ThreadsTyped
  <2>4. Gate!TypeOK
    BY DEF DaemonInv, HoldersTrue, SwitchesTyped, Gate!TypeOK
  <2>5. ToSet(queue) = {t \in Thread : pc[t] = "queued"} /\ IsInjective(queue)
    BY DEF DaemonInv, QueueTrue
  <2>6. running \in [Name -> BOOLEAN]
    BY DEF DaemonInv, FlagsTrue
  <2>7. /\ {idleDraining, cancelled, stopped, embedSet} \subseteq BOOLEAN
        /\ phase \in Phase /\ timedOut \subseteq Timeouts
    BY DEF DaemonInv, SwitchesTyped
  <2> QED
    BY <2>1, <2>2, <2>3, <2>4, <2>5, <2>6, <2>7 DEF DaemonTypeOK
<1> QED
  BY <1>1, DaemonAlwaysInv, PTL

\* However many requests, runs and jobs there are, the archive is closed under
\* nobody whose wait has not run out, but for the probe of the search index.
THEOREM StoreClosedLast == DaemonSpec => []StoreOutlivesWork
<1>1. ASSUME DaemonInv, phase = "closed", timedOut = {}, NEW t \in Thread, UsesStore(t)
      PROVE  t = IndexBuild /\ pc[t] = "probing"
  <2>1. /\ ThreadsTyped /\ worker = NoThread /\ NoThread \notin Thread
        /\ \A u \in Http \cup Scheduled \cup EmbedTick \cup {VectorInit} : pc[u] = "off"
    BY <1>1, Kinds DEF DaemonInv, MainTrue
  <2>2. t = IndexBuild
    BY <1>1, <2>1 DEF UsesStore, Thread
  <2>3. "gate" \notin Owes(t)
    BY <1>1, <2>1 DEF DaemonInv, HoldersTrue
  <2>4. pc[t] \in {"working", "embedding"} => Owes(t) = {"gate"}
    BY <2>1, <2>2, Standing, HeldWhere, Kinds
  <2> QED
    BY <1>1, <2>2, <2>3, <2>4 DEF UsesStore
<1>2. DaemonInv => StoreOutlivesWork
  BY <1>1 DEF DaemonInv, MainTrue, StoreOutlivesWork
<1> QED
  BY <1>2, DaemonAlwaysInv, PTL

\* The idle tracker's decision finds nothing it counts inside, and lets
\* nothing in after it.
THEOREM IdleStopsIdle == DaemonSpec => []IdleInterruptsNothing
<1>1. DaemonInv => IdleInterruptsNothing
  BY DEF DaemonInv
<1> QED
  BY <1>1, DaemonAlwaysInv, PTL

\* A scheduled thread on its way or at work holds its name's flag.
LEMMA InFlightHoldsFlag ==
  ASSUME DaemonInv, NEW t \in Scheduled, InFlight(t)
  PROVE  t \in Thread /\ "flag" \in Owes(t)
<1>1. t \in Thread /\ t \notin Request /\ t \notin Reader /\ t # IndexBuild
      /\ pc[t] \in Place /\ Owes(t) = Held(t, pc[t], todo[t])
  BY Kinds, Standing DEF DaemonInv, Http
<1>2. CASE pc[t] = "claimed"
  BY <1>1, <1>2, HeldWhere
<1>3. CASE pc[t] \in {"asking", "queued"}
  BY <1>1, <1>3, HeldWhere
<1>4. CASE pc[t] \in {"working", "embedding"}
  BY <1>1, <1>4, HeldWhere
<1> QED
  BY <1>1, <1>2, <1>3, <1>4 DEF InFlight, Inside

\* However many ticks and triggers of an account there are, one runs.
THEOREM OneRunOfEach == DaemonSpec => []OneRunAtATime
<1>1. DaemonInv => OneRunAtATime
  BY InFlightHoldsFlag DEF DaemonInv, FlagsTrue, OneRunAtATime
<1> QED
  BY <1>1, DaemonAlwaysInv, PTL

\* A flag that is set has a thread that will clear it.
THEOREM FlagsAreCleared == DaemonSpec => []NoStuckFlag
<1>1. DaemonInv => NoStuckFlag
  <2> SUFFICES ASSUME DaemonInv, NEW n \in Name, running[n]
               PROVE  \E t \in Scheduled : NameOf(t) = n /\ pc[t] \notin {"off", "ticked"}
    BY DEF NoStuckFlag
  <2>1. PICK t \in Scheduled : NameOf(t) = n /\ "flag" \in Owes(t)
    BY DEF DaemonInv, FlagsTrue
  <2>2. pc[t] \notin {"off", "ticked"}
    BY <2>1 DEF Owes, Held
  <2> QED
    BY <2>1, <2>2
<1> QED
  BY <1>1, DaemonAlwaysInv, PTL

\* Every deferred call finds what it gives back: the counters count those who
\* leave among others, and the gate and a flag have one thread that owes them.
THEOREM NothingGivenBackTwice == DaemonSpec => []GivenBackOnce
<1>1. DaemonInv => GivenBackOnce
  <2> SUFFICES ASSUME DaemonInv PROVE GivenBackOnce
    OBVIOUS
  <2>1. \A call \in Release : Leaving(call) \subseteq Owing(call)
    BY DEF Leaving, Owing, Owes, Held
  <2>2. /\ \A t \in Leaving("gate") : worker = t
        /\ \A t \in Leaving("flag") : running[NameOf(t)]
        /\ \A s, t \in Leaving("flag") : NameOf(s) = NameOf(t) => s = t
    BY <2>1 DEF DaemonInv, HoldersTrue, FlagsTrue, Owing, Release
  <2>3. \A call \in Release : Cardinality(Leaving(call)) <= Cardinality(Owing(call))
    BY <2>1, OwingFinite, FS_Subset
  <2> QED
    BY <2>2, <2>3 DEF DaemonInv, CountersTrue, GivenBackOnce, Release
<1> QED
  BY <1>1, DaemonAlwaysInv, PTL
=============================================================================
