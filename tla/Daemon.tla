------------------------------- MODULE Daemon -------------------------------
(***************************************************************************)
(* The daemon (cmd/msgvault/cmd/serve.go): HTTP requests, the scheduler's  *)
(* runs, the embedding ticks, the initialisation of the vector index and   *)
(* the building of the search index, on one operation gate, under an idle  *)
(* tracker, until a shutdown that must not close the archive under them.   *)
(*                                                                         *)
(* The gate is the abstract one that OperationGate implements, with a      *)
(* queue in order of arrival.  A thread that comes to its end pops its     *)
(* deferred calls one by one: other threads run in between.                *)
(***************************************************************************)
EXTENDS Naturals, FiniteSets, SequencesExt

CONSTANTS Request,      \* API requests that mutate: they pass the gate
          Reader,       \* API requests that read: they do not
          SyncRun,      \* cron ticks and triggered syncs of one account
          JobRun,       \* cron ticks of one generic job
          EmbedTick,    \* cron ticks of the embedding job
          VectorInit,   \* the goroutine of startVectorInit
          IndexBuild,   \* the goroutine of runCLISearchIndexEnsure
          NoThread,     \* nobody works
          RunAfterSync, \* an embedding pass follows each successful sync
          Timeouts      \* the waits of the shutdown that may run out

Scheduled == SyncRun \cup JobRun
Http == Request \cup Reader
Thread == Http \cup Scheduled \cup EmbedTick \cup {VectorInit, IndexBuild}

\* Every thread is of one kind.
ASSUME DaemonAssumption ==
  /\ IsFiniteSet(Thread) /\ NoThread \notin Thread
  /\ Request \cap Reader = {} /\ SyncRun \cap JobRun = {}
  /\ Http \cap (Scheduled \cup EmbedTick) = {} /\ Scheduled \cap EmbedTick = {}
  /\ {VectorInit, IndexBuild} \cap (Http \cup Scheduled \cup EmbedTick) = {}
  /\ VectorInit # IndexBuild
  /\ RunAfterSync \in BOOLEAN
  /\ Timeouts \subseteq {"api", "sched", "drain"}

VARIABLES
  pc,           \* where each thread stands
  todo,         \* the deferred calls an ending thread has still to make
  worker,       \* who holds the gate
  queue,        \* who waits for it, in order of arrival
  draining,     \* the gate drains
  running,      \* per account or job: the scheduler's running flag
  wg,           \* the scheduler's wait group
  external,     \* IdleTracker.activeExternal
  work,         \* IdleTracker.activeWork
  idleDraining, \* IdleTracker.draining
  cancelled,    \* the context of the daemon is cancelled
  stopped,      \* the scheduler is stopped: flag, cron and context
  embedSet,     \* the embedding job is registered
  phase,        \* how far the main goroutine has come
  timedOut      \* the waits of the shutdown that ran out

gate == <<worker, queue, draining>>
counters == <<running, wg, external, work>>
switches == <<idleDraining, cancelled, stopped, embedSet>>
main == <<phase, timedOut>>
daemonVars == <<pc, todo, gate, counters, switches, main>>

Gate == INSTANCE AbstractGate WITH Caller <- Thread, NoCaller <- NoThread,
                                   closed <- draining

Name == {"account", "job"}
NameOf(t) == IF t \in SyncRun THEN "account" ELSE "job"

Place == {"off", "arrived", "ticked", "claimed", "probing", "asking", "queued",
          "working", "embedding", "ending"}
Release == {"gate", "work", "external", "flag", "wg"}
Phase == {"serving", "stopping", "cancelled", "api", "halt", "sched", "gate",
          "init", "closed"}

DaemonInit ==
  /\ pc = [t \in Thread |-> IF t = VectorInit THEN "claimed" ELSE "off"]
  /\ todo = [t \in Thread |-> <<>>]
  /\ Gate!Init /\ queue = <<>>
  /\ running = [n \in Name |-> FALSE]
  /\ wg = 0 /\ external = 0 /\ work = 0
  /\ idleDraining = FALSE /\ cancelled = FALSE /\ stopped = FALSE
  /\ embedSet = FALSE
  /\ phase = "serving" /\ timedOut = {}

Goto(t, place) == /\ pc' = [pc EXCEPT ![t] = place]
                  /\ UNCHANGED todo

\* Thread t returns: what it deferred is left to do.
End(t, calls) == /\ pc' = [pc EXCEPT ![t] = IF calls = <<>> THEN "off" ELSE "ending"]
                 /\ todo' = [todo EXCEPT ![t] = calls]

\* The context a thread waits with.  An index build has context.Background.
ContextDone(t) == CASE t \in Scheduled \cup EmbedTick -> stopped
                    [] t = VectorInit -> cancelled
                    [] OTHER -> FALSE

Waiters == {q \in Request : pc[q] = "queued"}

(***************************************************************************)
(* HTTP.  A request arrives on a connection before the idle tracker hears  *)
(* of it; the listener closes when the shutdown of the server begins.      *)
(***************************************************************************)
Arrive(t) ==
  /\ pc[t] = "off" /\ phase \in {"serving", "stopping", "cancelled"}
  /\ Goto(t, "arrived")
  /\ UNCHANGED <<gate, counters, switches, main>>

Wrap(t) ==
  /\ pc[t] = "arrived"
  /\ IF idleDraining
     THEN End(t, <<>>) /\ UNCHANGED external
     ELSE /\ external' = external + 1
          /\ Goto(t, IF t \in Request THEN "asking" ELSE "working")
  /\ UNCHANGED <<gate, running, wg, work, switches, main>>

RequestEnds(t) ==
  /\ pc[t] = "working"
  /\ End(t, IF t \in Request THEN <<"gate", "external">> ELSE <<"external">>)
  /\ UNCHANGED <<gate, counters, switches, main>>

\* POST to the shutdown path: not gated, cancels the daemon's context.
StopRequested(t) ==
  /\ pc[t] = "working"
  /\ cancelled' = TRUE
  /\ UNCHANGED <<pc, todo, gate, counters, idleDraining, stopped, embedSet, main>>

\* The first search starts one goroutine that sees to the search index.
StartIndexBuild(t) ==
  /\ pc[t] = "working" /\ pc[IndexBuild] = "off"
  /\ Goto(IndexBuild, "probing")
  /\ UNCHANGED <<gate, counters, switches, main>>

\* probeFTSBackfillNeeded has read the archive without the gate and unseen by
\* the idle tracker; the index is complete, or a build asks for the gate.
ProbeEnds ==
  /\ pc[IndexBuild] = "probing"
  /\ End(IndexBuild, <<>>) \/ Goto(IndexBuild, "asking")
  /\ UNCHANGED <<gate, counters, switches, main>>

(***************************************************************************)
(* The scheduler.                                                          *)
(***************************************************************************)
Tick(t) ==
  /\ pc[t] = "off" /\ ~stopped
  /\ t \in EmbedTick => embedSet
  /\ Goto(t, "ticked")
  /\ UNCHANGED <<gate, counters, switches, main>>

MarkRunning(t) ==
  /\ running' = [running EXCEPT ![NameOf(t)] = TRUE]
  /\ wg' = wg + 1
  /\ Goto(t, "claimed")

\* Mutant: the tick does not look at the running flag.
ClaimUnchecked(t) ==
  /\ pc[t] = "ticked"
  /\ IF stopped THEN End(t, <<>>) /\ UNCHANGED <<running, wg>> ELSE MarkRunning(t)
  /\ UNCHANGED <<gate, external, work, switches, main>>

Claim(t) ==
  /\ pc[t] = "ticked"
  /\ IF stopped \/ running[NameOf(t)]
     THEN End(t, <<>>) /\ UNCHANGED <<running, wg>>
     ELSE MarkRunning(t)
  /\ UNCHANGED <<gate, external, work, switches, main>>

\* POST /sync/{account}, a request that holds the gate meanwhile.
TriggerSync(q, t) ==
  /\ pc[q] = "working" /\ pc[t] = "off"
  /\ ~stopped /\ ~running[NameOf(t)]
  /\ MarkRunning(t)
  /\ UNCHANGED <<gate, external, work, switches, main>>

EmbedTickBegins(t) ==
  /\ pc[t] = "ticked"
  /\ IF stopped THEN End(t, <<>>) ELSE Goto(t, "claimed")
  /\ UNCHANGED <<gate, counters, switches, main>>

(***************************************************************************)
(* BeginWorkContext of the combined tracker: the idle tracker, then the    *)
(* gate, each after a look at the context; a refusal undoes the former.    *)
(***************************************************************************)
\* What is left to do for a thread the trackers refused.
AfterRefusal(t) == IF t \in Scheduled THEN <<"flag", "wg">> ELSE <<>>

Untrack(t) == CASE t \in Request -> <<"external">>
                [] t = IndexBuild -> <<>>
                [] OTHER -> <<"work">> \o AfterRefusal(t)

\* Mutant: the early return of a refused run leaves the flag set.
BeginWorkKeepsFlag(t) ==
  /\ pc[t] = "claimed"
  /\ IF ContextDone(t) \/ idleDraining
     THEN End(t, IF t \in Scheduled THEN <<"wg">> ELSE <<>>) /\ UNCHANGED work
     ELSE Goto(t, "asking") /\ work' = work + 1
  /\ UNCHANGED <<gate, running, wg, external, switches, main>>

\* Mutant: work begins although the idle tracker has decided to stop.
BeginWorkWhileDraining(t) ==
  /\ pc[t] = "claimed"
  /\ IF ContextDone(t)
     THEN End(t, AfterRefusal(t)) /\ UNCHANGED work
     ELSE Goto(t, "asking") /\ work' = work + 1
  /\ UNCHANGED <<gate, running, wg, external, switches, main>>

BeginWork(t) ==
  /\ pc[t] = "claimed"
  /\ IF ContextDone(t) \/ idleDraining
     THEN End(t, AfterRefusal(t)) /\ UNCHANGED work
     ELSE Goto(t, "asking") /\ work' = work + 1
  /\ UNCHANGED <<gate, running, wg, external, switches, main>>

Enqueue(t) ==
  /\ pc[t] = "asking"
  /\ IF ContextDone(t) \/ draining
     THEN End(t, Untrack(t)) /\ UNCHANGED queue
     ELSE Goto(t, "queued") /\ queue' = Append(queue, t)
  /\ UNCHANGED <<worker, draining, counters, switches, main>>

Admit(t) ==
  /\ queue # <<>> /\ t = Head(queue) /\ ~ContextDone(t)
  /\ Gate!Acquire(t)
  /\ queue' = Tail(queue)
  /\ Goto(t, "working")
  /\ UNCHANGED <<counters, switches, main>>

LeaveQueue(t) ==
  /\ pc[t] = "queued"
  /\ \E i \in DOMAIN queue : queue[i] = t /\ queue' = RemoveAt(queue, i)
  /\ End(t, Untrack(t))
  /\ UNCHANGED <<worker, draining, counters, switches, main>>

Refuse(t) == (draining \/ ContextDone(t)) /\ LeaveQueue(t)

\* operationGateWaitLimit, or the client of a request is gone.
GiveUp(t) == LeaveQueue(t)

(***************************************************************************)
(* The work itself.  runSync defers the flag, so it falls after the gate;  *)
(* TriggerJob clears it first.                                             *)
(***************************************************************************)
AfterWork(t) == CASE t \in SyncRun -> <<"gate", "work", "flag", "wg">>
                  [] t \in JobRun -> <<"flag", "gate", "work", "wg">>
                  [] t = IndexBuild -> <<"gate">>
                  [] OTHER -> <<"gate", "work">>

EndWork(t) == /\ pc[t] \in {"working", "embedding"}
              /\ End(t, AfterWork(t))
              /\ UNCHANGED <<gate, counters, switches, main>>

\* The run comes to its own end, or fails, at any time.
RunEnds(t) == EndWork(t)

\* A successful sync with an embedding pass behind it, in the same hold.
PostSyncEmbed(t) ==
  /\ pc[t] = "working"
  /\ RunAfterSync /\ embedSet /\ ~stopped
  /\ Goto(t, "embedding")
  /\ UNCHANGED <<gate, counters, switches, main>>

\* Mutants: the context of a run is cancelled by one of its causes only.
RunStopsOnStop(t) == stopped /\ EndWork(t)
RunStopsForWaiters(t) == Waiters # {} /\ EndWork(t)

\* jobContext: a queued request or the stop of the scheduler cancels the run.
RunStops(t) == (Waiters # {} \/ stopped) /\ EndWork(t)

IndexBuilt == EndWork(IndexBuild)

\* The vector index is open and the job registered, or the set-up failed.
VectorInitEnds ==
  /\ pc[VectorInit] = "working"
  /\ embedSet' \in BOOLEAN
  /\ End(VectorInit, AfterWork(VectorInit))
  /\ UNCHANGED <<gate, counters, idleDraining, cancelled, stopped, main>>

\* The next deferred call.
LetGo(t) ==
  /\ pc[t] = "ending"
  /\ LET call == Head(todo[t]) IN
     /\ End(t, Tail(todo[t]))
     /\ IF call = "gate" THEN Gate!Release(t) ELSE UNCHANGED <<worker, draining>>
     /\ work' = IF call = "work" THEN work - 1 ELSE work
     /\ external' = IF call = "external" THEN external - 1 ELSE external
     /\ running' = IF call = "flag" THEN [running EXCEPT ![NameOf(t)] = FALSE]
                                    ELSE running
     /\ wg' = IF call = "wg" THEN wg - 1 ELSE wg
  /\ UNCHANGED <<queue, switches, main>>

(***************************************************************************)
(* The idle tracker: nextWait decides under its mutex, onIdle cancels.     *)
(***************************************************************************)
IdleFires ==
  /\ ~idleDraining
  /\ external = 0 /\ work = 0
  /\ idleDraining' = TRUE
  /\ UNCHANGED <<pc, todo, gate, counters, cancelled, stopped, embedSet, main>>

IdleStops ==
  /\ idleDraining /\ ~cancelled
  /\ cancelled' = TRUE
  /\ UNCHANGED <<pc, todo, gate, counters, idleDraining, stopped, embedSet, main>>

(***************************************************************************)
(* The main goroutine.                                                     *)
(***************************************************************************)
Advance(from, to) == phase = from /\ phase' = to

\* A signal or the failure of the server, at any time.
Signal == /\ Advance("serving", "stopping")
          /\ UNCHANGED <<pc, todo, gate, counters, switches, timedOut>>

CancelSeen == /\ cancelled /\ Advance("serving", "stopping")
              /\ UNCHANGED <<pc, todo, gate, counters, switches, timedOut>>

CancelContext == /\ Advance("stopping", "cancelled")
                 /\ cancelled' = TRUE
                 /\ UNCHANGED <<pc, todo, gate, counters, idleDraining, stopped,
                                embedSet, timedOut>>

StartDrain == /\ Advance("cancelled", "api")
              /\ Gate!Close
              /\ UNCHANGED <<pc, todo, queue, counters, switches, timedOut>>

ServerDown == /\ Advance("api", "halt")
              /\ \A t \in Http : pc[t] = "off"
              /\ UNCHANGED <<pc, todo, gate, counters, switches, timedOut>>

StopScheduler == /\ Advance("halt", "sched")
                 /\ stopped' = TRUE
                 /\ UNCHANGED <<pc, todo, gate, counters, idleDraining, cancelled,
                                embedSet, timedOut>>

SchedulerDown == /\ Advance("sched", "gate")
                 /\ wg = 0
                 /\ \A t \in Scheduled : pc[t] # "ticked"
                 /\ \A t \in EmbedTick : pc[t] = "off"
                 /\ UNCHANGED <<pc, todo, gate, counters, switches, timedOut>>

\* Mutant: the scheduler's wait stands for the wait of the gate.
GateDownUnchecked ==
  /\ Advance("gate", "init")
  /\ UNCHANGED <<pc, todo, gate, counters, switches, timedOut>>

GateDown == /\ Advance("gate", "init")
            /\ worker = NoThread
            /\ UNCHANGED <<pc, todo, gate, counters, switches, timedOut>>

VectorInitDown == /\ Advance("init", "closed")
                  /\ pc[VectorInit] = "off"
                  /\ UNCHANGED <<pc, todo, gate, counters, switches, timedOut>>

\* One context bounds the waits for the gate and for the initialisation.
WaitRunsOut ==
  /\ \/ "api" \in Timeouts /\ Advance("api", "halt") /\ timedOut' = timedOut \cup {"api"}
     \/ "sched" \in Timeouts /\ Advance("sched", "gate") /\ timedOut' = timedOut \cup {"sched"}
     \/ "drain" \in Timeouts /\ Advance("gate", "init") /\ timedOut' = timedOut \cup {"drain"}
     \/ "drain" \in Timeouts /\ Advance("init", "closed") /\ timedOut' = timedOut \cup {"drain"}
  /\ UNCHANGED <<pc, todo, gate, counters, switches>>
-----------------------------------------------------------------------------
\* Steps a thread takes as soon as it can.
ThreadStep(t) ==
  \/ t \in Http /\ (Wrap(t) \/ RequestEnds(t))
  \/ t \in Scheduled /\ Claim(t)
  \/ t \in EmbedTick /\ EmbedTickBegins(t)
  \/ t \in Scheduled \cup EmbedTick \cup {VectorInit} /\ BeginWork(t)
  \/ Enqueue(t) \/ Admit(t) \/ Refuse(t)
  \/ t \in Scheduled \cup EmbedTick /\ RunStops(t)
  \/ t = VectorInit /\ VectorInitEnds
  \/ t = IndexBuild /\ (ProbeEnds \/ IndexBuilt)
  \/ LetGo(t)

MainStep == \/ CancelSeen \/ CancelContext \/ StartDrain \/ ServerDown
            \/ StopScheduler \/ SchedulerDown \/ GateDown \/ VectorInitDown

DaemonNext ==
  \/ \E t \in Thread : ThreadStep(t)
  \/ \E t \in Http : Arrive(t)
  \/ \E t \in Reader : StopRequested(t) \/ StartIndexBuild(t)
  \/ \E t \in Scheduled \cup EmbedTick : Tick(t) \/ RunEnds(t)
  \/ \E t \in SyncRun : PostSyncEmbed(t) \/ \E q \in Request : TriggerSync(q, t)
  \/ \E t \in Request : GiveUp(t)
  \/ IdleFires \/ IdleStops \/ Signal \/ MainStep \/ WaitRunsOut

\* Threads run; requests, the set-up of the vector index, the probe and the
\* build of the search index end; a run ends once its context is cancelled.  Nothing makes
\* a run end by itself, a request give up or a wait of the shutdown run out.
DaemonFairness == /\ \A t \in Thread : WF_daemonVars(ThreadStep(t))
                  /\ WF_daemonVars(IdleStops)
                  /\ WF_daemonVars(MainStep)

DaemonSpec == DaemonInit /\ [][DaemonNext]_daemonVars /\ DaemonFairness
-----------------------------------------------------------------------------
(***************************************************************************)
(* Properties                                                              *)
(***************************************************************************)
\* The counters never fall below zero and the gate's queue holds exactly the
\* threads that wait for it.
DaemonTypeOK ==
  /\ pc \in [Thread -> Place]
  /\ \A t \in Thread : ToSet(todo[t]) \subseteq Release
  /\ Gate!TypeOK
  /\ ToSet(queue) = {t \in Thread : pc[t] = "queued"} /\ IsInjective(queue)
  /\ running \in [Name -> BOOLEAN]
  /\ {wg, external, work} \subseteq 0 .. Cardinality(Thread)
  /\ {idleDraining, cancelled, stopped, embedSet} \subseteq BOOLEAN
  /\ phase \in Phase /\ timedOut \subseteq Timeouts

\* The archive is closed under one reader only.  Past its waits the main
\* goroutine finds no thread on the gate, the vector set-up returned, no request
\* and no run alive, each unless the wait for it ran out; and when none ran out
\* nobody has the archive in hand but the probe of the search index, which no
\* part of the shutdown waits for.
UsesStore(t) == pc[t] \in {"probing", "working", "embedding"}
StoreOutlivesWork ==
  phase = "closed" =>
    /\ "drain" \notin timedOut => worker = NoThread /\ pc[VectorInit] = "off"
    /\ "api" \notin timedOut => \A t \in Http : pc[t] = "off"
    /\ "sched" \notin timedOut => \A t \in Scheduled \cup EmbedTick : pc[t] = "off"
    /\ timedOut = {} => \A t \in Thread :
         UsesStore(t) => t = IndexBuild /\ pc[t] = "probing"

\* The idle shutdown interrupts nothing it keeps count of: when it has decided,
\* no request and no background work is inside, and none gets in any more.
Inside(t) == pc[t] \in {"asking", "queued", "working", "embedding"}
IdleInterruptsNothing ==
  idleDraining => \A t \in Thread \ {IndexBuild} : ~Inside(t)

\* A cron tick, a triggered sync and the end of a run never bring two runs of
\* one account, or of one job, under way together.
InFlight(t) == Inside(t) \/ pc[t] = "claimed"
OneRunAtATime ==
  \A s, t \in Scheduled :
    NameOf(s) = NameOf(t) /\ InFlight(s) /\ InFlight(t) => s = t

\* No account stays marked as running after its run has gone, whichever way
\* the run was refused, stopped or ended: it would never sync again.
NoStuckFlag ==
  \A n \in Name : running[n] =>
    \E t \in Scheduled : NameOf(t) = n /\ pc[t] \notin {"off", "ticked"}

\* What the deferred calls of a thread give back is still there when they are
\* made, however refusals, stops and ends follow each other: the idle tracker's
\* counters never have to be kept from falling below zero, the wait group is
\* not left once too often, and no end clears the flag or the gate of another.
Leaving(call) == {t \in Thread : pc[t] = "ending" /\ call \in ToSet(todo[t])}
GivenBackOnce ==
  /\ \A t \in Leaving("gate") : worker = t
  /\ \A t \in Leaving("flag") : running[NameOf(t)]
  /\ \A s, t \in Leaving("flag") : NameOf(s) = NameOf(t) => s = t
  /\ Cardinality(Leaving("work")) <= work
  /\ Cardinality(Leaving("external")) <= external
  /\ Cardinality(Leaving("wg")) <= wg

\* A request that queues behind a run that would last for hours gets its turn
\* or its refusal without waiting for its own limit.
RequestsGetIn == \A q \in Request : pc[q] = "queued" ~> pc[q] # "queued"

\* A shutdown that has begun, by a signal, a request or idleness, ends without
\* any of its limits running out.
ShutdownEnds == (phase # "serving" \/ cancelled) ~> phase = "closed"
=============================================================================
