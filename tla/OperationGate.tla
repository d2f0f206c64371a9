--------------------------- MODULE OperationGate ---------------------------
(***************************************************************************)
(* SerialOperationGate (internal/api/operation_gate.go): the lock every    *)
(* piece of daemon-owned mutating work holds while it runs.                *)
(*                                                                         *)
(* The semaphore is a channel of capacity one.  A caller blocked in the    *)
(* select is parked in the channel's queue: a receive hands the slot to    *)
(* the caller that has been parked longest, a closed context or a closed   *)
(* drain channel unparks a caller at once and for good.  The mutex-guarded *)
(* counters change in steps of their own.                                  *)
(***************************************************************************)
EXTENDS Naturals, FiniteSets

CONSTANTS Request,     \* callers of BeginRequestWorkContext (API requests)
          Background,  \* callers of BeginLabeledWorkContext (daemon jobs)
          NoCaller     \* the value of holderLabel when it is cleared

Caller == Request \cup Background

ASSUME GateAssumption ==
  /\ IsFiniteSet(Caller)
  /\ Request \cap Background = {}
  /\ NoCaller \notin Caller

VARIABLES
  pc,             \* where each caller stands
  ctxDone,        \* the caller's context is cancelled or past its deadline
  ahead,          \* for a parked caller, the callers parked before it
  sem,            \* the channel holds its one element
  active,         \* number of callers working, under mu
  holderLabel,    \* who works, under mu
  requestWaiters, \* API requests between the entry and the return, under mu
  draining,       \* StartDrain was called, under mu; drainCh is closed with it
  drained         \* Wait has returned

gateVars == <<pc, ctxDone, ahead, sem, active, holderLabel, requestWaiters,
              draining, drained>>

Place == {"idle", "entering", "selecting", "parked", "acquired", "admitting",
          "giveback", "refused", "admitted", "working", "releasing"}

GateTypeOK ==
  /\ pc \in [Caller -> Place]
  /\ ctxDone \in [Caller -> BOOLEAN]
  /\ ahead \in [Caller -> SUBSET Caller]
  /\ sem \in BOOLEAN
  /\ active \in Nat
  /\ holderLabel \in Caller \cup {NoCaller}
  /\ requestWaiters \in Nat
  /\ draining \in BOOLEAN
  /\ drained \in BOOLEAN

GateInit ==
  /\ pc = [c \in Caller |-> "idle"]
  /\ ctxDone = [c \in Caller |-> FALSE]
  /\ ahead = [c \in Caller |-> {}]
  /\ sem = FALSE
  /\ active = 0
  /\ holderLabel = NoCaller
  /\ requestWaiters = 0
  /\ draining = FALSE
  /\ drained = FALSE

Parked == {c \in Caller : pc[c] = "parked"}
Works(c) == pc[c] \in {"admitted", "working"}

Move(c, to) == pc' = [pc EXCEPT ![c] = to]

(***************************************************************************)
(* A call.  A request counts as a waiter from its entry to its return,     *)
(* whatever the outcome: the decrement is deferred.                        *)
(***************************************************************************)
Begin(c) ==
  /\ pc[c] = "idle"
  /\ Move(c, "entering")
  /\ ctxDone' \in {[ctxDone EXCEPT ![c] = b] : b \in BOOLEAN}
  /\ requestWaiters' = requestWaiters + (IF c \in Request THEN 1 ELSE 0)
  /\ UNCHANGED <<ahead, sem, active, holderLabel, draining, drained>>

CheckContext(c) ==
  /\ pc[c] = "entering"
  /\ Move(c, IF ctxDone[c] THEN "refused" ELSE "selecting")
  /\ UNCHANGED <<ctxDone, ahead, sem, active, holderLabel, requestWaiters,
                 draining, drained>>

\* Mutant: a channel of more than one element.
SelectSendUnlimited(c) ==
  /\ pc[c] = "selecting"
  /\ sem' = TRUE
  /\ Move(c, "acquired")
  /\ UNCHANGED <<ctxDone, ahead, active, holderLabel, requestWaiters,
                 draining, drained>>

\* select takes any ready case: the send, the context or the drain channel.
SelectSend(c) ==
  /\ pc[c] = "selecting"
  /\ ~sem
  /\ sem' = TRUE
  /\ Move(c, "acquired")
  /\ UNCHANGED <<ctxDone, ahead, active, holderLabel, requestWaiters,
                 draining, drained>>

SelectRefuse(c) ==
  /\ pc[c] = "selecting"
  /\ ctxDone[c] \/ draining
  /\ Move(c, "refused")
  /\ UNCHANGED <<ctxDone, ahead, sem, active, holderLabel, requestWaiters,
                 draining, drained>>

SelectPark(c) ==
  /\ pc[c] = "selecting"
  /\ sem /\ ~ctxDone[c] /\ ~draining
  /\ Move(c, "parked")
  /\ ahead' = [ahead EXCEPT ![c] = Parked]
  /\ UNCHANGED <<ctxDone, sem, active, holderLabel, requestWaiters,
                 draining, drained>>

\* The bounded wait of a request expires, its client goes away, or the
\* context of a job is cancelled.  A parked caller leaves the queue with it.
Unpark(c) == ahead' = [d \in Caller |-> IF d = c THEN {} ELSE ahead[d] \ {c}]

Cancel(c) ==
  /\ pc[c] \in {"entering", "selecting", "parked", "acquired"}
  /\ ~ctxDone[c]
  /\ ctxDone' = [ctxDone EXCEPT ![c] = TRUE]
  /\ Move(c, IF pc[c] = "parked" THEN "refused" ELSE pc[c])
  /\ Unpark(c)
  /\ UNCHANGED <<sem, active, holderLabel, requestWaiters, draining, drained>>

RecheckContext(c) ==
  /\ pc[c] = "acquired"
  /\ Move(c, IF ctxDone[c] THEN "giveback" ELSE "admitting")
  /\ UNCHANGED <<ctxDone, ahead, sem, active, holderLabel, requestWaiters,
                 draining, drained>>

\* Mutant: draining is only looked at in the select.
AdmitUnchecked(c) ==
  /\ pc[c] = "admitting"
  /\ Move(c, "admitted")
  /\ active' = active + 1
  /\ holderLabel' = c
  /\ UNCHANGED <<ctxDone, ahead, sem, requestWaiters, draining, drained>>

\* Under mu: the only place where draining and active are read together.
Admit(c) ==
  /\ pc[c] = "admitting"
  /\ IF draining
     THEN Move(c, "giveback") /\ UNCHANGED <<active, holderLabel>>
     ELSE /\ Move(c, "admitted")
          /\ active' = active + 1
          /\ holderLabel' = c
  /\ UNCHANGED <<ctxDone, ahead, sem, requestWaiters, draining, drained>>

\* <-sem by caller c: the longest parked caller is handed the slot.
FreeSlot(c, to) ==
  IF Parked = {}
  THEN /\ sem' = FALSE
       /\ Move(c, to)
       /\ UNCHANGED ahead
  ELSE \E d \in Parked :
         /\ ahead[d] = {}
         /\ pc' = [pc EXCEPT ![c] = to, ![d] = "acquired"]
         /\ Unpark(d)
         /\ UNCHANGED sem

\* Mutant: a refused caller keeps the slot.
GiveBackNothing(c) ==
  /\ pc[c] = "giveback"
  /\ Move(c, "refused")
  /\ UNCHANGED <<ctxDone, ahead, sem, active, holderLabel, requestWaiters,
                 draining, drained>>

GiveBack(c) ==
  /\ pc[c] = "giveback"
  /\ FreeSlot(c, "refused")
  /\ UNCHANGED <<ctxDone, active, holderLabel, requestWaiters, draining, drained>>

\* Mutant: the decrement is not deferred and runs for refused calls only.
ReturnCountsRefused(c) ==
  \/ /\ pc[c] = "refused" /\ Move(c, "idle")
     /\ requestWaiters' = requestWaiters - (IF c \in Request THEN 1 ELSE 0)
     /\ UNCHANGED <<ctxDone, ahead, sem, active, holderLabel, draining, drained>>
  \/ /\ pc[c] = "admitted" /\ Move(c, "working")
     /\ UNCHANGED <<ctxDone, ahead, sem, active, holderLabel, requestWaiters,
                    draining, drained>>

\* The call returns: the deferred decrement of a request runs.
Return(c) ==
  /\ \/ pc[c] = "refused" /\ Move(c, "idle")
     \/ pc[c] = "admitted" /\ Move(c, "working")
  /\ requestWaiters' = requestWaiters - (IF c \in Request THEN 1 ELSE 0)
  /\ UNCHANGED <<ctxDone, ahead, sem, active, holderLabel, draining, drained>>

\* The release function: the counters first, the slot afterwards.
Release(c) ==
  /\ pc[c] = "working"
  /\ Move(c, "releasing")
  /\ active' = IF active > 0 THEN active - 1 ELSE active
  /\ holderLabel' = NoCaller
  /\ UNCHANGED <<ctxDone, ahead, sem, requestWaiters, draining, drained>>

\* Mutant: the slot is freed without waking the caller that is parked on it.
FreeSemaphoreSilently(c) ==
  /\ pc[c] = "releasing"
  /\ sem' = FALSE
  /\ Move(c, "idle")
  /\ UNCHANGED <<ctxDone, ahead, active, holderLabel, requestWaiters, draining,
                 drained>>

FreeSemaphore(c) ==
  /\ pc[c] = "releasing"
  /\ FreeSlot(c, "idle")
  /\ UNCHANGED <<ctxDone, active, holderLabel, requestWaiters, draining, drained>>

(***************************************************************************)
(* Shutdown.                                                               *)
(***************************************************************************)
StartDrain ==
  /\ ~draining
  /\ draining' = TRUE
  /\ pc' = [c \in Caller |-> IF pc[c] = "parked" THEN "refused" ELSE pc[c]]
  /\ ahead' = [c \in Caller |-> {}]
  /\ UNCHANGED <<ctxDone, sem, active, holderLabel, requestWaiters, drained>>

\* Mutant: Wait looks at the waiters instead of the active work.
WaitForWaiters ==
  /\ draining /\ ~drained
  /\ requestWaiters = 0
  /\ drained' = TRUE
  /\ UNCHANGED <<pc, ctxDone, ahead, sem, active, holderLabel, requestWaiters,
                 draining>>

Wait ==
  /\ draining /\ ~drained
  /\ active = 0
  /\ drained' = TRUE
  /\ UNCHANGED <<pc, ctxDone, ahead, sem, active, holderLabel, requestWaiters,
                 draining>>

CallerStep(c) ==
  \/ CheckContext(c) \/ SelectSend(c) \/ SelectRefuse(c) \/ SelectPark(c)
  \/ RecheckContext(c) \/ Admit(c) \/ GiveBack(c) \/ Return(c)
  \/ Release(c) \/ FreeSemaphore(c)

GateNext ==
  \/ \E c \in Caller : Begin(c) \/ Cancel(c) \/ CallerStep(c)
  \/ StartDrain
  \/ Wait

GateSpec == GateInit /\ [][GateNext]_gateVars

\* Every thread that can run runs, and the work done under the gate ends.
\* Nothing forces a caller to come, a context to end or a drain to start.
GateFairness == WF_gateVars(Wait) /\ \A c \in Caller : WF_gateVars(CallerStep(c))

FairGateSpec == GateSpec /\ GateFairness
-----------------------------------------------------------------------------
(***************************************************************************)
(* Properties                                                              *)
(***************************************************************************)
\* At most one caller works on the archive at a time, and what the busy
\* response reports (Holder) is exactly that caller.
MutualExclusion ==
  \A c \in Caller : Works(c) =>
    /\ \A d \in Caller \ {c} : ~Works(d)
    /\ active = 1
    /\ holderLabel = c

\* The slot has exactly one owner while the channel is full and none while it
\* is empty, through every refusal that has to give it back.
OwnsSlot(c) == pc[c] \in {"acquired", "admitting", "giveback", "admitted",
                          "working", "releasing"}
SlotConserved ==
  /\ sem <=> \E c \in Caller : OwnsSlot(c)
  /\ \A c, d \in Caller : OwnsSlot(c) /\ OwnsSlot(d) => c = d

\* Nobody is left parked on a free slot (no lost wake-up).
NoLostWakeup == Parked # {} => sem /\ ~draining

\* HasRequestWaiters, which makes running jobs step aside, is true only when a
\* request is inside the gate, and is not left over after it has returned.
Inside(c) == pc[c] \notin {"idle", "working", "releasing"}
WaitersCounted == requestWaiters = Cardinality({r \in Request : Inside(r)})

\* After Wait has returned (and the store is closed) nobody works any more.
NoWorkAfterDrain == drained => \A c \in Caller : ~Works(c)

\* A caller is never admitted once the drain has started.
NoAdmissionWhileDraining ==
  [][draining => \A c \in Caller : Works(c)' => Works(c)]_gateVars

\* Whoever queues for the gate gets an answer, also without a deadline: the
\* queue is first come, first served.
EveryCallReturns ==
  \A c \in Caller : pc[c] = "entering" ~> pc[c] \in {"idle", "working"}

\* The gate implements the abstract lock.
Worker == IF \E c \in Caller : Works(c) THEN CHOOSE c \in Caller : Works(c)
          ELSE NoCaller
Abstract == INSTANCE AbstractGate WITH worker <- Worker, closed <- draining
ImplementsAbstractGate == Abstract!Spec
=============================================================================
