----------------------- MODULE OperationGate_proofs -----------------------
(***************************************************************************)
(* Proofs about OperationGate, for every finite set of callers.            *)
(***************************************************************************)
EXTENDS OperationGate, FiniteSetTheorems, TLAPS

\* The counters agree with where the callers stand.
CountersAgree ==
  /\ \A c \in Caller : Works(c) => active = 1 /\ holderLabel = c
  /\ (\A c \in Caller : ~Works(c)) => active = 0

\* The inductive invariant.  WaitersCounted is part of it: the decrement of
\* requestWaiters stays a natural number only because the count is exact.
GateInv ==
  /\ GateTypeOK
  /\ SlotConserved
  /\ NoLostWakeup
  /\ CountersAgree
  /\ WaitersCounted
  /\ drained => draining /\ active = 0

InsideRequests == {r \in Request : Inside(r)}

\* A caller that owns the slot is the only one that works.
LEMMA OwnerWorksAlone ==
  ASSUME SlotConserved
  PROVE  \A c, d \in Caller : Works(c) /\ OwnsSlot(d) => c = d
BY DEF SlotConserved, OwnsSlot, Works

LEMMA RequestFinite == IsFiniteSet(Request)
<1>1. Request \subseteq Caller
  BY DEF Caller
<1> QED
  BY <1>1, GateAssumption, FS_Subset

LEMMA InsideFinite ==
  IsFiniteSet(InsideRequests) /\ Cardinality(InsideRequests) \in Nat
<1>1. InsideRequests \subseteq Request
  BY DEF InsideRequests
<1>2. IsFiniteSet(InsideRequests)
  BY <1>1, RequestFinite, FS_Subset
<1> QED
  BY <1>2, FS_CardinalityType

\* The waiter count survives a step that lets no request in or out.
LEMMA SameWaiters ==
  ASSUME WaitersCounted,
         \A r \in Request : Inside(r)' = Inside(r),
         requestWaiters' = requestWaiters
  PROVE  WaitersCounted'
<1>1. InsideRequests' = InsideRequests
  BY DEF InsideRequests
<1> QED
  BY <1>1 DEF WaitersCounted, InsideRequests

LEMMA BeginCounts ==
  ASSUME GateTypeOK, WaitersCounted, NEW c \in Caller, Begin(c)
  PROVE  WaitersCounted'
<1>1. ~Inside(c) /\ Inside(c)'
  BY DEF Begin, Move, GateTypeOK, Inside
<1>2. \A r \in Request \ {c} : Inside(r)' = Inside(r)
  BY DEF Begin, Move, GateTypeOK, Inside, Caller
<1>3. CASE c \in Request
  <2>1. InsideRequests' = InsideRequests \cup {c} /\ c \notin InsideRequests
    BY <1>1, <1>2, <1>3 DEF InsideRequests
  <2>2. Cardinality(InsideRequests') = Cardinality(InsideRequests) + 1
    BY <2>1, InsideFinite, FS_AddElement
  <2> QED
    BY <2>2, <1>3 DEF WaitersCounted, InsideRequests, Begin
<1>4. CASE c \notin Request
  <2>1. requestWaiters' = requestWaiters
    BY <1>4 DEF Begin, GateTypeOK
  <2> QED
    BY <2>1, <1>2, <1>4, SameWaiters
<1> QED
  BY <1>3, <1>4

LEMMA ReturnCounts ==
  ASSUME GateTypeOK, WaitersCounted, NEW c \in Caller, Return(c)
  PROVE  WaitersCounted' /\ requestWaiters' \in Nat
<1>1. Inside(c) /\ ~Inside(c)'
  BY DEF Return, Move, GateTypeOK, Inside
<1>2. \A r \in Request \ {c} : Inside(r)' = Inside(r)
  BY DEF Return, Move, GateTypeOK, Inside, Caller
<1>3. CASE c \in Request
  <2>1. InsideRequests' = InsideRequests \ {c} /\ c \in InsideRequests
    BY <1>1, <1>2, <1>3 DEF InsideRequests
  <2>2. /\ IsFiniteSet(InsideRequests')
        /\ Cardinality(InsideRequests') = Cardinality(InsideRequests) - 1
    BY <2>1, InsideFinite, FS_RemoveElement
  <2>3. Cardinality(InsideRequests') \in Nat
    BY <2>2, FS_CardinalityType
  <2>4. requestWaiters' = requestWaiters - 1
    BY <1>3 DEF Return
  <2>5. requestWaiters = Cardinality(InsideRequests)
    BY DEF WaitersCounted, InsideRequests
  <2>6. requestWaiters' = Cardinality(InsideRequests')
    BY <2>2, <2>4, <2>5
  <2> QED
    BY <2>3, <2>6 DEF WaitersCounted, InsideRequests
<1>4. CASE c \notin Request
  <2>1. requestWaiters' = requestWaiters
    BY <1>4 DEF Return, GateTypeOK
  <2> QED
    BY <2>1, <1>2, <1>4, SameWaiters DEF GateTypeOK
<1> QED
  BY <1>3, <1>4

LEMMA GateInitInv == GateInit => GateInv
<1> SUFFICES ASSUME GateInit PROVE GateInv
  OBVIOUS
<1>1. GateTypeOK
  BY DEF GateInit, GateTypeOK, Place
<1>2. SlotConserved /\ NoLostWakeup /\ CountersAgree
  BY DEF GateInit, SlotConserved, OwnsSlot, NoLostWakeup, Parked,
         CountersAgree, Works
<1>3. WaitersCounted
  <2>1. InsideRequests = {}
    BY DEF GateInit, InsideRequests, Inside, Caller
  <2> QED
    BY <2>1, FS_EmptySet DEF WaitersCounted, InsideRequests, GateInit
<1> QED
  BY <1>1, <1>2, <1>3 DEF GateInv, GateInit

\* <-sem by a caller that owns the slot and does not work: the slot is free
\* afterwards, or a parked caller owns it.
LEMMA FreeSlotKeepsInv ==
  ASSUME GateInv, NEW c \in Caller, pc[c] \in {"giveback", "releasing"},
         NEW to \in {"refused", "idle"},
         Inside(c) <=> to = "refused",
         FreeSlot(c, to),
         UNCHANGED <<ctxDone, active, holderLabel, requestWaiters, draining,
                     drained>>
  PROVE  GateInv'
<1> USE DEF GateInv
<1>1. CASE Parked = {} /\ sem' = FALSE /\ Move(c, to) /\ UNCHANGED ahead
  <2>1. GateTypeOK'
    BY <1>1 DEF GateTypeOK, Place, Move
  <2>2. SlotConserved' /\ NoLostWakeup' /\ CountersAgree'
    BY <1>1 DEF GateTypeOK, Move, SlotConserved, OwnsSlot, NoLostWakeup,
                Parked, CountersAgree, Works
  <2>3. WaitersCounted'
    <3>1. \A r \in Request : Inside(r)' = Inside(r)
      BY <1>1 DEF Move, Inside, GateTypeOK, Caller
    <3> QED
      BY <3>1, SameWaiters
  <2> QED
    BY <2>1, <2>2, <2>3
<1>2. ASSUME NEW d \in Parked,
             pc' = [pc EXCEPT ![c] = to, ![d] = "acquired"],
             Unpark(d),
             UNCHANGED sem
      PROVE  GateInv'
  <2>1. GateTypeOK'
    BY <1>2 DEF GateTypeOK, Place, Unpark, Parked
  <2>2. SlotConserved' /\ NoLostWakeup' /\ CountersAgree'
    BY <1>2 DEF GateTypeOK, SlotConserved, OwnsSlot, NoLostWakeup,
                Parked, CountersAgree, Works
  <2>3. WaitersCounted'
    <3>1. \A r \in Request : Inside(r)' = Inside(r)
      BY <1>2 DEF Inside, GateTypeOK, Parked, Caller
    <3> QED
      BY <3>1, SameWaiters
  <2> QED
    BY <2>1, <2>2, <2>3
<1> QED
  BY <1>1, <1>2 DEF FreeSlot

\* Every step of the gate preserves the invariant.
LEMMA GateStepInv == GateInv /\ [GateNext]_gateVars => GateInv'
<1> SUFFICES ASSUME GateInv, [GateNext]_gateVars
             PROVE  GateInv'
  OBVIOUS
<1> USE DEF GateInv
<1>1. ASSUME NEW c \in Caller, Begin(c)
      PROVE  GateInv'
  <2>1. WaitersCounted'
    BY <1>1, BeginCounts
  <2>2. GateTypeOK'
    BY <1>1 DEF GateTypeOK, Place, Begin, Move
  <2>3. SlotConserved' /\ NoLostWakeup' /\ CountersAgree'
    BY <1>1 DEF GateTypeOK, Begin, Move, SlotConserved, OwnsSlot,
                NoLostWakeup, Parked, CountersAgree, Works
  <2> QED
    BY <1>1, <2>1, <2>2, <2>3 DEF Begin
<1>2. ASSUME NEW c \in Caller,
             CheckContext(c) \/ SelectSend(c) \/ SelectRefuse(c)
               \/ SelectPark(c) \/ RecheckContext(c)
      PROVE  GateInv'
  <2> USE DEF CheckContext, SelectSend, SelectRefuse, SelectPark,
              RecheckContext, Move
  <2>1. GateTypeOK'
    BY <1>2 DEF GateTypeOK, Place, Parked
  <2>2. SlotConserved' /\ NoLostWakeup' /\ CountersAgree'
    BY <1>2 DEF GateTypeOK, SlotConserved, OwnsSlot, NoLostWakeup, Parked,
                CountersAgree, Works
  <2>3. WaitersCounted'
    <3>1. \A r \in Request : Inside(r)' = Inside(r)
      BY <1>2 DEF Inside, GateTypeOK, Caller
    <3> QED
      BY <1>2, <3>1, SameWaiters
  <2> QED
    BY <1>2, <2>1, <2>2, <2>3
<1>3. ASSUME NEW c \in Caller, Cancel(c)
      PROVE  GateInv'
  <2>1. GateTypeOK'
    BY <1>3 DEF GateTypeOK, Place, Cancel, Move, Unpark
  <2>2. SlotConserved' /\ NoLostWakeup' /\ CountersAgree'
    BY <1>3 DEF GateTypeOK, Cancel, Move, SlotConserved, OwnsSlot,
                NoLostWakeup, Parked, CountersAgree, Works
  <2>3. WaitersCounted'
    <3>1. \A r \in Request : Inside(r)' = Inside(r)
      BY <1>3 DEF Cancel, Move, Inside, GateTypeOK, Caller
    <3> QED
      BY <1>3, <3>1, SameWaiters DEF Cancel
  <2> QED
    BY <1>3, <2>1, <2>2, <2>3 DEF Cancel
<1>4. ASSUME NEW c \in Caller, Admit(c)
      PROVE  GateInv'
  <2>1. \A d \in Caller : ~Works(d)
    BY <1>4, OwnerWorksAlone DEF Admit, OwnsSlot, Works
  <2>2. active = 0
    BY <2>1 DEF CountersAgree
  <2>3. GateTypeOK'
    BY <1>4 DEF GateTypeOK, Place, Admit, Move
  <2>4. SlotConserved' /\ NoLostWakeup'
    BY <1>4 DEF GateTypeOK, Admit, Move, SlotConserved, OwnsSlot,
                NoLostWakeup, Parked
  <2>5. CountersAgree'
    BY <1>4, <2>1, <2>2 DEF GateTypeOK, Admit, Move, CountersAgree, Works
  <2>6. WaitersCounted'
    <3>1. \A r \in Request : Inside(r)' = Inside(r)
      BY <1>4 DEF Admit, Move, Inside, GateTypeOK, Caller
    <3> QED
      BY <1>4, <3>1, SameWaiters DEF Admit
  <2> QED
    BY <1>4, <2>3, <2>4, <2>5, <2>6 DEF Admit
<1>5. ASSUME NEW c \in Caller, GiveBack(c)
      PROVE  GateInv'
  BY <1>5, FreeSlotKeepsInv DEF GiveBack, Inside
<1>6. ASSUME NEW c \in Caller, FreeSemaphore(c)
      PROVE  GateInv'
  BY <1>6, FreeSlotKeepsInv DEF FreeSemaphore, Inside
<1>7. ASSUME NEW c \in Caller, Return(c)
      PROVE  GateInv'
  <2>1. WaitersCounted' /\ requestWaiters' \in Nat
    BY <1>7, ReturnCounts
  <2>2. GateTypeOK'
    BY <1>7, <2>1 DEF GateTypeOK, Place, Return, Move
  <2>3. SlotConserved' /\ NoLostWakeup' /\ CountersAgree'
    BY <1>7 DEF GateTypeOK, Return, Move, SlotConserved, OwnsSlot,
                NoLostWakeup, Parked, CountersAgree, Works
  <2> QED
    BY <1>7, <2>1, <2>2, <2>3 DEF Return
<1>8. ASSUME NEW c \in Caller, Release(c)
      PROVE  GateInv'
  <2>1. \A d \in Caller \ {c} : ~Works(d)
    BY <1>8, OwnerWorksAlone DEF Release, OwnsSlot, Works
  <2>2. active = 1
    BY <1>8 DEF CountersAgree, Release, Works
  <2>3. GateTypeOK'
    BY <1>8 DEF GateTypeOK, Place, Release, Move
  <2>4. SlotConserved' /\ NoLostWakeup'
    BY <1>8 DEF GateTypeOK, Release, Move, SlotConserved, OwnsSlot,
                NoLostWakeup, Parked
  <2>5. CountersAgree'
    BY <1>8, <2>1, <2>2 DEF GateTypeOK, Release, Move, CountersAgree, Works
  <2>6. WaitersCounted'
    <3>1. \A r \in Request : Inside(r)' = Inside(r)
      BY <1>8 DEF Release, Move, Inside, GateTypeOK, Caller
    <3> QED
      BY <1>8, <3>1, SameWaiters DEF Release
  <2> QED
    BY <1>8, <2>2, <2>3, <2>4, <2>5, <2>6 DEF Release
<1>9. ASSUME StartDrain
      PROVE  GateInv'
  <2>1. GateTypeOK'
    BY <1>9 DEF GateTypeOK, Place, StartDrain
  <2>2. SlotConserved' /\ NoLostWakeup' /\ CountersAgree'
    BY <1>9 DEF GateTypeOK, StartDrain, SlotConserved, OwnsSlot,
                NoLostWakeup, Parked, CountersAgree, Works
  <2>3. WaitersCounted'
    <3>1. \A r \in Request : Inside(r)' = Inside(r)
      BY <1>9 DEF StartDrain, Inside, GateTypeOK, Caller
    <3> QED
      BY <1>9, <3>1, SameWaiters DEF StartDrain
  <2> QED
    BY <1>9, <2>1, <2>2, <2>3 DEF StartDrain
<1>10. CASE Wait \/ UNCHANGED gateVars
  <2> USE DEF Wait, gateVars
  <2>1. GateTypeOK'
    BY <1>10 DEF GateTypeOK
  <2>2. SlotConserved' /\ NoLostWakeup' /\ CountersAgree'
    BY <1>10 DEF SlotConserved, OwnsSlot, NoLostWakeup, Parked,
                 CountersAgree, Works
  <2>3. WaitersCounted'
    <3>1. \A r \in Request : Inside(r)' = Inside(r)
      BY <1>10 DEF Inside
    <3> QED
      BY <1>10, <3>1, SameWaiters
  <2> QED
    BY <1>10, <2>1, <2>2, <2>3
<1> QED
  BY <1>1, <1>2, <1>3, <1>4, <1>5, <1>6, <1>7, <1>8, <1>9, <1>10
     DEF GateNext, CallerStep

\* The invariant holds in every reachable state of the gate.
THEOREM GateInvariant == GateSpec => []GateInv
<1> QED
  BY GateInitInv, GateStepInv, PTL DEF GateSpec

\* Type correctness: every variable of the gate keeps its type.
THEOREM GateTypeCorrect == GateSpec => []GateTypeOK
<1>1. GateInv => GateTypeOK
  BY DEF GateInv
<1> QED
  BY <1>1, GateInvariant, PTL

\* Mutual exclusion of the work done under the gate, and the busy response
\* names the caller that holds it.
THEOREM GateMutualExclusion == GateSpec => []MutualExclusion
<1>1. GateInv => MutualExclusion
  BY OwnerWorksAlone DEF GateInv, MutualExclusion, CountersAgree, OwnsSlot, Works
<1> QED
  BY <1>1, GateInvariant, PTL

\* The one slot of the channel is neither lost nor duplicated.
THEOREM GateSlotConserved == GateSpec => []SlotConserved
<1>1. GateInv => SlotConserved
  BY DEF GateInv
<1> QED
  BY <1>1, GateInvariant, PTL

\* Nobody stays parked while the slot is free or the gate is draining.
THEOREM GateNoLostWakeup == GateSpec => []NoLostWakeup
<1>1. GateInv => NoLostWakeup
  BY DEF GateInv
<1> QED
  BY <1>1, GateInvariant, PTL

\* requestWaiters counts exactly the requests inside the gate.
THEOREM GateWaitersCounted == GateSpec => []WaitersCounted
<1>1. GateInv => WaitersCounted
  BY DEF GateInv
<1> QED
  BY <1>1, GateInvariant, PTL

\* Once Wait has returned nobody works: the store may be closed.
THEOREM GateNoWorkAfterDrain == GateSpec => []NoWorkAfterDrain
<1>1. GateInv => NoWorkAfterDrain
  BY DEF GateInv, CountersAgree, NoWorkAfterDrain
<1> QED
  BY <1>1, GateInvariant, PTL

\* No step admits a caller once the drain has started.
THEOREM GateNoAdmissionWhileDraining == GateSpec => NoAdmissionWhileDraining
<1>1. GateInv /\ [GateNext]_gateVars
        => [draining => \A c \in Caller : Works(c)' => Works(c)]_gateVars
  <2> SUFFICES ASSUME GateInv, GateNext, draining, NEW c \in Caller, Works(c)'
               PROVE  Works(c)
    BY DEF gateVars
  <2> USE DEF GateInv, GateTypeOK, Works, Move, FreeSlot
  <2>1. CASE \E d \in Caller : Begin(d) \/ Cancel(d)
    BY <2>1 DEF Begin, Cancel
  <2>2. CASE \E d \in Caller : CallerStep(d)
    <3> PICK d \in Caller : CallerStep(d)
      BY <2>2
    <3>1. CASE CheckContext(d) \/ SelectSend(d) \/ SelectRefuse(d) \/ SelectPark(d)
      BY <3>1 DEF CheckContext, SelectSend, SelectRefuse, SelectPark
    <3>2. CASE RecheckContext(d) \/ Admit(d) \/ Return(d) \/ Release(d)
      BY <3>2 DEF RecheckContext, Admit, Return, Release
    <3>3. CASE GiveBack(d) \/ FreeSemaphore(d)
      BY <3>3 DEF GiveBack, FreeSemaphore, Parked
    <3> QED
      BY <3>1, <3>2, <3>3 DEF CallerStep
  <2>3. CASE StartDrain \/ Wait
    BY <2>3 DEF StartDrain, Wait
  <2> QED
    BY <2>1, <2>2, <2>3 DEF GateNext
<1> QED
  BY <1>1, GateInvariant, PTL DEF GateSpec, NoAdmissionWhileDraining
-----------------------------------------------------------------------------
(***************************************************************************)
(* Refinement: the gate implements the abstract lock.                      *)
(***************************************************************************)
LEMMA WorkerUnique ==
  ASSUME MutualExclusion
  PROVE  /\ \A c \in Caller : Works(c) => Worker = c
         /\ (\A c \in Caller : ~Works(c)) => Worker = NoCaller
BY DEF MutualExclusion, Worker

LEMMA SameWorker ==
  ASSUME MutualExclusion, MutualExclusion',
         \A c \in Caller : Works(c)' = Works(c)
  PROVE  Worker' = Worker
<1>1. CASE \A c \in Caller : ~Works(c)
  BY <1>1 DEF Worker
<1>2. CASE \E c \in Caller : Works(c)
  <2> PICK c \in Caller : Works(c)
    BY <1>2
  <2>1. Worker = c
    BY WorkerUnique
  <2>2. \A d \in Caller : Works(d)' <=> d = c
    BY DEF MutualExclusion
  <2>3. Worker' = c
    BY <2>2 DEF Worker
  <2> QED
    BY <2>1, <2>3
<1> QED
  BY <1>1, <1>2

\* Every step of the gate is a step of the abstract lock or leaves it alone.
LEMMA GateStepRefines ==
  GateInv /\ GateInv' /\ [GateNext]_gateVars => [Abstract!Next]_(Abstract!vars)
<1> SUFFICES ASSUME GateInv, GateInv', [GateNext]_gateVars
             PROVE  [Abstract!Next]_(Abstract!vars)
  OBVIOUS
<1> USE DEF GateInv
<1>1. MutualExclusion /\ MutualExclusion'
  BY OwnerWorksAlone DEF MutualExclusion, CountersAgree, OwnsSlot, Works,
                         SlotConserved
<1>2. ASSUME \A c \in Caller : Works(c)' = Works(c), draining' = draining
      PROVE  UNCHANGED Abstract!vars
  BY <1>1, <1>2, SameWorker DEF Abstract!vars
<1>3. ASSUME NEW c \in Caller, Admit(c), ~draining
      PROVE  Abstract!Acquire(c)
  <2>1. \A d \in Caller : ~Works(d)
    BY <1>3, OwnerWorksAlone DEF Admit, OwnsSlot, Works
  <2>2. Worker = NoCaller
    BY <2>1 DEF Worker
  <2>3. \A d \in Caller : Works(d)' <=> d = c
    BY <1>3, <2>1 DEF Admit, Move, Works, GateTypeOK
  <2>4. Worker' = c
    BY <2>3 DEF Worker
  <2> QED
    BY <1>3, <2>2, <2>4 DEF Admit, Abstract!Acquire
<1>4. ASSUME NEW c \in Caller, Release(c)
      PROVE  Abstract!Release(c)
  <2>1. Works(c)
    BY <1>4 DEF Release, Works
  <2>2. Worker = c
    BY <1>1, <2>1, WorkerUnique
  <2>3. \A d \in Caller : ~Works(d)'
    BY <1>1, <1>4, <2>1 DEF MutualExclusion, Release, Move, Works, GateTypeOK
  <2>4. Worker' = NoCaller
    BY <2>3 DEF Worker
  <2> QED
    BY <1>4, <2>2, <2>4 DEF Release, Abstract!Release
<1>5. ASSUME StartDrain
      PROVE  Abstract!Close
  <2>1. \A c \in Caller : Works(c)' = Works(c)
    BY <1>5 DEF StartDrain, Works, GateTypeOK
  <2> QED
    BY <1>1, <1>5, <2>1, SameWorker DEF StartDrain, Abstract!Close
<1>6. ASSUME NEW c \in Caller,
             Begin(c) \/ Cancel(c) \/ CheckContext(c) \/ SelectSend(c)
               \/ SelectRefuse(c) \/ SelectPark(c) \/ RecheckContext(c)
               \/ Return(c) \/ (Admit(c) /\ draining)
      PROVE  UNCHANGED Abstract!vars
  <2>1. \A d \in Caller : Works(d)' = Works(d)
    BY <1>6 DEF Begin, Cancel, CheckContext, SelectSend, SelectRefuse,
                SelectPark, RecheckContext, Return, Admit, Move, Works,
                GateTypeOK
  <2>2. draining' = draining
    BY <1>6 DEF Begin, Cancel, CheckContext, SelectSend, SelectRefuse,
                SelectPark, RecheckContext, Return, Admit
  <2> QED
    BY <1>2, <2>1, <2>2
<1>7. ASSUME NEW c \in Caller, GiveBack(c) \/ FreeSemaphore(c)
      PROVE  UNCHANGED Abstract!vars
  <2>1. \A d \in Caller : Works(d)' = Works(d)
    BY <1>7 DEF GiveBack, FreeSemaphore, FreeSlot, Move, Parked, Works,
                GateTypeOK
  <2> QED
    BY <1>2, <1>7, <2>1 DEF GiveBack, FreeSemaphore
<1>8. ASSUME Wait \/ UNCHANGED gateVars
      PROVE  UNCHANGED Abstract!vars
  <2>1. \A d \in Caller : Works(d)' = Works(d)
    BY <1>8 DEF Wait, gateVars, Works
  <2> QED
    BY <1>2, <1>8, <2>1 DEF Wait, gateVars
<1> QED
  BY <1>3, <1>4, <1>5, <1>6, <1>7, <1>8
     DEF GateNext, CallerStep, Abstract!Next

\* The gate implements the abstract lock: one worker at a time, none after
\* the drain has begun.
THEOREM GateImplementsAbstractGate == GateSpec => ImplementsAbstractGate
<1>1. GateInit => Abstract!Init
  BY DEF GateInit, Abstract!Init, Worker, Works
<1> QED
  BY <1>1, GateInvariant, GateStepRefines, PTL
     DEF GateSpec, ImplementsAbstractGate, Abstract!Spec
=============================================================================
