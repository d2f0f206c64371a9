---------------------------- MODULE AbstractGate ----------------------------
(***************************************************************************)
(* What the operation gate promises to the daemon: at any time at most one *)
(* caller works on the archive, a caller that works is never interrupted   *)
(* by another, and once the gate is closed nobody starts working again.    *)
(***************************************************************************)
CONSTANTS Caller,    \* everyone who may ask for the gate
          NoCaller   \* the value of worker when nobody works

VARIABLES worker,    \* the caller that owns the archive, or NoCaller
          closed     \* shutdown has begun

vars == <<worker, closed>>

TypeOK == worker \in Caller \cup {NoCaller} /\ closed \in BOOLEAN

Init == worker = NoCaller /\ closed = FALSE

Acquire(c) == /\ worker = NoCaller
              /\ ~closed
              /\ worker' = c
              /\ UNCHANGED closed

Release(c) == /\ worker = c
              /\ worker' = NoCaller
              /\ UNCHANGED closed

Close == closed' = TRUE /\ UNCHANGED worker

Next == Close \/ \E c \in Caller : Acquire(c) \/ Release(c)

Spec == Init /\ [][Next]_vars
=============================================================================
