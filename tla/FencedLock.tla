----------------------------- MODULE FencedLock -----------------------------
(***************************************************************************)
(* What the leases promise to the runtime: for every task a lock with at   *)
(* most one owner, named by a token that owns the lock at most once.  A    *)
(* lock may be freed at any time, since a lease may expire.                *)
(***************************************************************************)
EXTENDS Naturals

CONSTANT Tasks

VARIABLES
  owner,   \* owner[t]: the token that owns the lock of t, 0 for none
  granted  \* every <<t, k>> that ever owned a lock

Init == owner = [t \in Tasks |-> 0] /\ granted = {}

\* The lock of t gets a new owner under a token that never owned it before.
Grant(t) ==
  LET k == owner'[t]
  IN  /\ owner[t] = 0
      /\ k \in Nat \ {0} /\ <<t, k>> \notin granted
      /\ owner' = [owner EXCEPT ![t] = k]
      /\ granted' = granted \cup {<<t, k>>}

Free(t) ==
  /\ owner[t] # 0
  /\ owner' = [owner EXCEPT ![t] = 0]
  /\ UNCHANGED granted

Next == \E t \in Tasks : Grant(t) \/ Free(t)

Spec == Init /\ [][Next]_<<owner, granted>>
=============================================================================
