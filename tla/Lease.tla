------------------------------- MODULE Lease -------------------------------
(***************************************************************************)
(* The Redis side of the task leases (internal/lease/redis.go): for each   *)
(* task a counter of fencing tokens and a key that holds the claimed lease *)
(* and expires.  The key's value is the process and the token; the token   *)
(* alone identifies a claim.  TryClaim is two commands, so its two halves  *)
(* are operators of their own; renewal only moves the expiry and is        *)
(* modelled where leases expire.                                           *)
(***************************************************************************)
EXTENDS Naturals

CONSTANT Tasks

VARIABLES
  fencing,  \* fencing[t]: the last token drawn for task t
  lease,    \* lease[t]: the token in the lease key, 0 when there is no key
  granted,  \* history: every <<t, k>> that ever held the key
  expired   \* history: every <<t, k>> whose key expired

leaseVars == <<fencing, lease, granted, expired>>

LeaseTypeOK ==
  /\ fencing \in [Tasks -> Nat]
  /\ lease \in [Tasks -> Nat]
  /\ granted \subseteq Tasks \X Nat
  /\ expired \subseteq Tasks \X Nat

LeaseInit ==
  /\ fencing = [t \in Tasks |-> 0]
  /\ lease = [t \in Tasks |-> 0]
  /\ granted = {} /\ expired = {}

\* Mutant: GET of the fencing key.
DrawSame(t) == UNCHANGED fencing

\* INCR of the fencing key: the caller's token is the new value.
DrawToken(t) == fencing' = [fencing EXCEPT ![t] = @ + 1]

\* Mutant: SET without NX.
SetAlways(t, k) ==
  lease' = [lease EXCEPT ![t] = k] /\ granted' = granted \cup {<<t, k>>}

\* SET NX PX of the lease key.
SetIfAbsent(t, k) ==
  IF lease[t] = 0
  THEN lease' = [lease EXCEPT ![t] = k] /\ granted' = granted \cup {<<t, k>>}
  ELSE UNCHANGED <<lease, granted>>

\* Mutant: DEL without comparing the value.
DeleteAny(t, k) == lease' = [lease EXCEPT ![t] = 0]

\* The script of Release: GET, compare, DEL.
DeleteIfEqual(t, k) == lease' = [lease EXCEPT ![t] = IF @ = k THEN 0 ELSE @]

\* Mutant: the key was set without PX.
ExpireNever(t) == FALSE /\ UNCHANGED <<lease, expired>>

\* The time to live of the key has passed without a renewal.
ExpireKey(t) ==
  /\ lease[t] # 0
  /\ lease' = [lease EXCEPT ![t] = 0]
  /\ expired' = expired \cup {<<t, lease[t]>>}
=============================================================================
