--------------------------- MODULE ApproveTracker ---------------------------
(***************************************************************************)
(* Token approvals: core/execution/approve.go.  Acquire and the audit hold *)
(* the tracker's mutex throughout, the wallet calls included; Release      *)
(* builds its revocation before it takes the mutex.  The wallet returns a  *)
(* built transaction, which Acquire and Release drop (approve.go:117 and   *)
(* 138): an allowance here is what the last one built for a token and      *)
(* spender would set it to once somebody sent it.                          *)
(***************************************************************************)
EXTENDS Integers

CONSTANTS
  Callers,     \* goroutines
  Keys,        \* token:spender pairs
  Needs,       \* amounts asked for
  PositionIds  \* "" when the caller names none

VARIABLES
  approvals,  \* key -> amount and position
  allowance,  \* external: key -> allowance after the transactions built so far
  releasing,  \* per caller: the key between revocation and removal
  crossed     \* history: keys acquired while a release of them was under way

vars == <<approvals, allowance, releasing, crossed>>

NoKey == "none"
Tracked == DOMAIN approvals
Amount(k) == IF k \in Tracked THEN approvals[k].amount ELSE 0

Record(k, n, p) ==
  approvals' = [j \in Tracked \cup {k} |->
                  IF j = k THEN [amount |-> n, position |-> p] ELSE approvals[j]]

Build(k, n) == allowance' = [allowance EXCEPT ![k] = n]

-----------------------------------------------------------------------------
(* Acquire: reuse an approval that suffices; otherwise revoke the old one and
   approve anew.  Either transaction may fail to be built; when the second
   does, the old entry stays though its revocation was built. *)
Reuse(k, n, p) ==
  /\ k \in Tracked /\ approvals[k].amount >= n
  /\ approvals' = [approvals EXCEPT ![k].position = IF p = "" THEN @ ELSE p]
  /\ UNCHANGED allowance

Approve(k, n, p) ==
  /\ Amount(k) < n
  /\ \/ Record(k, n, p) /\ Build(k, n)
     \/ k \in Tracked /\ Build(k, 0) /\ UNCHANGED approvals

Acquire(c, k, n, p) ==
  /\ releasing[c] = NoKey
  /\ Reuse(k, n, p) \/ Approve(k, n, p)
  /\ crossed' = IF \E d \in Callers : releasing[d] = k THEN crossed \cup {k} ELSE crossed
  /\ UNCHANGED releasing

(* Mutant: the entry goes, the allowance stays. *)
ReleaseUnrevoked(c, k) ==
  /\ releasing[c] = NoKey
  /\ releasing' = [releasing EXCEPT ![c] = k]
  /\ UNCHANGED <<approvals, allowance, crossed>>

(* Release, before the lock; a revocation that cannot be built ends it. *)
Release(c, k) ==
  /\ releasing[c] = NoKey
  /\ Build(k, 0)
  /\ releasing' = [releasing EXCEPT ![c] = k]
  /\ UNCHANGED <<approvals, crossed>>

(* Release, under the lock: whatever the key holds by now is forgotten. *)
Forget(c) ==
  /\ releasing[c] # NoKey
  /\ approvals' = [j \in Tracked \ {releasing[c]} |-> approvals[j]]
  /\ releasing' = [releasing EXCEPT ![c] = NoKey]
  /\ UNCHANGED <<allowance, crossed>>

(* Of the tracked keys only, those whose allowance differs. *)
AuditAll == {k \in Tracked : allowance[k] # approvals[k].amount}

Init ==
  /\ approvals = [k \in {} |-> 0]
  /\ allowance = [k \in Keys |-> 0]
  /\ releasing = [c \in Callers |-> NoKey]
  /\ crossed = {}

Next ==
  \E c \in Callers :
    \/ \E k \in Keys, n \in Needs, p \in PositionIds : Acquire(c, k, n, p)
    \/ \E k \in Keys : Release(c, k)
    \/ Forget(c)

Spec == Init /\ [][Next]_vars

-----------------------------------------------------------------------------
(* Types of the approvals and of the allowances. *)
TypeOK ==
  /\ Tracked \subseteq Keys
  /\ \A k \in Tracked : approvals[k] \in [amount : Needs, position : PositionIds]
  /\ allowance \in [Keys -> Needs \cup {0}]
  /\ releasing \in [Callers -> Keys \cup {NoKey}]
  /\ crossed \subseteq Keys

(* No spender is allowed more than the tracker knows of, nor anything the
   tracker has forgotten, whichever transactions could not be built, as long
   as no key is acquired between the two halves of its release. *)
AllowanceIsTracked == \A k \in Keys \ crossed : allowance[k] <= Amount(k)
=============================================================================
