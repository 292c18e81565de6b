---------------------------- MODULE NonceManager ----------------------------
(***************************************************************************)
(* The EVM nonce counter of the wallet: core/execution NonceManager.       *)
(* Every method holds NonceManager.mu, the RPC included, so each is one    *)
(* action.  A nonce is granted (GetNextNonce), broadcast by whoever holds  *)
(* it, acknowledged with a transaction hash, or cleared again.             *)
(***************************************************************************)
EXTENDS Integers, FiniteSets

CONSTANTS
  Hashes,     \* transaction hashes
  MaxNonce,   \* bound: no nonce above it is granted
  BaseNonces  \* what the chain may answer at first

ASSUME NonceBoundAssumption ==
  /\ MaxNonce \in Nat
  /\ BaseNonces \subseteq 0..MaxNonce
(* The value of a nonce that is reserved but not acknowledged yet. *)
Reserved == ""

ASSUME HashAssumption == Reserved \notin Hashes

VARIABLES
  nonce,        \* NonceManager.nonce, the next one to grant
  initialized,  \* NonceManager.initialized
  pending,      \* NonceManager.pending: nonce -> hash, or Reserved
  chainNext,    \* what PendingNonceAt answers
  granted,      \* history: nonces granted since the last read of the chain
  first         \* history: the nonce that read returned

nonceVars == <<nonce, initialized, pending, chainNext, granted, first>>

(* Types of the nonce manager. *)
NonceTypeOK ==
  /\ nonce \in Nat
  /\ initialized \in BOOLEAN
  /\ DOMAIN pending \subseteq 0..MaxNonce
  /\ \A n \in DOMAIN pending : pending[n] \in Hashes \cup {Reserved}
  /\ chainNext \in 0..(MaxNonce + 1)
  /\ granted \subseteq 0..MaxNonce
  /\ first \in Nat

-----------------------------------------------------------------------------
(* pending[n] = h on a Go map: the key is added or overwritten. *)
Put(n, h) ==
  [m \in DOMAIN pending \cup {n} |-> IF m = n THEN h ELSE pending[m]]

Without(n) == [m \in DOMAIN pending \ {n} |-> pending[m]]

(* The nonce GetNextNonce returns: the first call reads it from the chain. *)
NextNonce == IF initialized THEN nonce ELSE chainNext

GetNextNonce ==
  /\ NextNonce <= MaxNonce
  /\ nonce' = NextNonce + 1
  /\ initialized' = TRUE
  /\ pending' = Put(NextNonce, Reserved)
  /\ granted' = granted \cup {NextNonce}
  /\ first' = IF initialized THEN first ELSE NextNonce
  /\ UNCHANGED chainNext

(* InitializeNonce: a fresh read replaces the counter; reservations stay. *)
InitializeNonce ==
  /\ nonce' = chainNext
  /\ initialized' = TRUE
  /\ granted' = {}
  /\ first' = chainNext
  /\ UNCHANGED <<pending, chainNext>>

(* AcknowledgeNonce keeps the nonce in the map, now with its hash. *)
AcknowledgeNonce(n, h) ==
  /\ pending' = Put(n, h)
  /\ UNCHANGED <<nonce, initialized, chainNext, granted, first>>

(* Mutant: a cleared nonce is handed back to the counter. *)
ClearPendingGivesBack(n) ==
  /\ pending' = Without(n)
  /\ nonce' = n
  /\ UNCHANGED <<initialized, chainNext, granted, first>>

ClearPending(n) ==
  /\ pending' = Without(n)
  /\ UNCHANGED <<nonce, initialized, chainNext, granted, first>>

IsNonceAvailable(n) == initialized => n >= nonce

-----------------------------------------------------------------------------
(* The node has seen a transaction with the nonce it expected next. *)
NodeAccepts ==
  /\ chainNext \in granted
  /\ chainNext' = chainNext + 1
  /\ UNCHANGED <<nonce, initialized, pending, granted, first>>

(* The node evicts transactions, or another, lagging endpoint answers. *)
NodeForgets ==
  /\ chainNext' \in {n \in BaseNonces : n < chainNext}
  /\ UNCHANGED <<nonce, initialized, pending, granted, first>>

NonceInit ==
  /\ nonce = 0
  /\ initialized = FALSE
  /\ pending = [n \in {} |-> Reserved]
  /\ chainNext \in BaseNonces
  /\ granted = {}
  /\ first = 0

NonceNext ==
  \/ GetNextNonce
  \/ InitializeNonce
  \/ \E n \in granted, h \in Hashes : AcknowledgeNonce(n, h)
  \/ \E n \in granted : ClearPending(n)
  \/ NodeAccepts
  \/ NodeForgets

NonceSpec == NonceInit /\ [][NonceNext]_nonceVars

-----------------------------------------------------------------------------
(* Between two reads of the chain the granted nonces are exactly the interval
   from the one read up to the counter: no hole and no repetition, whatever
   is acknowledged or cleared meanwhile. *)
GrantedIsAnInterval ==
  initialized => granted = {n \in 0..MaxNonce : first <= n /\ n < nonce}

(* A nonce that IsNonceAvailable offers has not been granted since the chain
   was last read. *)
AvailableNotGranted ==
  \A n \in 0..MaxNonce : initialized /\ IsNonceAvailable(n) => n \notin granted

(* Nobody is granted a nonce that is already out: the fresh key is new to the
   set of grants, even when its reservation was cleared. *)
EveryGrantIsFresh ==
  [][GetNextNonce /\ initialized => nonce \notin granted]_nonceVars
=============================================================================
