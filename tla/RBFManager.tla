----------------------------- MODULE RBFManager -----------------------------
(***************************************************************************)
(* Replace-by-fee for stuck transactions: core/execution RBFManager over   *)
(* the nonce manager it draws from.  Both mutexes are held across an       *)
(* attempt (RBFManager.mu, then NonceManager.mu), so an attempt is one     *)
(* action.  The caller that sent the original transactions is external.    *)
(* The fee of a replacement decides nothing and is left out.               *)
(***************************************************************************)
EXTENDS NonceManager

CONSTANTS
  MaxAttempts,   \* RBFConfig.MaxAttempts
  MaxRecorded    \* bound on attempts counted by RecordAttempt

ASSUME AttemptsAssumption == MaxAttempts \in Nat \ {0} /\ MaxRecorded \in Nat

VARIABLES
  txs,       \* RBFManager.txs: tracked hash -> nonce and attempts
  orig,      \* external: hash -> nonce it was sent with
  made,      \* history: replacements per hash since it was last cleared
  clean      \* history: no read of the chain went back behind a grant, and
             \* no RecordAttempt created an entry

rbfVars == <<txs, orig, made, clean>>
vars == <<nonceVars, rbfVars>>

Tracked == DOMAIN txs

(* Types of both managers. *)
TypeOK ==
  /\ NonceTypeOK
  /\ Tracked \subseteq DOMAIN orig /\ DOMAIN orig \subseteq Hashes
  /\ \A h \in Tracked : txs[h].nonce \in 0..MaxNonce /\ txs[h].attempts \in Nat
  /\ \A h \in DOMAIN orig : orig[h] \in 0..MaxNonce
  /\ made \in [Hashes -> Nat]
  /\ clean \in BOOLEAN

-----------------------------------------------------------------------------
CanRBF(h) == h \in Tracked => txs[h].attempts < MaxAttempts

Track(h, n, k) ==
  [g \in Tracked \cup {h} |->
     IF g = h THEN [nonce |-> n, attempts |-> k] ELSE txs[g]]

Attempts(h) == IF h \in Tracked THEN txs[h].attempts ELSE 0

(* Mutant: the entry is moved on to the next nonce. *)
ReplaceMovingOn(h, n) ==
  /\ txs' = Track(h, n + 1, Attempts(h) + 1)
  /\ made' = [made EXCEPT ![h] = @ + 1]
  /\ UNCHANGED <<orig, clean>>

(* The replacement for h is built with nonce n, which the entry then holds. *)
Replace(h, n) ==
  /\ txs' = Track(h, n, Attempts(h) + 1)
  /\ made' = [made EXCEPT ![h] = @ + 1]
  /\ UNCHANGED <<orig, clean>>

(* Mutants: the next nonce is looked up but not taken, and every attempt
   takes a fresh one. *)
AttemptRBFPeeking(h) ==
  /\ CanRBF(h)
  /\ \/ h \in Tracked /\ Replace(h, txs[h].nonce)
     \/ h \notin Tracked /\ NextNonce <= MaxNonce /\ Replace(h, NextNonce)
  /\ UNCHANGED nonceVars

AttemptRBFAlwaysFresh(h) ==
  CanRBF(h) /\ GetNextNonce /\ Replace(h, NextNonce)

(* AttemptRBF: a tracked hash keeps its nonce; an untracked one is given the
   next nonce of the manager, for the RBF state knows no other. *)
AttemptRBF(h) ==
  /\ CanRBF(h)
  /\ \/ h \in Tracked /\ Replace(h, txs[h].nonce) /\ UNCHANGED nonceVars
     \/ h \notin Tracked /\ GetNextNonce /\ Replace(h, NextNonce)

AttemptRBFWithOriginal(h) ==
  /\ CanRBF(h)
  /\ Replace(h, orig[h])
  /\ UNCHANGED nonceVars

(* RecordAttempt: no limit is checked, and a new entry has Go's zero nonce. *)
RecordAttempt(h) ==
  /\ Attempts(h) < MaxRecorded
  /\ txs' = Track(h, IF h \in Tracked THEN txs[h].nonce ELSE 0, Attempts(h) + 1)
  /\ clean' = (clean /\ h \in Tracked)
  /\ UNCHANGED <<nonceVars, orig, made>>

ClearAttempts(h) ==
  /\ h \in Tracked
  /\ txs' = [g \in Tracked \ {h} |-> txs[g]]
  /\ made' = [made EXCEPT ![h] = 0]
  /\ UNCHANGED <<nonceVars, orig, clean>>

-----------------------------------------------------------------------------
(* External: the caller reserves a nonce and sends h with it. *)
SendOriginal(h) ==
  /\ h \notin DOMAIN orig
  /\ GetNextNonce
  /\ orig' = [g \in DOMAIN orig \cup {h} |-> IF g = h THEN NextNonce ELSE orig[g]]
  /\ UNCHANGED <<txs, made, clean>>

(* A new read of the chain may set the counter back behind grants. *)
Reinitialize ==
  /\ InitializeNonce
  /\ clean' = (clean /\ (initialized => chainNext >= nonce))
  /\ UNCHANGED <<txs, orig, made>>

(* The rest of the nonce manager and its node: whoever sent h acknowledges or
   clears the nonce it was given. *)
UseNonces ==
  /\ \/ GetNextNonce \/ NodeAccepts \/ NodeForgets
     \/ \E h \in DOMAIN orig : AcknowledgeNonce(orig[h], h) \/ ClearPending(orig[h])
  /\ UNCHANGED rbfVars

Init ==
  /\ NonceInit
  /\ txs = [h \in {} |-> 0] /\ orig = [h \in {} |-> 0]
  /\ made = [h \in Hashes |-> 0]
  /\ clean = TRUE

Next ==
  \/ \E h \in Hashes : SendOriginal(h)
  \/ \E h \in DOMAIN orig :
       \/ AttemptRBF(h)
       \/ AttemptRBFWithOriginal(h)
       \/ RecordAttempt(h)
       \/ ClearAttempts(h)
  \/ Reinitialize
  \/ UseNonces

Spec == Init /\ [][Next]_vars

-----------------------------------------------------------------------------
(* However the two ways of replacing, RecordAttempt and ClearAttempts are
   mixed, no transaction is replaced more than MaxAttempts times between two
   clearings. *)
ReplacementsBounded == \A h \in Hashes : made[h] <= MaxAttempts

(* A replacement never takes the nonce of another caller's transaction, and
   two tracked transactions never hold the same nonce, while the counter was
   not rewound and every entry was created by an attempt. *)
NoForeignNonce ==
  clean => \A h \in Tracked :
    /\ \A g \in Tracked \ {h} : txs[g].nonce # txs[h].nonce
    /\ \A g \in DOMAIN orig \ {h} : orig[g] # txs[h].nonce

(* Once the RBF state holds the nonce of the original transaction, further
   attempts of either kind keep it until the entry is cleared. *)
OriginalNonceSticks ==
  [][\A h \in Tracked :
       h \in DOMAIN txs' /\ txs[h].nonce = orig[h] => txs'[h].nonce = orig'[h]]_vars

-----------------------------------------------------------------------------
(* rbf.go, AttemptRBF: "Create replacement transaction with same nonce": a
   replacement is built with the nonce of the transaction it replaces. *)
ReplacementKeepsNonce ==
  [][\A h \in DOMAIN orig : made'[h] > made[h] => txs'[h].nonce = orig[h]]_vars
=============================================================================
