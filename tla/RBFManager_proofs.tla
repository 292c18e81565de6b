-------------------------- MODULE RBFManager_proofs --------------------------
(***************************************************************************)
(* Proofs about RBFManager over NonceManager, for any hashes, any bounds   *)
(* and any first answers of the chain.  The nonce manager's steps are      *)
(* proved once, as lemmas about its six variables; the steps of the RBF    *)
(* manager cite them.                                                      *)
(***************************************************************************)
EXTENDS RBFManager, TLAPS

(* What the nonce manager keeps by itself. *)
NonceInv ==
  /\ NonceTypeOK
  /\ GrantedIsAnInterval
  /\ first <= nonce
  /\ ~initialized => granted = {}

-----------------------------------------------------------------------------
(* The steps of the nonce manager. *)

LEMMA NonceInitHolds == NonceInit => NonceInv
<1> SUFFICES ASSUME NonceInit PROVE NonceInv
  OBVIOUS
<1>1. DOMAIN pending = {}
  BY DEF NonceInit
<1>2. chainNext \in 0..(MaxNonce + 1)
  BY NonceBoundAssumption DEF NonceInit
<1>3. NonceTypeOK
  BY <1>1, <1>2 DEF NonceInit, NonceTypeOK
<1>4. QED
  BY <1>3 DEF NonceInit, NonceInv, GrantedIsAnInterval

(* A grant yields a nonce within the bound and leaves the counter above it;
   the nonce is new to the grants. *)
LEMMA GrantStep ==
  ASSUME NonceInv, GetNextNonce
  PROVE  /\ NonceInv'
         /\ NextNonce \in 0..MaxNonce
         /\ initialized' /\ nonce' = NextNonce + 1
         /\ initialized => NextNonce = nonce
         /\ NextNonce \notin granted
<1>1. NextNonce \in 0..MaxNonce /\ nonce' = NextNonce + 1 /\ initialized' = TRUE
  BY NonceBoundAssumption DEF NonceInv, NonceTypeOK, GetNextNonce, NextNonce
<1>2. NonceTypeOK'
  <2>1. DOMAIN pending' = DOMAIN pending \cup {NextNonce}
    BY DEF GetNextNonce, Put
  <2>2. \A n \in DOMAIN pending' : pending'[n] \in Hashes \cup {Reserved}
    BY DEF GetNextNonce, Put, NonceInv, NonceTypeOK
  <2>3. granted' = granted \cup {NextNonce} /\ chainNext' = chainNext /\ first' \in Nat
    BY <1>1 DEF GetNextNonce, NonceInv, NonceTypeOK
  <2>4. QED
    BY <1>1, <2>1, <2>2, <2>3 DEF NonceInv, NonceTypeOK
<1>3. granted' = granted \cup {NextNonce} /\ first' = (IF initialized THEN first ELSE NextNonce)
  BY DEF GetNextNonce
<1>4. first <= nonce /\ first \in Nat /\ nonce \in Nat /\ granted \subseteq 0..MaxNonce
  BY DEF NonceInv, NonceTypeOK
<1>5. /\ GrantedIsAnInterval' /\ first' <= nonce'
      /\ initialized => NextNonce = nonce
      /\ NextNonce \notin granted
  <2>1. CASE initialized
    <3>1. granted = {n \in 0..MaxNonce : first <= n /\ n < nonce} /\ NextNonce = nonce
      BY <2>1 DEF NonceInv, GrantedIsAnInterval, NextNonce
    <3>2. granted' = {n \in 0..MaxNonce : first' <= n /\ n < nonce'}
      BY <1>1, <1>3, <1>4, <2>1, <3>1
    <3>3. QED
      BY <1>1, <1>3, <1>4, <2>1, <3>1, <3>2 DEF GrantedIsAnInterval
  <2>2. CASE ~initialized
    <3>1. granted = {}
      BY <2>2 DEF NonceInv
    <3>2. granted' = {n \in 0..MaxNonce : first' <= n /\ n < nonce'}
      BY <1>1, <1>3, <2>2, <3>1
    <3>3. QED
      BY <1>1, <1>3, <2>2, <3>1, <3>2 DEF GrantedIsAnInterval
  <2>3. QED
    BY <2>1, <2>2
<1>6. QED
  BY <1>1, <1>2, <1>5 DEF NonceInv

(* A new read of the chain restarts the history of grants. *)
LEMMA InitializeStep ==
  ASSUME NonceInv, InitializeNonce
  PROVE  NonceInv' /\ initialized' /\ nonce' = chainNext
<1>1. NonceTypeOK'
  BY DEF NonceInv, NonceTypeOK, InitializeNonce
<1>2. /\ granted' = {} /\ initialized' = TRUE
      /\ first' = chainNext /\ nonce' = chainNext /\ chainNext \in Nat
  BY NonceBoundAssumption DEF NonceInv, NonceTypeOK, InitializeNonce
<1>3. GrantedIsAnInterval'
  BY <1>2 DEF GrantedIsAnInterval
<1>4. QED
  BY <1>1, <1>2, <1>3 DEF NonceInv

(* The steps that leave the counter and the grants alone. *)
LEMMA OtherNonceStep ==
  ASSUME NonceInv,
         \/ NodeAccepts \/ NodeForgets \/ UNCHANGED nonceVars
         \/ \E n \in 0..MaxNonce : ClearPending(n)
         \/ \E n \in 0..MaxNonce, h \in Hashes : AcknowledgeNonce(n, h)
  PROVE  /\ NonceInv'
         /\ nonce' = nonce /\ initialized' = initialized /\ granted' = granted
<1>1. /\ nonce' = nonce /\ initialized' = initialized
      /\ granted' = granted /\ first' = first
  BY DEF NodeAccepts, NodeForgets, nonceVars, ClearPending, AcknowledgeNonce
<1>2. chainNext' \in 0..(MaxNonce + 1)
  <2>1. CASE NodeAccepts
    BY <2>1, NonceBoundAssumption DEF NodeAccepts, NonceInv, NonceTypeOK
  <2>2. CASE NodeForgets
    BY <2>2, NonceBoundAssumption DEF NodeForgets
  <2>3. CASE chainNext' = chainNext
    BY <2>3 DEF NonceInv, NonceTypeOK
  <2>4. QED
    BY <2>1, <2>2, <2>3 DEF nonceVars, ClearPending, AcknowledgeNonce
<1>3. /\ DOMAIN pending' \subseteq 0..MaxNonce
      /\ \A n \in DOMAIN pending' : pending'[n] \in Hashes \cup {Reserved}
  <2>1. CASE \E n \in 0..MaxNonce : ClearPending(n)
    BY <2>1 DEF ClearPending, Without, NonceInv, NonceTypeOK
  <2>2. CASE \E n \in 0..MaxNonce, h \in Hashes : AcknowledgeNonce(n, h)
    BY <2>2 DEF AcknowledgeNonce, Put, NonceInv, NonceTypeOK
  <2>3. CASE pending' = pending
    BY <2>3 DEF NonceInv, NonceTypeOK
  <2>4. QED
    BY <2>1, <2>2, <2>3 DEF nonceVars, NodeAccepts, NodeForgets
<1>4. NonceTypeOK'
  BY <1>1, <1>2, <1>3 DEF NonceInv, NonceTypeOK
<1>5. GrantedIsAnInterval'
  BY <1>1 DEF NonceInv, GrantedIsAnInterval
<1>6. QED
  BY <1>1, <1>4, <1>5 DEF NonceInv

-----------------------------------------------------------------------------
(* The invariant of the RBF manager: what it keeps of its own entries, and,
   while clean, that every nonce in use lies below the counter and that those
   of different transactions differ. *)
Bounded ==
  \A h \in Hashes : made[h] <= Attempts(h) /\ made[h] <= MaxAttempts

BelowCounter ==
  /\ ~initialized => DOMAIN orig = {}
  /\ \A h \in DOMAIN orig : orig[h] < nonce
  /\ \A h \in Tracked : txs[h].nonce < nonce
  /\ \A g, h \in DOMAIN orig : g # h => orig[g] # orig[h]

IInv == TypeOK /\ NonceInv /\ Bounded /\ (clean => BelowCounter) /\ NoForeignNonce

LEMMA InitHolds == Init => IInv
<1> SUFFICES ASSUME Init PROVE IInv
  OBVIOUS
<1>1. NonceInv
  BY NonceInitHolds DEF Init
<1>2. Tracked = {} /\ DOMAIN orig = {}
  BY DEF Init, Tracked
<1>3. TypeOK
  BY <1>1, <1>2 DEF Init, TypeOK, NonceInv
<1>4. Bounded
  BY <1>2, AttemptsAssumption DEF Init, Bounded, Attempts
<1>5. QED
  BY <1>1, <1>2, <1>3, <1>4 DEF IInv, BelowCounter, NoForeignNonce

(* A replacement of h under n, when h may be replaced: the entries and counts
   stay within bounds.  The nonce manager's step may be anything that keeps
   NonceInv. *)
LEMMA ReplaceKeepsBounds ==
  ASSUME IInv, NonceInv', NEW h \in DOMAIN orig, NEW n \in 0..MaxNonce,
         CanRBF(h), Replace(h, n)
  PROVE  /\ TypeOK' /\ Bounded'
         /\ Tracked' = Tracked \cup {h} /\ txs'[h].nonce = n
         /\ \A g \in Tracked \ {h} : txs'[g] = txs[g]
<1>1. /\ h \in Hashes /\ made \in [Hashes -> Nat]
      /\ Tracked \subseteq DOMAIN orig /\ DOMAIN orig \subseteq Hashes
      /\ \A g \in Tracked : txs[g].nonce \in 0..MaxNonce /\ txs[g].attempts \in Nat
  BY DEF IInv, TypeOK
<1>2. Attempts(h) \in Nat
  BY <1>1 DEF Attempts
<1>3. txs' = [g \in Tracked \cup {h} |->
                IF g = h THEN [nonce |-> n, attempts |-> Attempts(h) + 1] ELSE txs[g]]
  BY DEF Replace, Track
<1>4. /\ Tracked' = Tracked \cup {h}
      /\ txs'[h].nonce = n /\ txs'[h].attempts = Attempts(h) + 1
      /\ \A g \in Tracked \ {h} : txs'[g] = txs[g]
  BY <1>3 DEF Tracked
<1>5. made' = [made EXCEPT ![h] = @ + 1] /\ orig' = orig /\ clean' = clean
  BY DEF Replace
<1>6. \A g \in Tracked' : txs'[g].nonce \in 0..MaxNonce /\ txs'[g].attempts \in Nat
  BY <1>1, <1>2, <1>4
<1>7. made' \in [Hashes -> Nat]
  BY <1>1, <1>5
<1>8. TypeOK'
  BY <1>1, <1>4, <1>5, <1>6, <1>7 DEF TypeOK, IInv, NonceInv
<1>9. Bounded'
  <2>1. made[h] <= Attempts(h) /\ Attempts(h) < MaxAttempts
    <3>1. CASE h \in Tracked
      BY <1>1, <3>1 DEF IInv, Bounded, CanRBF, Attempts
    <3>2. CASE h \notin Tracked
      BY <1>1, <3>2, AttemptsAssumption DEF IInv, Bounded, Attempts
    <3>3. QED
      BY <3>1, <3>2
  <2>2. made'[h] = made[h] + 1 /\ Attempts(h)' = Attempts(h) + 1
    BY <1>1, <1>4, <1>5 DEF Attempts
  <2>3. ASSUME NEW g \in Hashes \ {h}
        PROVE  made'[g] = made[g] /\ Attempts(g)' = Attempts(g)
    BY <1>1, <1>4, <1>5 DEF Attempts
  <2>4. QED
    BY <1>1, <1>2, <2>1, <2>2, <2>3, AttemptsAssumption DEF IInv, Bounded
<1>10. QED
  BY <1>4, <1>8, <1>9

(* A replacement under the nonce of the entry, under that of the original, or
   under one that nobody has used keeps the transactions apart. *)
LEMMA ReplaceKeepsIInv ==
  ASSUME IInv, NonceInv', NEW h \in DOMAIN orig, NEW n \in 0..MaxNonce,
         CanRBF(h), Replace(h, n),
         clean => nonce <= nonce' /\ n < nonce',
         initialized => initialized',
         \/ h \in Tracked /\ n = txs[h].nonce
         \/ n = orig[h]
         \/ clean => n >= nonce
  PROVE  IInv'
<1>1. /\ TypeOK' /\ Bounded'
      /\ Tracked' = Tracked \cup {h} /\ txs'[h].nonce = n
      /\ \A g \in Tracked \ {h} : txs'[g] = txs[g]
  BY ReplaceKeepsBounds
<1>2. orig' = orig /\ clean' = clean
  BY DEF Replace
<1>3. /\ Tracked \subseteq DOMAIN orig
      /\ \A g \in Tracked : txs[g].nonce \in Nat
      /\ \A g \in DOMAIN orig : orig[g] \in Nat
      /\ nonce \in Nat /\ nonce' \in Nat /\ n \in Nat
  BY NonceBoundAssumption DEF IInv, TypeOK, NonceTypeOK, NonceInv
<1>4. ASSUME clean
      PROVE  BelowCounter'
  <2>1. BelowCounter
    BY <1>4 DEF IInv
  <2>2. initialized'
    BY <2>1 DEF BelowCounter
  <2>3. \A g \in DOMAIN orig' : orig'[g] < nonce'
    BY <1>2, <1>3, <1>4, <2>1 DEF BelowCounter
  <2>4. \A g \in Tracked' : txs'[g].nonce < nonce'
    BY <1>1, <1>3, <1>4, <2>1 DEF BelowCounter
  <2>5. QED
    BY <1>2, <2>1, <2>2, <2>3, <2>4 DEF BelowCounter
<1>5. ASSUME clean, NEW g \in DOMAIN orig \ {h}
      PROVE  orig[g] # n /\ (g \in Tracked => txs[g].nonce # n)
  <2>1. BelowCounter
    BY <1>5 DEF IInv
  <2>2. CASE h \in Tracked /\ n = txs[h].nonce
    BY <1>5, <2>2 DEF IInv, NoForeignNonce
  <2>3. CASE n = orig[h]
    BY <1>5, <2>1, <2>3 DEF IInv, NoForeignNonce, BelowCounter
  <2>4. CASE n >= nonce
    BY <1>3, <1>5, <2>1, <2>4 DEF BelowCounter
  <2>5. QED
    BY <1>5, <2>2, <2>3, <2>4
<1>6. NoForeignNonce'
  <2>1. SUFFICES ASSUME clean, NEW g \in Tracked'
                 PROVE  /\ \A k \in Tracked' \ {g} : txs'[k].nonce # txs'[g].nonce
                        /\ \A k \in DOMAIN orig' \ {g} : orig'[k] # txs'[g].nonce
    BY <1>2 DEF NoForeignNonce
  <2>2. CASE g = h
    BY <1>1, <1>2, <1>3, <1>5, <2>1, <2>2
  <2>3. CASE g # h
    <3>1. g \in Tracked /\ txs'[g] = txs[g] /\ txs[g].nonce # n
      BY <1>1, <1>3, <1>5, <2>1, <2>3
    <3>2. \A k \in Tracked \ {g} : txs[k].nonce # txs[g].nonce
      BY <2>1, <3>1 DEF IInv, NoForeignNonce
    <3>3. \A k \in DOMAIN orig \ {g} : orig[k] # txs[g].nonce
      BY <2>1, <3>1 DEF IInv, NoForeignNonce
    <3>4. QED
      BY <1>1, <1>2, <3>1, <3>2, <3>3
  <2>4. QED
    BY <2>2, <2>3
<1>7. QED
  BY <1>1, <1>2, <1>4, <1>6 DEF IInv

LEMMA AttemptKeepsIInv ==
  ASSUME IInv, NEW h \in DOMAIN orig, AttemptRBF(h) \/ AttemptRBFWithOriginal(h)
  PROVE  IInv'
<1>1. CanRBF(h) /\ NonceInv /\ nonce \in Nat
  BY DEF AttemptRBF, AttemptRBFWithOriginal, IInv, NonceInv, NonceTypeOK
<1>2. ASSUME NEW n \in 0..MaxNonce, Replace(h, n), UNCHANGED nonceVars,
             (h \in Tracked /\ n = txs[h].nonce) \/ n = orig[h]
      PROVE  IInv'
  <2>1. NonceInv' /\ nonce' = nonce /\ initialized' = initialized
    BY <1>1, <1>2, OtherNonceStep
  <2>2. clean => n < nonce
    BY <1>2 DEF IInv, BelowCounter
  <2>3. QED
    BY <1>1, <1>2, <2>1, <2>2, ReplaceKeepsIInv
<1>3. CASE h \in Tracked /\ Replace(h, txs[h].nonce) /\ UNCHANGED nonceVars
  <2>1. txs[h].nonce \in 0..MaxNonce
    BY <1>3 DEF IInv, TypeOK
  <2>2. QED
    BY <1>2, <1>3, <2>1
<1>4. CASE Replace(h, orig[h]) /\ UNCHANGED nonceVars
  <2>1. orig[h] \in 0..MaxNonce
    BY DEF IInv, TypeOK
  <2>2. QED
    BY <1>2, <1>4, <2>1
<1>5. CASE GetNextNonce /\ Replace(h, NextNonce)
  <2>1. /\ NonceInv' /\ NextNonce \in 0..MaxNonce
        /\ initialized' /\ nonce' = NextNonce + 1
        /\ initialized => NextNonce = nonce
    BY <1>1, <1>5, GrantStep
  <2>2. clean => initialized
    BY DEF IInv, BelowCounter
  <2>3. clean => nonce <= nonce' /\ NextNonce < nonce' /\ NextNonce >= nonce
    BY <1>1, <2>1, <2>2
  <2>4. QED
    BY <1>1, <1>5, <2>1, <2>3, ReplaceKeepsIInv
<1>6. QED
  BY <1>3, <1>4, <1>5 DEF AttemptRBF, AttemptRBFWithOriginal

LEMMA RecordKeepsIInv ==
  ASSUME IInv, NEW h \in DOMAIN orig, RecordAttempt(h)
  PROVE  IInv'
<1>1. NonceInv' /\ nonce' = nonce /\ initialized' = initialized
  BY OtherNonceStep DEF IInv, RecordAttempt
<1>2. /\ Tracked \subseteq DOMAIN orig /\ DOMAIN orig \subseteq Hashes
      /\ \A g \in Tracked : txs[g].nonce \in 0..MaxNonce /\ txs[g].attempts \in Nat
      /\ made \in [Hashes -> Nat]
  BY DEF IInv, TypeOK
<1>3. Attempts(h) \in Nat
  BY <1>2 DEF Attempts
<1>4. txs' = [g \in Tracked \cup {h} |->
                IF g = h THEN [nonce |-> IF h \in Tracked THEN txs[h].nonce ELSE 0,
                               attempts |-> Attempts(h) + 1]
                ELSE txs[g]]
  BY DEF RecordAttempt, Track
<1>5. /\ Tracked' = Tracked \cup {h}
      /\ txs'[h].nonce = (IF h \in Tracked THEN txs[h].nonce ELSE 0)
      /\ txs'[h].attempts = Attempts(h) + 1
      /\ \A g \in Tracked \ {h} : txs'[g] = txs[g]
  BY <1>4 DEF Tracked
<1>6. orig' = orig /\ made' = made /\ clean' = (clean /\ h \in Tracked)
  BY DEF RecordAttempt
<1>7. TypeOK'
  <2>1. \A g \in Tracked' : txs'[g].nonce \in 0..MaxNonce /\ txs'[g].attempts \in Nat
    BY <1>2, <1>3, <1>5, NonceBoundAssumption
  <2>2. clean' \in BOOLEAN
    BY <1>6, Zenon DEF IInv, TypeOK
  <2>3. QED
    BY <1>1, <1>2, <1>5, <1>6, <2>1, <2>2 DEF IInv, TypeOK, NonceInv
<1>8. Bounded'
  <2>1. \A g \in Hashes : Attempts(g) \in Nat /\ Attempts(g)' >= Attempts(g)
    BY <1>2, <1>3, <1>5 DEF Attempts
  <2>2. ASSUME NEW g \in Hashes
        PROVE  made'[g] <= Attempts(g)' /\ made'[g] <= MaxAttempts
    <3>1. made[g] <= Attempts(g) /\ made[g] <= MaxAttempts /\ made[g] \in Nat
      BY <1>2 DEF IInv, Bounded
    <3>2. Attempts(g)' \in Nat
      BY <1>2, <1>3, <1>5 DEF Attempts
    <3>3. QED
      BY <1>6, <2>1, <3>1, <3>2
  <2>3. QED
    BY <2>2 DEF Bounded
<1>9. ASSUME clean'
      PROVE  BelowCounter' /\ NoForeignNonce'
  <2>1. /\ BelowCounter /\ NoForeignNonce /\ clean
        /\ Tracked' = Tracked /\ \A g \in Tracked : txs'[g].nonce = txs[g].nonce
    BY <1>5, <1>6, <1>9 DEF IInv
  <2>2. QED
    BY <1>1, <1>6, <2>1 DEF BelowCounter, NoForeignNonce
<1>10. QED
  BY <1>1, <1>7, <1>8, <1>9 DEF IInv, NoForeignNonce

LEMMA ClearKeepsIInv ==
  ASSUME IInv, NEW h \in DOMAIN orig, ClearAttempts(h)
  PROVE  IInv'
<1>1. NonceInv' /\ nonce' = nonce /\ initialized' = initialized
  BY OtherNonceStep DEF IInv, ClearAttempts
<1>2. /\ Tracked \subseteq DOMAIN orig /\ DOMAIN orig \subseteq Hashes
      /\ \A g \in Tracked : txs[g].nonce \in 0..MaxNonce /\ txs[g].attempts \in Nat
      /\ made \in [Hashes -> Nat]
  BY DEF IInv, TypeOK
<1>3. /\ Tracked' = Tracked \ {h}
      /\ \A g \in Tracked \ {h} : txs'[g] = txs[g]
  BY DEF ClearAttempts, Tracked
<1>4. /\ orig' = orig /\ clean' = clean
      /\ made' = [made EXCEPT ![h] = 0]
  BY DEF ClearAttempts
<1>5. TypeOK'
  BY <1>1, <1>2, <1>3, <1>4 DEF IInv, TypeOK, NonceInv
<1>6. Bounded'
  <2>1. ASSUME NEW g \in Hashes
        PROVE  made'[g] <= Attempts(g)' /\ made'[g] <= MaxAttempts
    <3>1. CASE g = h
      BY <1>2, <1>3, <1>4, <3>1, AttemptsAssumption DEF Attempts
    <3>2. CASE g # h
      BY <1>2, <1>3, <1>4, <3>2 DEF IInv, Bounded, Attempts
    <3>3. QED
      BY <3>1, <3>2
  <2>2. QED
    BY <2>1 DEF Bounded
<1>7. ASSUME clean
      PROVE  BelowCounter' /\ NoForeignNonce'
  BY <1>1, <1>3, <1>4, <1>7 DEF IInv, BelowCounter, NoForeignNonce
<1>8. QED
  BY <1>1, <1>4, <1>5, <1>6, <1>7 DEF IInv, NoForeignNonce

LEMMA SendKeepsIInv ==
  ASSUME IInv, NEW h \in Hashes, SendOriginal(h)
  PROVE  IInv'
<1>1. /\ NonceInv' /\ NextNonce \in 0..MaxNonce /\ nonce \in Nat
      /\ initialized' /\ nonce' = NextNonce + 1
      /\ initialized => NextNonce = nonce
  BY GrantStep DEF IInv, SendOriginal, NonceInv, NonceTypeOK
<1>2. /\ h \notin DOMAIN orig
      /\ DOMAIN orig' = DOMAIN orig \cup {h} /\ orig'[h] = NextNonce
      /\ \A g \in DOMAIN orig : orig'[g] = orig[g]
      /\ txs' = txs /\ made' = made /\ clean' = clean /\ Tracked' = Tracked
  BY DEF SendOriginal, Tracked
<1>3. /\ Tracked \subseteq DOMAIN orig
      /\ \A g \in Tracked : txs[g].nonce \in Nat
      /\ \A g \in DOMAIN orig : orig[g] \in 0..MaxNonce
  BY DEF IInv, TypeOK
<1>4. TypeOK'
  BY <1>1, <1>2, <1>3 DEF IInv, TypeOK, NonceInv
<1>5. Bounded'
  BY <1>2 DEF IInv, Bounded, Attempts
<1>6. ASSUME clean
      PROVE  /\ \A g \in DOMAIN orig : orig[g] < NextNonce
             /\ \A g \in Tracked : txs[g].nonce < NextNonce
  BY <1>1, <1>3, <1>6 DEF IInv, BelowCounter
<1>7. ASSUME clean
      PROVE  BelowCounter'
  <2>1. \A g \in DOMAIN orig' : orig'[g] < nonce'
    BY <1>1, <1>2, <1>3, <1>6, <1>7
  <2>2. \A g \in Tracked' : txs'[g].nonce < nonce'
    BY <1>1, <1>2, <1>3, <1>6, <1>7
  <2>3. \A g, k \in DOMAIN orig' : g # k => orig'[g] # orig'[k]
    BY <1>1, <1>2, <1>3, <1>6, <1>7 DEF IInv, BelowCounter
  <2>4. QED
    BY <1>1, <2>1, <2>2, <2>3 DEF BelowCounter
<1>8. NoForeignNonce'
  BY <1>1, <1>2, <1>3, <1>6 DEF IInv, NoForeignNonce
<1>9. QED
  BY <1>1, <1>2, <1>4, <1>5, <1>7, <1>8 DEF IInv

(* The other steps leave the entries alone. *)
LEMMA NonceStepKeepsIInv ==
  ASSUME IInv, Reinitialize \/ UseNonces \/ UNCHANGED vars
  PROVE  IInv'
<1>1. txs' = txs /\ orig' = orig /\ made' = made /\ Tracked' = Tracked
  BY DEF Reinitialize, UseNonces, rbfVars, vars, Tracked
<1>2. NonceInv /\ nonce \in Nat /\ TypeOK
  BY DEF IInv, NonceInv, NonceTypeOK
<1>3. /\ NonceInv' /\ clean' \in BOOLEAN /\ (initialized => initialized')
      /\ clean' => clean /\ (initialized => nonce <= nonce')
  <2>1. CASE Reinitialize
    <3>1. NonceInv' /\ initialized' /\ nonce' = chainNext
      BY <1>2, <2>1, InitializeStep DEF Reinitialize
    <3>2. clean' = (clean /\ (initialized => chainNext >= nonce))
      BY <2>1 DEF Reinitialize
    <3>3. clean' \in BOOLEAN
      BY <3>2, Zenon
    <3>4. chainNext \in Nat
      BY <1>2, NonceBoundAssumption DEF NonceInv, NonceTypeOK
    <3>5. QED
      BY <1>2, <3>1, <3>2, <3>3, <3>4
  <2>2. CASE UseNonces /\ GetNextNonce
    BY <1>2, <2>2, GrantStep DEF UseNonces, rbfVars, TypeOK
  <2>3. CASE \/ UNCHANGED vars
             \/ UseNonces /\ (NodeAccepts \/ NodeForgets)
             \/ UseNonces /\ \E h \in DOMAIN orig :
                               AcknowledgeNonce(orig[h], h) \/ ClearPending(orig[h])
    <3>1. /\ DOMAIN orig \subseteq Hashes
          /\ \A h \in DOMAIN orig : orig[h] \in 0..MaxNonce
      BY <1>2 DEF TypeOK
    <3>2. NonceInv' /\ nonce' = nonce /\ initialized' = initialized
      BY <1>2, <2>3, <3>1, OtherNonceStep DEF vars
    <3>3. QED
      BY <1>2, <2>3, <3>2 DEF vars, UseNonces, rbfVars, TypeOK
  <2>4. QED
    BY <2>1, <2>2, <2>3 DEF UseNonces
<1>4. TypeOK' /\ Bounded'
  BY <1>1, <1>2, <1>3 DEF IInv, TypeOK, Bounded, Attempts, NonceInv
<1>5. NoForeignNonce'
  BY <1>1, <1>3 DEF IInv, NoForeignNonce
<1>6. ASSUME clean'
      PROVE  BelowCounter'
  <2>1. BelowCounter /\ (initialized => initialized' /\ nonce <= nonce')
    BY <1>3, <1>6 DEF IInv
  <2>2. /\ \A g \in DOMAIN orig : orig[g] \in 0..MaxNonce
        /\ \A g \in Tracked : txs[g].nonce \in 0..MaxNonce
        /\ Tracked \subseteq DOMAIN orig /\ nonce' \in Nat
    BY <1>2, <1>3 DEF TypeOK, NonceInv, NonceTypeOK
  <2>3. CASE initialized
    BY <1>1, <1>2, <2>1, <2>2, <2>3, NonceBoundAssumption DEF BelowCounter
  <2>4. CASE ~initialized
    BY <1>1, <2>1, <2>2, <2>4 DEF BelowCounter
  <2>5. QED
    BY <2>3, <2>4
<1>7. QED
  BY <1>3, <1>4, <1>5, <1>6 DEF IInv

LEMMA StepKeepsIInv == IInv /\ [Next]_vars => IInv'
<1> SUFFICES ASSUME IInv, [Next]_vars
             PROVE  IInv'
  OBVIOUS
<1>1. ASSUME NEW h \in Hashes, SendOriginal(h)
      PROVE  IInv'
  BY <1>1, SendKeepsIInv
<1>2. ASSUME NEW h \in DOMAIN orig, AttemptRBF(h) \/ AttemptRBFWithOriginal(h)
      PROVE  IInv'
  BY <1>2, AttemptKeepsIInv
<1>3. ASSUME NEW h \in DOMAIN orig, RecordAttempt(h)
      PROVE  IInv'
  BY <1>3, RecordKeepsIInv
<1>4. ASSUME NEW h \in DOMAIN orig, ClearAttempts(h)
      PROVE  IInv'
  BY <1>4, ClearKeepsIInv
<1>5. CASE Reinitialize \/ UseNonces \/ UNCHANGED vars
  BY <1>5, NonceStepKeepsIInv
<1>6. QED
  BY <1>1, <1>2, <1>3, <1>4, <1>5 DEF Next

(* The invariant holds in every reachable state. *)
LEMMA Invariance == Spec => []IInv
<1>1. Init => IInv
  BY InitHolds
<1>2. IInv /\ [Next]_vars => IInv'
  BY StepKeepsIInv
<1>3. QED
  BY <1>1, <1>2, PTL DEF Spec

-----------------------------------------------------------------------------
(* The type invariant, for any hashes, bounds and answers of the chain. *)
THEOREM TypeCorrect == Spec => []TypeOK
<1>1. IInv => TypeOK
  BY DEF IInv
<1>2. QED
  BY <1>1, Invariance, PTL

(* Between two reads of the chain the nonce manager grants an interval,
   whatever its users acknowledge, clear and replace. *)
THEOREM GrantsFormAnInterval == Spec => []GrantedIsAnInterval
<1>1. IInv => GrantedIsAnInterval
  BY DEF IInv, NonceInv
<1>2. QED
  BY <1>1, Invariance, PTL

(* IsNonceAvailable offers no nonce that has been granted. *)
THEOREM OffersUngranted == Spec => []AvailableNotGranted
<1>1. IInv => AvailableNotGranted
  <2>1. SUFFICES ASSUME IInv, NEW n \in 0..MaxNonce, initialized, IsNonceAvailable(n)
                 PROVE  n \notin granted
    BY DEF AvailableNotGranted
  <2>2. granted = {m \in 0..MaxNonce : first <= m /\ m < nonce} /\ n >= nonce /\ nonce \in Nat
    BY <2>1 DEF IInv, NonceInv, GrantedIsAnInterval, IsNonceAvailable, NonceTypeOK
  <2>3. QED
    BY <2>2, NonceBoundAssumption
<1>2. QED
  BY <1>1, Invariance, PTL

(* No nonce is granted twice between two reads of the chain. *)
THEOREM GrantsAreFresh == Spec => EveryGrantIsFresh
<1>1. IInv => [GetNextNonce /\ initialized => nonce \notin granted]_nonceVars
  BY GrantStep DEF IInv
<1>2. QED
  BY <1>1, Invariance, PTL DEF EveryGrantIsFresh

(* A transaction is replaced at most MaxAttempts times between clearings. *)
THEOREM AttemptsBounded == Spec => []ReplacementsBounded
<1>1. IInv => ReplacementsBounded
  BY DEF IInv, Bounded, ReplacementsBounded
<1>2. QED
  BY <1>1, Invariance, PTL

(* No replacement takes the nonce of another transaction, unless the counter
   was set back or an entry was created by RecordAttempt. *)
THEOREM NoncesStayApart == Spec => []NoForeignNonce
<1>1. IInv => NoForeignNonce
  BY DEF IInv
<1>2. QED
  BY <1>1, Invariance, PTL

(* Once the entry holds the nonce of the original transaction, attempts of
   either kind keep it. *)
THEOREM OriginalNonceKept == Spec => OriginalNonceSticks
<1>1. IInv /\ [Next]_vars =>
        [\A h \in Tracked : h \in DOMAIN txs' /\ txs[h].nonce = orig[h]
           => txs'[h].nonce = orig'[h]]_vars
  <2>1. SUFFICES ASSUME IInv, Next, NEW h \in Tracked, h \in DOMAIN txs',
                        txs[h].nonce = orig[h]
                 PROVE  txs'[h].nonce = orig'[h]
    OBVIOUS
  <2>2. h \in DOMAIN orig
    BY <2>1 DEF IInv, TypeOK
  <2>3. ASSUME NEW g \in Hashes, SendOriginal(g)
        PROVE  txs'[h].nonce = orig'[h]
    BY <2>1, <2>2, <2>3 DEF SendOriginal
  <2>4. ASSUME NEW g \in DOMAIN orig, NEW n, Replace(g, n), g = h => n = orig[h]
        PROVE  txs'[h].nonce = orig'[h]
    BY <2>1, <2>4 DEF Replace, Track
  <2>5. ASSUME NEW g \in DOMAIN orig, AttemptRBF(g) \/ AttemptRBFWithOriginal(g)
        PROVE  txs'[h].nonce = orig'[h]
    <3>1. \E n : Replace(g, n) /\ (g = h => n = orig[h])
      BY <2>1, <2>5 DEF AttemptRBF, AttemptRBFWithOriginal
    <3>2. QED
      BY <2>4, <2>5, <3>1
  <2>6. ASSUME NEW g \in DOMAIN orig, RecordAttempt(g)
        PROVE  txs'[h].nonce = orig'[h]
    BY <2>1, <2>6 DEF RecordAttempt, Track
  <2>7. ASSUME NEW g \in DOMAIN orig, ClearAttempts(g)
        PROVE  txs'[h].nonce = orig'[h]
    BY <2>1, <2>7 DEF ClearAttempts
  <2>8. CASE Reinitialize \/ UseNonces
    BY <2>1, <2>8 DEF Reinitialize, UseNonces, rbfVars
  <2>9. QED
    BY <2>1, <2>3, <2>5, <2>6, <2>7, <2>8 DEF Next
<1>2. QED
  BY <1>1, Invariance, PTL DEF Spec, OriginalNonceSticks
=============================================================================
