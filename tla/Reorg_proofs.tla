---------------------------- MODULE Reorg_proofs ----------------------------
(***************************************************************************)
(* Proofs about the reorg handler over the nonce manager and the table of  *)
(* transactions, for any handlers, hashes, bounds and initial tables.      *)
(***************************************************************************)
EXTENDS Reorg, FiniteSetTheorems, SequenceTheorems, TLAPS

Places == {"out", "get", "mark", "clear", "grant", "send", "record", "rekey"}

(* The counter starts at zero. *)
CounterOK ==
  /\ NonceTypeOK /\ setBack \in BOOLEAN
  /\ ~initialized => nonce = 0

Objects == [nonce : 0..MaxNonce, attempts : Nat, sent : SUBSET (0..MaxNonce)]

(* Every tracked hash has a state object. *)
ObjectsOK ==
  /\ Tracked \subseteq TxHashes
  /\ \A h \in Tracked : txStates[h] \in 1..Len(state)
  /\ state \in Seq(Objects)

(* A handler that is within a call has a hash, a state object and a nonce. *)
PcOK ==
  /\ pc \in [Handlers -> [at : Places, hash : TxHashes \cup {""}, obj : Nat, new : Nat]]
  /\ \A w \in Handlers :
       /\ pc[w].at = "out" => pc[w] = Out
       /\ pc[w].at # "out" => /\ pc[w].hash \in TxHashes
                              /\ pc[w].obj \in 1..Len(state)
                              /\ pc[w].new \in 0..MaxNonce

(* A handler calls the table only where it marks or records, and what it marks
   is its own hash. *)
CallsMatch ==
  \A w \in Handlers :
    /\ pc[w].at \notin {"mark", "record"} => call[w] = Idle
    /\ pc[w].at = "mark" /\ call[w] # Idle =>
         call[w].op = "update" /\ call[w].hash = pc[w].hash /\ call[w].to = "reorged"
    /\ pc[w].at = "record" /\ call[w] # Idle => call[w].hash = ""
    /\ pc[w].at = "rekey" => "" \in Stored

(* What was sent, and what is about to be, is behind the counter until that is
   set back. *)
SentIsBehind ==
  ~setBack =>
    /\ \A o \in 1..Len(state) : \A n \in state[o].sent : n < nonce
    /\ \A w \in Handlers : pc[w].at = "send" => pc[w].new < nonce

IInv ==
  /\ CounterOK /\ TxTypeOK
  /\ ObjectsOK /\ PcOK /\ CallsMatch
  /\ SentIsBehind
  /\ RebroadcastsAreSound

-----------------------------------------------------------------------------
(* The nonce manager and the table, whoever calls them. *)
LEMMA GrantStep ==
  ASSUME CounterOK, GetNextNonce, setBack' = setBack
  PROVE  /\ CounterOK'
         /\ NextNonce \in 0..MaxNonce /\ nonce <= NextNonce /\ nonce' = NextNonce + 1
<1>1. /\ NextNonce \in 0..MaxNonce /\ nonce' = NextNonce + 1 /\ initialized' = TRUE
      /\ granted' = granted \cup {NextNonce} /\ nonce <= NextNonce
  BY NonceBoundAssumption DEF CounterOK, NonceTypeOK, GetNextNonce, NextNonce
<1>2. /\ DOMAIN pending' = DOMAIN pending \cup {NextNonce}
      /\ \A n \in DOMAIN pending' : pending'[n] \in Hashes \cup {Reserved}
  BY DEF GetNextNonce, Put, CounterOK, NonceTypeOK
<1>3. chainNext' = chainNext /\ first' \in Nat
  BY <1>1 DEF GetNextNonce, CounterOK, NonceTypeOK
<1>4. NonceTypeOK'
  BY <1>1, <1>2, <1>3 DEF CounterOK, NonceTypeOK
<1>5. QED
  BY <1>1, <1>4 DEF CounterOK

LEMMA ClearStep ==
  ASSUME CounterOK, NEW n, ClearPending(n), setBack' = setBack
  PROVE  CounterOK' /\ nonce' = nonce
  BY DEF ClearPending, Without, CounterOK, NonceTypeOK

LEMMA StatusesAre ==
  Statuses = {"built", "broadcast", "mined", "confirmed", "stuck", "rbf_bumped", "failed",
              "reverted", "reorged"}
  BY DEF Statuses, ValidTransitions

(* A checked call leaves the table alone; a write does not remove a row, nor
   anything from what rows have been. *)
LEMMA CheckStep ==
  ASSUME TxTypeOK, NEW u \in Workers, NEW h, NEW s \in Statuses, UpdateTxStatusCheck(u, h, s)
  PROVE  /\ TxTypeOK' /\ Stored' = Stored /\ seen' = seen
         /\ call'[u] # Idle /\ call'[u].op = "update" /\ call'[u].hash = h /\ call'[u].to = s
         /\ \A v \in Workers \ {u} : call'[v] = call[v]
<1>1. h \in Stored /\ h \in TxHashes
  BY DEF UpdateTxStatusCheck, TxTypeOK
<1> DEFINE new == [op |-> "update", hash |-> h, to |-> s]
<1>2. new \in Calls /\ new # Idle /\ new.op = "update" /\ new.hash = h /\ new.to = s
  BY <1>1 DEF Calls, Idle
<1>3. call' = [call EXCEPT ![u] = new] /\ UNCHANGED <<rows, seen, allowed>>
  BY DEF UpdateTxStatusCheck
<1> HIDE DEF new
<1>4. call'[u] = new /\ \A v \in Workers \ {u} : call'[v] = call[v]
  BY <1>3 DEF TxTypeOK
<1>5. call' \in [Workers -> Calls]
  BY <1>2, <1>3 DEF TxTypeOK
<1>6. TxTypeOK'
  BY <1>1, <1>2, <1>3, <1>4, <1>5 DEF TxTypeOK, Stored
<1>7. QED
  BY <1>2, <1>3, <1>4, <1>6 DEF Stored

LEMMA WriteStep ==
  ASSUME TxTypeOK, NEW u \in Workers, UpdateTxStatusWrite(u)
  PROVE  /\ TxTypeOK' /\ Stored' = Stored
         /\ call[u] # Idle /\ call[u].hash \in Stored
         /\ \A h \in TxHashes : seen[h] \subseteq seen'[h]
         /\ call[u].to \in seen'[call[u].hash]
         /\ call'[u] = Idle
         /\ \A v \in Workers \ {u} : call'[v] = call[v]
<1>1. PICK h, to : h = call[u].hash /\ to = call[u].to
  OBVIOUS
<1>2. /\ call[u] # Idle /\ h \in Stored /\ h \in TxHashes /\ to \in Statuses
      /\ rows' = [rows EXCEPT ![h].status = to]
      /\ seen' = [seen EXCEPT ![h] = seen[h] \cup {to}]
      /\ call' = [call EXCEPT ![u] = Idle] /\ allowed' = allowed
  BY <1>1 DEF UpdateTxStatusWrite, TxTypeOK, Idle, Calls
<1>3. call'[u] = Idle /\ \A v \in Workers \ {u} : call'[v] = call[v]
  BY <1>2 DEF TxTypeOK
<1>4. call' \in [Workers -> Calls]
  BY <1>2 DEF TxTypeOK, Calls
<1>5. Stored' = Stored /\ \A g \in Stored : rows'[g] \in [status : Statuses, attempts : 0..MaxCount]
  BY <1>2 DEF TxTypeOK, Stored
<1>6. /\ seen' \in [TxHashes -> SUBSET Statuses]
      /\ to \in seen'[h] /\ \A g \in TxHashes : seen[g] \subseteq seen'[g]
  BY <1>2 DEF TxTypeOK
<1>7. TxTypeOK'
  BY <1>2, <1>3, <1>4, <1>5, <1>6 DEF TxTypeOK
<1>8. QED
  BY <1>1, <1>2, <1>3, <1>5, <1>6, <1>7

(* A call that ends with an error of the database, or never began. *)
LEMMA DropStep ==
  ASSUME TxTypeOK, NEW u \in Workers, call' = [call EXCEPT ![u] = Idle],
         UNCHANGED <<rows, seen, allowed>>
  PROVE  /\ TxTypeOK' /\ Stored' = Stored /\ seen' = seen
         /\ call'[u] = Idle /\ \A v \in Workers \ {u} : call'[v] = call[v]
<1>1. call'[u] = Idle /\ \A v \in Workers \ {u} : call'[v] = call[v]
  BY DEF TxTypeOK
<1>2. call' \in [Workers -> Calls]
  BY DEF TxTypeOK, Calls
<1>3. QED
  BY <1>1, <1>2 DEF TxTypeOK, Stored

-----------------------------------------------------------------------------
(* The program counter of a handler. *)
LEMMA GoFacts ==
  ASSUME PcOK, NEW w \in Handlers, NEW where \in Places \ {"out"}, pc[w].at # "out",
         Go(w, where), Len(state') >= Len(state), Len(state) \in Nat, Len(state') \in Nat
  PROVE  /\ PcOK'
         /\ pc'[w].at = where /\ pc'[w].hash = pc[w].hash /\ pc'[w].obj = pc[w].obj
         /\ pc'[w].new = pc[w].new
         /\ \A v \in Handlers \ {w} : pc'[v] = pc[v]
<1>1. /\ pc'[w].at = where /\ pc'[w].hash = pc[w].hash /\ pc'[w].obj = pc[w].obj
      /\ pc'[w].new = pc[w].new
      /\ \A v \in Handlers \ {w} : pc'[v] = pc[v]
      /\ pc' \in [Handlers -> [at : Places, hash : TxHashes \cup {""}, obj : Nat, new : Nat]]
  BY DEF PcOK, Go
<1>2. \A o \in 1..Len(state) : o \in 1..Len(state')
  OBVIOUS
<1>3. ASSUME NEW v \in Handlers
      PROVE  /\ pc'[v].at = "out" => pc'[v] = Out
             /\ pc'[v].at # "out" => /\ pc'[v].hash \in TxHashes
                                     /\ pc'[v].obj \in 1..Len(state')
                                     /\ pc'[v].new \in 0..MaxNonce
  <2>1. CASE v = w
    BY <1>1, <1>2, <2>1 DEF PcOK
  <2>2. CASE v # w
    BY <1>1, <1>2, <2>2 DEF PcOK
  <2>3. QED
    BY <2>1, <2>2
<1>4. PcOK'
  BY <1>1, <1>3 DEF PcOK
<1>5. QED
  BY <1>1, <1>4

LEMMA ReturnFacts ==
  ASSUME PcOK, NEW w \in Handlers,
         Return(w), Len(state') >= Len(state), Len(state) \in Nat, Len(state') \in Nat
  PROVE  /\ PcOK'
         /\ pc'[w] = Out /\ pc'[w].at = "out"
         /\ \A v \in Handlers \ {w} : pc'[v] = pc[v]
<1>1. Out \in [at : Places, hash : TxHashes \cup {""}, obj : Nat, new : Nat] /\ Out.at = "out"
  BY DEF Out, Places
<1>2. /\ pc'[w] = Out
      /\ \A v \in Handlers \ {w} : pc'[v] = pc[v]
      /\ pc' \in [Handlers -> [at : Places, hash : TxHashes \cup {""}, obj : Nat, new : Nat]]
  BY <1>1 DEF PcOK, Return
<1>3. \A o \in 1..Len(state) : o \in 1..Len(state')
  OBVIOUS
<1>4. ASSUME NEW v \in Handlers
      PROVE  /\ pc'[v].at = "out" => pc'[v] = Out
             /\ pc'[v].at # "out" => /\ pc'[v].hash \in TxHashes
                                     /\ pc'[v].obj \in 1..Len(state')
                                     /\ pc'[v].new \in 0..MaxNonce
  <2>1. CASE v = w
    BY <1>1, <1>2, <2>1
  <2>2. CASE v # w
    BY <1>2, <1>3, <2>2 DEF PcOK
  <2>3. QED
    BY <2>1, <2>2
<1>5. PcOK'
  BY <1>2, <1>4 DEF PcOK
<1>6. QED
  BY <1>1, <1>2, <1>5

-----------------------------------------------------------------------------
(* The handlers that may still rebroadcast for a state object. *)
Coming(o) == {w \in Handlers : Before(w) /\ pc[w].obj = o}

LEMMA PaidForIs ==
  RebroadcastsArePaidFor <=>
    \A o \in 1..Len(state) :
      /\ Cardinality(state[o].sent) + Cardinality(Coming(o)) <= state[o].attempts
      /\ state[o].attempts <= MaxReorgRetries
  BY DEF RebroadcastsArePaidFor, Coming

LEMMA PaidForIsNext ==
  RebroadcastsArePaidFor' <=>
    \A o \in 1..Len(state') :
      /\ Cardinality(state'[o].sent) + Cardinality(Coming(o)') <= state'[o].attempts
      /\ state'[o].attempts <= MaxReorgRetries
  BY DEF RebroadcastsArePaidFor, Coming

LEMMA ComingIsFinite ==
  \A o : /\ IsFiniteSet(Coming(o)) /\ Cardinality(Coming(o)) \in Nat
         /\ IsFiniteSet(Coming(o)') /\ Cardinality(Coming(o)') \in Nat
<1> TAKE o
<1>1. Coming(o) \in SUBSET Handlers /\ Coming(o)' \in SUBSET Handlers
  BY DEF Coming
<1>2. IsFiniteSet(Coming(o)) /\ IsFiniteSet(Coming(o)')
  BY <1>1, HandlersAssumption, FS_Subset
<1>3. QED
  BY <1>2, FS_CardinalityType

LEMMA SumShrinks == \A a, b, c, d \in Nat : a + b <= d /\ c <= b => a + c <= d
  OBVIOUS

LEMMA AtMostOneMore ==
  ASSUME NEW S, IsFiniteSet(S), NEW x
  PROVE  /\ Cardinality(S \cup {x}) <= Cardinality(S) + 1
         /\ Cardinality(S \cup {x}) \in Nat
<1>1. Cardinality(S) \in Nat
  BY FS_CardinalityType
<1>2. CASE x \in S
  <2>1. S \cup {x} = S
    BY <1>2
  <2>2. QED
    BY <1>1, <2>1
<1>3. CASE x \notin S
  <2>1. Cardinality(S \cup {x}) = Cardinality(S) + 1
    BY <1>3, FS_AddElement
  <2>2. QED
    BY <1>1, <2>1
<1>4. QED
  BY <1>2, <1>3

LEMMA ObjectFacts ==
  ASSUME ObjectsOK
  PROVE  /\ Len(state) \in Nat
         /\ \A o \in 1..Len(state) :
              /\ state[o] \in Objects
              /\ IsFiniteSet(state[o].sent) /\ Cardinality(state[o].sent) \in Nat
<1>1. Len(state) \in Nat
  BY DEF ObjectsOK
<1>2. ASSUME NEW o \in 1..Len(state)
      PROVE  /\ state[o] \in Objects
             /\ IsFiniteSet(state[o].sent) /\ Cardinality(state[o].sent) \in Nat
  <2>1. state[o] \in Objects
    BY ElementOfSeq DEF ObjectsOK
  <2>2. IsFiniteSet(0..MaxNonce)
    BY FS_Interval, NonceBoundAssumption
  <2>3. state[o].sent \in SUBSET (0..MaxNonce)
    BY <2>1 DEF Objects
  <2>4. IsFiniteSet(state[o].sent)
    BY <2>2, <2>3, FS_Subset
  <2>5. QED
    BY <2>1, <2>4, FS_CardinalityType
<1>3. QED
  BY <1>1, <1>2

(* A handler that leaves its place without starting a new attempt. *)
LEMMA ComingShrinks ==
  ASSUME NEW w \in Handlers, \A v \in Handlers \ {w} : pc'[v] = pc[v],
         Before(w)' => Before(w) /\ pc'[w].obj = pc[w].obj
  PROVE  \A o : /\ Coming(o)' \subseteq Coming(o)
                /\ Cardinality(Coming(o)') <= Cardinality(Coming(o))
<1> TAKE o
<1>1. Coming(o)' \subseteq Coming(o)
  BY DEF Coming, Before
<1>2. QED
  BY <1>1, ComingIsFinite, FS_Subset

(* What is sure of the nonces and of the table in every step. *)
Grows ==
  /\ CounterOK' /\ TxTypeOK'
  /\ setBack => setBack'
  /\ ~setBack' => nonce <= nonce'
  /\ Stored' = Stored
  /\ \A h \in TxHashes : seen[h] \subseteq seen'[h]

(* The counter and the nonces that are compared with it. *)
LEMMA NumbersAreNat ==
  ASSUME IInv
  PROVE  /\ nonce \in Nat
         /\ \A o \in 1..Len(state) : \A n \in state[o].sent : n \in Nat
         /\ \A w \in Handlers : pc[w].at = "send" => pc[w].new \in Nat
<1>1. nonce \in Nat
  BY DEF IInv, CounterOK, NonceTypeOK
<1>2. ASSUME NEW o \in 1..Len(state), NEW n \in state[o].sent
      PROVE  n \in Nat
  <2>1. state[o] \in Objects
    BY ObjectFacts DEF IInv
  <2>2. n \in 0..MaxNonce
    BY <2>1 DEF Objects
  <2>3. QED
    BY <2>2, NonceBoundAssumption
<1>3. ASSUME NEW w \in Handlers, pc[w].at = "send"
      PROVE  pc[w].new \in Nat
  BY <1>3 DEF IInv, PcOK
<1>4. QED
  BY <1>1, <1>2, <1>3

LEMMA NotBefore == \A n, a \in Nat : n < a => ~(a <= n)
  OBVIOUS

LEMMA Behind == \A n, a, b \in Nat : n < a /\ a <= b => n < b
  OBVIOUS

(* One handler moves and no state object changes: what has to be shown is that
   no attempt is started, that the nonce it is about to send, if it has just
   come to that, is a new grant, and that its own row was marked. *)
LEMMA QuietMove ==
  ASSUME IInv, Grows, NEW w \in Handlers, PcOK', UNCHANGED <<txStates, state>>,
         \A v \in Handlers \ {w} : pc'[v] = pc[v] /\ call'[v] = call[v],
         Before(w)' => Before(w) /\ pc'[w].obj = pc[w].obj,
         pc'[w].at = "send" /\ ~setBack' => nonce <= pc'[w].new /\ pc'[w].new < nonce',
         pc'[w].at \in {"clear", "grant", "send", "record"} => "reorged" \in seen'[pc'[w].hash],
         pc'[w].at \notin {"mark", "record"} => call'[w] = Idle,
         pc'[w].at = "mark" /\ call'[w] # Idle =>
           call'[w].op = "update" /\ call'[w].hash = pc'[w].hash /\ call'[w].to = "reorged",
         pc'[w].at = "record" /\ call'[w] # Idle => call'[w].hash = "",
         pc'[w].at = "rekey" => "" \in Stored
  PROVE  IInv'
<1>1. ObjectsOK'
  BY DEF IInv, ObjectsOK, Tracked
<1>2. CallsMatch'
  BY DEF IInv, CallsMatch, Grows
<1>3. SentIsBehind'
  <2> SUFFICES ASSUME ~setBack'
               PROVE  /\ \A o \in 1..Len(state) : \A n \in state[o].sent : n < nonce'
                      /\ \A v \in Handlers : pc'[v].at = "send" => pc'[v].new < nonce'
    BY DEF SentIsBehind
  <2>1. ~setBack /\ nonce <= nonce' /\ nonce \in Nat /\ nonce' \in Nat
    BY DEF Grows, IInv, CounterOK, NonceTypeOK
  <2>2. \A o \in 1..Len(state) : \A n \in state[o].sent : n < nonce /\ n \in Nat
    BY <2>1, NumbersAreNat DEF IInv, SentIsBehind
  <2>3. ASSUME NEW v \in Handlers, pc'[v].at = "send"
        PROVE  pc'[v].new < nonce'
    <3>1. CASE v = w
      BY <2>3, <3>1
    <3>2. CASE v # w
      <4>1. pc'[v] = pc[v] /\ pc[v].new < nonce /\ pc[v].new \in Nat
        BY <2>1, <2>3, <3>2, NumbersAreNat DEF IInv, SentIsBehind
      <4>2. pc[v].new < nonce'
        BY <2>1, <4>1, Behind
      <4>3. QED
        BY <4>1, <4>2
    <3>3. QED
      BY <3>1, <3>2
  <2>4. \A o \in 1..Len(state) : \A n \in state[o].sent : n < nonce'
    BY <2>1, <2>2, Behind
  <2>5. QED
    BY <2>3, <2>4
<1>4. RebroadcastsArePaidFor'
  <2>1. ASSUME NEW o \in 1..Len(state)
        PROVE  /\ Cardinality(state[o].sent) + Cardinality(Coming(o)') <= state[o].attempts
               /\ state[o].attempts <= MaxReorgRetries
    <3>1. /\ Cardinality(state[o].sent) + Cardinality(Coming(o)) <= state[o].attempts
          /\ state[o].attempts <= MaxReorgRetries
      BY PaidForIs DEF IInv, RebroadcastsAreSound
    <3>2. Cardinality(Coming(o)') <= Cardinality(Coming(o))
      BY ComingShrinks
    <3>3. Cardinality(state[o].sent) \in Nat /\ state[o].attempts \in Nat
      BY ObjectFacts DEF IInv, Objects
    <3>4. Cardinality(Coming(o)) \in Nat /\ Cardinality(Coming(o)') \in Nat
      BY ComingIsFinite
    <3>5. Cardinality(state[o].sent) + Cardinality(Coming(o)') <= state[o].attempts
      BY <3>1, <3>2, <3>3, <3>4, SumShrinks
    <3>6. QED
      BY <3>1, <3>5
  <2>2. QED
    BY <2>1, PaidForIsNext
<1>5. RebroadcastNoncesDistinct'
  <2> SUFFICES ASSUME ~setBack' PROVE NoncesDistinct'
    BY DEF RebroadcastNoncesDistinct
  <2>1. ~setBack /\ NoncesDistinct /\ SentIsBehind
    BY DEF IInv, RebroadcastsAreSound, RebroadcastNoncesDistinct, Grows
  <2>2. ASSUME NEW v \in Handlers, pc'[v].at = "send"
        PROVE  /\ \A o \in 1..Len(state) : pc'[v].new \notin state[o].sent
               /\ \A u \in Handlers \ {v} : pc'[u].at = "send" => pc'[u].new # pc'[v].new
    <3>1. /\ \A u \in Handlers : pc[u].at = "send" => pc[u].new < nonce /\ pc[u].new \in Nat
          /\ \A o \in 1..Len(state) : \A n \in state[o].sent : n < nonce /\ n \in Nat
      BY <2>1, NumbersAreNat DEF SentIsBehind
    <3>2. \A n \in Nat : n < nonce => ~(nonce <= n)
      BY NumbersAreNat, NotBefore
    <3>3. pc'[w].at = "send" =>
            /\ \A o \in 1..Len(state) : pc'[w].new \notin state[o].sent
            /\ \A u \in Handlers : pc[u].at = "send" => pc[u].new # pc'[w].new
      BY <3>1, <3>2
    <3>4. CASE v = w
      BY <2>2, <3>3, <3>4
    <3>5. CASE v # w
      <4>1. pc[v].at = "send" /\ pc'[v] = pc[v]
        BY <2>2, <3>5
      <4>2. /\ \A o \in 1..Len(state) : pc[v].new \notin state[o].sent
            /\ \A u \in Handlers \ {v} : pc[u].at = "send" => pc[u].new # pc[v].new
        BY <2>1, <4>1 DEF NoncesDistinct
      <4>3. ASSUME NEW u \in Handlers \ {v}, pc'[u].at = "send"
            PROVE  pc'[u].new # pc'[v].new
        <5>1. CASE u = w
          BY <3>3, <4>1, <4>3, <5>1
        <5>2. CASE u # w
          BY <4>1, <4>2, <4>3, <5>2
        <5>3. QED
          BY <5>1, <5>2
      <4>4. QED
        BY <4>1, <4>2, <4>3
    <3>6. QED
      BY <3>4, <3>5
  <2>3. QED
    BY <2>1, <2>2 DEF NoncesDistinct
<1>6. OnlyReorgedIsRebroadcast'
  <2>1. ASSUME NEW v \in Handlers, pc'[v].at \in {"clear", "grant", "send", "record"}
        PROVE  "reorged" \in seen'[pc'[v].hash]
    <3>1. CASE v = w
      BY <2>1, <3>1
    <3>2. CASE v # w
      <4>1. pc'[v] = pc[v] /\ pc[v].hash \in TxHashes
        BY <2>1, <3>2 DEF IInv, PcOK
      <4>2. "reorged" \in seen[pc[v].hash]
        BY <2>1, <4>1 DEF IInv, RebroadcastsAreSound, OnlyReorgedIsRebroadcast
      <4>3. QED
        BY <4>1, <4>2 DEF Grows
    <3>3. QED
      BY <3>1, <3>2
  <2>2. QED
    BY <2>1 DEF OnlyReorgedIsRebroadcast
<1>7. QED
  BY <1>1, <1>2, <1>3, <1>4, <1>5, <1>6 DEF IInv, RebroadcastsAreSound, Grows

(* Nobody moves and no state object changes. *)
LEMMA NoMove ==
  ASSUME IInv, Grows, UNCHANGED <<state, pc>>, ObjectsOK',
         \A v \in Handlers : call'[v] = call[v]
  PROVE  IInv'
<1>1. PcOK'
  BY DEF IInv, PcOK
<1>2. CallsMatch'
  BY DEF IInv, CallsMatch, Grows
<1>3. SentIsBehind'
  <2>1. nonce \in Nat /\ nonce' \in Nat
    BY DEF IInv, CounterOK, NonceTypeOK, Grows
  <2>2. \A o \in 1..Len(state) : \A n \in state[o].sent : n \in Nat
    BY ObjectFacts, NonceBoundAssumption DEF IInv, Objects
  <2>3. \A w \in Handlers : pc[w].at = "send" => pc[w].new \in Nat
    BY NonceBoundAssumption DEF IInv, PcOK
  <2>4. QED
    BY <2>1, <2>2, <2>3 DEF IInv, SentIsBehind, Grows
<1>4. RebroadcastsArePaidFor'
  BY DEF IInv, RebroadcastsAreSound, RebroadcastsArePaidFor, Before
<1>5. RebroadcastNoncesDistinct'
  BY DEF IInv, RebroadcastsAreSound, RebroadcastNoncesDistinct, NoncesDistinct, Grows
<1>6. OnlyReorgedIsRebroadcast'
  BY DEF IInv, RebroadcastsAreSound, OnlyReorgedIsRebroadcast, Grows, PcOK
<1>7. QED
  BY <1>1, <1>2, <1>3, <1>4, <1>5, <1>6 DEF IInv, RebroadcastsAreSound, Grows

-----------------------------------------------------------------------------
(* The calls of a handler. *)
LEMMA NonceQuiet ==
  ASSUME IInv, UNCHANGED <<nonceVars, setBack>>
  PROVE  CounterOK' /\ nonce' = nonce /\ nonce <= nonce'
  BY DEF IInv, nonceVars, CounterOK, NonceTypeOK

LEMMA TxQuiet ==
  ASSUME IInv, UNCHANGED txVars
  PROVE  TxTypeOK' /\ Stored' = Stored /\ seen' = seen /\ call' = call
  BY DEF IInv, txVars, TxTypeOK, Stored

LEMMA LengthIsNat ==
  ASSUME IInv PROVE Len(state) \in Nat
  BY ObjectFacts DEF IInv

LEMMA HandlerFacts ==
  ASSUME IInv, NEW w \in Handlers
  PROVE  /\ pc[w].at # "out" => /\ pc[w].hash \in TxHashes /\ pc[w].obj \in 1..Len(state)
                                /\ pc[w].new \in 0..MaxNonce
         /\ pc[w].at \notin {"mark", "record"} => call[w] = Idle
         /\ pc[w].at \in {"clear", "grant", "send", "record"} => "reorged" \in seen[pc[w].hash]
         /\ pc[w].at = "mark" /\ call[w] # Idle =>
              call[w].op = "update" /\ call[w].hash = pc[w].hash /\ call[w].to = "reorged"
         /\ pc[w].at = "record" /\ call[w] # Idle => call[w].hash = ""
         /\ pc[w].at = "rekey" => "" \in Stored
  BY DEF IInv, PcOK, CallsMatch, RebroadcastsAreSound, OnlyReorgedIsRebroadcast

(* A handler that returns early, without a call of the table under way. *)
LEMMA ReturnStep ==
  ASSUME IInv, NEW w \in Handlers, Return(w), Grows, UNCHANGED <<txStates, state>>,
         \A v \in Handlers \ {w} : call'[v] = call[v], call'[w] = Idle
  PROVE  IInv'
<1>1. Len(state') >= Len(state) /\ Len(state) \in Nat /\ Len(state') \in Nat
  BY LengthIsNat
<1>2. PcOK' /\ pc'[w].at = "out" /\ \A v \in Handlers \ {w} : pc'[v] = pc[v]
  BY <1>1, ReturnFacts DEF IInv
<1>3. ~Before(w)'
  BY <1>2 DEF Before
<1>4. QED
  BY <1>2, <1>3, QuietMove

LEMMA GetTxStep ==
  ASSUME IInv, NEW w \in Handlers, GetTx(w)
  PROVE  IInv'
<1>1. /\ UNCHANGED <<nonceVars, txVars, txStates, state, setBack>> /\ pc[w].at = "get"
      /\ Go(w, "mark") \/ Return(w)
  BY DEF GetTx
<1>2. Grows /\ call' = call /\ call[w] = Idle
  BY <1>1, NonceQuiet, TxQuiet, HandlerFacts DEF Grows
<1>3. Len(state') >= Len(state) /\ Len(state) \in Nat /\ Len(state') \in Nat
  BY <1>1, LengthIsNat
<1>4. CASE Go(w, "mark")
  <2>1. /\ PcOK' /\ pc'[w].at = "mark" /\ pc'[w].obj = pc[w].obj
        /\ \A v \in Handlers \ {w} : pc'[v] = pc[v]
    BY <1>1, <1>3, <1>4, GoFacts DEF IInv, Places
  <2>2. Before(w)
    BY <1>1 DEF Before
  <2>3. QED
    BY <1>1, <1>2, <2>1, <2>2, QuietMove
<1>5. CASE Return(w)
  BY <1>1, <1>2, <1>5, ReturnStep
<1>6. QED
  BY <1>1, <1>4, <1>5

(* The three ways in which an update of the table goes on. *)
LEMMA UpdateParts ==
  ASSUME IInv, NEW w \in Handlers, NEW at \in {"mark", "record"}, NEW h,
         NEW s \in {"reorged", "broadcast"}, NEW next, Update(w, at, h, s, next),
         UNCHANGED <<nonceVars, txStates, state, setBack>>
  PROVE  \/ /\ pc[w].at = at /\ Return(w) /\ Grows /\ call'[w] = Idle
            /\ \A v \in Handlers \ {w} : call'[v] = call[v]
         \/ /\ pc[w].at = at /\ Go(w, next) /\ Grows
            /\ call[w] # Idle /\ call[w].hash \in Stored
            /\ call[w].to \in seen'[call[w].hash]
            /\ call'[w] = Idle /\ \A v \in Handlers \ {w} : call'[v] = call[v]
         \/ /\ pc[w].at = at /\ pc' = pc /\ Grows
            /\ call'[w] # Idle /\ call'[w].op = "update" /\ call'[w].hash = h /\ call'[w].to = s
            /\ \A v \in Handlers \ {w} : call'[v] = call[v]
<1>1. w \in Workers /\ Handlers \subseteq Workers
  BY HandlersAssumption
<1>2. CounterOK' /\ setBack' = setBack /\ nonce <= nonce'
  BY NonceQuiet
<1>3. CASE pc[w].at = at /\ UpdateTxStatusCheck(w, h, s) /\ UNCHANGED pc
  <2>1. s \in Statuses
    BY StatusesAre
  <2>2. QED
    BY <1>1, <1>2, <1>3, <2>1, CheckStep DEF IInv, Grows
<1>4. CASE /\ pc[w].at = at /\ Return(w)
           /\ call' = [call EXCEPT ![w] = Idle] /\ UNCHANGED <<rows, seen, allowed>>
  <2>1. TxTypeOK' /\ Stored' = Stored /\ seen' = seen /\ call'[w] = Idle
        /\ \A v \in Workers \ {w} : call'[v] = call[v]
    BY <1>1, <1>4, DropStep DEF IInv
  <2>2. Grows
    BY <1>2, <2>1 DEF Grows
  <2>3. QED
    BY <1>1, <1>4, <2>1, <2>2
<1>5. CASE pc[w].at = at /\ UpdateTxStatusWrite(w) /\ Go(w, next)
  BY <1>1, <1>2, <1>5, WriteStep DEF IInv, Grows
<1>6. QED
  BY <1>3, <1>4, <1>5 DEF Update

LEMMA MarkStep ==
  ASSUME IInv, NEW w \in Handlers, MarkReorged(w)
  PROVE  IInv'
<1>1. /\ Update(w, "mark", pc[w].hash, "reorged", "clear")
      /\ UNCHANGED <<nonceVars, txStates, state, setBack>>
  BY DEF MarkReorged
<1>2. Len(state') >= Len(state) /\ Len(state) \in Nat /\ Len(state') \in Nat
  BY <1>1, LengthIsNat
<1>3. CASE /\ pc[w].at = "mark" /\ Return(w) /\ Grows /\ call'[w] = Idle
           /\ \A v \in Handlers \ {w} : call'[v] = call[v]
  BY <1>1, <1>3, ReturnStep
<1>4. CASE /\ pc[w].at = "mark" /\ Go(w, "clear") /\ Grows
           /\ call[w] # Idle /\ call[w].hash \in Stored
           /\ call[w].to \in seen'[call[w].hash]
           /\ call'[w] = Idle /\ \A v \in Handlers \ {w} : call'[v] = call[v]
  <2>1. /\ PcOK' /\ pc'[w].at = "clear" /\ pc'[w].obj = pc[w].obj /\ pc'[w].hash = pc[w].hash
        /\ \A v \in Handlers \ {w} : pc'[v] = pc[v]
    BY <1>2, <1>4, GoFacts DEF IInv, Places
  <2>2. "reorged" \in seen'[pc'[w].hash]
    BY <1>4, <2>1, HandlerFacts
  <2>3. Before(w)
    BY <1>4 DEF Before
  <2>4. QED
    BY <1>1, <1>4, <2>1, <2>2, <2>3, QuietMove
<1>5. CASE /\ pc[w].at = "mark" /\ pc' = pc /\ Grows
           /\ call'[w] # Idle /\ call'[w].op = "update" /\ call'[w].hash = pc[w].hash
           /\ call'[w].to = "reorged"
           /\ \A v \in Handlers \ {w} : call'[v] = call[v]
  <2>1. PcOK'
    BY <1>1, <1>5 DEF IInv, PcOK
  <2>2. Before(w)
    BY <1>5 DEF Before
  <2>3. QED
    BY <1>1, <1>5, <2>1, <2>2, QuietMove
<1>6. QED
  BY <1>1, <1>3, <1>4, <1>5, UpdateParts

LEMMA RecordStep ==
  ASSUME IInv, NEW w \in Handlers, RecordBroadcast(w)
  PROVE  IInv'
<1>1. /\ Update(w, "record", "", "broadcast", "rekey")
      /\ UNCHANGED <<nonceVars, txStates, state, setBack>>
  BY DEF RecordBroadcast
<1>2. Len(state') >= Len(state) /\ Len(state) \in Nat /\ Len(state') \in Nat
  <2>1. state' = state
    BY <1>1
  <2>2. QED
    BY <2>1, LengthIsNat
<1>3. CASE /\ pc[w].at = "record" /\ Return(w) /\ Grows /\ call'[w] = Idle
           /\ \A v \in Handlers \ {w} : call'[v] = call[v]
  BY <1>1, <1>3, ReturnStep
<1>4. CASE /\ pc[w].at = "record" /\ Go(w, "rekey") /\ Grows
           /\ call[w] # Idle /\ call[w].hash \in Stored
           /\ call[w].to \in seen'[call[w].hash]
           /\ call'[w] = Idle /\ \A v \in Handlers \ {w} : call'[v] = call[v]
  <2>1. /\ PcOK' /\ pc'[w].at = "rekey"
        /\ \A v \in Handlers \ {w} : pc'[v] = pc[v]
    BY <1>2, <1>4, GoFacts DEF IInv, Places
  <2>2. "" \in Stored
    BY <1>4, HandlerFacts
  <2>3. ~Before(w)'
    BY <2>1 DEF Before
  <2>4. QED
    BY <1>1, <1>4, <2>1, <2>2, <2>3, QuietMove
<1>5. CASE /\ pc[w].at = "record" /\ pc' = pc /\ Grows
           /\ call'[w] # Idle /\ call'[w].op = "update" /\ call'[w].hash = ""
           /\ call'[w].to = "broadcast"
           /\ \A v \in Handlers \ {w} : call'[v] = call[v]
  <2>1. PcOK'
    BY <1>1, <1>5 DEF IInv, PcOK
  <2>2. "reorged" \in seen'[pc'[w].hash]
    BY <1>5, HandlerFacts DEF Grows
  <2>3. ~Before(w)'
    BY <1>5 DEF Before
  <2>4. QED
    BY <1>1, <1>5, <2>1, <2>2, <2>3, QuietMove
<1>6. QED
  BY <1>1, <1>3, <1>4, <1>5, UpdateParts

LEMMA ClearOldStep ==
  ASSUME IInv, NEW w \in Handlers, ClearOldNonce(w)
  PROVE  IInv'
<1>1. /\ pc[w].at = "clear" /\ ClearPending(state[pc[w].obj].nonce) /\ Go(w, "grant")
      /\ UNCHANGED <<txVars, txStates, state, setBack>>
  BY DEF ClearOldNonce
<1>2. Grows /\ call' = call /\ call[w] = Idle
  <2>1. CounterOK' /\ nonce' = nonce /\ setBack' = setBack
    BY <1>1, ClearStep DEF IInv
  <2>2. nonce <= nonce'
    <3>1. nonce \in Nat
      BY NumbersAreNat
    <3>2. QED
      BY <2>1, <3>1
  <2>3. TxTypeOK' /\ Stored' = Stored /\ seen' = seen /\ call' = call
    BY <1>1, TxQuiet
  <2>4. Grows
    BY <2>1, <2>2, <2>3 DEF Grows
  <2>5. call[w] = Idle
    BY <1>1, HandlerFacts
  <2>6. QED
    BY <2>3, <2>4, <2>5
<1>3. Len(state') >= Len(state) /\ Len(state) \in Nat /\ Len(state') \in Nat
  BY <1>1, LengthIsNat
<1>4. /\ PcOK' /\ pc'[w].at = "grant" /\ pc'[w].obj = pc[w].obj /\ pc'[w].hash = pc[w].hash
      /\ \A v \in Handlers \ {w} : pc'[v] = pc[v]
  BY <1>1, <1>3, GoFacts DEF IInv, Places
<1>5. Before(w)
  BY <1>1 DEF Before
<1>6. "reorged" \in seen'[pc'[w].hash]
  BY <1>1, <1>2, <1>4, HandlerFacts DEF Grows
<1>7. QED
  BY <1>1, <1>2, <1>4, <1>5, <1>6, QuietMove

LEMMA TakeStep ==
  ASSUME IInv, NEW w \in Handlers, TakeNonce(w)
  PROVE  IInv'
<1>1. pc[w].at = "grant" /\ UNCHANGED <<txVars, txStates, state, setBack>> /\ call[w] = Idle
  BY HandlerFacts DEF TakeNonce
<1>2. Len(state') >= Len(state) /\ Len(state) \in Nat /\ Len(state') \in Nat
  BY <1>1, LengthIsNat
<1>3. CASE Return(w) /\ UNCHANGED nonceVars
  <2>1. Grows /\ call' = call
    BY <1>1, <1>3, NonceQuiet, TxQuiet DEF Grows
  <2>2. QED
    BY <1>1, <1>3, <2>1, ReturnStep
<1>4. CASE GetNextNonce /\ pc' = [pc EXCEPT ![w].at = "send", ![w].new = NextNonce]
  <2>1. PICK n : n = NextNonce
    OBVIOUS
  <2>2. CounterOK' /\ n \in 0..MaxNonce /\ nonce <= n /\ nonce' = n + 1
    BY <1>1, <1>4, <2>1, GrantStep DEF IInv
  <2>3. Grows /\ call' = call
    <3>1. nonce <= nonce'
      BY <2>2 DEF IInv, CounterOK, NonceTypeOK
    <3>2. QED
      BY <1>1, <2>2, <3>1, TxQuiet DEF Grows
  <2>4. /\ pc'[w].at = "send" /\ pc'[w].new = n /\ pc'[w].hash = pc[w].hash
        /\ pc'[w].obj = pc[w].obj
        /\ \A v \in Handlers \ {w} : pc'[v] = pc[v]
        /\ pc' \in [Handlers -> [at : Places, hash : TxHashes \cup {""}, obj : Nat, new : Nat]]
    <3> DEFINE moved == [pc[w] EXCEPT !.at = "send", !.new = n]
    <3>1. pc \in [Handlers -> [at : Places, hash : TxHashes \cup {""}, obj : Nat, new : Nat]]
      BY DEF IInv, PcOK
    <3>2. n \in Nat
      BY <2>2, NonceBoundAssumption
    <3>3. /\ moved \in [at : Places, hash : TxHashes \cup {""}, obj : Nat, new : Nat]
          /\ moved.at = "send" /\ moved.new = n /\ moved.hash = pc[w].hash
          /\ moved.obj = pc[w].obj
      BY <3>1, <3>2 DEF Places
    <3>4. pc' = [pc EXCEPT ![w] = moved]
      BY <1>4, <2>1
    <3> HIDE DEF moved
    <3>5. QED
      BY <3>1, <3>3, <3>4
  <2>5. PcOK'
    <3>1. ASSUME NEW v \in Handlers
          PROVE  /\ pc'[v].at = "out" => pc'[v] = Out
                 /\ pc'[v].at # "out" => /\ pc'[v].hash \in TxHashes
                                         /\ pc'[v].obj \in 1..Len(state')
                                         /\ pc'[v].new \in 0..MaxNonce
      <4>1. CASE v = w
        BY <1>1, <2>2, <2>4, <4>1, HandlerFacts
      <4>2. CASE v # w
        BY <1>1, <2>4, <4>2 DEF IInv, PcOK
      <4>3. QED
        BY <4>1, <4>2
    <3>2. QED
      BY <2>4, <3>1 DEF PcOK
  <2>6. Before(w)
    BY <1>1 DEF Before
  <2>7. "reorged" \in seen'[pc'[w].hash]
    BY <1>1, <2>3, <2>4, HandlerFacts DEF Grows
  <2>8. nonce <= pc'[w].new /\ pc'[w].new < nonce'
    <3>1. n \in Nat /\ n < n + 1
      BY <2>2, NonceBoundAssumption
    <3>2. QED
      BY <2>2, <2>4, <3>1
  <2>9. QED
    BY <1>1, <2>3, <2>4, <2>5, <2>6, <2>7, <2>8, QuietMove
<1>5. QED
  BY <1>3, <1>4 DEF TakeNonce

-----------------------------------------------------------------------------
(* A state object changes. *)
LEMMA ObjectChanges ==
  ASSUME IInv, NEW o \in 1..Len(state), NEW e \in Objects, state' = [state EXCEPT ![o] = e],
         UNCHANGED txStates
  PROVE  /\ ObjectsOK' /\ Len(state') = Len(state) /\ Len(state) \in Nat
         /\ state'[o] = e
         /\ \A p \in 1..Len(state) \ {o} : state'[p] = state[p]
<1>1. state \in Seq(Objects)
  BY DEF IInv, ObjectsOK
<1>2. /\ state' \in Seq(Objects) /\ Len(state') = Len(state)
      /\ \A p \in 1..Len(state) : state'[p] = IF p = o THEN e ELSE state[p]
  BY <1>1, ExceptSeq
<1>3. ObjectsOK'
  BY <1>2 DEF IInv, ObjectsOK, Tracked
<1>4. QED
  BY <1>2, <1>3, LengthIsNat

(* An attempt is counted, and the handler that counts it is about to use it. *)
LEMMA BeginStep ==
  ASSUME IInv, NEW w \in Handlers, NEW h \in Tracked, Begin(w, h)
  PROVE  IInv'
<1>1. PICK o : o = txStates[h]
  OBVIOUS
<1>2. /\ o \in 1..Len(state) /\ h \in TxHashes
      /\ UNCHANGED <<nonceVars, txVars, txStates, setBack>>
      /\ pc[w] = Out /\ state[o].attempts < MaxReorgRetries
  BY <1>1 DEF Begin, IInv, ObjectsOK
<1>3. state[o] \in Objects /\ state[o].attempts \in Nat
  BY <1>2, ObjectFacts DEF IInv, Objects
<1> DEFINE e == [state[o] EXCEPT !.attempts = state[o].attempts + 1]
           at == [at |-> "get", hash |-> h, obj |-> o, new |-> 0]
<1>4. e \in Objects /\ e.attempts = state[o].attempts + 1 /\ e.sent = state[o].sent
  BY <1>3 DEF Objects
<1>5. state' = [state EXCEPT ![o] = e] /\ pc' = [pc EXCEPT ![w] = at]
  BY <1>1 DEF Begin
<1>6. /\ at.at = "get" /\ at.hash = h /\ at.obj = o /\ at.new = 0
      /\ at \in [at : Places, hash : TxHashes \cup {""}, obj : Nat, new : Nat]
  <2>1. o \in Nat
    BY <1>2, LengthIsNat
  <2>2. QED
    BY <1>2, <2>1 DEF Places
<1> HIDE DEF e, at
<1>7. /\ ObjectsOK' /\ Len(state') = Len(state) /\ Len(state) \in Nat
      /\ state'[o] = e
      /\ \A p \in 1..Len(state) \ {o} : state'[p] = state[p]
  BY <1>2, <1>4, <1>5, ObjectChanges
<1>8. /\ pc'[w] = at /\ \A v \in Handlers \ {w} : pc'[v] = pc[v]
      /\ pc' \in [Handlers -> [at : Places, hash : TxHashes \cup {""}, obj : Nat, new : Nat]]
  BY <1>5, <1>6 DEF IInv, PcOK
<1>9. PcOK'
  <2>1. ASSUME NEW v \in Handlers
        PROVE  /\ pc'[v].at = "out" => pc'[v] = Out
               /\ pc'[v].at # "out" => /\ pc'[v].hash \in TxHashes
                                       /\ pc'[v].obj \in 1..Len(state')
                                       /\ pc'[v].new \in 0..MaxNonce
    <3>1. CASE v = w
      <4>1. 0 \in 0..MaxNonce
        BY NonceBoundAssumption
      <4>2. QED
        BY <1>2, <1>6, <1>7, <1>8, <3>1, <4>1
    <3>2. CASE v # w
      BY <1>7, <1>8, <3>2 DEF IInv, PcOK
    <3>3. QED
      BY <3>1, <3>2
  <2>2. QED
    BY <1>8, <2>1 DEF PcOK
<1>10. Grows /\ call' = call /\ nonce' = nonce /\ setBack' = setBack /\ pc[w].at = "out" /\ call[w] = Idle
  <2>1. pc[w].at = "out"
    <3>1. Out.at = "out"
      BY DEF Out
    <3>2. pc[w] = Out
      BY <1>2
    <3>3. QED
      BY <3>1, <3>2
  <2>2. call[w] = Idle
    BY <2>1, HandlerFacts
  <2>3. QED
    BY <1>2, <2>1, <2>2, NonceQuiet, TxQuiet DEF Grows
<1>11. CallsMatch'
  BY <1>6, <1>8, <1>10 DEF IInv, CallsMatch, Grows
<1>12. \A p \in 1..Len(state) : state'[p].sent = state[p].sent
  BY <1>4, <1>7
<1>13. SentIsBehind'
  BY <1>6, <1>7, <1>8, <1>10, <1>12 DEF IInv, SentIsBehind
<1>14. RebroadcastsArePaidFor'
  <2>1. ASSUME NEW p \in 1..Len(state)
        PROVE  /\ Cardinality(state'[p].sent) + Cardinality(Coming(p)') <= state'[p].attempts
               /\ state'[p].attempts <= MaxReorgRetries
    <3>1. /\ Cardinality(state[p].sent) + Cardinality(Coming(p)) <= state[p].attempts
          /\ state[p].attempts <= MaxReorgRetries
      BY PaidForIs DEF IInv, RebroadcastsAreSound
    <3>2. Cardinality(state[p].sent) \in Nat /\ state[p].attempts \in Nat
      BY ObjectFacts DEF IInv, Objects
    <3>3. CASE p = o
      <4>1. Coming(p)' = Coming(p) \cup {w} /\ w \notin Coming(p)
        BY <1>6, <1>8, <1>10, <3>3 DEF Coming, Before
      <4>2. Cardinality(Coming(p)') = Cardinality(Coming(p)) + 1 /\ Cardinality(Coming(p)) \in Nat
        BY <4>1, ComingIsFinite, FS_AddElement
      <4>3. state'[p].attempts = state[p].attempts + 1
        BY <1>4, <1>7, <3>3
      <4>4. QED
        BY <1>2, <1>12, <3>1, <3>2, <3>3, <4>2, <4>3, RetriesAssumption
    <3>4. CASE p # o
      <4>1. Coming(p)' = Coming(p)
        BY <1>6, <1>8, <1>10, <3>4 DEF Coming, Before
      <4>2. QED
        BY <1>7, <3>1, <3>4, <4>1
    <3>5. QED
      BY <3>3, <3>4
  <2>2. QED
    BY <1>7, <2>1, PaidForIsNext
<1>15. RebroadcastNoncesDistinct'
  <2> SUFFICES ASSUME ~setBack' PROVE NoncesDistinct'
    BY DEF RebroadcastNoncesDistinct
  <2>1. NoncesDistinct
    BY <1>10 DEF IInv, RebroadcastsAreSound, RebroadcastNoncesDistinct
  <2>2. \A v \in Handlers : pc'[v].at = "send" => pc'[v] = pc[v]
    BY <1>6, <1>8
  <2>3. \A p, q \in 1..Len(state') : p # q => state'[p].sent \cap state'[q].sent = {}
    BY <1>7, <1>12, <2>1 DEF NoncesDistinct
  <2>4. \A v \in Handlers : pc'[v].at = "send" =>
          /\ \A p \in 1..Len(state') : pc'[v].new \notin state'[p].sent
          /\ \A u \in Handlers \ {v} : pc'[u].at = "send" => pc'[u].new # pc'[v].new
    BY <1>7, <1>12, <2>1, <2>2 DEF NoncesDistinct
  <2>5. QED
    BY <2>3, <2>4 DEF NoncesDistinct
<1>16. OnlyReorgedIsRebroadcast'
  <2>1. ASSUME NEW v \in Handlers, pc'[v].at \in {"clear", "grant", "send", "record"}
        PROVE  "reorged" \in seen'[pc'[v].hash]
    <3>1. v # w /\ pc'[v] = pc[v]
      BY <1>6, <1>8, <2>1
    <3>2. "reorged" \in seen[pc[v].hash] /\ pc[v].hash \in TxHashes
      BY <2>1, <3>1, HandlerFacts
    <3>3. QED
      BY <1>10, <3>1, <3>2 DEF Grows
  <2>2. QED
    BY <2>1 DEF OnlyReorgedIsRebroadcast
<1>17. QED
  BY <1>7, <1>9, <1>10, <1>11, <1>13, <1>14, <1>15, <1>16 DEF IInv, RebroadcastsAreSound, Grows

(* A rebroadcast turns the attempt that paid for it into a nonce of the state
   object, whatever is reported of it; one that is refused only ends the call. *)
LEMMA RebroadcastStep ==
  ASSUME IInv, NEW w \in Handlers, Rebroadcast(w)
  PROVE  IInv'
<1>1. /\ pc[w].at = "send" /\ UNCHANGED <<nonceVars, txVars, txStates, setBack>>
      /\ call[w] = Idle
  BY HandlerFacts DEF Rebroadcast
<1>2. Grows /\ call' = call /\ nonce' = nonce /\ setBack' = setBack /\ seen' = seen
  BY <1>1, NonceQuiet, TxQuiet DEF Grows
<1>3. CASE Return(w) /\ UNCHANGED state
  BY <1>1, <1>2, <1>3, ReturnStep
<1>4. CASE (Go(w, "record") \/ Return(w)) /\ state' = [state EXCEPT ![pc[w].obj].sent = @ \cup {pc[w].new}]
  <2>1. PICK o, n : o = pc[w].obj /\ n = pc[w].new
    OBVIOUS
  <2>2. o \in 1..Len(state) /\ n \in 0..MaxNonce /\ (~setBack => n < nonce)
    BY <1>1, <2>1, HandlerFacts DEF IInv, SentIsBehind
  <2>3. state[o] \in Objects
    BY <2>2, ObjectFacts DEF IInv
  <2> DEFINE e == [state[o] EXCEPT !.sent = state[o].sent \cup {n}]
  <2>4. e \in Objects /\ e.attempts = state[o].attempts /\ e.sent = state[o].sent \cup {n}
    BY <2>2, <2>3 DEF Objects
  <2>5. state' = [state EXCEPT ![o] = e]
    BY <1>4, <2>1
  <2> HIDE DEF e
  <2>6. /\ ObjectsOK' /\ Len(state') = Len(state) /\ Len(state) \in Nat
        /\ state'[o] = e
        /\ \A p \in 1..Len(state) \ {o} : state'[p] = state[p]
    BY <1>1, <2>2, <2>4, <2>5, ObjectChanges
  <2>7. Len(state') >= Len(state) /\ Len(state') \in Nat
    BY <2>6
  <2>8. /\ PcOK' /\ pc'[w].at \in {"record", "out"}
        /\ pc'[w].at = "record" => pc'[w].hash = pc[w].hash
        /\ \A v \in Handlers \ {w} : pc'[v] = pc[v]
    <3>1. CASE Go(w, "record")
      BY <1>1, <2>1, <2>6, <2>7, <3>1, GoFacts DEF IInv, Places
    <3>2. CASE Return(w)
      BY <1>1, <2>6, <2>7, <3>2, ReturnFacts DEF IInv
    <3>3. QED
      BY <1>4, <3>1, <3>2
  <2>9. CallsMatch'
    BY <1>1, <1>2, <2>8 DEF IInv, CallsMatch, Grows
  <2>10. SentIsBehind'
    BY <1>2, <2>2, <2>4, <2>6, <2>8 DEF IInv, SentIsBehind
  <2>11. RebroadcastsArePaidFor'
    <3>1. ASSUME NEW p \in 1..Len(state)
          PROVE  /\ Cardinality(state'[p].sent) + Cardinality(Coming(p)') <= state'[p].attempts
                 /\ state'[p].attempts <= MaxReorgRetries
      <4>1. /\ Cardinality(state[p].sent) + Cardinality(Coming(p)) <= state[p].attempts
            /\ state[p].attempts <= MaxReorgRetries
        BY PaidForIs DEF IInv, RebroadcastsAreSound
      <4>2. /\ Cardinality(state[p].sent) \in Nat /\ IsFiniteSet(state[p].sent)
            /\ state[p].attempts \in Nat
        BY ObjectFacts DEF IInv, Objects
      <4>3. CASE p = o
        <5>1. Coming(p)' = Coming(p) \ {w} /\ w \in Coming(p)
          BY <1>1, <2>1, <2>8, <4>3 DEF Coming, Before
        <5>2. /\ Cardinality(Coming(p)') = Cardinality(Coming(p)) - 1
              /\ Cardinality(Coming(p)) \in Nat
          BY <5>1, ComingIsFinite, FS_RemoveElement
        <5>3. /\ Cardinality(state[p].sent \cup {n}) <= Cardinality(state[p].sent) + 1
              /\ Cardinality(state[p].sent \cup {n}) \in Nat
          BY <4>2, AtMostOneMore
        <5>4. state'[p].sent = state[p].sent \cup {n} /\ state'[p].attempts = state[p].attempts
          BY <2>4, <2>6, <4>3
        <5>5. QED
          BY <4>1, <4>2, <5>2, <5>3, <5>4
      <4>4. CASE p # o
        <5>1. Coming(p)' = Coming(p)
          BY <2>1, <2>8, <4>4 DEF Coming, Before
        <5>2. QED
          BY <2>6, <4>1, <4>4, <5>1
      <4>5. QED
        BY <4>3, <4>4
    <3>2. QED
      BY <2>6, <3>1, PaidForIsNext
  <2>12. RebroadcastNoncesDistinct'
    <3> SUFFICES ASSUME ~setBack' PROVE NoncesDistinct'
      BY DEF RebroadcastNoncesDistinct
    <3>1. NoncesDistinct
      BY <1>2 DEF IInv, RebroadcastsAreSound, RebroadcastNoncesDistinct
    <3>2. \A v \in Handlers : pc'[v].at = "send" => v # w /\ pc'[v] = pc[v] /\ pc[v].new # n
      BY <1>1, <2>1, <2>8, <3>1 DEF NoncesDistinct
    <3>3. \A p \in 1..Len(state) : n \notin state[p].sent
      BY <1>1, <2>1, <3>1 DEF NoncesDistinct
    <3>4. \A p \in 1..Len(state) :
            state'[p].sent = IF p = o THEN state[p].sent \cup {n} ELSE state[p].sent
      BY <2>4, <2>6
    <3>5. \A p, q \in 1..Len(state') : p # q => state'[p].sent \cap state'[q].sent = {}
      <4>1. ASSUME NEW p \in 1..Len(state), NEW q \in 1..Len(state), p # q
            PROVE  state'[p].sent \cap state'[q].sent = {}
        <5>1. state[p].sent \cap state[q].sent = {}
          BY <3>1, <4>1 DEF NoncesDistinct
        <5>2. n \notin state[p].sent /\ n \notin state[q].sent
          BY <3>3
        <5>3. QED
          BY <3>4, <4>1, <5>1, <5>2
      <4>2. QED
        BY <2>6, <4>1
    <3>6. \A v \in Handlers : pc'[v].at = "send" =>
            /\ \A p \in 1..Len(state') : pc'[v].new \notin state'[p].sent
            /\ \A u \in Handlers \ {v} : pc'[u].at = "send" => pc'[u].new # pc'[v].new
      <4>1. ASSUME NEW v \in Handlers, pc'[v].at = "send"
            PROVE  /\ \A p \in 1..Len(state) : pc'[v].new \notin state'[p].sent
                   /\ \A u \in Handlers \ {v} : pc'[u].at = "send" => pc'[u].new # pc'[v].new
        <5>1. v # w /\ pc'[v] = pc[v] /\ pc[v].new # n /\ pc[v].at = "send"
          BY <3>2, <4>1
        <5>2. /\ \A p \in 1..Len(state) : pc[v].new \notin state[p].sent
              /\ \A u \in Handlers \ {v} : pc[u].at = "send" => pc[u].new # pc[v].new
          BY <3>1, <5>1 DEF NoncesDistinct
        <5>3. \A p \in 1..Len(state) : pc[v].new \notin state'[p].sent
          BY <3>4, <5>1, <5>2
        <5>4. \A u \in Handlers \ {v} : pc'[u].at = "send" => pc'[u].new # pc[v].new
          BY <3>2, <5>2
        <5>5. QED
          BY <5>1, <5>3, <5>4
      <4>2. QED
        BY <2>6, <4>1
    <3>7. QED
      BY <3>5, <3>6 DEF NoncesDistinct
  <2>13. OnlyReorgedIsRebroadcast'
    BY <1>1, <1>2, <2>8, HandlerFacts DEF IInv, RebroadcastsAreSound, OnlyReorgedIsRebroadcast
  <2>14. QED
    BY <1>2, <2>6, <2>8, <2>9, <2>10, <2>11, <2>12, <2>13 DEF IInv, RebroadcastsAreSound, Grows
<1>5. QED
  BY <1>3, <1>4 DEF Rebroadcast

-----------------------------------------------------------------------------
(* A new state object, for which nothing has been sent and nobody has begun. *)
LEMMA ObjectAppended ==
  ASSUME IInv, NEW e \in Objects, state' = Append(state, e)
  PROVE  /\ state' \in Seq(Objects) /\ Len(state') = Len(state) + 1 /\ Len(state) \in Nat
         /\ Len(state') \in Nat /\ Len(state') >= Len(state)
         /\ state'[Len(state) + 1] = e
         /\ \A p \in 1..Len(state) : state'[p] = state[p] /\ p \in 1..Len(state')
<1>1. state \in Seq(Objects)
  BY DEF IInv, ObjectsOK
<1>2. Len(state) \in Nat
  BY LengthIsNat
<1>3. QED
  BY <1>1, <1>2

LEMMA ObjectAdded ==
  ASSUME IInv, Grows, NEW e \in Objects, state' = Append(state, e),
         e.sent = {}, e.attempts <= MaxReorgRetries, ObjectsOK', PcOK', UNCHANGED <<call, seen, nonce>>,
         \A v \in Handlers : pc'[v] = pc[v] \/ (pc'[v] = Out /\ call[v] = Idle)
  PROVE  IInv'
<1>1. /\ Len(state') = Len(state) + 1 /\ Len(state) \in Nat
      /\ state'[Len(state) + 1] = e
      /\ \A p \in 1..Len(state) : state'[p] = state[p]
  BY ObjectAppended
<1>2. Out.at = "out" /\ Out.obj = 0
  BY DEF Out
<1>3. \A v \in Handlers : pc'[v].at # "out" => pc'[v] = pc[v] /\ pc[v].obj \in 1..Len(state)
  BY <1>2, HandlerFacts
<1>4. CallsMatch'
  <2>1. ASSUME NEW v \in Handlers
        PROVE  /\ pc'[v].at \notin {"mark", "record"} => call'[v] = Idle
               /\ pc'[v].at = "mark" /\ call'[v] # Idle =>
                    call'[v].op = "update" /\ call'[v].hash = pc'[v].hash
                      /\ call'[v].to = "reorged"
               /\ pc'[v].at = "record" /\ call'[v] # Idle => call'[v].hash = ""
               /\ pc'[v].at = "rekey" => "" \in Stored
    <3>1. CASE pc'[v] = pc[v]
      BY <3>1, HandlerFacts
    <3>2. CASE pc'[v] = Out /\ call[v] = Idle
      BY <1>2, <3>2
    <3>3. QED
      BY <3>1, <3>2
  <2>2. QED
    BY <2>1 DEF CallsMatch, Grows
<1>5. \A p \in 1..Len(state') : p \in 1..Len(state) \/ p = Len(state) + 1
  BY <1>1
<1>6. \A v \in Handlers : pc'[v].at = "send" => pc'[v] = pc[v]
  BY <1>3
<1>7. SentIsBehind'
  <2> SUFFICES ASSUME ~setBack'
               PROVE  /\ \A p \in 1..Len(state') : \A n \in state'[p].sent : n < nonce'
                      /\ \A v \in Handlers : pc'[v].at = "send" => pc'[v].new < nonce'
    BY DEF SentIsBehind
  <2>1. \A p \in 1..Len(state') : \A n \in state'[p].sent : n < nonce'
    <3>1. SentIsBehind /\ ~setBack /\ nonce = nonce'
      BY DEF IInv, Grows
    <3>2. QED
      BY <1>1, <1>5, <3>1 DEF SentIsBehind
  <2>2. \A v \in Handlers : pc'[v].at = "send" => pc'[v].new < nonce'
    BY <1>6 DEF IInv, SentIsBehind, Grows
  <2>3. QED
    BY <2>1, <2>2 DEF SentIsBehind
<1>8. RebroadcastsArePaidFor'
  <2>1. ASSUME NEW p \in 1..Len(state)
        PROVE  /\ Cardinality(state'[p].sent) + Cardinality(Coming(p)') <= state'[p].attempts
               /\ state'[p].attempts <= MaxReorgRetries
    <3>1. /\ Cardinality(state[p].sent) + Cardinality(Coming(p)) <= state[p].attempts
          /\ state[p].attempts <= MaxReorgRetries
      BY PaidForIs DEF IInv, RebroadcastsAreSound
    <3>2. Cardinality(state[p].sent) \in Nat /\ state[p].attempts \in Nat
      BY ObjectFacts DEF IInv, Objects
    <3>3. Coming(p)' \subseteq Coming(p)
      BY <1>2, <1>3 DEF Coming, Before
    <3>4. Cardinality(Coming(p)') <= Cardinality(Coming(p))
      BY <3>3, ComingIsFinite, FS_Subset
    <3>5. Cardinality(Coming(p)) \in Nat /\ Cardinality(Coming(p)') \in Nat
      BY ComingIsFinite
    <3>6. Cardinality(state[p].sent) + Cardinality(Coming(p)') <= state[p].attempts
      BY <3>1, <3>2, <3>4, <3>5, SumShrinks
    <3>7. QED
      BY <1>1, <3>1, <3>6
  <2>2. ASSUME NEW p, p = Len(state) + 1
        PROVE  /\ Cardinality(state'[p].sent) + Cardinality(Coming(p)') <= state'[p].attempts
               /\ state'[p].attempts <= MaxReorgRetries
    <3>1. Coming(p)' = {}
      BY <1>1, <1>2, <1>3, <2>2 DEF Coming, Before
    <3>2. Cardinality(Coming(p)') = 0 /\ Cardinality(state'[p].sent) = 0
      BY <1>1, <2>2, <3>1, FS_EmptySet
    <3>3. state'[p].attempts = e.attempts /\ e.attempts \in Nat
      BY <1>1, <2>2 DEF Objects
    <3>4. QED
      BY <3>2, <3>3
  <2>3. QED
    BY <1>5, <2>1, <2>2, PaidForIsNext
<1>9. RebroadcastNoncesDistinct'
  <2> SUFFICES ASSUME ~setBack' PROVE NoncesDistinct'
    BY DEF RebroadcastNoncesDistinct
  <2>1. NoncesDistinct
    BY DEF IInv, RebroadcastsAreSound, RebroadcastNoncesDistinct, Grows
  <2>2. ASSUME NEW p \in 1..Len(state'), NEW q \in 1..Len(state'), p # q
        PROVE  state'[p].sent \cap state'[q].sent = {}
    <3>1. CASE p = Len(state) + 1 \/ q = Len(state) + 1
      BY <1>1, <3>1
    <3>2. CASE p \in 1..Len(state) /\ q \in 1..Len(state)
      BY <1>1, <2>1, <2>2, <3>2 DEF NoncesDistinct
    <3>3. QED
      BY <1>5, <3>1, <3>2
  <2>3. ASSUME NEW v \in Handlers, pc'[v].at = "send"
        PROVE  /\ \A p \in 1..Len(state') : pc'[v].new \notin state'[p].sent
               /\ \A u \in Handlers \ {v} : pc'[u].at = "send" => pc'[u].new # pc'[v].new
    <3>1. pc'[v] = pc[v]
      BY <1>6, <2>3
    <3>2. /\ \A p \in 1..Len(state) : pc[v].new \notin state[p].sent
          /\ \A u \in Handlers \ {v} : pc[u].at = "send" => pc[u].new # pc[v].new
      BY <2>1, <2>3, <3>1 DEF NoncesDistinct
    <3>3. \A p \in 1..Len(state') : pc[v].new \notin state'[p].sent
      BY <1>1, <1>5, <3>2
    <3>4. QED
      BY <1>6, <3>1, <3>2, <3>3
  <2>4. QED
    BY <2>2, <2>3 DEF NoncesDistinct
<1>10. OnlyReorgedIsRebroadcast'
  <2>1. ASSUME NEW v \in Handlers, pc'[v].at \in {"clear", "grant", "send", "record"}
        PROVE  "reorged" \in seen'[pc'[v].hash]
    <3>1. pc'[v] = pc[v]
      BY <1>3, <2>1
    <3>2. QED
      BY <2>1, <3>1, HandlerFacts
  <2>2. QED
    BY <2>1 DEF OnlyReorgedIsRebroadcast
<1>11. QED
  BY <1>4, <1>7, <1>8, <1>9, <1>10 DEF IInv, RebroadcastsAreSound, Grows

LEMMA NewStateIs ==
  ASSUME IInv, NEW n \in 0..MaxNonce, NEW k \in Nat, state' = NewState(n, k)
  PROVE  \E e \in Objects : state' = Append(state, e) /\ e.sent = {} /\ e.attempts = k
<1> DEFINE e == [nonce |-> n, attempts |-> k, sent |-> {}]
<1>1. e \in Objects /\ e.sent = {} /\ e.attempts = k
  BY DEF Objects
<1>2. state' = Append(state, e)
  BY DEF NewState
<1> HIDE DEF e
<1>3. QED
  BY <1>1, <1>2

LEMMA RekeyStep ==
  ASSUME IInv, NEW w \in Handlers, Rekey(w)
  PROVE  IInv'
<1>1. PICK o, n : o = pc[w].obj /\ n = pc[w].new
  OBVIOUS
<1>2. /\ pc[w].at = "rekey" /\ UNCHANGED <<nonceVars, txVars, setBack>> /\ Return(w)
      /\ state' = NewState(n, state[o].attempts)
      /\ txStates' = [h \in (Tracked \cup {""}) \ {pc[w].hash} |-> Point("", Len(state) + 1)[h]]
  BY <1>1 DEF Rekey
<1>3. /\ o \in 1..Len(state) /\ n \in 0..MaxNonce /\ "" \in Stored /\ call[w] = Idle
  BY <1>1, <1>2, HandlerFacts
<1>4. state[o].attempts \in Nat /\ state[o].attempts <= MaxReorgRetries
  BY <1>3, ObjectFacts, PaidForIs DEF IInv, RebroadcastsAreSound, Objects
<1>5. PICK e \in Objects :
        state' = Append(state, e) /\ e.sent = {} /\ e.attempts = state[o].attempts
  <2>1. PICK k : k = state[o].attempts
    OBVIOUS
  <2>2. k \in Nat /\ state' = NewState(n, k)
    BY <1>2, <1>4, <2>1
  <2>3. \E e \in Objects : state' = Append(state, e) /\ e.sent = {} /\ e.attempts = k
    BY <1>3, <2>2, NewStateIs
  <2>4. QED
    BY <2>1, <2>3
<1>6. /\ state' \in Seq(Objects) /\ Len(state') = Len(state) + 1 /\ Len(state) \in Nat
      /\ Len(state') \in Nat /\ Len(state') >= Len(state)
      /\ \A p \in 1..Len(state) : p \in 1..Len(state')
  BY <1>5, ObjectAppended
<1>7. Grows /\ call' = call /\ seen' = seen /\ nonce' = nonce
  BY <1>2, NonceQuiet, TxQuiet DEF Grows
<1>8. "" \in TxHashes
  BY <1>3 DEF IInv, TxTypeOK
<1>9. ObjectsOK'
  <2>1. Tracked' = (Tracked \cup {""}) \ {pc[w].hash}
    BY <1>2 DEF Tracked
  <2>2. Tracked \subseteq TxHashes /\ \A h \in Tracked : txStates[h] \in 1..Len(state)
    BY DEF IInv, ObjectsOK
  <2>3. ASSUME NEW h \in Tracked'
        PROVE  txStates'[h] \in 1..Len(state')
    <3>1. h \in Tracked \cup {""} /\ txStates'[h] = Point("", Len(state) + 1)[h]
      BY <1>2, <2>1
    <3>2. txStates'[h] = IF h = "" THEN Len(state) + 1 ELSE txStates[h]
      BY <3>1 DEF Point
    <3>3. CASE h = ""
      <4>1. Len(state) + 1 \in 1..Len(state')
        BY <1>6
      <4>2. QED
        BY <3>2, <3>3, <4>1
    <3>4. CASE h # ""
      BY <1>6, <2>2, <3>1, <3>2, <3>4
    <3>5. QED
      BY <3>3, <3>4
  <2>4. QED
    BY <1>6, <1>8, <2>1, <2>2, <2>3 DEF ObjectsOK
<1>10. PcOK' /\ pc'[w] = Out /\ \A v \in Handlers \ {w} : pc'[v] = pc[v]
  BY <1>2, <1>6, ReturnFacts DEF IInv
<1>11. \A v \in Handlers : pc'[v] = pc[v] \/ (pc'[v] = Out /\ call[v] = Idle)
  BY <1>3, <1>10, Zenon
<1>12. QED
  BY <1>4, <1>5, <1>7, <1>9, <1>10, <1>11, ObjectAdded

LEMMA TrackStep ==
  ASSUME IInv, NEW h \in TxHashes, NEW n \in granted \cup BaseNonces, TrackTransaction(h, n)
  PROVE  IInv'
<1>1. /\ UNCHANGED <<nonceVars, txVars, pc, setBack>>
      /\ state' = NewState(n, 0) /\ txStates' = Point(h, Len(state) + 1)
  BY DEF TrackTransaction
<1>2. n \in 0..MaxNonce
  BY NonceBoundAssumption DEF IInv, CounterOK, NonceTypeOK
<1>3. PICK e \in Objects : state' = Append(state, e) /\ e.sent = {} /\ e.attempts = 0
  BY <1>1, <1>2, NewStateIs
<1>4. e.attempts <= MaxReorgRetries
  BY <1>3, RetriesAssumption
<1>5. /\ state' \in Seq(Objects) /\ Len(state') = Len(state) + 1 /\ Len(state) \in Nat
      /\ Len(state') \in Nat /\ Len(state') >= Len(state)
      /\ \A p \in 1..Len(state) : p \in 1..Len(state')
  BY <1>3, ObjectAppended
<1>6. Grows /\ call' = call /\ seen' = seen /\ nonce' = nonce
  BY <1>1, NonceQuiet, TxQuiet DEF Grows
<1>7. ObjectsOK'
  <2>1. Tracked' = Tracked \cup {h}
    BY <1>1 DEF Tracked, Point
  <2>2. Tracked \subseteq TxHashes /\ \A g \in Tracked : txStates[g] \in 1..Len(state)
    BY DEF IInv, ObjectsOK
  <2>3. Len(state) + 1 \in 1..Len(state')
    BY <1>5
  <2>4. \A g \in Tracked' : txStates'[g] = IF g = h THEN Len(state) + 1 ELSE txStates[g]
    BY <1>1, <2>1 DEF Point
  <2>5. \A g \in Tracked' : txStates'[g] \in 1..Len(state')
    BY <1>5, <2>1, <2>2, <2>3, <2>4
  <2>6. QED
    BY <1>5, <2>1, <2>2, <2>5 DEF ObjectsOK
<1>8. PcOK'
  BY <1>1, <1>5 DEF IInv, PcOK
<1>9. \A v \in Handlers : pc'[v] = pc[v]
  BY <1>1
<1>10. UNCHANGED <<call, seen, nonce>>
  BY <1>6
<1>11. QED
  BY <1>3, <1>4, <1>6, <1>7, <1>8, <1>9, <1>10, ObjectAdded

LEMMA UntrackStep ==
  ASSUME IInv, NEW h \in Tracked, UntrackTransaction(h)
  PROVE  IInv'
<1>1. /\ UNCHANGED <<nonceVars, txVars, state, pc, setBack>>
      /\ txStates' = [g \in Tracked \ {h} |-> txStates[g]]
  BY DEF UntrackTransaction
<1>2. Grows /\ call' = call
  BY <1>1, NonceQuiet, TxQuiet DEF Grows
<1>3. ObjectsOK'
  BY <1>1 DEF IInv, ObjectsOK, Tracked
<1>4. QED
  BY <1>1, <1>2, <1>3, NoMove

LEMMA ReserveStep ==
  ASSUME IInv, Reserve
  PROVE  IInv'
<1>1. UNCHANGED <<txVars, reorgVars>> /\ CounterOK' /\ nonce <= nonce'
  <2>1. GetNextNonce /\ setBack' = setBack /\ UNCHANGED <<txVars, reorgVars>>
    BY DEF Reserve, reorgVars
  <2>2. CounterOK' /\ nonce <= NextNonce /\ nonce' = NextNonce + 1 /\ NextNonce \in 0..MaxNonce
    BY <2>1, GrantStep DEF IInv
  <2>3. nonce \in Nat
    BY DEF IInv, CounterOK, NonceTypeOK
  <2>4. QED
    BY <2>1, <2>2, <2>3
<1>2. UNCHANGED <<state, pc, setBack>> /\ txStates' = txStates
  BY <1>1 DEF reorgVars
<1>3. Grows /\ call' = call
  BY <1>1, <1>2, TxQuiet DEF Grows
<1>4. ObjectsOK'
  BY <1>2 DEF IInv, ObjectsOK, Tracked
<1>5. QED
  BY <1>2, <1>3, <1>4, NoMove

LEMMA ResetStep ==
  ASSUME IInv, ResetCounter
  PROVE  IInv'
<1>1. /\ UNCHANGED <<txVars, txStates, state, pc>>
      /\ setBack' = (setBack \/ chainNext < nonce)
      /\ nonce' = chainNext /\ initialized' = TRUE /\ granted' = {} /\ first' = chainNext
      /\ UNCHANGED <<pending, chainNext>>
  BY DEF ResetCounter, InitializeNonce
<1>2. NonceTypeOK /\ setBack \in BOOLEAN
  BY DEF IInv, CounterOK
<1>3. chainNext \in Nat /\ nonce \in Nat
  BY <1>2, NonceBoundAssumption DEF NonceTypeOK
<1>4. CounterOK'
  BY <1>1, <1>2, <1>3 DEF CounterOK, NonceTypeOK
<1>5. Grows /\ call' = call
  <2>1. chainNext < nonce \/ nonce <= chainNext
    BY <1>3
  <2>2. setBack => setBack'
    BY <1>1
  <2>3. ~setBack' => nonce <= nonce'
    BY <1>1, <2>1
  <2>4. QED
    BY <1>1, <1>4, <2>2, <2>3, TxQuiet DEF Grows
<1>6. ObjectsOK'
  BY <1>1 DEF IInv, ObjectsOK, Tracked
<1>7. QED
  BY <1>1, <1>5, <1>6, NoMove

LEMMA AdvanceStep ==
  ASSUME IInv, ChainAdvances
  PROVE  IInv'
<1>1. /\ UNCHANGED <<txVars, reorgVars>> /\ chainNext \in granted /\ chainNext' = chainNext + 1
      /\ UNCHANGED <<nonce, initialized, pending, granted, first>>
  BY DEF ChainAdvances, NodeAccepts
<1>2. UNCHANGED <<state, pc, setBack>> /\ txStates' = txStates
  BY <1>1 DEF reorgVars
<1>3. NonceTypeOK
  BY DEF IInv, CounterOK
<1>4. chainNext' \in 0..(MaxNonce + 1)
  BY <1>1, <1>3, NonceBoundAssumption DEF NonceTypeOK
<1>5. CounterOK' /\ nonce <= nonce'
  BY <1>1, <1>2, <1>3, <1>4 DEF IInv, CounterOK, NonceTypeOK
<1>6. Grows /\ call' = call
  BY <1>1, <1>2, <1>5, TxQuiet DEF Grows
<1>7. ObjectsOK'
  BY <1>2 DEF IInv, ObjectsOK, Tracked
<1>8. QED
  BY <1>2, <1>6, <1>7, NoMove

LEMMA FollowStep ==
  ASSUME IInv, NEW u \in Workers \ Handlers, FollowChain(u)
  PROVE  IInv'
<1>1. UNCHANGED <<nonceVars, reorgVars>>
  BY DEF FollowChain
<1>2. UNCHANGED <<state, pc, setBack>> /\ txStates' = txStates /\ Handlers \subseteq Workers \ {u}
  BY <1>1, HandlersAssumption DEF reorgVars
<1>3. CounterOK' /\ nonce <= nonce'
  BY <1>1, <1>2, NonceQuiet
<1>4. Grows /\ \A v \in Handlers : call'[v] = call[v]
  <2>1. ASSUME NEW h \in Stored, NEW s \in {"mined", "confirmed"}, UpdateTxStatusCheck(u, h, s)
        PROVE  Grows /\ \A v \in Handlers : call'[v] = call[v]
    <3>1. s \in Statuses
      BY StatusesAre
    <3>2. QED
      BY <1>2, <1>3, <2>1, <3>1, CheckStep DEF IInv, Grows
  <2>2. CASE UpdateTxStatusWrite(u)
    BY <1>2, <1>3, <2>2, WriteStep DEF IInv, Grows
  <2>3. QED
    BY <2>1, <2>2 DEF FollowChain
<1>5. ObjectsOK'
  BY <1>2 DEF IInv, ObjectsOK, Tracked
<1>6. QED
  BY <1>2, <1>4, <1>5, NoMove

LEMMA StutterStep ==
  ASSUME IInv, UNCHANGED vars
  PROVE  IInv'
<1>1. UNCHANGED <<nonceVars, txVars, txStates, state, pc, setBack>>
  BY DEF vars, reorgVars
<1>2. Grows /\ call' = call
  BY <1>1, NonceQuiet, TxQuiet DEF Grows
<1>3. ObjectsOK'
  BY <1>1 DEF IInv, ObjectsOK, Tracked
<1>4. QED
  BY <1>1, <1>2, <1>3, NoMove

LEMMA StepKeepsIInv == IInv /\ [Next]_vars => IInv'
<1> SUFFICES ASSUME IInv, [Next]_vars PROVE IInv'
  OBVIOUS
<1>1. ASSUME NEW w \in Handlers, HandleReorg(w)
      PROVE  IInv'
  BY <1>1, BeginStep, GetTxStep, MarkStep, ClearOldStep, TakeStep, RebroadcastStep, RecordStep,
     RekeyStep DEF HandleReorg
<1>2. ASSUME NEW h \in TxHashes, NEW n \in granted \cup BaseNonces, TrackTransaction(h, n)
      PROVE  IInv'
  BY <1>2, TrackStep
<1>3. ASSUME NEW h \in Tracked, UntrackTransaction(h)
      PROVE  IInv'
  BY <1>3, UntrackStep
<1>4. CASE Reserve \/ ResetCounter \/ ChainAdvances
  BY <1>4, ReserveStep, ResetStep, AdvanceStep
<1>5. ASSUME NEW u \in Workers \ Handlers, FollowChain(u)
      PROVE  IInv'
  BY <1>5, FollowStep
<1>6. CASE UNCHANGED vars
  BY <1>6, StutterStep
<1>7. QED
  BY <1>1, <1>2, <1>3, <1>4, <1>5, <1>6 DEF Next

LEMMA InitHolds == Init => IInv
<1> SUFFICES ASSUME Init PROVE IInv
  OBVIOUS
<1>1. CounterOK
  <2>1. DOMAIN pending = {}
    BY DEF Init, NonceInit
  <2>2. chainNext \in 0..MaxNonce
    BY NonceBoundAssumption DEF Init, NonceInit
  <2>3. chainNext \in 0..(MaxNonce + 1)
    BY <2>2, NonceBoundAssumption
  <2>4. QED
    BY <2>1, <2>3 DEF Init, NonceInit, CounterOK, NonceTypeOK
<1>2. PICK S \in SUBSET TxHashes :
        rows = [h \in S |-> [status |-> IF h = "" THEN "built" ELSE "broadcast", attempts |-> 0]]
  BY DEF Init
<1>3. TxTypeOK
  <2>1. Stored = S /\ S \subseteq TxHashes
    BY <1>2 DEF Stored
  <2>2. 0 \in 0..MaxCount
    BY RBFLimitAssumption
  <2>3. \A h \in Stored : rows[h] \in [status : Statuses, attempts : 0..MaxCount]
    BY <1>2, <2>1, <2>2, StatusesAre
  <2>4. call = [w \in Workers |-> Idle] /\ call \in [Workers -> Calls]
    BY DEF Init, Calls
  <2>5. seen \in [TxHashes -> SUBSET Statuses]
    <3>1. \A h \in Stored : rows[h].status \in Statuses
      BY <2>3
    <3>2. \A h \in TxHashes : (IF h \in Stored THEN {rows[h].status} ELSE {}) \in SUBSET Statuses
      BY <3>1
    <3>3. seen = [h \in TxHashes |-> IF h \in Stored THEN {rows[h].status} ELSE {}]
      BY DEF Init
    <3>4. QED
      BY <3>2, <3>3
  <2>6. allowed \in [TxHashes -> Nat]
    BY DEF Init
  <2>7. QED
    BY <2>1, <2>3, <2>4, <2>5, <2>6 DEF TxTypeOK
<1>4. Tracked = {} /\ state = <<>>
  BY DEF Init, Tracked
<1>5. ObjectsOK /\ Len(state) = 0
  BY <1>4 DEF ObjectsOK
<1>6. /\ Out.at = "out"
      /\ Out \in [at : Places, hash : TxHashes \cup {""}, obj : Nat, new : Nat]
  BY DEF Out, Places
<1>7. pc = [w \in Handlers |-> Out]
  BY DEF Init
<1>8. PcOK
  BY <1>6, <1>7 DEF PcOK
<1>9. \A w \in Handlers : pc[w].at = "out" /\ call[w] = Idle
  BY <1>6, <1>7, HandlersAssumption DEF Init
<1>10. CallsMatch /\ SentIsBehind
  <2>1. CallsMatch
    BY <1>9 DEF CallsMatch
  <2>2. SentIsBehind
    BY <1>5, <1>9 DEF SentIsBehind
  <2>3. QED
    BY <2>1, <2>2
<1>11. RebroadcastsAreSound
  BY <1>5, <1>9
  DEF RebroadcastsAreSound, RebroadcastsArePaidFor, RebroadcastNoncesDistinct, NoncesDistinct,
      OnlyReorgedIsRebroadcast
<1>12. QED
  BY <1>1, <1>3, <1>5, <1>8, <1>10, <1>11 DEF IInv

(* However many handlers work on one transaction and whatever others do to the
   table between their calls: every rebroadcast is paid for with an attempt
   within the limit, has a nonce that no other rebroadcast has, and is of a
   transaction that was marked as reorged. *)
THEOREM RebroadcastsSound == Spec => []RebroadcastsAreSound
<1>1. IInv => RebroadcastsAreSound
  BY DEF IInv
<1>2. QED
  BY <1>1, InitHolds, StepKeepsIInv, PTL DEF Spec

(* The types of the nonce manager, of the table and of the handlers. *)
THEOREM TypeCorrect == Spec => []TypeOK
<1>1. IInv => TypeOK
  <2> SUFFICES ASSUME IInv PROVE TypeOK
    OBVIOUS
  <2>1. \A o \in 1..Len(state) :
          state[o] \in [nonce : 0..MaxNonce, attempts : Nat, sent : SUBSET (0..MaxNonce)]
    BY ObjectFacts DEF IInv, Objects
  <2>2. \A w \in Handlers :
          pc[w] # Out => pc[w].hash \in TxHashes /\ pc[w].obj \in 1..Len(state)
    BY DEF IInv, PcOK
  <2>3. QED
    BY <2>1, <2>2 DEF IInv, TypeOK, ObjectsOK, CounterOK
<1>2. QED
  BY <1>1, InitHolds, StepKeepsIInv, PTL DEF Spec
=============================================================================
