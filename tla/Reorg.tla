-------------------------------- MODULE Reorg --------------------------------
(***************************************************************************)
(* core/execution reorgHandler.HandleReorg over the nonce manager and the  *)
(* sqlite TxRepo.  The handler's mutex covers only the lookup of the       *)
(* tracked state and its replacement at the end: every call in between is  *)
(* a step of its own, and other handlers, trackers and users of the        *)
(* repository run between them.                                            *)
(***************************************************************************)
EXTENDS NonceManager, TxRepo, Sequences

CONSTANTS
  Handlers,         \* goroutines that run HandleReorg
  MaxReorgRetries,
  MaxStates,        \* bound on the txReorgState objects ever created
  DatabaseFails     \* whether statements of the repository may fail

ASSUME HandlersAssumption == Handlers \subseteq Workers /\ IsFiniteSet(Handlers)
ASSUME RetriesAssumption == MaxReorgRetries \in Nat /\ MaxStates \in Nat
ASSUME FailsAssumption == DatabaseFails \in BOOLEAN

VARIABLES
  txStates,  \* tracked hash -> index of the state object it points to
  state,     \* the txReorgState objects: nonce, attempts and, as history,
             \* the nonces this object was rebroadcast under
  pc,        \* per handler: the call it makes next, its hash, its state
             \* object and the new nonce
  setBack    \* history: InitializeNonce has read a chain that lags behind
             \* the counter

reorgVars == <<txStates, state, pc, setBack>>
vars == <<nonceVars, txVars, reorgVars>>

Out == [at |-> "out", hash |-> "", obj |-> 0, new |-> 0]

Go(w, where) == pc' = [pc EXCEPT ![w].at = where]
Return(w)    == pc' = [pc EXCEPT ![w] = Out]

Tracked == DOMAIN txStates

Point(h, o) == [g \in Tracked \cup {h} |-> IF g = h THEN o ELSE txStates[g]]

NewState(n, k) == Append(state, [nonce |-> n, attempts |-> k, sent |-> {}])

-----------------------------------------------------------------------------
(* Mutant: the attempt is checked against the limit but not counted. *)
BeginUncounted(w, h) ==
  /\ pc[w] = Out /\ h \in Tracked
  /\ state[txStates[h]].attempts < MaxReorgRetries
  /\ pc' = [pc EXCEPT ![w] = [at |-> "get", hash |-> h, obj |-> txStates[h], new |-> 0]]
  /\ UNCHANGED <<nonceVars, txVars, txStates, state, setBack>>

(* The locked prologue: an attempt is counted before anything is tried. *)
Begin(w, h) ==
  /\ pc[w] = Out /\ h \in Tracked
  /\ LET o == txStates[h] IN
       /\ state[o].attempts < MaxReorgRetries
       /\ state' = [state EXCEPT ![o].attempts = @ + 1]
       /\ pc' = [pc EXCEPT ![w] = [at |-> "get", hash |-> h, obj |-> o, new |-> 0]]
  /\ UNCHANGED <<nonceVars, txVars, txStates, setBack>>

(* A missing row and a failing query both end the handler. *)
GetTx(w) ==
  /\ pc[w].at = "get"
  /\ \/ pc[w].hash \in Stored /\ Go(w, "mark")
     \/ (pc[w].hash \notin Stored \/ DatabaseFails) /\ Return(w)
  /\ UNCHANGED <<nonceVars, txVars, txStates, state, setBack>>

(* UpdateTxStatus(h, s): both statements, or its error, which the handler
   returns: the row is missing, the transition is refused, or either statement
   fails. *)
Update(w, at, h, s, next) ==
  \/ /\ pc[w].at = at
     /\ UpdateTxStatusCheck(w, h, s)
     /\ UNCHANGED pc
  \/ /\ pc[w].at = at
     /\ \/ call[w] = Idle /\ (h \in Stored => s \notin ValidTransitions[rows[h].status])
        \/ DatabaseFails
     /\ call' = [call EXCEPT ![w] = Idle]
     /\ Return(w)
     /\ UNCHANGED <<rows, seen, allowed>>
  \/ /\ pc[w].at = at
     /\ UpdateTxStatusWrite(w)
     /\ Go(w, next)

(* Mutant: the error of the status update is ignored. *)
MarkReorgedAnyway(w) ==
  /\ \/ Update(w, "mark", pc[w].hash, "reorged", "clear")
     \/ pc[w].at = "mark" /\ call[w] = Idle /\ Go(w, "clear") /\ UNCHANGED txVars
  /\ UNCHANGED <<nonceVars, txStates, state, setBack>>

MarkReorged(w) ==
  /\ Update(w, "mark", pc[w].hash, "reorged", "clear")
  /\ UNCHANGED <<nonceVars, txStates, state, setBack>>

ClearOldNonce(w) ==
  /\ pc[w].at = "clear"
  /\ ClearPending(state[pc[w].obj].nonce)
  /\ Go(w, "grant")
  /\ UNCHANGED <<txVars, txStates, state, setBack>>

(* Mutant: the next nonce is looked up but not taken. *)
PeekNonce(w) ==
  /\ pc[w].at = "grant"
  /\ pc' = [pc EXCEPT ![w].at = "send", ![w].new = NextNonce]
  /\ UNCHANGED <<nonceVars, txVars, txStates, state, setBack>>

TakeNonce(w) ==
  /\ pc[w].at = "grant"
  /\ \/ /\ GetNextNonce
        /\ pc' = [pc EXCEPT ![w].at = "send", ![w].new = NextNonce]
     \/ ~initialized /\ Return(w) /\ UNCHANGED nonceVars   \* the RPC fails
  /\ UNCHANGED <<txVars, txStates, state, setBack>>

(* The MEV submitter or the broadcaster: either may refuse, and either may
   report an error for a transaction the network has taken. *)
Rebroadcast(w) ==
  /\ pc[w].at = "send"
  /\ \/ /\ state' = [state EXCEPT ![pc[w].obj].sent = @ \cup {pc[w].new}]
        /\ Go(w, "record") \/ Return(w)
     \/ Return(w) /\ UNCHANGED state
  /\ UNCHANGED <<nonceVars, txVars, txStates, setBack>>

(* newTx is built without a Hash, so the row updated is that of "". *)
RecordBroadcast(w) ==
  /\ Update(w, "record", "", "broadcast", "rekey")
  /\ UNCHANGED <<nonceVars, txStates, state, setBack>>

(* The new entry is set first, then the old hash is deleted. *)
Rekey(w) ==
  /\ pc[w].at = "rekey" /\ Len(state) < MaxStates
  /\ state' = NewState(pc[w].new, state[pc[w].obj].attempts)
  /\ txStates' = [h \in (Tracked \cup {""}) \ {pc[w].hash} |->
                    Point("", Len(state) + 1)[h]]
  /\ Return(w)
  /\ UNCHANGED <<nonceVars, txVars, setBack>>

-----------------------------------------------------------------------------
(* Mutant: the hash is tracked without a state object behind it. *)
TrackNothing(h, n) ==
  /\ txStates' = Point(h, Len(state) + 1)
  /\ UNCHANGED <<nonceVars, txVars, state, pc, setBack>>

(* The callers: a transaction that was sent and confirmed, by this process or
   an earlier one, is tracked with the nonce it was given. *)
TrackTransaction(h, n) ==
  /\ Len(state) < MaxStates
  /\ state' = NewState(n, 0)
  /\ txStates' = Point(h, Len(state) + 1)
  /\ UNCHANGED <<nonceVars, txVars, pc, setBack>>

UntrackTransaction(h) ==
  /\ txStates' = [g \in Tracked \ {h} |-> txStates[g]]
  /\ UNCHANGED <<nonceVars, txVars, state, pc, setBack>>

Reserve == GetNextNonce /\ UNCHANGED <<txVars, reorgVars>>

(* A fresh read of the chain replaces the counter, whatever was granted. *)
ResetCounter ==
  /\ InitializeNonce
  /\ setBack' = (setBack \/ chainNext < nonce)
  /\ UNCHANGED <<txVars, txStates, state, pc>>

ChainAdvances == NodeAccepts /\ UNCHANGED <<txVars, reorgVars>>

(* Another goroutine records what the chain shows. *)
FollowChain(u) ==
  /\ \/ \E h \in Stored, s \in {"mined", "confirmed"} : UpdateTxStatusCheck(u, h, s)
     \/ UpdateTxStatusWrite(u)
  /\ UNCHANGED <<nonceVars, reorgVars>>

Init ==
  /\ NonceInit
  /\ rows \in {[h \in S |-> [status |-> IF h = "" THEN "built" ELSE "broadcast",
                             attempts |-> 0]] : S \in SUBSET TxHashes}
  /\ call = [w \in Workers |-> Idle]
  /\ seen = [h \in TxHashes |-> IF h \in Stored THEN {rows[h].status} ELSE {}]
  /\ allowed = [h \in TxHashes |-> 0]
  /\ txStates = [h \in {} |-> 0]
  /\ state = <<>>
  /\ pc = [w \in Handlers |-> Out]
  /\ setBack = FALSE

HandleReorg(w) ==
  \/ \E h \in Tracked : Begin(w, h)
  \/ GetTx(w) \/ MarkReorged(w) \/ ClearOldNonce(w) \/ TakeNonce(w)
  \/ Rebroadcast(w) \/ RecordBroadcast(w) \/ Rekey(w)

Next ==
  \/ \E w \in Handlers : HandleReorg(w)
  \/ \E h \in TxHashes \ {""}, n \in granted \cup BaseNonces : TrackTransaction(h, n)
  \/ \E h \in Tracked : UntrackTransaction(h)
  \/ Reserve \/ ResetCounter \/ ChainAdvances
  \/ \E u \in Workers \ Handlers : FollowChain(u)

Spec == Init /\ [][Next]_vars

-----------------------------------------------------------------------------
(* Types of the tracked transactions and of the handlers. *)
TypeOK ==
  /\ NonceTypeOK /\ TxTypeOK
  /\ Tracked \subseteq TxHashes
  /\ \A h \in Tracked : txStates[h] \in 1..Len(state)
  /\ \A o \in 1..Len(state) :
       state[o] \in [nonce : 0..MaxNonce, attempts : Nat, sent : SUBSET (0..MaxNonce)]
  /\ \A w \in Handlers :
       pc[w] # Out => pc[w].hash \in TxHashes /\ pc[w].obj \in 1..Len(state)
  /\ setBack \in BOOLEAN

Before(w) == pc[w].at \in {"get", "mark", "clear", "grant", "send"}

(* Every rebroadcast of a state object, done or still to come, has been paid
   for with an attempt of that object, and no object has more attempts than
   MaxReorgRetries: the count is taken under the lock, before the calls. *)
RebroadcastsArePaidFor ==
  \A o \in 1..Len(state) :
    LET coming == {w \in Handlers : Before(w) /\ pc[w].obj = o} IN
    /\ Cardinality(state[o].sent) + Cardinality(coming) <= state[o].attempts
    /\ state[o].attempts <= MaxReorgRetries

(* No nonce is used by two rebroadcasts, nor is one about to be. *)
NoncesDistinct ==
  LET holds(w) == pc[w].at = "send" IN
  /\ \A o, p \in 1..Len(state) : o # p => state[o].sent \cap state[p].sent = {}
  /\ \A w \in Handlers : holds(w) =>
       /\ \A o \in 1..Len(state) : pc[w].new \notin state[o].sent
       /\ \A v \in Handlers \ {w} : holds(v) => pc[v].new # pc[w].new

(* ... as long as the counter has not been set back to a chain that lags
   behind it. *)
RebroadcastNoncesDistinct == ~setBack => NoncesDistinct

(* Nothing is rebroadcast whose row was not marked as reorged before: a
   transaction that was confirmed or has failed is left alone. *)
OnlyReorgedIsRebroadcast ==
  \A w \in Handlers :
    pc[w].at \in {"clear", "grant", "send", "record"} => "reorged" \in seen[pc[w].hash]

(* A rebroadcast is counted, has a nonce of its own, and follows a reorg,
   though two handlers of one hash share a state object without a lock. *)
RebroadcastsAreSound ==
  RebroadcastsArePaidFor /\ RebroadcastNoncesDistinct /\ OnlyReorgedIsRebroadcast

-----------------------------------------------------------------------------
(* reorg.go, after the rebroadcast: "Update status to broadcast": when the
   handler returns, the transaction it has sent is not left at reorged, where
   no later HandleReorg can pick it up. *)
RebroadcastIsRecorded ==
  [][\A w \in Handlers :
       pc[w].at \in {"record", "rekey"} /\ pc'[w] = Out
         => rows[pc[w].hash].status # "reorged"]_vars
=============================================================================
