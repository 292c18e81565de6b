------------------------------- MODULE TxRepo -------------------------------
(***************************************************************************)
(* The transactions table of adapters/store/sqlite/tx_repo.go and the      *)
(* lifecycle of domain/tx.go.  The repository takes no lock and opens no   *)
(* database transaction: a method is atomic per SQL statement, so          *)
(* UpdateTxStatus (SELECT, check, UPDATE) and IncrementRFBAttempts         *)
(* (UPDATE, SELECT, check) are two steps each, interleaved by Workers.     *)
(***************************************************************************)
EXTENDS Integers, FiniteSets

CONSTANTS
  Workers,    \* goroutines that use the repository
  TxHashes,     \* values of tx_hash; "" is the hash of an unsigned record
  MaxRBF,     \* domain.MaxRBFAttempts()
  MaxCount,   \* bound on rfb_attempts
  Records     \* <<status, attempts>> of the transactions handed to UpsertTx

ASSUME RBFLimitAssumption == MaxRBF \in Nat /\ MaxCount \in Nat

ValidTransitions ==
  [built      |-> {"broadcast", "failed"},
   broadcast  |-> {"mined", "stuck", "reverted", "reorged"},
   mined      |-> {"confirmed", "reverted", "reorged"},
   confirmed  |-> {},
   stuck      |-> {"rbf_bumped", "failed"},
   rbf_bumped |-> {"mined", "stuck", "failed"},
   failed     |-> {},
   reverted   |-> {"broadcast", "failed"},
   reorged    |-> {"broadcast", "failed"}]

Statuses == DOMAIN ValidTransitions

ASSUME RecordsAssumption == Records \subseteq (Statuses \cup {""}) \X (0..MaxCount)

VARIABLES
  rows,     \* table: hash -> status, rfb_attempts
  call,     \* per worker: the call between its two statements
  seen,     \* history: statuses a row has ever had
  allowed   \* history: IncrementRFBAttempts calls that returned nil since
            \* the counter was last overwritten

txVars == <<rows, call, seen, allowed>>

Idle == [op |-> "idle"]

Stored == DOMAIN rows

-----------------------------------------------------------------------------
Write(h, row) == [g \in Stored \cup {h} |-> IF g = h THEN row ELSE rows[g]]

(* UpsertTx: one statement; an empty status is stored as built, and the counter
   of the record replaces that of the row. *)
UpsertTx(h, s, k) ==
  LET status == IF s = "" THEN "built" ELSE s IN
  /\ rows' = Write(h, [status |-> status, attempts |-> k])
  /\ seen' = [seen EXCEPT ![h] = @ \cup {status}]
  /\ allowed' = [allowed EXCEPT ![h] = 0]
  /\ call' = [w \in Workers |->
                IF call[w].op = "inc" /\ call[w].hash = h
                THEN [call[w] EXCEPT !.counts = FALSE] ELSE call[w]]

(* Mutant: the transition table is not consulted. *)
UpdateTxStatusUnchecked(w, h, s) ==
  /\ call[w] = Idle /\ h \in Stored
  /\ call' = [call EXCEPT ![w] = [op |-> "update", hash |-> h, to |-> s]]
  /\ UNCHANGED <<rows, seen, allowed>>

(* UpdateTxStatus: a missing row or a transition the table does not allow is
   an error and ends the call here. *)
UpdateTxStatusCheck(w, h, s) ==
  /\ call[w] = Idle /\ h \in Stored
  /\ s \in ValidTransitions[rows[h].status]
  /\ call' = [call EXCEPT ![w] = [op |-> "update", hash |-> h, to |-> s]]
  /\ UNCHANGED <<rows, seen, allowed>>

(* ... and the UPDATE names the row only, not the status that was checked. *)
UpdateTxStatusWrite(w) ==
  /\ call[w].op = "update"
  /\ LET h == call[w].hash IN
       /\ rows' = [rows EXCEPT ![h].status = call[w].to]
       /\ seen' = [seen EXCEPT ![h] = @ \cup {call[w].to}]
  /\ call' = [call EXCEPT ![w] = Idle]
  /\ UNCHANGED allowed

IncrementWrite(w, h) ==
  /\ call[w] = Idle /\ h \in Stored /\ rows[h].attempts < MaxCount
  /\ rows' = [rows EXCEPT ![h].attempts = @ + 1]
  /\ call' = [call EXCEPT ![w] = [op |-> "inc", hash |-> h, counts |-> TRUE]]
  /\ UNCHANGED <<seen, allowed>>

(* Mutant: the counter is compared as it was before the increment. *)
IncrementCheckLate(w) ==
  /\ call[w].op = "inc"
  /\ LET h == call[w].hash IN
       allowed' = IF rows[h].attempts - 1 <= MaxRBF /\ call[w].counts
                  THEN [allowed EXCEPT ![h] = @ + 1] ELSE allowed
  /\ call' = [call EXCEPT ![w] = Idle]
  /\ UNCHANGED <<rows, seen>>

(* The counter is read back; above the maximum the call fails, though the
   increment stays. *)
IncrementCheck(w) ==
  /\ call[w].op = "inc"
  /\ LET h == call[w].hash IN
       allowed' = IF rows[h].attempts <= MaxRBF /\ call[w].counts
                  THEN [allowed EXCEPT ![h] = @ + 1] ELSE allowed
  /\ call' = [call EXCEPT ![w] = Idle]
  /\ UNCHANGED <<rows, seen>>

-----------------------------------------------------------------------------
TxInit ==
  /\ rows = [h \in {} |-> 0]
  /\ call = [w \in Workers |-> Idle]
  /\ seen = [h \in TxHashes |-> {}]
  /\ allowed = [h \in TxHashes |-> 0]

TxNext ==
  \/ \E h \in TxHashes, r \in Records : UpsertTx(h, r[1], r[2])
  \/ \E w \in Workers :
       \/ \E h \in TxHashes, s \in Statuses : UpdateTxStatusCheck(w, h, s)
       \/ UpdateTxStatusWrite(w)
       \/ \E h \in TxHashes : IncrementWrite(w, h)
       \/ IncrementCheck(w)

TxSpec == TxInit /\ [][TxNext]_txVars

-----------------------------------------------------------------------------
Calls ==
  {Idle}
    \cup [op : {"update"}, hash : TxHashes, to : Statuses]
    \cup [op : {"inc"}, hash : TxHashes, counts : BOOLEAN]

(* Types of the table and of the calls between their statements. *)
TxTypeOK ==
  /\ Stored \subseteq TxHashes
  /\ \A h \in Stored : rows[h] \in [status : Statuses, attempts : 0..MaxCount]
  /\ call \in [Workers -> Calls]
  /\ \A w \in Workers : call[w] # Idle => call[w].hash \in Stored
  /\ seen \in [TxHashes -> SUBSET Statuses]
  /\ allowed \in [TxHashes -> Nat]

(* What callers hand to UpsertTx comes to a row unchecked. *)
Upserted == {IF r[1] = "" THEN "built" ELSE r[1] : r \in Records}

(* However the statements of concurrent updates and upserts interleave, any
   other status comes to a row only behind one that leads there: nothing is
   confirmed that was not mined, bumped that was not stuck, or reorged that was
   not sent. *)
NoStatusWithoutItsPast ==
  \A h \in Stored :
    /\ rows[h].status \in seen[h]
    /\ \A s \in seen[h] \ Upserted : \E r \in seen[h] : s \in ValidTransitions[r]

(* The check after the increment still bounds what concurrent callers are
   allowed: at most MaxRBF of them hear "go ahead" for one row. *)
BumpsGrantedBounded == \A h \in TxHashes : allowed[h] <= MaxRBF
=============================================================================
