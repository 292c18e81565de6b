---------------------------- MODULE OrderManager ----------------------------
(***************************************************************************)
(* The shadow-mode order manager of core/execution/execution.go.  Open,    *)
(* Close, Rebalance and CollectFees look at the position table, build and  *)
(* simulate without a lock, and take the mutex again for the final write.  *)
(* The status they check is read through the pointer they looked up, after *)
(* the lock is released, so any other call may run between any two of      *)
(* these.  Nothing is broadcast.                                           *)
(***************************************************************************)
EXTENDS Integers, FiniteSets

CONSTANTS
  Callers,     \* goroutines that use the manager
  Positions,   \* position ids
  Ranges,      \* tick ranges
  MaxOpens     \* bound on successful opens of one id

(* domain.ValidTransitions, repeated in execution/state_machine.go. *)
ValidTransitions ==
  [intended    |-> {"approved", "rejected"},
   approved    |-> {"opening"},
   rejected    |-> {},
   opening     |-> {"open", "exit_failed"},
   open        |-> {"exiting", "manual"},
   exiting     |-> {"closed", "exit_failed"},
   closed      |-> {},
   exit_failed |-> {"manual", "exiting"},
   manual      |-> {}]

Statuses == DOMAIN ValidTransitions

CanTransitionTo(s, t) == t \in ValidTransitions[s]

VARIABLES
  positions,  \* id -> status and tick range of the stored intent
  call,       \* per caller: the call it is in, and how far that is
  opens,      \* history: successful opens of an id
  closes,     \* history: successful closes of an id since it was last opened
  said,       \* history: the answer each caller got last
  overlapped  \* history: positions on which two calls were under way at once

vars == <<positions, call, opens, closes, said, overlapped>>

Idle == [op |-> "idle"]
Stored == DOMAIN positions

(* What SimulateAndValidate can make of a transaction. *)
Outcomes == {"ok", "honeypot", "slippage", "reverted", "error"}

-----------------------------------------------------------------------------
NoAnswer == [pos |-> "none", success |-> FALSE, final |-> "none"]

Answer(w, p, success, status) ==
  /\ said' = [said EXCEPT ![w] = [pos |-> p, success |-> success, final |-> status]]
  /\ call' = [call EXCEPT ![w] = Idle]

(* Only a caller that is in no call starts one.  at is "found" between the
   lookup and the check of the status, "checked" afterwards; object is the
   state the caller's pointer leads to: what the table stores, or, once an
   Open has replaced that, what the replaced one said last. *)
Start(w, op, p, r, at) ==
  /\ call[w] = Idle
  /\ call' = [call EXCEPT ![w] =
                [op |-> op, pos |-> p, range |-> r, at |-> at, object |-> "stored"]]
  /\ overlapped' = IF \E v \in Callers : call[v] # Idle /\ call[v].pos = p
                   THEN overlapped \cup {p} ELSE overlapped
  /\ said' = [said EXCEPT ![w] = NoAnswer]
  /\ UNCHANGED <<positions, opens, closes>>

(* Open checks the intent, never the table. *)
Open(w, p, r) == Start(w, "open", p, r, "checked")

(* Mutant: the status is not checked. *)
CloseAnything(w, p) == p \in Stored /\ Start(w, "close", p, positions[p].range, "checked")

(* The lookup of Close, of Rebalance and of CollectFees, under RLock. *)
Close(w, p) == p \in Stored /\ Start(w, "close", p, positions[p].range, "found")

Rebalance(w, p, r) == p \in Stored /\ Start(w, "rebalance", p, r, "found")

CollectFees(w, p) == p \in Stored /\ Start(w, "collect", p, positions[p].range, "checked")

StatusSeen(w) ==
  IF call[w].object = "stored" THEN positions[call[w].pos].status ELSE call[w].object

(* The check comes after RUnlock.  One that reads while Close writes may see
   half of the new status; it refuses that as it refuses the whole of it. *)
CheckStatus(w) ==
  /\ call[w] # Idle /\ call[w].at = "found"
  /\ IF IF call[w].op = "close" THEN CanTransitionTo(StatusSeen(w), "exiting")
                                ELSE StatusSeen(w) = "open"
     THEN call' = [call EXCEPT ![w].at = "checked"] /\ UNCHANGED said
     ELSE Answer(w, call[w].pos, FALSE, "none")
  /\ UNCHANGED <<positions, opens, closes, overlapped>>

Checked(w, op) == call[w] # Idle /\ call[w].at = "checked" /\ call[w].op = op

(* The rejected and exit_failed of an answer are not written to the table.
   CollectFees does not look at the two findings. *)
Fail(w) ==
  /\ call[w] # Idle /\ call[w].at = "checked"
  /\ \E o \in Outcomes \ {"ok"} :
       /\ call[w].op = "collect" => o \notin {"honeypot", "slippage"}
       /\ Answer(w, call[w].pos, FALSE,
            CASE call[w].op = "open" /\ o \in {"honeypot", "slippage"} -> "rejected"
              [] call[w].op = "close" /\ o # "error"                   -> "exit_failed"
              [] OTHER                                                 -> "none")
  /\ UNCHANGED <<positions, opens, closes, overlapped>>

(* The calls of others once the state they looked up is no longer the stored
   one. *)
Outdated(v, p) ==
  IF call[v] # Idle /\ call[v].pos = p /\ call[v].at = "found" /\ call[v].object = "stored"
  THEN [call[v] EXCEPT !.object = positions[p].status] ELSE call[v]

FinishOpen(w) ==
  /\ Checked(w, "open")
  /\ LET p == call[w].pos IN
       /\ opens[p] < MaxOpens
       /\ positions' = [q \in Stored \cup {p} |->
                          IF q = p THEN [status |-> "open", range |-> call[w].range]
                          ELSE positions[q]]
       /\ opens' = [opens EXCEPT ![p] = @ + 1]
       /\ closes' = [closes EXCEPT ![p] = 0]
       /\ call' = [v \in Callers |-> IF v = w THEN Idle ELSE Outdated(v, p)]
       /\ said' = [said EXCEPT ![w] = [pos |-> p, success |-> TRUE, final |-> "open"]]
  /\ UNCHANGED overlapped

(* Mutant: the table is left at the intermediate status. *)
FinishCloseHalfway(w) ==
  /\ Checked(w, "close")
  /\ positions' = [positions EXCEPT ![call[w].pos].status = "exiting"]
  /\ Answer(w, call[w].pos, TRUE, "closed")
  /\ UNCHANGED <<opens, closes, overlapped>>

(* Mutant: the write goes through the pointer that the check read, not to the
   position looked up again. *)
FinishCloseOfObject(w) ==
  /\ Checked(w, "close")
  /\ LET p == call[w].pos IN
       /\ positions' = IF call[w].object = "stored"
                       THEN [positions EXCEPT ![p].status = "closed"] ELSE positions
       /\ closes' = [closes EXCEPT ![p] = @ + 1]
       /\ Answer(w, p, TRUE, "closed")
  /\ UNCHANGED <<opens, overlapped>>

(* The final write looks the position up again. *)
FinishClose(w) ==
  /\ Checked(w, "close")
  /\ LET p == call[w].pos IN
       /\ positions' = [positions EXCEPT ![p].status = "closed"]
       /\ closes' = [closes EXCEPT ![p] = @ + 1]
       /\ Answer(w, p, TRUE, "closed")
  /\ UNCHANGED <<opens, overlapped>>

FinishRebalance(w) ==
  /\ Checked(w, "rebalance")
  /\ positions' = [positions EXCEPT ![call[w].pos].range = call[w].range]
  /\ Answer(w, call[w].pos, TRUE, "open")
  /\ UNCHANGED <<opens, closes, overlapped>>

FinishCollect(w) ==
  /\ Checked(w, "collect")
  /\ Answer(w, call[w].pos, TRUE, "none")
  /\ UNCHANGED <<positions, opens, closes, overlapped>>

-----------------------------------------------------------------------------
Init ==
  /\ positions = [p \in {} |-> 0]
  /\ call = [w \in Callers |-> Idle]
  /\ opens = [p \in Positions |-> 0]
  /\ closes = [p \in Positions |-> 0]
  /\ said = [w \in Callers |-> NoAnswer]
  /\ overlapped = {}

Next ==
  \E w \in Callers :
    \/ \E p \in Positions :
         \/ \E r \in Ranges : Open(w, p, r) \/ Rebalance(w, p, r)
         \/ Close(w, p)
         \/ CollectFees(w, p)
    \/ CheckStatus(w)
    \/ Fail(w)
    \/ FinishOpen(w) \/ FinishClose(w) \/ FinishRebalance(w) \/ FinishCollect(w)

Spec == Init /\ [][Next]_vars

-----------------------------------------------------------------------------
Calls ==
  {Idle}
  \cup [op : {"open"}, pos : Positions, range : Ranges, at : {"checked"}, object : {"stored"}]
  \cup [op : {"close", "rebalance", "collect"}, pos : Stored, range : Ranges,
        at : {"found", "checked"}, object : {"stored", "open", "closed"}]

(* Types of the positions, of the calls under way and of the answers. *)
TypeOK ==
  /\ Stored \subseteq Positions
  /\ \A p \in Stored : positions[p] \in [status : {"open", "closed"}, range : Ranges]
  /\ call \in [Callers -> Calls]
  /\ opens \in [Positions -> 0..MaxOpens]
  /\ closes \in [Positions -> Nat]
  /\ said \in [Callers -> [pos : Positions \cup {"none"}, success : BOOLEAN,
                           final : {"none", "rejected", "exit_failed", "open", "closed"}]]
  /\ overlapped \subseteq Positions

(* A position is closed at most once for each time it is opened while its calls
   do not overlap.  When they do, nothing between the check and the write asks
   again, and the check may even look at a state an Open has replaced: then a
   position is closed again, but no more often than there are callers, since
   what a caller has seen before the first close serves it for one close. *)
ClosesAreBounded ==
  \A p \in Positions :
    closes[p] <= IF p \in overlapped THEN Cardinality(Callers) ELSE 1

(* interface.go: "FinalStatus is the terminal status of the position after
   execution".  Of the answers of success that is so, whatever calls there are
   beside, but for a Rebalance on whose position calls overlap: a Close may have
   overtaken it.  The rejected and exit_failed of the answers of failure are
   stored nowhere. *)
SuccessesAreStored ==
  [][\A w \in Callers :
       said'[w] # said[w] /\ said'[w].success /\ said'[w].final # "none" =>
         \/ positions'[said'[w].pos].status = said'[w].final
         \/ call[w].op = "rebalance" /\ said'[w].pos \in overlapped]_vars
=============================================================================
