------------------------------ MODULE Sending ------------------------------
(***************************************************************************)
(* The ways by which a signed transaction leaves the program: the private  *)
(* relays (adapters/mev/flashbots-protect and adapters/mev/jito) with their *)
(* counters and their fallback, and the broadcasters                       *)
(* (adapters/broadcast/live and adapters/broadcast/disabled).  Relays and  *)
(* nodes are external: a request may be taken although its answer is lost. *)
(***************************************************************************)
EXTENDS Integers, FiniteSets

CONSTANTS
  Callers,
  Txs,
  Confirmations,  \* BroadcastConfig.Confirmations when the broadcaster waits
  MaxHeight,      \* bound on the blocks of the chain
  MaxCalls        \* bound on the calls to submitter and broadcaster together

VARIABLES
  config,    \* the build, the submitter and the broadcaster it was given
  call,      \* per caller: where its call is, or what the last one answered
  stats,     \* the atomic counters of the submitter
  calls,     \* broadcaster.callCount
  panicked,  \* has the disabled broadcaster ended the process
  relay,     \* external: transactions the private relay has taken
  mempool,   \* external: transactions public nodes have taken
  direct,    \* history: transactions given to the broadcaster by a caller
  head,      \* external: height of the chain
  minedAt    \* external: height a transaction is mined at, or 0

vars == <<config, call, stats, calls, panicked, relay, mempool, direct, head, minedAt>>
chainVars == <<relay, mempool, direct, head, minedAt>>

Kinds == {"strict", "protect", "jito"}
Counters == {"submitted", "success", "fallback", "failed"}

(* The configurations the builds allow.  Flashbots serves Base and Jito serves
   Solana; the live build has the live broadcaster, any other the disabled one. *)
Configs ==
  {c \in [live : BOOLEAN, kind : Kinds, strictMode : BOOLEAN,
          broadcaster : {"none", "live", "disabled"}, confirmations : {0, Confirmations}] :
     /\ c.broadcaster = "live" => c.live
     /\ c.broadcaster = "disabled" => ~c.live
     /\ c.kind # "strict" => ~c.strictMode
     /\ c.broadcaster # "live" => c.confirmations = 0}

Chain == IF config.kind = "jito" THEN "solana" ELSE "base"

(* Mutant: the live build leaves the configured mode alone. *)
StrictAsConfigured == config.strictMode

(* NewFlashbotsMEVStrict: the live build forces the strict mode. *)
StrictMode == config.strictMode \/ config.live

Idle == [at |-> "idle", via |-> "none", txs |-> {}, took |-> FALSE, block |-> 0,
         stale |-> FALSE, answer |-> "none"]

Count(counters) ==
  stats' = [n \in Counters |-> stats[n] + IF n \in counters THEN 1 ELSE 0]

At(c, place) == call[c].at = place
Moves(c, place) == call' = [call EXCEPT ![c].at = place]
Answers(c, answer) == call' = [call EXCEPT ![c].at = "idle", ![c].answer = answer]

Starts(c, via, txs, place) ==
  /\ At(c, "idle") /\ stats["submitted"] + calls < MaxCalls
  /\ call' = [call EXCEPT ![c] = [Idle EXCEPT !.at = place, !.via = via, !.txs = txs]]

-----------------------------------------------------------------------------
(* Submit, of each of the submitters, up to the request. *)
Submit(c, t) ==
  /\ Starts(c, "submit", {t}, "posting")
  /\ Count({"submitted"})
  /\ UNCHANGED <<config, calls, panicked, chainVars>>

(* SubmitBundle: Jito refuses the empty one before it asks the relay. *)
SubmitBundle(c, txs) ==
  /\ config.kind \in {"protect", "jito"}
  /\ IF config.kind = "jito" /\ txs = {}
       THEN /\ Starts(c, "bundle", txs, "idle")
            /\ Count({"submitted", "failed"})
       ELSE /\ Starts(c, "bundle", txs, "posting")
            /\ Count({"submitted"})
  /\ UNCHANGED <<config, calls, panicked, chainVars>>

RelayTakes(c) ==
  /\ At(c, "posting") /\ ~call[c].took
  /\ relay' = relay \cup call[c].txs
  /\ call' = [call EXCEPT ![c].took = TRUE]
  /\ UNCHANGED <<config, stats, calls, panicked, mempool, direct, head, minedAt>>

RelayAnswers(c) ==
  /\ At(c, "posting") /\ call[c].took
  /\ Answers(c, "ok")
  /\ Count({"success"})
  /\ UNCHANGED <<config, calls, panicked, chainVars>>

(* What Submit does with a relay that failed: give the transaction to the
   broadcaster, or the caller an error. *)
FallsBack(c) ==
  /\ call[c].via = "submit" /\ config.broadcaster # "none"
  /\ \/ config.kind = "protect"
     \/ config.kind = "strict" /\ ~StrictMode

(* The strict submitter counts a failure before it looks for the fallback, the
   others when nothing is left to try. *)
CountedAtOnce(c) == config.kind = "strict" \/ ~FallsBack(c)

(* Mutant: every submitter counts the failure at once. *)
RelayFailsCounted(c) ==
  /\ At(c, "posting")
  /\ Count({"failed"})
  /\ IF FallsBack(c)
       THEN /\ calls' = calls + 1
            /\ Moves(c, "sending")
            /\ panicked' = (config.broadcaster = "disabled")
       ELSE Answers(c, "error") /\ UNCHANGED <<calls, panicked>>
  /\ UNCHANGED <<config, chainVars>>

(* The relay refuses, or its answer is lost: a timeout, a status other than OK,
   a body that does not decode.  The disabled broadcaster panics in Send. *)
RelayFails(c) ==
  /\ At(c, "posting")
  /\ Count(IF CountedAtOnce(c) THEN {"failed"} ELSE {})
  /\ IF FallsBack(c)
       THEN /\ calls' = calls + 1
            /\ Moves(c, "sending")
            /\ panicked' = (config.broadcaster = "disabled")
       ELSE Answers(c, "error") /\ UNCHANGED <<calls, panicked>>
  /\ UNCHANGED <<config, chainVars>>

-----------------------------------------------------------------------------
(* Send and Broadcast, called by the rest of the program. *)
Send(c, t) ==
  /\ config.broadcaster # "none"
  /\ Starts(c, "send", {t}, "sending")
  /\ calls' = calls + 1
  /\ panicked' = (config.broadcaster = "disabled")
  /\ direct' = direct \cup {t}
  /\ UNCHANGED <<config, stats, relay, mempool, head, minedAt>>

(* The broadcaster returns, to its caller or into the Submit that fell back. *)
Returns(c, answer) ==
  /\ Answers(c, answer)
  /\ Count(IF call[c].via = "send" THEN {}
           ELSE IF answer = "ok" THEN {"fallback"}
           ELSE IF CountedAtOnce(c) THEN {} ELSE {"failed"})
  /\ UNCHANGED <<config, calls, panicked, chainVars>>

NodeTakes(c) ==
  /\ At(c, "sending")
  /\ call' = [call EXCEPT ![c].at = "sent", ![c].took = TRUE]
  /\ mempool' = mempool \cup call[c].txs
  /\ UNCHANGED <<config, stats, calls, panicked, relay, direct, head, minedAt>>

(* The transaction does not decode, the node refuses it or has it already, or
   the answer is lost. *)
SendFails(c) == (At(c, "sending") \/ At(c, "sent")) /\ Returns(c, "error")

(* sendSolana takes "already processed" for a success. *)
AlreadyProcessed(c) ==
  /\ At(c, "sending") /\ Chain = "solana"
  /\ \E t \in call[c].txs : minedAt[t] > 0
  /\ Returns(c, "ok")

SendSucceeds(c) ==
  /\ At(c, "sent")
  /\ IF config.confirmations = 0
       THEN Returns(c, "ok")
       ELSE Moves(c, "confirming") /\ UNCHANGED <<config, stats, calls, panicked, chainVars>>

(* waitForEVMConfirmations asks for the receipt and, in a second call, for the
   height.  A receipt that is not found leaves everything as it is. *)
ReceiptFound(c) ==
  /\ At(c, "confirming") /\ Chain = "base"
  /\ \E t \in call[c].txs :
       /\ minedAt[t] > 0
       /\ call' = [call EXCEPT ![c].at = "receipt", ![c].block = minedAt[t],
                               ![c].stale = FALSE]
  /\ UNCHANGED <<config, stats, calls, panicked, chainVars>>

(* Mutant: the block of the transaction counts as a confirmation. *)
DeepEnoughWithItself(c) == head + 1 >= call[c].block + config.confirmations

DeepEnough(c) == head >= call[c].block + config.confirmations

HeightRead(c) ==
  /\ At(c, "receipt")
  /\ IF DeepEnough(c)
       THEN Returns(c, "ok")
       ELSE Moves(c, "confirming") /\ UNCHANGED <<config, stats, calls, panicked, chainVars>>

HeightFails(c) ==
  /\ At(c, "receipt")
  /\ Moves(c, "confirming")
  /\ UNCHANGED <<config, stats, calls, panicked, chainVars>>

(* waitForSolanaConfirmations asks for the status alone, not for a number of
   confirmations. *)
StatusConfirmed(c) ==
  /\ At(c, "confirming") /\ Chain = "solana"
  /\ \E t \in call[c].txs : minedAt[t] > 0
  /\ Returns(c, "ok")

(* The context ends, the deadline passes or, on Base, the node answers with an
   error: the transaction stays where it is. *)
GivesUp(c) == At(c, "confirming") /\ Returns(c, "error")

-----------------------------------------------------------------------------
(* The chain goes on, with a transaction it was given or without. *)
NewBlock ==
  /\ head < MaxHeight
  /\ head' = head + 1
  /\ \/ UNCHANGED minedAt
     \/ \E t \in relay \cup mempool :
          minedAt[t] = 0 /\ minedAt' = [minedAt EXCEPT ![t] = head + 1]
  /\ UNCHANGED <<config, call, stats, calls, panicked, relay, mempool, direct>>

(* A reorganisation drops a transaction that has fewer blocks on top than the
   broadcaster waits for. *)
Reorganise(t) ==
  /\ minedAt[t] > 0 /\ head < minedAt[t] + Confirmations
  /\ minedAt' = [minedAt EXCEPT ![t] = 0]
  /\ call' = [c \in Callers |->
                IF At(c, "receipt") /\ t \in call[c].txs
                  THEN [call[c] EXCEPT !.stale = TRUE] ELSE call[c]]
  /\ UNCHANGED <<config, stats, calls, panicked, relay, mempool, direct, head>>

Init ==
  /\ config \in Configs
  /\ call = [c \in Callers |-> Idle]
  /\ stats = [n \in Counters |-> 0]
  /\ calls = 0 /\ panicked = FALSE
  /\ relay = {} /\ mempool = {} /\ direct = {}
  /\ head = 0 /\ minedAt = [t \in Txs |-> 0]

RelayStep(c) == RelayTakes(c) \/ RelayAnswers(c) \/ RelayFails(c)

SendStep(c) == NodeTakes(c) \/ SendFails(c) \/ AlreadyProcessed(c) \/ SendSucceeds(c)

ConfirmStep(c) ==
  ReceiptFound(c) \/ HeightRead(c) \/ HeightFails(c) \/ StatusConfirmed(c) \/ GivesUp(c)

(* A panic ends the process. *)
Next ==
  /\ ~panicked
  /\ \/ \E c \in Callers :
          \/ \E t \in Txs : Submit(c, t) \/ Send(c, t)
          \/ \E txs \in SUBSET Txs : SubmitBundle(c, txs)
          \/ RelayStep(c) \/ SendStep(c) \/ ConfirmStep(c)
     \/ NewBlock
     \/ \E t \in Txs : Reorganise(t)

Spec == Init /\ [][Next]_vars

-----------------------------------------------------------------------------
(* Types of the configuration, the calls, the counters and the chain. *)
TypeOK ==
  /\ config \in Configs
  /\ call \in [Callers -> [at : {"idle", "posting", "sending", "sent", "confirming", "receipt"},
                           via : {"none", "submit", "bundle", "send"}, txs : SUBSET Txs,
                           took : BOOLEAN, block : 0..MaxHeight, stale : BOOLEAN,
                           answer : {"none", "ok", "error"}]]
  /\ stats \in [Counters -> Nat] /\ calls \in Nat /\ panicked \in BOOLEAN
  /\ relay \subseteq Txs /\ mempool \subseteq Txs /\ direct \subseteq Txs
  /\ head \in 0..MaxHeight /\ minedAt \in [Txs -> 0..MaxHeight]

(* In the live build a transaction submitted to the strict submitter or to Jito
   never shows in a public mempool, whatever mode was configured and whatever
   broadcaster is at hand: only what a caller broadcasts itself is public. *)
LiveStaysPrivate ==
  config.live /\ config.kind \in {"strict", "jito"} => mempool \subseteq direct

(* A submission under way that no counter but submitted knows of. *)
Uncounted(c) ==
  /\ call[c].via \in {"submit", "bundle"}
  /\ IF config.kind = "strict" THEN At(c, "posting") ELSE ~At(c, "idle")

(* The four counters account for every submission exactly once, with any number
   of calls under way.  The strict submitter counts a submission that fell back
   among the failed ones, too. *)
CountersAgree ==
  /\ stats["submitted"] = Cardinality({c \in Callers : Uncounted(c)})
                            + stats["success"] + stats["failed"]
                            + IF config.kind = "strict" THEN 0 ELSE stats["fallback"]
  /\ config.kind = "strict" => stats["fallback"] <= stats["failed"]

(* A success of the confirming broadcaster is final on a chain that reorganises
   less than Confirmations blocks, unless it did between the two answers that
   the success rests on. *)
ConfirmedStays ==
  \A c \in Callers :
    /\ At(c, "idle") /\ call[c].answer = "ok" /\ ~call[c].stale
    /\ Chain = "base" /\ config.confirmations > 0
    /\ call[c].via = "send" \/ call[c].block > 0
    => \A t \in call[c].txs : minedAt[t] > 0 /\ minedAt[t] = call[c].block

(* ports/mev.go, of an error of Submit: "both failed -> tx not sent". *)
BothFailedIsNotSent ==
  \A c \in Callers :
    call[c].via = "submit" /\ call[c].answer = "error" => ~call[c].took
=============================================================================
