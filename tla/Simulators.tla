----------------------------- MODULE Simulators -----------------------------
(***************************************************************************)
(* Simulation before a transaction is admitted: core/simulation on top of  *)
(* a ports.Simulator, which is the Anvil adapter, the Solana adapter or    *)
(* another (the tests').  Every call of the Anvil adapter starts a process *)
(* of its own, all of them on one port: whoever holds the port answers.    *)
(* A bot that is killed leaves its process behind.  The processes, the     *)
(* nodes and what they answer are external.                                *)
(***************************************************************************)
EXTENDS Integers, SequencesExt

CONSTANTS
  Callers,    \* goroutines that simulate
  KindsOf,    \* caller -> the simulators it asks
  Blocks,     \* blocks to fork from
  MaxTxs      \* bound on the transactions of a call

VARIABLES
  forkURL,    \* the Anvil adapter has a node to fork from
  anvil,      \* per caller, and for Orphan: its process, and the block it forked
  port,       \* the owner of the process that holds the port, or ""
  call        \* per caller: the call it is in

vars == <<forkURL, anvil, port, call>>

Orphan == "orphan"   \* the owner of a process that a killed bot has left
Owners == Callers \cup {Orphan}

NoProcess == [is |-> "none", block |-> 0]
Idle == [at |-> "idle", sim |-> "", core |-> FALSE, txs |-> 0, block |-> 0, hash |-> FALSE,
         results |-> <<>>, alone |-> TRUE, err |-> FALSE]

Go(c, where) == call' = [call EXCEPT ![c].at = where]
Fail(c, where) == call' = [call EXCEPT ![c].at = where, ![c].err = TRUE]

(* A result: did it succeed, how much gas, what came out against MinOut, and
   the block of the fork that answered (0 when none did). *)
Result(success, gas, out, block) ==
  [success |-> success, gas |-> gas, out |-> out, block |-> block]
Failure(block) == Result(FALSE, 0, "none", block)
Nil == Result(FALSE, 0, "nil", 0)   \* no result, and no error either
Gases == {220000, 220001}
Outputs == {"none", "within", "short"}

(* Mutant: the sequence goes on behind its last transaction. *)
AnsweredOn(c, result) ==
  call' = [call EXCEPT ![c].results = Append(@, result),
                       ![c].at = IF ~call[c].core THEN "call" ELSE "stop"]

(* The next transaction of SimulateSequence follows whatever the result. *)
Answered(c, result) ==
  call' = [call EXCEPT ![c].results = Append(@, result),
                       ![c].at = IF Len(call[c].results) + 1 < call[c].txs /\ ~call[c].core
                                 THEN "call" ELSE "stop"]

-----------------------------------------------------------------------------
(* A request to the core, or a call of an adapter's Simulate or SimulateSequence. *)
Ask(c, sim, core, n, block, hash) ==
  /\ call[c].at = "idle" /\ sim \in KindsOf[c]
  /\ call' = [call EXCEPT ![c] = [Idle EXCEPT !.at = "begin", !.sim = sim, !.core = core,
                                    !.txs = n, !.block = block, !.hash = hash]]
  /\ UNCHANGED <<forkURL, anvil, port>>

InProgress == {d \in Callers : call[d].at \in {"wait", "call", "stop"} /\ call[d].sim = "anvil"}

(* startAnvil: a hash without a node to fork from is refused, and the command
   may not start.  That the port is taken is not noticed here. *)
StartAnvil(c) ==
  /\ call[c].at = "begin" /\ call[c].sim = "anvil"
  /\ \/ Fail(c, "done") /\ UNCHANGED anvil
     \/ /\ forkURL \/ ~call[c].hash
        /\ anvil' = [anvil EXCEPT ![c] = [is |-> "starting", block |-> call[c].block]]
        /\ call' = [d \in Callers |->
             IF d = c THEN [call[c] EXCEPT !.at = "wait", !.hash = FALSE,
                              !.alone = @ /\ InProgress = {} /\ anvil[Orphan].is = "none"]
             ELSE IF d \in InProgress THEN [call[d] EXCEPT !.alone = FALSE]
             ELSE call[d]]
  /\ UNCHANGED <<forkURL, port>>

(* External: the process takes the port, or gives up when another has it. *)
AnvilBinds(c) ==
  /\ anvil[c].is = "starting"
  /\ IF port = "" THEN port' = c /\ anvil' = [anvil EXCEPT ![c].is = "listening"]
     ELSE UNCHANGED port /\ anvil' = [anvil EXCEPT ![c] = NoProcess]
  /\ UNCHANGED <<forkURL, call>>

Released(c) == IF port = c THEN "" ELSE port

AnvilDies(c) ==
  /\ anvil[c].is = "listening"
  /\ anvil' = [anvil EXCEPT ![c] = NoProcess]
  /\ port' = Released(c)
  /\ UNCHANGED <<forkURL, call>>

(* waitForReady: anyone who listens will do; a deadline or the context ends it. *)
WaitForReady(c) ==
  /\ call[c].at = "wait"
  /\ \/ port # "" /\ Go(c, "call")
     \/ Fail(c, "stop")
  /\ UNCHANGED <<forkURL, anvil, port>>

(* The bot is killed: its calls are gone, but the process that has the port, or
   if none has the one that takes it, lives on. *)
KillBot ==
  /\ call' = [c \in Callers |-> Idle]
  /\ \/ \A c \in Owners : anvil[c].is = "none" /\ UNCHANGED <<anvil, port>>
     \/ \E c \in Owners :
          /\ anvil[c].is = IF port = "" THEN "starting" ELSE "listening"
          /\ anvil' = [d \in Owners |->
                         IF d = Orphan THEN [is |-> "listening", block |-> anvil[c].block]
                         ELSE NoProcess]
          /\ port' = Orphan
  /\ UNCHANGED forkURL

(* ethCall: an error of the node is a failure; a value becomes an error, which
   Simulate turns into one, since hexToBytes is given the quotes of the JSON
   string as well; without either, nothing sets the success.  Only the gas
   differs, which counts for a success alone. *)
EthCall(c) ==
  /\ call[c].at = "call" /\ call[c].sim = "anvil"
  /\ \/ Answered(c, Failure(0))
     \/ port # "" /\ Answered(c, Failure(anvil[port].block))
  /\ UNCHANGED <<forkURL, anvil, port>>

(* Mutant: the process is only stopped when it has become ready. *)
StopReady(c) ==
  /\ call[c].at = "stop" /\ call[c].sim = "anvil"
  /\ Go(c, "done")
  /\ anvil' = IF call[c].err THEN anvil ELSE [anvil EXCEPT ![c] = NoProcess]
  /\ port' = IF call[c].err THEN port ELSE Released(c)
  /\ UNCHANGED forkURL

(* anvilProcess.Stop, deferred: kill and wait. *)
Stop(c) ==
  /\ call[c].at = "stop" /\ call[c].sim = "anvil"
  /\ Go(c, "done")
  /\ anvil' = [anvil EXCEPT ![c] = NoProcess]
  /\ port' = Released(c)
  /\ UNCHANGED forkURL

-----------------------------------------------------------------------------
(* toSolanaTx: a transaction without data and without a recipient has no
   instruction, and is not built. *)
SolanaTxBuilds(hasData, hasTo) == hasData \/ hasTo

(* simulateTransaction: no error and a result is a success.  The block is only
   a lower bound of the slot. *)
SimulateTransactionResult(answer, units) ==
  CASE answer \in {"refused", "rpc error", "simulation error", "no result"} -> Failure(0)
    [] answer = "result" -> Result(TRUE, units, "none", 0)

(* The next transaction of a sequence follows whatever the result. *)
SolAnswered(c, result) ==
  call' = [call EXCEPT ![c].results = Append(@, result),
                       ![c].at = IF Len(call[c].results) + 1 < call[c].txs /\ ~call[c].core
                                 THEN "call" ELSE "done"]

(* sol_rpc: every failure is a result. *)
SolSimulate(c) ==
  /\ call[c].at \in {"begin", "call"} /\ call[c].sim = "sol_rpc"
  /\ \E hasData, hasTo \in BOOLEAN, units \in Gases,
        answer \in {"refused", "rpc error", "simulation error", "no result", "result"} :
       SolAnswered(c, IF SolanaTxBuilds(hasData, hasTo)
                      THEN SimulateTransactionResult(answer, units)
                      ELSE Failure(0))
  /\ UNCHANGED <<forkURL, anvil, port>>

(* External: a simulator that knows what comes out. *)
Responded(c, result) ==
  call' = [call EXCEPT ![c].results = Append(@, result), ![c].at = "done"]

OtherSimulate(c) ==
  /\ call[c].at = "begin" /\ call[c].sim = "other"
  /\ \/ Fail(c, "done")
     \/ Responded(c, Failure(0))
     \/ Responded(c, Nil)
     \/ \E gas \in Gases, out \in Outputs : Responded(c, Result(TRUE, gas, out, 0))
  /\ UNCHANGED <<forkURL, anvil, port>>

-----------------------------------------------------------------------------
(* detectHoneypot: a failure, or more than a tenth above 200,000 gas. *)
DetectHoneypot(result) == result # Nil /\ (~result.success \/ result.gas > 220000)

(* validateSlippage: up to 50 basis points below MinOut are let through; without
   output amounts it is not even asked, and the answer stays no. *)
ValidateSlippage(result) == result.out = "within"

(* Mutant: the response of the transaction that failed is left out. *)
NextRequestForgetful(c) ==
  /\ call[c].at = "done" /\ call[c].core /\ ~call[c].err
  /\ IF ~Last(call[c].results).success
     THEN call' = [call EXCEPT ![c].at = "judge", ![c].results = Front(@)]
     ELSE IF Len(call[c].results) < call[c].txs THEN Go(c, "begin")
     ELSE Go(c, "judge")
  /\ UNCHANGED <<forkURL, anvil, port>>

(* SimulateSequenceAndValidate: one simulation for each request, each on a fork
   of its own, up to the first whose result is not a success. *)
NextRequest(c) ==
  /\ call[c].at = "done" /\ call[c].core /\ ~call[c].err
  /\ Go(c, IF /\ Last(call[c].results).success \/ Last(call[c].results) = Nil
              /\ Len(call[c].results) < call[c].txs
           THEN "begin" ELSE "judge")
  /\ UNCHANGED <<forkURL, anvil, port>>

(* The order manager's checks of the responses. *)
Accepted(results) ==
  \A i \in DOMAIN results :
    /\ ~DetectHoneypot(results[i])
    /\ ValidateSlippage(results[i])
    /\ results[i].success

(* CollectFees has one transaction, and does not look at the two findings. *)
AcceptedForFees(results) == Len(results) = 1 /\ results[1].success

(* Whether the caller is CollectFees or another is left open. *)
Judge(c) ==
  /\ call[c].at = "judge"
  /\ \/ Accepted(call[c].results) /\ Go(c, "admitted")
     \/ call[c].txs = 1 /\ AcceptedForFees(call[c].results) /\ Go(c, "admitted")
     \/ ~Accepted(call[c].results) /\ call' = [call EXCEPT ![c] = Idle]
  /\ UNCHANGED <<forkURL, anvil, port>>

Return(c) ==
  /\ \/ call[c].at = "admitted"
     \/ call[c].at = "done" /\ (call[c].err \/ ~call[c].core)
  /\ call' = [call EXCEPT ![c] = Idle]
  /\ UNCHANGED <<forkURL, anvil, port>>

Init ==
  /\ forkURL \in BOOLEAN
  /\ anvil = [c \in Owners |-> NoProcess]
  /\ port = ""
  /\ call = [c \in Callers |-> Idle]

Next ==
  \/ \E c \in Callers, core, hash \in BOOLEAN, n \in 1..MaxTxs :
       \/ \E block \in Blocks : Ask(c, "anvil", core, n, block, hash)
       \/ Ask(c, "sol_rpc", core, n, 0, FALSE)
       \/ Ask(c, "other", TRUE, n, 0, FALSE)
  \/ \E c \in Callers :
       \/ StartAnvil(c) \/ AnvilBinds(c) \/ WaitForReady(c) \/ EthCall(c) \/ Stop(c)
       \/ SolSimulate(c) \/ OtherSimulate(c)
       \/ NextRequest(c) \/ Judge(c) \/ Return(c)
  \/ \E c \in Owners : AnvilDies(c)
  \/ KillBot

Spec == Init /\ [][Next]_vars

-----------------------------------------------------------------------------
(* Types of the calls and processes. *)
TypeOK ==
  /\ \A c \in Owners : anvil[c].is \in {"none", "starting", "listening"}
  /\ \A c \in Callers : Len(call[c].results) <= MaxTxs
  /\ port \in Owners \cup {""}

(* An Anvil call beside which no other was under way, nor a process of a killed
   bot, is only answered by the process it started itself, at its own block:
   nothing an earlier call left behind answers for it, however that call ended. *)
AloneMeansOwnFork ==
  \A c \in Callers :
    call[c].sim = "anvil" /\ call[c].alone =>
      \A i \in DOMAIN call[c].results : call[c].results[i].block \in {0, call[c].block}

(* What the order manager admits has been simulated to the last transaction,
   each with success: a sequence that was broken off is never taken for a
   short one that went well. *)
AdmittedWereAllSimulated ==
  \A c \in Callers :
    call[c].at = "admitted" =>
      /\ Len(call[c].results) = call[c].txs
      /\ \A i \in 1..call[c].txs : call[c].results[i].success
=============================================================================
