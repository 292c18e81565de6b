------------------------------ MODULE Adapters ------------------------------
(***************************************************************************)
(* What the core asks of the adapters, and the programs around it: a        *)
(* backtest, a wallet that signs, the decisions from a scan to a range, the *)
(* simulators, the audit log and the sources of market data.  They share no *)
(* state; part says which of them moves, the others stay at one of their   *)
(* initial states.                                                         *)
(***************************************************************************)
EXTENDS Integers, FiniteSets

CONSTANTS
  TestedPools, Horizon, Windows, Interval, StateStep, TickAt, Spread, MaxRuns, \* backtest
  Signers, BuildsOf, Amounts, Slippages, FirstNonce, MaxNonce, TokenNonce,    \* signing
  MarketPools, Profiles, Volatilities,                                        \* strategy
  Callers, SimulatorsOf, Blocks, MaxTxs,                                      \* simulators
  MaxEvents, MaxFileSize, MaxFiles,                                           \* audit
  Kinds, MaxPools, Times, Floors, Limits                                      \* sources

(* The address of a pool is never the hash of a block, which counts its states. *)
ASSUME BacktestAssumption ==
  /\ IsFiniteSet(TestedPools) /\ TestedPools \cap (0..Horizon) = {}
  /\ Horizon \in Nat /\ Interval \in Nat \ {0} /\ StateStep \in Nat \ {0} /\ Spread \in Nat /\ MaxRuns \in Nat
  /\ Windows \subseteq (0..Horizon) \X (0..Horizon)
  /\ TickAt \in [0..Horizon -> Int]
ASSUME SigningAssumption ==
  /\ Amounts \subseteq Nat /\ Slippages \subseteq Int
  /\ FirstNonce \in Nat /\ MaxNonce \in Nat /\ FirstNonce <= MaxNonce /\ TokenNonce \in Nat
(* The ticks of a chain end at 887272 on both sides. *)
ASSUME StrategyAssumption ==
  /\ Profiles \subseteq [tvl : Nat, vol : Nat, tick : Int]
  /\ \A p \in Profiles : -887272 <= p.tick /\ p.tick <= 887272
  /\ Volatilities \subseteq Nat
ASSUME SimulatorsAssumption == Callers \cap {"", "orphan"} = {} /\ MaxTxs \in Nat
(* A log that rotates keeps at least one file: told to keep none it keeps one. *)
ASSUME AuditAssumption == MaxEvents \in Nat /\ MaxFileSize \in Nat /\ MaxFiles \in Nat \ {0}
ASSUME SourcesAssumption ==
  MaxPools \in Nat /\ Times \subseteq Int /\ Floors \subseteq Int /\ Limits \subseteq Int

VARIABLES
  part,
  swapRows, stateRows, run, runs, files, aggregate, answered,      \* backtest
  wallet, has, key, caller, signed, chainNext, panicked,           \* signing
  market, found, scored, intent, held, visited,                    \* strategy
  forkURL, anvil, port, call,                                      \* simulators
  dir, torn, handle, rotation, closed, events, written, moved,           \* audit
  state, listed, trades, answer                                    \* sources

Tests == INSTANCE Backtest WITH Pools <- TestedPools
Signs == INSTANCE Signing WITH KindsOf <- BuildsOf
Decides == INSTANCE Strategy WITH Pools <- MarketPools
Simulates == INSTANCE Simulators WITH KindsOf <- SimulatorsOf
Logs == INSTANCE AuditLog
Asks == INSTANCE Sources

backtestVars == <<swapRows, stateRows, run, runs, files, aggregate, answered>>
signingVars == <<wallet, has, key, caller, signed, chainNext, panicked>>
strategyVars == <<market, found, scored, intent, held, visited>>
simulatorVars == <<forkURL, anvil, port, call>>
auditVars == <<dir, torn, handle, rotation, closed, events, written, moved>>
sourceVars == <<state, listed, trades, answer>>
vars == <<part, backtestVars, signingVars, strategyVars, simulatorVars, auditVars, sourceVars>>

Init ==
  /\ part \in {"backtest", "signing", "strategy", "simulators", "audit", "sources"}
  /\ Tests!Init /\ Signs!Init /\ Decides!Init /\ Simulates!Init /\ Logs!Init /\ Asks!Init
  /\ part # "signing" => wallet = "none"
  /\ part # "strategy" => \A x, y \in MarketPools : market[x] = market[y] /\ market[x].tick = 0
  /\ part # "simulators" => forkURL

Next ==
  /\ \/ part = "backtest" /\ Tests!Next
          /\ UNCHANGED <<signingVars, strategyVars, simulatorVars, auditVars, sourceVars>>
     \/ part = "signing" /\ Signs!Next
          /\ UNCHANGED <<backtestVars, strategyVars, simulatorVars, auditVars, sourceVars>>
     \/ part = "strategy" /\ Decides!Next
          /\ UNCHANGED <<backtestVars, signingVars, simulatorVars, auditVars, sourceVars>>
     \/ part = "simulators" /\ Simulates!Next
          /\ UNCHANGED <<backtestVars, signingVars, strategyVars, auditVars, sourceVars>>
     \/ part = "audit" /\ Logs!Next
          /\ UNCHANGED <<backtestVars, signingVars, strategyVars, simulatorVars, sourceVars>>
     \/ part = "sources" /\ Asks!Next
          /\ UNCHANGED <<backtestVars, signingVars, strategyVars, simulatorVars, auditVars>>
  /\ UNCHANGED part

Spec == Init /\ [][Next]_vars

(* The types of all parts. *)
TypeOK ==
  /\ Tests!TypeOK /\ Signs!TypeOK /\ Decides!TypeOK
  /\ Simulates!TypeOK /\ Logs!TypeOK /\ Asks!TypeOK

(* The properties of Backtest: what a run leaves in the cache and in its
   directory can be trusted by the next, and its fees by their reader. *)
CacheAndFilesAgree == Tests!CacheHoldsEachSwapOnce /\ Tests!FilesAgree
FeesCountEverySwap == Tests!FeesCountEverySwap

(* The properties of Signing: the nonces and the contents, and the key. *)
SignedIsSound == Signs!SignedNoncesLeaveNoHole /\ Signs!SignedKeepsFloor
ClosedWalletSignsNothing == Signs!ClosedWalletSignsNothing

(* The properties of Strategy: what is entered, and what is held after it. *)
RangesAreSound == Decides!IntentsAreUsable /\ Decides!HeldRangeIsSound
RotationsNeverReturn == Decides!RotationsNeverReturn

(* The properties of Simulators: a result is that of the right fork, and an
   order is admitted on all of them. *)
SimulationsAreSound == Simulates!AloneMeansOwnFork /\ Simulates!AdmittedWereAllSimulated

(* That of AuditLog. *)
AuditKeepsOrder == Logs!AuditKeepsOrder

(* The properties of Sources: what an answer leaves out and what it holds. *)
SourcesAnswerHonestly == Asks!OutagesAreErrors /\ Asks!AnswersKeepToTheRequest
=============================================================================
