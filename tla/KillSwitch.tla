----------------------------- MODULE KillSwitch -----------------------------
(***************************************************************************)
(* The kill switch: core/risk RiskGate (types.go, gate.go) and the table   *)
(* kill_switch_state behind it (adapters/store/sqlite/risk_repo.go).       *)
(*                                                                         *)
(* Every method of the gate runs under RiskGate.mu, database call included,*)
(* so each is one action.  The gate keeps the level twice: in memory,      *)
(* where its own transitions look at it, and in the table, which is what   *)
(* GetState, IsBlocked and Allow answer from when a repository is wired.   *)
(***************************************************************************)
EXTENDS Integers

CONSTANTS
  HasRepo,            \* is a RiskRepo wired into the gate (main.go wires none)
  VaRWarnPct, VaRKillPct, DailyDDKillPct, WeeklyDDFreezePct,
  TotalExposurePct,   \* RiskConfig thresholds, in percent
  MaxSingleTradeUSD,
  Amounts,            \* money amounts handed to the checks
  EventIds            \* ids of the risk events callers record

ASSUME RepoAssumption == HasRepo \in BOOLEAN
ASSUME ThresholdAssumption ==
  /\ {VaRWarnPct, VaRKillPct, DailyDDKillPct, WeeklyDDFreezePct,
      TotalExposurePct} \subseteq Nat
  /\ MaxSingleTradeUSD \in Int
  /\ Amounts \subseteq Int

Levels == {"ok", "warn", "freeze", "kill"}

(* What the single row may hold: a level, a legacy trigger name, or no row. *)
SwitchTypes == Levels \cup {"daily_dd", "weekly_dd", "manual", "no_row"}

VARIABLES
  level,    \* RiskGate.state.Level
  row,      \* switch_type of the single row of kill_switch_state
  events,   \* ids present in the append-only table risk_events
  dbUp,     \* does the database answer
  synced    \* history: memory and table have not been parted by a lost
            \* write or by a restart

vars == <<level, row, events, dbUp, synced>>

(* Mutant: the freeze level is not among the switch types read back. *)
LevelOfWithoutFreeze(s) ==
  CASE s \in {"daily_dd", "warn"}  -> "warn"
    [] s \in {"manual", "kill"}    -> "kill"
    [] OTHER                       -> "ok"

(* GetKillState: reads the row; a missing row, an unknown switch type and also
   every database error come back as level ok without an error. *)
LevelOf(s) ==
  CASE s \in {"daily_dd", "warn"}     -> "warn"
    [] s \in {"weekly_dd", "freeze"}  -> "freeze"
    [] s \in {"manual", "kill"}       -> "kill"
    [] OTHER                          -> "ok"

GetKillState == IF dbUp THEN LevelOf(row) ELSE "ok"

GetState == IF HasRepo THEN GetKillState ELSE level

IsBlocked == GetState # "ok"

AbsVal(n) == IF n < 0 THEN -n ELSE n

(* part / whole >= pct / 100, for a whole of either sign. *)
AtLeast(part, whole, pct) ==
  IF whole > 0 THEN part * 100 >= pct * whole ELSE part * 100 <= pct * whole

(* A peak of 0 means no history; a threshold of 0 still asks for a loss. *)
Drawdown(peak, current, pct) ==
  /\ peak # 0
  /\ (peak > 0 /\ current < peak) \/ (peak < 0 /\ current > peak)
  /\ AtLeast(peak - current, peak, pct)

(* Allow: the pre-trade verdict.  daily and weekly are <<peak, current>>. *)
Allow(daily, weekly, pnlKnown, notional) ==
  CASE IsBlocked                                            -> "blocked"
    [] Drawdown(daily[1], daily[2], DailyDDKillPct)         -> "daily_dd_kill"
    [] Drawdown(weekly[1], weekly[2], WeeklyDDFreezePct)    -> "weekly_dd_freeze"
    [] ~pnlKnown                                            -> "pnl_nan"
    [] notional > MaxSingleTradeUSD                         -> "over_single_limit"
    [] OTHER                                                -> "ok"

-----------------------------------------------------------------------------
(* UpsertKillState: the error of a lost write is dropped by the checks. *)
Upsert(l) == row' = IF HasRepo /\ dbUp THEN l ELSE row

(* Every transition assigns RiskGate.state, then upserts it. *)
SetLevel(l) ==
  /\ level' = l
  /\ Upsert(l)
  /\ synced' = (HasRepo => dbUp)
  /\ UNCHANGED <<events, dbUp>>

(* VaR: kill, warn, or the automatic recovery from warn and from freeze. *)
CheckVaR(total, loss) ==
  /\ total # 0
  /\ LET Reaches(pct) == AtLeast(AbsVal(loss), AbsVal(total), pct) IN
     \/ Reaches(VaRKillPct) /\ SetLevel("kill")
     \/ ~Reaches(VaRKillPct) /\ Reaches(VaRWarnPct)
          /\ level # "warn" /\ SetLevel("warn")
     \/ ~Reaches(VaRKillPct) /\ ~Reaches(VaRWarnPct)
          /\ level \in {"warn", "freeze"} /\ SetLevel("ok")

(* The daily drawdown kills, the weekly one freezes. *)
CheckDrawdown(peak, current, isWeekly) ==
  /\ peak # 0
  /\ AtLeast(peak - current, peak,
             IF isWeekly THEN WeeklyDDFreezePct ELSE DailyDDKillPct)
  /\ SetLevel(IF isWeekly THEN "freeze" ELSE "kill")

CheckExposure(exposure, budget) ==
  /\ budget # 0
  /\ AtLeast(exposure, budget, TotalExposurePct)
  /\ SetLevel("warn")

RaiseKill == SetLevel("kill")

(* Mutant: lowering in memory alone. *)
LowerInMemory == level # "kill" /\ level' = "ok" /\ UNCHANGED <<row, events, dbUp, synced>>

LowerWarn == level # "kill" /\ SetLevel("ok")

(* AppendRiskEvent: an INSERT under a primary key, so a second insert of an
   id, like any insert while the database is away, fails. *)
RecordRiskEvent(id) ==
  /\ HasRepo /\ dbUp /\ id \notin events
  /\ events' = events \cup {id}
  /\ UNCHANGED <<level, row, dbUp, synced>>

(* Mutant: the constructor leaves the level at Go's empty string. *)
RestartBlank ==
  /\ level' = ""
  /\ synced' = ~HasRepo
  /\ UNCHANGED <<row, events, dbUp>>

(* A new process builds its gate at ok and does not read the table. *)
Restart ==
  /\ level' = "ok"
  /\ synced' = (HasRepo => LevelOf(row) = "ok")
  /\ UNCHANGED <<row, events, dbUp>>

(* The database stops or resumes answering. *)
DatabaseFlips ==
  /\ dbUp' = ~dbUp
  /\ UNCHANGED <<level, row, events, synced>>

-----------------------------------------------------------------------------
Init ==
  /\ level = "ok"
  /\ row \in Levels \cup {"no_row"}
  /\ events = {}
  /\ dbUp = TRUE
  /\ synced = (HasRepo => LevelOf(row) = "ok")

(* One call of a method of the gate. *)
GateCall ==
  \/ \E total, loss \in Amounts : CheckVaR(total, loss)
  \/ \E peak, current \in Amounts, isWeekly \in BOOLEAN :
       CheckDrawdown(peak, current, isWeekly)
  \/ \E exposure, budget \in Amounts : CheckExposure(exposure, budget)
  \/ RaiseKill
  \/ LowerWarn
  \/ \E id \in EventIds : RecordRiskEvent(id)

Next == GateCall \/ Restart \/ DatabaseFlips

Spec == Init /\ [][Next]_vars

-----------------------------------------------------------------------------
(* Types of the gate, the row and the environment. *)
TypeOK ==
  /\ level \in Levels
  /\ row \in SwitchTypes
  /\ events \subseteq EventIds
  /\ dbUp \in BOOLEAN
  /\ synced \in BOOLEAN

(* While no write was lost and the process has not restarted, the table says
   what the gate believes: no path of a check changes one without the other,
   and reading the row back undoes the encoding that wrote it. *)
TableFollowsMemory == HasRepo /\ synced => LevelOf(row) = level

(* A gate that holds any level above ok refuses new positions, as long as
   its last write reached the table and the table can be read. *)
RaisedGateBlocks ==
  level # "ok" /\ (HasRepo => synced /\ dbUp) => IsBlocked

-----------------------------------------------------------------------------
(* store_risk.go: a level of kill "requires manual intervention", and "kill ->
   ok: requires manual unlock via lpbot-cli"; gate.go: "fail-closed on error".
   Nothing in the repository is such an unlock, so what the table calls kill
   would have to stay a kill, and to block, through every check and restart, and
   while the table cannot be read. *)
KillNeedsUnlock ==
  [][HasRepo /\ LevelOf(row) = "kill" /\ IsBlocked
       => LevelOf(row') = "kill" /\ IsBlocked']_vars
=============================================================================
