------------------------------ MODULE Backtest ------------------------------
(***************************************************************************)
(* cmd/lpbot-backtest: one run loads swaps and pool states, through a       *)
(* cache in SQLite when one is given, replays a position over them, judges *)
(* the fees and writes three files into the directory of its pool;         *)
(* scripts/aggregate-verdict reads those directories.  Runs are processes, *)
(* one at a time as the batch script starts them; each may be killed, and  *)
(* each statement of the database and each file may fail.  Time counts      *)
(* seconds; a fee is counted in swaps, which are all of the same size.     *)
(***************************************************************************)
EXTENDS Integers, FiniteSetsExt, Functions

CONSTANTS
  Pools,
  Horizon,    \* bound: no window ends after it
  Windows,    \* the pairs of flags that runs are started with
  Interval,   \* seconds from one block of fixture swaps to the next (five minutes)
  StateStep,  \* seconds from one pool state to the next (an hour)
  TickAt,     \* second -> tick of its swaps and of its state
  Spread,     \* half of the width, in ticks, of a symmetric range
  MaxRuns     \* bound on the runs

VARIABLES
  swapRows,   \* cache_swaps: the numbers in the id of the row -> pool, time
  stateRows,  \* cache_pool_states, as <<pool_id, block_time>>
  run,        \* the running process: its flags, its data, its results
  runs,       \* how many have been started
  files,      \* pool -> the three files of its directory
  aggregate,  \* the result of aggregate-verdict, or None
  answered    \* history: no query of the swap cache has failed

vars == <<swapRows, stateRows, run, runs, files, aggregate, answered>>

None == [none |-> TRUE]
Modes == {"symmetric", "increasing", "decreasing"}
Instants == 0..Horizon

NoRun == [at |-> "idle"]

Go(where) == run' = [run EXCEPT !.at = where]

-----------------------------------------------------------------------------
(* main and ParseFlags: a window may be empty but not reversed.  The flag of
   the range is drawn where it is first read, in Simulate. *)
Start(p, from, to, cached) ==
  /\ run.at = "idle" /\ runs < MaxRuns
  /\ from <= to
  /\ run' = [at |-> "swaps", pool |-> p, from |-> from, to |-> to, cached |-> cached,
             swaps |-> {}, states |-> {}, mode |-> "", fees |-> 0, verdict |-> ""]
  /\ runs' = runs + 1
  /\ UNCHANGED <<swapRows, stateRows, files, aggregate, answered>>

(* generateFixtureSwaps numbers the blocks of a window from its start, and one
   to three swaps in each: the id has neither the pool nor the time in it. *)
TimeOf(block) == run.from + Interval * block
FixtureIds ==
  {id \in (0..Horizon) \X (0..2) : TimeOf(id[1]) < run.to /\ id[2] <= TimeOf(id[1]) % 3}
FixtureSwaps == {<<id, TimeOf(id[1])>> : id \in FixtureIds}

(* Mutant: the window of the query is open at its start. *)
SwapsFromCacheOpen ==
  {<<i, swapRows[i].time>> :
     i \in {j \in DOMAIN swapRows : /\ swapRows[j].pool = run.pool
                                   /\ swapRows[j].time \in (run.from + 1)..run.to}}

(* loadSwapsFromCache: the window is closed at both ends. *)
SwapsFromCache ==
  {<<i, swapRows[i].time>> :
     i \in {j \in DOMAIN swapRows : /\ swapRows[j].pool = run.pool
                                   /\ swapRows[j].time \in run.from..run.to}}

(* cacheSwaps: INSERT OR REPLACE in one transaction. *)
CacheSwaps ==
  swapRows' = [id \in DOMAIN swapRows \cup FixtureIds |->
                 IF id \in FixtureIds THEN [pool |-> run.pool, time |-> TimeOf(id[1])]
                 ELSE swapRows[id]]

Loaded(swaps) == run' = [run EXCEPT !.swaps = swaps, !.at = "states"]

(* LoadSwaps: any row at all in the window is taken for the whole answer; a
   query that fails counts as an empty one; a write that fails is a warning. *)
LoadSwaps ==
  /\ run.at = "swaps"
  /\ \/ /\ run.cached /\ SwapsFromCache # {}
        /\ Loaded(SwapsFromCache)
        /\ UNCHANGED <<swapRows, answered>>
     \/ /\ Loaded(FixtureSwaps)
        /\ IF run.cached THEN /\ CacheSwaps \/ UNCHANGED swapRows
                              /\ answered' = (answered /\ SwapsFromCache = {})
           ELSE UNCHANGED <<swapRows, answered>>
  /\ UNCHANGED <<stateRows, runs, files, aggregate>>

FixtureStates == {t \in run.from..(run.to - 1) : (t - run.from) % StateStep = 0}

(* The hash of a fixture block, which counts from the start of the window. *)
BlockHash(t) == (t - run.from) \div StateStep

(* loadPoolStatesFromCache, by pool. *)
StatesFromCache ==
  {r[2] : r \in {q \in stateRows : q[1] = run.pool /\ q[2] \in run.from..run.to}}

(* cachePoolStates stores the hash of the block as the pool, so that the query
   finds none of its rows; they have no id and are never replaced. *)
CachePoolStates == stateRows' = stateRows \cup {<<BlockHash(t), t>> : t \in FixtureStates}

LoadPoolStates ==
  /\ run.at = "states"
  /\ LET hit == run.cached /\ StatesFromCache # {}
         states == IF hit THEN StatesFromCache ELSE FixtureStates
     IN
     /\ run' = [run EXCEPT !.states = states, !.at = "simulate"]
     /\ IF run.cached /\ ~hit THEN CachePoolStates \/ UNCHANGED stateRows
        ELSE UNCHANGED stateRows
  /\ UNCHANGED <<swapRows, runs, files, aggregate, answered>>

-----------------------------------------------------------------------------
(* calculateTickRange around tick 0. *)
TickRange(mode) ==
  CASE mode = "symmetric"  -> (-Spread)..(Spread - 1)
    [] mode = "increasing" -> (-(Spread \div 2))..(Spread - 1)
    [] mode = "decreasing" -> (-Spread)..((Spread \div 2) - 1)

Earning(mode) == {s \in run.swaps : TickAt[s[2]] \in TickRange(mode)}

(* Mutant: neither end of the interval belongs to it. *)
FeesAccruedInside(mode, from, to) ==
  Cardinality({s \in Earning(mode) : from < s[2] /\ s[2] < to})

(* calculateFeesAccrued between two pool states: both ends belong to it. *)
FeesAccrued(mode, from, to) ==
  Cardinality({s \in Earning(mode) : from <= s[2] /\ s[2] <= to})

(* Simulate: every pool state but the first adds what was earned since the one
   before it; the states of a run are StateStep apart. *)
SimulatedFees(mode) ==
  LET later == run.states \ {run.from}
  IN SumFunctionOnSet([t \in later |-> FeesAccrued(mode, t - StateStep, t)], later)

(* LoadCollectedFees: cache_swaps has no column fee, so the query fails and the
   truth is zero, as without a cache. *)
CollectedFees == 0

(* Compare.  The last three outcomes need a truth, which Run never finds; nor
   does it find one below one unit, which the code takes for no error. *)
Compare(simulated, truth) ==
  LET error == 100 * (IF simulated > truth THEN simulated - truth ELSE truth - simulated) IN
  CASE truth = 0 /\ simulated = 0 -> "PASS"
    [] truth = 0 /\ simulated # 0 -> "FAIL: no ground truth but fees detected"
    [] truth # 0 /\ error < 5 * truth -> "PASS"
    [] truth # 0 /\ error >= 5 * truth /\ error < 10 * truth -> "WARN"
    [] truth # 0 /\ error >= 10 * truth -> "FAIL"

Simulate(mode) ==
  /\ run.at = "simulate"
  /\ run' = [run EXCEPT !.mode = mode, !.fees = SimulatedFees(mode), !.at = "verdict.md",
                        !.verdict = Compare(SimulatedFees(mode), CollectedFees)]
  /\ UNCHANGED <<swapRows, stateRows, runs, files, aggregate, answered>>

-----------------------------------------------------------------------------
(* Mutant: the summary is written before the series. *)
AfterFileSwapped(name) ==
  CASE name = "verdict.md" -> "summary.json"
    [] name = "summary.json" -> "pnl_series.csv"
    [] name = "pnl_series.csv" -> "idle"

(* GenerateOutputs: the three files and their order. *)
Outputs == {"verdict.md", "pnl_series.csv", "summary.json"}
AfterFile(name) ==
  CASE name = "verdict.md" -> "pnl_series.csv"
    [] name = "pnl_series.csv" -> "summary.json"
    [] name = "summary.json" -> "idle"

(* What the files say: the verdict under the label "**Status:**", a line for
   every pool state, the result.  All are marked with their run. *)
VerdictFile == [by |-> runs, text |-> "whole", label |-> "**Status:**", value |-> run.verdict]
PnLSeriesFile == [by |-> runs, text |-> "whole", lines |-> Cardinality(run.states)]
SummaryFile == [by |-> runs, text |-> "whole", fees |-> run.fees, value |-> run.verdict]

(* os.WriteFile empties the file before it writes: what is cut off in between
   leaves some part of the text, and nothing to go by. *)
Torn == [by |-> runs, text |-> "part", label |-> "", value |-> ""]
BreaksOff(name) ==
  /\ run' = NoRun
  /\ UNCHANGED files \/ files' = [files EXCEPT ![run.pool][name] = Torn]

(* A write that fails ends the run. *)
WriteFile(name, content) ==
  /\ run.at = name
  /\ \/ /\ files' = [files EXCEPT ![run.pool][name] = content]
        /\ IF AfterFile(name) = "idle" THEN run' = NoRun ELSE Go(AfterFile(name))
     \/ BreaksOff(name)
  /\ UNCHANGED <<swapRows, stateRows, runs, aggregate, answered>>

(* The process is killed; a transaction it had open is rolled back, a file it
   was writing is not. *)
Kill ==
  /\ run.at # "idle"
  /\ IF run.at \in Outputs THEN BreaksOff(run.at) ELSE run' = NoRun /\ UNCHANGED files
  /\ UNCHANGED <<swapRows, stateRows, runs, aggregate, answered>>

(* extractVerdict takes the value of a line that starts with "Verdict:". *)
ExtractVerdict(file) == IF file.label = "Verdict:" THEN file.value ELSE "UNKNOWN"

(* aggregate-verdict over the directories that hold a verdict: what is neither
   a pass nor a failure is a warning. *)
Aggregate ==
  LET judged == {p \in Pools : files[p]["verdict.md"] # None}
      with(v) == {p \in judged : ExtractVerdict(files[p]["verdict.md"]) = v}
      failed == Cardinality(with("FAIL"))
      warned == Cardinality(judged \ (with("PASS") \cup with("FAIL")))
  IN
  /\ run.at = "idle" /\ aggregate = None
  /\ aggregate' = [total |-> Cardinality(judged), warned |-> warned, failed |-> failed,
                   status |-> IF failed > 0 THEN "FAILED"
                              ELSE IF warned > 0 THEN "PASSED WITH WARNINGS"
                              ELSE "PASSED"]
  /\ UNCHANGED <<swapRows, stateRows, run, runs, files, answered>>

Init ==
  /\ swapRows = [i \in {} |-> 0] /\ stateRows = {}
  /\ run = NoRun /\ runs = 0
  /\ files = [p \in Pools |-> [f \in Outputs |-> None]]
  /\ aggregate = None
  /\ answered = TRUE

Next ==
  \/ \E p \in Pools, w \in Windows, cached \in BOOLEAN : Start(p, w[1], w[2], cached)
  \/ LoadSwaps \/ LoadPoolStates
  \/ \E mode \in Modes : Simulate(mode)
  \/ WriteFile("verdict.md", VerdictFile)
  \/ WriteFile("pnl_series.csv", PnLSeriesFile)
  \/ WriteFile("summary.json", SummaryFile)
  \/ Kill
  \/ Aggregate

Spec == Init /\ [][Next]_vars

-----------------------------------------------------------------------------
(* Types of the cache, the run and the files. *)
TypeOK ==
  /\ \A id \in DOMAIN swapRows :
       /\ id \in (0..Horizon) \X (0..2)
       /\ swapRows[id] \in [pool : Pools, time : 0..(Horizon - 1)]
  /\ stateRows \subseteq (0..Horizon) \X (0..(Horizon - 1))
  /\ runs \in 0..MaxRuns
  /\ run # NoRun => run.fees \in Nat /\ run.states \subseteq Instants

(* Whatever sequence of windows and pools went through it, the cache never
   holds one swap, which is that of a number within its second and pool, under
   two ids, which a later run would both count, as long as no query of it has
   failed. *)
CacheHoldsEachSwapOnce ==
  answered => \A x, y \in DOMAIN swapRows :
                x # y /\ x[2] = y[2] => swapRows[x] # swapRows[y]

(* A simulation misses no swap from the first pool state to the last; one that
   falls on a state in between counts in both intervals, and no other counts
   twice. *)
FeesCountEverySwap ==
  run.at = "verdict.md" =>
    LET last == Max(run.states)
        within == {s \in Earning(run.mode) : s[2] <= last}
    IN run.fees = IF Cardinality(run.states) < 2 THEN 0
                  ELSE Cardinality(within)
                       + Cardinality({s \in within : s[2] \in run.states \ {run.from, last}})

(* However runs fail between or within their files: a directory never holds a
   file newer than the one written before it, nothing follows a torn file in
   its run, and a whole summary agrees with a verdict of its run. *)
FilesAgree ==
  \A p \in Pools :
    LET by(f) == IF files[p][f] = None THEN 0 ELSE files[p][f].by
        torn(f) == files[p][f] # None /\ files[p][f].text = "part"
        same == by("summary.json") = by("verdict.md") /\ by("verdict.md") > 0
    IN /\ by("summary.json") <= by("pnl_series.csv")
       /\ by("pnl_series.csv") <= by("verdict.md")
       /\ torn("verdict.md") => by("pnl_series.csv") < by("verdict.md")
       /\ torn("pnl_series.csv") => by("summary.json") < by("pnl_series.csv")
       /\ same /\ ~torn("summary.json") =>
            files[p]["summary.json"].value = files[p]["verdict.md"].value
=============================================================================
