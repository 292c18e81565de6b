------------------------------- MODULE Sources -------------------------------
(***************************************************************************)
(* The data sources of adapters/datasource that talk to a service:         *)
(* subgraph, dexscreener, geckoterminal and solana (Jupiter).  An adapter  *)
(* keeps nothing: each call sends one request and turns the response into  *)
(* an answer.  The services, whose pools and trades go on while they are   *)
(* up and while they are not, are external.  A number that does not parse  *)
(* is Garbage.                                                             *)
(***************************************************************************)
EXTENDS Integers, SequencesExt

CONSTANTS
  Kinds,      \* what a listed pool may look like: its liquidity and its volume
  MaxPools,   \* bound on the pools a service lists
  Times,      \* when trades happen, and the ends of the windows asked for
  Floors, Limits  \* of the requests

Garbage == -1

VARIABLES
  state,      \* of the service asked, one of States
  listed,     \* the pools it lists, in its order
  trades,     \* the trades of one pool, ascending in time; not all are sane
  answer      \* of the last call: what was asked, of whom, and the answer

vars == <<state, listed, trades, answer>>

(* It answers; it refuses the call; its status is not 200; its body is not JSON;
   its body is a JSON object without the fields that are looked for. *)
States == {"up", "refused", "status", "garbled", "strange"}

Ok(x) == [ok |-> TRUE, value |-> x]
Err == [ok |-> FALSE, value |-> <<>>]
Then(response, f(_)) == IF response.ok THEN Ok(f(response.value)) ELSE response

(* decimal.NewFromString with its error dropped. *)
Parsed(number) == IF number = Garbage THEN 0 ELSE number
(* What SelectSeq selects, by its indices in the sequence. *)
Kth(I, k) == CHOOSE i \in I : Cardinality({j \in I : j <= i}) = k
Only(s, I) == [k \in 1..Cardinality(I) |-> s[Kth(I, k)]]
Take(s, n) == IF Len(s) <= n THEN s ELSE SubSeq(s, 1, n)
Within(s, from, to) == Only(s, {i \in DOMAIN s : from <= s[i].time /\ s[i].time <= to})
TimesOf(s) == [i \in DOMAIN s |-> s[i].time]

(* A time that does not parse is zero. *)
ParsedTimesOf(s) == [i \in DOMAIN s |-> IF s[i].sane THEN s[i].time ELSE 0]
Limit(limit, default) == IF limit <= 0 THEN default ELSE limit

(* A request whose every failure is an error, and one that decodes its body
   into a structure, which stays empty when the body has none of its fields. *)
Request(body) == IF state = "up" THEN Ok(body) ELSE Err
Decoded(body) == IF state = "strange" THEN Ok(<<>>) ELSE Request(body)

-----------------------------------------------------------------------------
(* subgraph, Client: executeQuery, whose callers decode the data once more and
   fail if there are none; the swaps of a window, oldest first. *)
ExecuteQuery(data) == Request(data)

QuerySwaps(from, to, limit) ==
  ExecuteQuery(Take(Within(trades, from, to), Limit(limit, 1000)))

QueryCollectedFees(fees) ==
  Then(ExecuteQuery(fees), LAMBDA f : IF f = <<>> THEN <<0>> ELSE <<Parsed(f[1])>>)

SubgraphHealth(data) == IF data = <<>> THEN Err ELSE ExecuteQuery(<<>>)

(* subgraph, Adapter: the TVL is a hundred times the volume. *)
SubgraphTVL(pool) == 100 * Parsed(pool.volume)

SubgraphDiscover(floor, limit) ==
  Then(ExecuteQuery(Take(listed, Limit(limit, 50))),
       LAMBDA pools : Only(pools, {i \in DOMAIN pools : SubgraphTVL(pools[i]) >= floor}))

SubgraphMetadata ==
  Then(ExecuteQuery(Take(listed, 1)), LAMBDA pools : [i \in DOMAIN pools |-> SubgraphTVL(pools[i])])

(* parseSwapEntity drops the error of parseTimestamp. *)
SubgraphSwaps(from, to, limit) == Then(QuerySwaps(from, to, Limit(limit, 1000)), ParsedTimesOf)

SubgraphPrices(from, to) == SubgraphSwaps(from, to, 1000)

-----------------------------------------------------------------------------
(* dexscreener, Client. *)
SearchPools == Decoded(listed)

GetPoolByAddress == Then(Decoded(listed), LAMBDA pools : Take(pools, 1))

GetRecentSwaps == Decoded(Reverse(trades))

(* GetTokenPrice: that of the pool with most liquidity, the first of equals;
   zero without one, and an error when it does not parse. *)
DexTokenPrice(priceOf) ==
  LET response == Decoded(listed)
      pools == response.value
      liquid == {i \in DOMAIN pools :
                   /\ Parsed(pools[i].liquidity) > 0
                   /\ \A j \in DOMAIN pools :
                        LET l == Parsed(pools[i].liquidity)
                            m == Parsed(pools[j].liquidity)
                        IN l > m \/ (l = m /\ i <= j)}
      price == priceOf[CHOOSE i \in liquid : TRUE]
  IN IF ~response.ok \/ (liquid # {} /\ price = Garbage) THEN Err
     ELSE Ok(IF liquid = {} THEN <<0>> ELSE <<price>>)

DexHealth == IF state \in {"up", "garbled", "strange"} THEN Ok(<<>>) ELSE Err

(* dexscreener, Adapter. *)
AboveFloor(pools, floor) ==
  Only(pools, {i \in DOMAIN pools : pools[i].liquidity # Garbage /\ pools[i].liquidity >= floor})

DexDiscover(floor, limit) ==
  Then(SearchPools,
       LAMBDA pools :
         LET found == AboveFloor(pools, floor)
         IN IF limit > 0 THEN Take(found, limit) ELSE found)

DexMetadata ==
  Then(GetPoolByAddress,
       LAMBDA pools : [i \in DOMAIN pools |-> Parsed(pools[i].liquidity)])

(* The window of GetSwaps is not looked at, that of GetPriceHistory is. *)
DexSwaps(limit) ==
  Then(GetRecentSwaps,
       LAMBDA swaps :
         LET sane == Only(swaps, {i \in DOMAIN swaps : swaps[i].sane})
         IN TimesOf(IF limit > 0 THEN Take(sane, limit) ELSE sane))

DexPrices(from, to) ==
  Then(GetRecentSwaps,
       LAMBDA swaps : TimesOf(Within(swaps, from, to)))

-----------------------------------------------------------------------------
(* geckoterminal, Client: the limit goes to the service. *)
GetPoolsByNetwork(limit) == Decoded(Take(listed, Limit(limit, 50)))

GetPoolInfo == Decoded(Take(listed, 1))

GetOHLCV(from, to, limit) ==
  Decoded(Take(Within(trades, from, to), Limit(limit, 1000)))

GeckoHealth == IF state \in {"up", "garbled", "strange"} THEN Ok(<<>>) ELSE Err

(* geckoterminal, Adapter: what the limit let through is held against the
   floor. *)
GeckoDiscover(floor, limit) ==
  Then(GetPoolsByNetwork(limit),
       LAMBDA pools : AboveFloor(pools, floor))

(* A pool is always made out of the response, with zeros if it is empty. *)
GeckoMetadata ==
  Then(GetPoolInfo,
       LAMBDA pools : IF pools = <<>> THEN <<0>> ELSE <<Parsed(pools[1].liquidity)>>)

GeckoPrices(from, to) == Then(GetOHLCV(from, to, 1000), ParsedTimesOf)

(* No request: there are no swaps. *)
GeckoSwaps == Ok(<<>>)

-----------------------------------------------------------------------------
(* solana, Client. *)
(* Mutant: a refused request has no trades either. *)
GetRecentTradesQuiet(limit) ==
  IF state \in {"status", "refused"} THEN Ok(<<>>)
  ELSE Decoded(Take(Reverse(trades), Limit(limit, 100)))

(* GetRecentTrades: a status other than 200 has no trades. *)
GetRecentTrades(limit) ==
  IF state = "status" THEN Ok(<<>>)
  ELSE Decoded(Take(Reverse(trades), Limit(limit, 100)))

JupiterTokenPrice(known, price) ==
  IF ~known \/ price = Garbage THEN Err ELSE Request(<<price>>)

GetTokenMetadata == Decoded(<<>>)

SolanaHealth == IF state \in {"up", "garbled", "strange"} THEN Ok(<<>>) ELSE Err

(* solana, Adapter: the window is applied to what the limit let through.  The
   other calls are not implemented. *)
SolanaSwaps(from, to, limit) ==
  Then(GetRecentTrades(Limit(limit, 100)),
       LAMBDA swaps : TimesOf(Within(swaps, from, to)))

SolanaNotImplemented == Err

-----------------------------------------------------------------------------
NoAnswer == [source |-> "", method |-> "", from |-> 0, to |-> 0, limit |-> 0, floor |-> 0,
             service |-> "up", ok |-> FALSE, value |-> <<>>]

Ask(source, method, from, to, limit, floor, result) ==
  /\ answer = NoAnswer
  /\ answer' = [source |-> source, method |-> method, from |-> from, to |-> to,
                limit |-> limit, floor |-> floor, service |-> state,
                ok |-> result.ok, value |-> result.value]
  /\ UNCHANGED <<state, listed, trades>>

Discover(limit, floor) ==
  \/ Ask("subgraph", "discover", 0, 0, limit, floor, SubgraphDiscover(floor, limit))
  \/ Ask("dexscreener", "discover", 0, 0, limit, floor, DexDiscover(floor, limit))
  \/ Ask("geckoterminal", "discover", 0, 0, limit, floor, GeckoDiscover(floor, limit))
  \/ Ask("solana", "discover", 0, 0, limit, floor, SolanaNotImplemented)

Swaps(from, to, limit) ==
  \/ Ask("subgraph", "swaps", from, to, limit, 0, SubgraphSwaps(from, to, limit))
  \/ Ask("dexscreener", "swaps", from, to, limit, 0, DexSwaps(limit))
  \/ Ask("geckoterminal", "swaps", from, to, limit, 0, GeckoSwaps)
  \/ Ask("solana", "swaps", from, to, limit, 0, SolanaSwaps(from, to, limit))

Prices(from, to) ==
  \/ Ask("subgraph", "prices", from, to, 0, 0, SubgraphPrices(from, to))
  \/ Ask("dexscreener", "prices", from, to, 0, 0, DexPrices(from, to))
  \/ Ask("geckoterminal", "prices", from, to, 0, 0, GeckoPrices(from, to))

Scalar(source, result) == Ask(source, "number", 0, 0, 0, 0, result)

Numbers ==
  \/ Scalar("subgraph", SubgraphMetadata)
  \/ Scalar("dexscreener", DexMetadata)
  \/ Scalar("geckoterminal", GeckoMetadata)
  \/ \E fees \in {<<>>, <<3>>, <<Garbage>>} : Scalar("subgraph", QueryCollectedFees(fees))
  \/ \E prices \in [1..MaxPools -> {7, Garbage}] : Scalar("dexscreener", DexTokenPrice(prices))
  \/ \E known \in BOOLEAN, price \in {7, Garbage} :
       Scalar("solana", JupiterTokenPrice(known, price))

Health ==
  \/ \E data \in {<<>>, <<1>>} : Ask("subgraph", "health", 0, 0, 0, 0, SubgraphHealth(data))
  \/ Ask("dexscreener", "health", 0, 0, 0, 0, DexHealth)
  \/ Ask("geckoterminal", "health", 0, 0, 0, 0, GeckoHealth)
  \/ Ask("solana", "health", 0, 0, 0, 0, SolanaHealth)
  \/ Ask("solana", "health", 0, 0, 0, 0, GetTokenMetadata)

(* External: the caller has used the answer. *)
Use ==
  /\ answer # NoAnswer
  /\ answer' = NoAnswer
  /\ UNCHANGED <<state, listed, trades>>

(* External: the services and the chains behind them, between the calls. *)
Service(s) ==
  /\ answer = NoAnswer
  /\ state' = s
  /\ UNCHANGED <<listed, trades, answer>>

List(pool) ==
  /\ answer = NoAnswer
  /\ listed' = (IF Len(listed) < MaxPools THEN Append(listed, pool) ELSE <<>>)
  /\ UNCHANGED <<state, trades, answer>>

Trade(t, sane) ==
  /\ answer = NoAnswer
  /\ \A i \in DOMAIN trades : trades[i].time < t
  /\ trades' = Append(trades, [time |-> t, sane |-> sane])
  /\ UNCHANGED <<state, listed, answer>>

Init ==
  /\ state = "up"
  /\ listed = <<>> /\ trades = <<>>
  /\ answer = NoAnswer

Next ==
  \/ \E limit \in Limits, floor \in Floors : Discover(limit, floor)
  \/ \E from, to \in Times, limit \in Limits : Swaps(from, to, limit)
  \/ \E from, to \in Times : Prices(from, to)
  \/ Numbers \/ Health \/ Use
  \/ \E s \in States : Service(s)
  \/ \E kind \in Kinds : List(kind)
  \/ \E t \in Times, sane \in BOOLEAN : Trade(t, sane)

Spec == Init /\ [][Next]_vars

-----------------------------------------------------------------------------
(* Types of the answers. *)
TypeOK ==
  /\ state \in States
  /\ Len(listed) <= MaxPools
  /\ answer.ok \in BOOLEAN /\ (~answer.ok => answer.value = <<>>)

(* What the adapters that send a request make of an outage: a service that
   cannot be reached is an error, and so is a body that is not JSON but to a
   health check, any other status but to Jupiter's trades, and for the subgraph
   a body of another shape, so that its market is empty only if it is. *)
OutagesAreErrors ==
  answer.ok /\ ~(answer.method = "swaps" /\ answer.source = "geckoterminal") =>
    /\ answer.service # "refused"
    /\ answer.service = "garbled" => answer.method = "health"
    /\ answer.service = "status" => answer.method = "swaps" /\ answer.source = "solana"
    /\ answer.service = "strange" => answer.source # "subgraph"

(* What an answer holds was asked for: no more than the limit, and nothing from
   outside of the window, but for the swaps of DexScreener and what the subgraph
   and GeckoTerminal give without a time, which is dated to zero. *)
AnswersKeepToTheRequest ==
  /\ answer.method \in {"discover", "swaps"} /\ answer.limit > 0 =>
       Len(answer.value) <= answer.limit
  /\ answer.method \in {"swaps", "prices"} =>
       \A i \in DOMAIN answer.value :
         \/ answer.from <= answer.value[i] /\ answer.value[i] <= answer.to
         \/ answer.source = "dexscreener" /\ answer.method = "swaps"
         \/ answer.source \in {"subgraph", "geckoterminal"} /\ answer.value[i] = 0
=============================================================================
