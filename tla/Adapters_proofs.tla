-------------------------- MODULE Adapters_proofs --------------------------
(***************************************************************************)
(* Proofs about Adapters, for any pools, goroutines, markets and bounds.   *)
(* Each part has an inductive invariant of its own; a step of the          *)
(* composition is a step of one part that leaves the others alone.         *)
(***************************************************************************)
EXTENDS Adapters, Sequences, SumTheorems

(* What a step of the composition is to each part. *)
LEMMA StepOfParts ==
  [Next]_vars =>
    /\ [Tests!Next]_backtestVars
    /\ [Signs!Next]_signingVars
    /\ [Decides!Next]_strategyVars
    /\ [Simulates!Next]_simulatorVars
    /\ [Logs!Next]_auditVars
    /\ [Asks!Next]_sourceVars
  BY DEF Next, vars

LEMMA InitOfParts ==
  Init => /\ Tests!Init /\ Signs!Init /\ Decides!Init
          /\ Simulates!Init /\ Logs!Init /\ Asks!Init
  BY DEF Init

-----------------------------------------------------------------------------
(* Signing.  What a signer holds is typed; under a slippage of at most the
   whole, what it asks back lies between nothing and what it gives. *)
TxKinds == {"", "mint", "decrease", "increase", "rebalance", "collect", "approve"}
Places == {"out", "built", "nonce", "prices", "sign", "message"}
Txs == [kind : TxKinds, evm : BOOLEAN, nonce : Nat, want : Nat \X Nat, min : Int \X Int,
        slippage : Int]

FloorKept(tx) ==
  tx.kind \in {"mint", "decrease", "increase"} /\ tx.slippage \in 0..Signs!Bps =>
    /\ tx.kind # "increase" => tx.min # <<0, 0>>
    /\ \A i \in 1..2 : 0 <= tx.min[i] /\ tx.min[i] <= tx.want[i]

CallersTyped ==
  caller \in [Signers -> [at : Places, tx : Txs, nonce : Nat]]

(* The nonces below the one the node gives next are signed for, and so is the
   one before every nonce that is held. *)
NoncesAreLinked ==
  wallet = "keystore" /\ has # {} =>
    /\ \A n \in signed : n > FirstNonce => n - 1 \in signed
    /\ \A n \in FirstNonce..(chainNext - 1) : n \in signed
    /\ \A c \in Signers :
         caller[c].at \in {"prices", "sign"} /\ caller[c].nonce > FirstNonce
           => caller[c].nonce - 1 \in signed

SignInv ==
  /\ Signs!TypeOK /\ CallersTyped /\ NoncesAreLinked
  /\ \A c \in Signers : FloorKept(caller[c].tx)

LEMMA SlippageType ==
  ASSUME NEW a \in Nat, NEW s \in Int
  PROVE  Signs!CalculateSlippageAmount(a, s) \in Int
<1>1. a * (10000 - s) \in Int
  OBVIOUS
<1> QED
  BY <1>1 DEF Signs!CalculateSlippageAmount, Signs!Bps

LEMMA SlippageBounds ==
  ASSUME NEW a \in Nat, NEW s \in 0..Signs!Bps
  PROVE  Signs!CalculateSlippageAmount(a, s) \in 0..a
<1>1. PICK b : b = Signs!Bps
  OBVIOUS
<1>2. b = 10000 /\ s \in 0..b
  BY <1>1 DEF Signs!Bps
<1>3. PICK k : k = a * (b - s)
  OBVIOUS
<1>4. k \in 0..(a * b)
  BY <1>2, <1>3
<1>5. k \div b \in 0..a
  BY <1>2, <1>4
<1> QED
  BY <1>1, <1>3, <1>5 DEF Signs!CalculateSlippageAmount

LEMMA OutIsTyped == Signs!NoTx \in Txs /\ FloorKept(Signs!NoTx)
  BY DEF Signs!NoTx, Txs, TxKinds, FloorKept

(* Minima that keep to their bounds, and the transaction made of them. *)
Between(min, want, s) ==
  s \in 0..Signs!Bps => 0 <= min[1] /\ min[1] <= want[1] /\ 0 <= min[2] /\ min[2] <= want[2]

Made(kind, evm, want, min, s) ==
  [kind |-> kind, evm |-> evm, nonce |-> 0, want |-> want, min |-> min, slippage |-> s]

LEMMA MadeIsSound ==
  ASSUME NEW kind \in TxKinds, NEW evm \in BOOLEAN, NEW want \in Nat \X Nat,
         NEW min \in Int \X Int, kind # "increase" => min # <<0, 0>>, NEW s \in Int,
         Between(min, want, s)
  PROVE  Made(kind, evm, want, min, s) \in Txs /\ FloorKept(Made(kind, evm, want, min, s))
<1>1. Made(kind, evm, want, min, s) \in Txs
  BY DEF Txs, Made
<1>2. ASSUME s \in 0..Signs!Bps, NEW i \in 1..2
      PROVE  0 <= min[i] /\ min[i] <= want[i]
  <2>1. CASE i = 1
    BY <1>2, <2>1 DEF Between
  <2>2. CASE i = 2
    BY <1>2, <2>2 DEF Between
  <2> QED
    BY <2>1, <2>2
<1>3. FloorKept(Made(kind, evm, want, min, s))
  BY <1>2 DEF FloorKept, Made
<1> QED
  BY <1>1, <1>3

LEMMA MinimaAreBetween ==
  ASSUME NEW a \in Nat, NEW b \in Nat, NEW s \in Int
  PROVE  Signs!Minima(<<a, b>>, s) \in Int \X Int /\ Between(Signs!Minima(<<a, b>>, s), <<a, b>>, s)
<1>1. PICK x, y : x = Signs!CalculateSlippageAmount(a, s) /\ y = Signs!CalculateSlippageAmount(b, s)
  OBVIOUS
<1>2. Signs!Minima(<<a, b>>, s) = <<x, y>>
  BY <1>1 DEF Signs!Minima
<1>3. x \in Int /\ y \in Int
  BY <1>1, SlippageType
<1>4. ASSUME s \in 0..Signs!Bps PROVE x \in 0..a /\ y \in 0..b
  <2>1. Signs!CalculateSlippageAmount(a, s) \in 0..a
    BY <1>4, SlippageBounds
  <2>2. Signs!CalculateSlippageAmount(b, s) \in 0..b
    BY <1>4, SlippageBounds
  <2> QED
    BY <1>1, <2>1, <2>2
<1> QED
  BY <1>2, <1>3, <1>4 DEF Between

LEMMA MintIsSound ==
  ASSUME NEW a \in Nat, NEW b \in Nat, NEW s \in Int, NEW ordered \in BOOLEAN,
         NEW inTime \in BOOLEAN, NEW evm \in BOOLEAN,
         NEW tx, tx = Signs!BuildMint(<<a, b>>, s, ordered, inTime, evm)
  PROVE  tx \in Txs /\ FloorKept(tx)
<1>1. PICK min : min = Signs!Minima(<<a, b>>, s)
  OBVIOUS
<1>2. min \in Int \X Int /\ Between(min, <<a, b>>, s)
  BY <1>1, MinimaAreBetween
<1>3. \/ min # <<0, 0>> /\ tx = Made("mint", evm, <<a, b>>, min, s)
     \/ tx = Signs!NoTx
  BY <1>1 DEF Signs!BuildMint, Signs!NoTx, Made
<1>4. "mint" \in TxKinds /\ <<a, b>> \in Nat \X Nat
  BY DEF TxKinds
<1> QED
  BY <1>2, <1>3, <1>4, OutIsTyped, MadeIsSound

LEMMA DecreaseIsSound ==
  ASSUME NEW l \in Nat, NEW m \in Nat \X Nat, NEW s \in Int, NEW inTime \in BOOLEAN,
         NEW evm \in BOOLEAN, NEW tx, tx = Signs!BuildDecrease(l, m, s, inTime, evm)
  PROVE  tx \in Txs /\ FloorKept(tx)
<1>1. PICK floor, want : /\ floor = IF s > 0 THEN Signs!Minima(<<l, l>>, s) ELSE m
                         /\ want = IF s > 0 THEN <<l, l>> ELSE m
  OBVIOUS
<1>2. floor \in Int \X Int /\ want \in Nat \X Nat /\ Between(floor, want, s)
  <2>1. CASE s > 0
    BY <1>1, <2>1, MinimaAreBetween
  <2>2. CASE ~(s > 0)
    <3>1. floor = m /\ want = m /\ 0 <= m[1] /\ 0 <= m[2] /\ m[1] \in Nat /\ m[2] \in Nat
      BY <1>1, <2>2
    <3>2. Between(floor, want, s)
      BY <3>1 DEF Between
    <3> QED
      BY <3>1, <3>2
  <2> QED
    BY <2>1, <2>2
<1>3. \/ floor # <<0, 0>> /\ tx = Made("decrease", evm, want, floor, s)
     \/ tx = Signs!NoTx
  BY <1>1 DEF Signs!BuildDecrease, Signs!NoTx, Made
<1>4. "decrease" \in TxKinds
  BY DEF TxKinds
<1> QED
  BY <1>2, <1>3, <1>4, OutIsTyped, MadeIsSound

LEMMA IncreaseIsSound ==
  ASSUME NEW a \in Nat, NEW b \in Nat, NEW s \in Int, NEW inTime \in BOOLEAN,
         NEW evm \in BOOLEAN, NEW tx, tx = Signs!BuildIncrease(<<a, b>>, s, inTime, evm)
  PROVE  tx \in Txs /\ FloorKept(tx)
<1>1. PICK min : min = Signs!Minima(<<a, b>>, s)
  OBVIOUS
<1>2. min \in Int \X Int /\ Between(min, <<a, b>>, s)
  BY <1>1, MinimaAreBetween
<1>3. tx = Made("increase", evm, <<a, b>>, min, s) \/ tx = Signs!NoTx
  BY <1>1 DEF Signs!BuildIncrease, Signs!NoTx, Made
<1>4. "increase" \in TxKinds /\ <<a, b>> \in Nat \X Nat
  BY DEF TxKinds
<1> QED
  BY <1>2, <1>3, <1>4, OutIsTyped, MadeIsSound

(* Only four of the fields matter to the floor. *)
LEMMA FloorOfSame ==
  ASSUME NEW tx, NEW other, FloorKept(other), tx.kind = other.kind,
         tx.slippage = other.slippage, tx.min = other.min, tx.want = other.want
  PROVE  FloorKept(tx)
  BY DEF FloorKept

(* Where a signer goes: its state is replaced. *)
LEMMA CallerMoves ==
  ASSUME SignInv, NEW c \in Signers,
         NEW r \in [at : Places, tx : Txs, nonce : Nat],
         caller' = [caller EXCEPT ![c] = r], FloorKept(r.tx),
         UNCHANGED <<wallet, has, key, chainNext>>,
         signed \subseteq signed', signed' \subseteq Nat,
         wallet = "keystore" /\ has # {} =>
           /\ \A n \in signed' \ signed : n > FirstNonce => n - 1 \in signed
           /\ r.at \in {"prices", "sign"} /\ r.nonce > FirstNonce => r.nonce - 1 \in signed
  PROVE  SignInv'
<1>1. CallersTyped'
  BY DEF SignInv, CallersTyped
<1>2. Signs!TypeOK'
  BY <1>1 DEF SignInv, CallersTyped, Signs!TypeOK, Places
<1>3. caller'[c] = r /\ \A d \in Signers \ {c} : caller'[d] = caller[d]
  BY DEF SignInv, CallersTyped
<1>4. \A d \in Signers : FloorKept(caller'[d].tx)
  BY <1>3 DEF SignInv
<1>5. NoncesAreLinked'
  <2> SUFFICES ASSUME wallet = "keystore", has # {} PROVE NoncesAreLinked'
    BY DEF NoncesAreLinked
  <2>1. \A n \in signed' : n > FirstNonce => n - 1 \in signed'
    BY DEF SignInv, NoncesAreLinked
  <2>2. \A n \in FirstNonce..(chainNext' - 1) : n \in signed'
    BY DEF SignInv, NoncesAreLinked
  <2>3. \A d \in Signers :
          caller'[d].at \in {"prices", "sign"} /\ caller'[d].nonce > FirstNonce
            => caller'[d].nonce - 1 \in signed'
    BY <1>3 DEF SignInv, NoncesAreLinked
  <2> QED
    BY <2>1, <2>2, <2>3 DEF NoncesAreLinked
<1> QED
  BY <1>1, <1>2, <1>4, <1>5 DEF SignInv

LEMMA CallerIs ==
  ASSUME SignInv, NEW c \in Signers
  PROVE  /\ caller[c] \in [at : Places, tx : Txs, nonce : Nat]
         /\ FloorKept(caller[c].tx)
  BY DEF SignInv, CallersTyped

(* A signer that returns, or that has built a sound transaction. *)
LEMMA ReturnKeepsSign ==
  ASSUME SignInv, NEW c \in Signers, Signs!Return(c), UNCHANGED <<wallet, has, key, chainNext>>,
         signed \subseteq signed', signed' \subseteq Nat,
         wallet = "keystore" /\ has # {} =>
           \A n \in signed' \ signed : n > FirstNonce => n - 1 \in signed
  PROVE  SignInv'
<1>1. /\ Signs!Out \in [at : Places, tx : Txs, nonce : Nat]
      /\ FloorKept(Signs!Out.tx) /\ Signs!Out.at = "out"
  BY OutIsTyped DEF Signs!Out, Places
<1>2. caller' = [caller EXCEPT ![c] = Signs!Out]
  BY DEF Signs!Return
<1> QED
  BY <1>1, <1>2, CallerMoves

LEMMA BuiltKeepsSign ==
  ASSUME SignInv, NEW c \in Signers, NEW tx \in Txs, FloorKept(tx), Signs!Built(c, tx),
         UNCHANGED <<wallet, has, key, chainNext, signed>>
  PROVE  SignInv'
<1> DEFINE r == [Signs!Out EXCEPT !.at = "built", !.tx = tx]
<1>1. /\ r \in [at : Places, tx : Txs, nonce : Nat]
      /\ r.tx = tx /\ r.at = "built"
  <2>1. Signs!Out \in [at : Places, tx : Txs, nonce : Nat]
    BY OutIsTyped DEF Signs!Out, Places
  <2> QED
    BY <2>1 DEF Places
<1>2. caller' = [caller EXCEPT ![c] = r]
  BY DEF Signs!Built
<1>3. signed \subseteq signed' /\ signed' \subseteq Nat /\ signed' \ signed = {}
  BY DEF SignInv, Signs!TypeOK
<1> HIDE DEF r
<1> QED
  BY <1>1, <1>3, <1>2, CallerMoves

LEMMA NothingKeepsSign == SignInv /\ UNCHANGED <<caller, wallet, has, key, chainNext, signed>> => SignInv'
  BY DEF SignInv, Signs!TypeOK, CallersTyped, NoncesAreLinked

LEMMA BuildKeepsSign ==
  ASSUME SignInv, NEW c \in Signers, Signs!Build(c)
  PROVE  SignInv'
<1>1. UNCHANGED <<wallet, has, key, chainNext, signed>>
  BY DEF Signs!Build
<1>2. ASSUME NEW tx \in Txs, FloorKept(tx), Signs!Offer(c, tx) PROVE SignInv'
  BY <1>1, <1>2, NothingKeepsSign, BuiltKeepsSign DEF Signs!Offer
<1>3. CASE Signs!BuildAddLiquidityTx(c)
  <2>1. PICK a0 \in Amounts, a1 \in Amounts, s \in Slippages, ordered \in BOOLEAN,
             inTime \in BOOLEAN, evm \in BOOLEAN :
          Signs!Offer(c, Signs!BuildMint(<<a0, a1>>, s, ordered, inTime, evm))
    BY <1>3 DEF Signs!BuildAddLiquidityTx
  <2>2. PICK tx : tx = Signs!BuildMint(<<a0, a1>>, s, ordered, inTime, evm)
    OBVIOUS
  <2>3. a0 \in Nat /\ a1 \in Nat /\ s \in Int
    BY SigningAssumption
  <2>4. tx \in Txs /\ FloorKept(tx)
    BY <2>2, <2>3, MintIsSound
  <2> QED
    BY <1>2, <2>1, <2>2, <2>4
<1>4. CASE Signs!BuildRemoveLiquidityTx(c)
  <2>1. PICK l \in Amounts, m0 \in Amounts, m1 \in Amounts, s \in Slippages,
             inTime \in BOOLEAN, evm \in BOOLEAN :
          Signs!Offer(c, Signs!BuildDecrease(l, <<m0, m1>>, s, inTime, evm))
    BY <1>4 DEF Signs!BuildRemoveLiquidityTx
  <2>2. PICK tx : tx = Signs!BuildDecrease(l, <<m0, m1>>, s, inTime, evm)
    OBVIOUS
  <2>3. l \in Nat /\ <<m0, m1>> \in Nat \X Nat /\ s \in Int
    BY SigningAssumption
  <2>4. tx \in Txs /\ FloorKept(tx)
    BY <2>2, <2>3, DecreaseIsSound
  <2> QED
    BY <1>2, <2>1, <2>2, <2>4
<1>5. ASSUME NEW tx, \/ tx = [Signs!NoTx EXCEPT !.kind = "rebalance"]
                     \/ tx = [Signs!NoTx EXCEPT !.kind = "collect", !.evm = TRUE]
                     \/ tx = [Signs!NoTx EXCEPT !.kind = "approve", !.evm = TRUE,
                                                !.nonce = TokenNonce]
      PROVE  tx \in Txs /\ FloorKept(tx)
  <2>1. tx \in Txs /\ tx.kind \notin {"mint", "decrease", "increase"}
    <3>1. PICK t : t = Signs!NoTx /\ t \in Txs
      BY OutIsTyped
    <3>2. CASE tx = [t EXCEPT !.kind = "rebalance"]
      BY <3>1, <3>2 DEF Txs, TxKinds
    <3>3. CASE tx = [t EXCEPT !.kind = "collect", !.evm = TRUE]
      BY <3>1, <3>3 DEF Txs, TxKinds
    <3>4. CASE tx = [t EXCEPT !.kind = "approve", !.evm = TRUE, !.nonce = TokenNonce]
      BY <3>1, <3>4, SigningAssumption DEF Txs, TxKinds
    <3> QED
      BY <1>5, <3>1, <3>2, <3>3, <3>4
  <2> QED
    BY <2>1 DEF FloorKept
<1>6. CASE Signs!BuildIncreaseLiquidityTx(c)
  <2>1. PICK a0 \in Amounts, a1 \in Amounts, s \in Slippages, inTime \in BOOLEAN,
             evm \in BOOLEAN :
          Signs!Offer(c, Signs!BuildIncrease(<<a0, a1>>, s, inTime, evm))
    BY <1>6 DEF Signs!BuildIncreaseLiquidityTx
  <2>2. PICK tx : tx = Signs!BuildIncrease(<<a0, a1>>, s, inTime, evm)
    OBVIOUS
  <2>3. a0 \in Nat /\ a1 \in Nat /\ s \in Int
    BY SigningAssumption
  <2>4. tx \in Txs /\ FloorKept(tx)
    BY <2>2, <2>3, IncreaseIsSound
  <2> QED
    BY <1>2, <2>1, <2>2, <2>4
<1>7. CASE Signs!BuildRebalanceTxs(c) \/ Signs!BuildCollectFeesTx(c)
  BY <1>1, <1>5, <1>7, BuiltKeepsSign DEF Signs!BuildRebalanceTxs, Signs!BuildCollectFeesTx
<1>8. CASE Signs!ApproveExact(c)
  BY <1>1, <1>5, <1>8, BuiltKeepsSign, NothingKeepsSign DEF Signs!ApproveExact,
     Signs!KeystoreApprove, Signs!KMSApprove, Signs!NoneApprove
<1> QED
  BY <1>3, <1>4, <1>6, <1>7, <1>8 DEF Signs!Build

(* A signer that goes on, with the nonce it has or with one the node gave. *)
LEMMA SignerGoesOn ==
  ASSUME SignInv, NEW c \in Signers, UNCHANGED <<wallet, has, key, chainNext, signed>>,
         NEW where \in {"nonce", "prices", "sign", "message"}, NEW n \in Nat,
         where \in {"prices", "sign"} /\ has # {} /\ n > FirstNonce /\ wallet = "keystore"
           => n - 1 \in signed,
         caller' = [caller EXCEPT ![c] = [@ EXCEPT !.at = where, !.nonce = n]]
  PROVE  SignInv'
<1> DEFINE r == [caller[c] EXCEPT !.at = where, !.nonce = n]
<1>1. /\ r \in [at : Places, tx : Txs, nonce : Nat]
      /\ r.tx = caller[c].tx /\ r.at = where /\ r.nonce = n
  BY CallerIs DEF Places
<1>2. caller' = [caller EXCEPT ![c] = r]
  BY DEF SignInv, CallersTyped
<1>3. signed \subseteq signed' /\ signed' \subseteq Nat /\ signed' \ signed = {}
  BY DEF SignInv, Signs!TypeOK
<1>4. FloorKept(r.tx)
  BY <1>1, CallerIs
<1> HIDE DEF r
<1> QED
  BY <1>1, <1>2, <1>3, <1>4, CallerMoves

LEMMA SignerStep ==
  ASSUME SignInv, NEW c \in Signers,
         \/ Signs!SetNonce(c) \/ Signs!SignStart(c) \/ Signs!FetchNonce(c)
         \/ Signs!FetchPrices(c) \/ Signs!SignTx(c)
         \/ Signs!MessageStart(c) \/ Signs!SignMessage(c)
  PROVE  SignInv'
<1>1. /\ signed \subseteq Nat /\ chainNext \in Nat /\ FirstNonce \in Nat
      /\ chainNext >= FirstNonce
  BY SigningAssumption DEF SignInv, Signs!TypeOK
<1>2. /\ caller[c].tx \in Txs /\ caller[c].nonce \in Nat /\ FloorKept(caller[c].tx)
      /\ caller \in [Signers -> [at : Places, tx : Txs, nonce : Nat]]
  BY CallerIs DEF SignInv, CallersTyped
<1>3. UNCHANGED signed => signed \subseteq signed' /\ signed' \subseteq Nat /\ signed' \ signed = {}
  BY <1>1
<1>4. CASE Signs!SetNonce(c)
  <2> DEFINE r == [caller[c] EXCEPT !.tx = [@ EXCEPT !.nonce = chainNext]]
  <2>1. /\ r \in [at : Places, tx : Txs, nonce : Nat]
        /\ r.at = "built"
    BY <1>1, <1>2, <1>4, CallerIs DEF Signs!SetNonce, Txs
  <2>2. FloorKept(r.tx)
    <3>1. r.tx = [caller[c].tx EXCEPT !.nonce = chainNext]
      BY CallerIs
    <3>2. /\ r.tx.kind = caller[c].tx.kind /\ r.tx.slippage = caller[c].tx.slippage
          /\ r.tx.min = caller[c].tx.min /\ r.tx.want = caller[c].tx.want
      BY <1>2, <3>1 DEF Txs
    <3> HIDE DEF r
    <3> QED
      BY <1>2, <3>2, FloorOfSame
  <2>3. caller' = [caller EXCEPT ![c] = r]
    BY <1>2, <1>4 DEF Signs!SetNonce
  <2>4. UNCHANGED <<wallet, has, key, chainNext, signed>>
    BY <1>4 DEF Signs!SetNonce
  <2> HIDE DEF r
  <2> QED
    BY <1>3, <2>1, <2>2, <2>3, <2>4, CallerMoves
<1>5. CASE Signs!SignStart(c) /\ Signs!Return(c)
  <2>1. /\ signed \subseteq signed' /\ signed' \subseteq Nat
        /\ wallet # "kms" => signed' = signed
    BY <1>1, <1>2, <1>5 DEF Signs!SignStart, Signs!KeystoreSign, Signs!KMSSign, Signs!NoneSign,
       Txs
  <2> QED
    BY <1>5, <2>1, ReturnKeepsSign DEF Signs!SignStart
<1>6. CASE Signs!SignStart(c) /\ ~Signs!Return(c)
  <2>1. UNCHANGED <<wallet, has, key, chainNext, signed>>
    BY <1>6 DEF Signs!SignStart, Signs!KeystoreSign, Signs!KMSSign, Signs!NoneSign
  <2>2. caller' = caller \/ Signs!Go(c, "nonce")
    BY <1>6 DEF Signs!SignStart, Signs!KeystoreSign, Signs!KMSSign, Signs!NoneSign
  <2>3. Signs!Go(c, "nonce") =>
          caller' = [caller EXCEPT ![c] = [@ EXCEPT !.at = "nonce", !.nonce = caller[c].nonce]]
    BY <1>2 DEF Signs!Go
  <2> QED
    BY <1>2, <2>1, <2>2, <2>3, NothingKeepsSign, SignerGoesOn
<1>7. CASE Signs!FetchNonce(c)
  <2>1. UNCHANGED <<wallet, has, key, chainNext, signed>>
    BY <1>7 DEF Signs!FetchNonce
  <2>2. CASE Signs!Return(c)
    BY <1>3, <2>1, <2>2, ReturnKeepsSign
  <2>3. CASE caller' = [caller EXCEPT ![c].nonce = Signs!NonceFor(c), ![c].at = "prices"]
    <3>1. PICK n : n = Signs!NonceFor(c)
      OBVIOUS
    <3>2. n \in Nat
      BY <1>1, <1>2, <3>1 DEF Signs!NonceFor, Txs
    <3>3. has # {} /\ n > FirstNonce /\ wallet = "keystore" => n - 1 \in signed
      <4>1. has # {} => n = chainNext
        BY <3>1 DEF Signs!NonceFor
      <4> QED
        BY <1>1, <4>1 DEF SignInv, NoncesAreLinked
    <3>4. caller' = [caller EXCEPT ![c] = [@ EXCEPT !.at = "prices", !.nonce = n]]
      BY <1>2, <2>3, <3>1
    <3> QED
      BY <2>1, <3>2, <3>3, <3>4, SignerGoesOn
  <2> QED
    BY <1>7, <2>2, <2>3 DEF Signs!FetchNonce
<1>8. CASE Signs!FetchPrices(c)
  <2>1. UNCHANGED <<wallet, has, key, chainNext, signed>> /\ caller[c].at = "prices"
    BY <1>8 DEF Signs!FetchPrices
  <2>2. CASE Signs!Return(c)
    BY <1>3, <2>1, <2>2, ReturnKeepsSign
  <2>3. CASE Signs!Go(c, "sign")
    <3>1. PICK n : n = caller[c].nonce
      OBVIOUS
    <3>2. n \in Nat /\ (has # {} /\ n > FirstNonce /\ wallet = "keystore" => n - 1 \in signed)
      BY <1>2, <2>1, <3>1 DEF SignInv, NoncesAreLinked
    <3>3. caller' = [caller EXCEPT ![c] = [@ EXCEPT !.at = "sign", !.nonce = n]]
      BY <1>2, <2>3, <3>1 DEF Signs!Go
    <3> QED
      BY <2>1, <3>2, <3>3, SignerGoesOn
  <2> QED
    BY <1>8, <2>2, <2>3 DEF Signs!FetchPrices
<1>9. CASE Signs!SignTx(c)
  <2>1. /\ UNCHANGED <<wallet, has, key, chainNext>> /\ Signs!Return(c)
        /\ caller[c].at = "sign"
        /\ signed' \in {signed, signed \cup {caller[c].nonce}}
    BY <1>9 DEF Signs!SignTx
  <2>2. signed \subseteq signed' /\ signed' \subseteq Nat
    BY <1>1, <1>2, <2>1
  <2>3. wallet = "keystore" /\ has # {} =>
          \A n \in signed' \ signed : n > FirstNonce => n - 1 \in signed
    BY <2>1 DEF SignInv, NoncesAreLinked
  <2> QED
    BY <2>1, <2>2, <2>3, ReturnKeepsSign
<1>10. CASE Signs!MessageStart(c)
  <2>1. UNCHANGED <<wallet, has, key, chainNext, signed>>
    BY <1>10 DEF Signs!MessageStart
  <2>2. caller' = [caller EXCEPT ![c] = [@ EXCEPT !.at = "message", !.nonce = caller[c].nonce]]
    BY <1>2, <1>10 DEF Signs!MessageStart, Signs!Go
  <2> QED
    BY <1>2, <2>1, <2>2, SignerGoesOn
<1>11. CASE Signs!SignMessage(c)
  <2>1. UNCHANGED <<wallet, has, key, chainNext, signed>> /\ Signs!Return(c)
    BY <1>11 DEF Signs!SignMessage
  <2> QED
    BY <1>3, <2>1, ReturnKeepsSign
<1> QED
  BY <1>4, <1>5, <1>6, <1>7, <1>8, <1>9, <1>10, <1>11

LEMMA ShorterRange ==
  ASSUME NEW a \in Int, NEW b \in Int, NEW m \in Int, m <= b, NEW n \in a..(m - 1)
  PROVE  n \in a..(b - 1)
  OBVIOUS

LEMMA SignStep == SignInv /\ [Signs!Next]_signingVars => SignInv'
<1> SUFFICES ASSUME SignInv, [Signs!Next]_signingVars PROVE SignInv'
  OBVIOUS
<1>1. CASE UNCHANGED signingVars
  BY <1>1, NothingKeepsSign DEF signingVars
<1>2. ASSUME NEW c \in Signers, Signs!Build(c) PROVE SignInv'
  BY <1>2, BuildKeepsSign
<1>3. ASSUME NEW c \in Signers,
             \/ Signs!SetNonce(c) \/ Signs!SignStart(c) \/ Signs!FetchNonce(c)
             \/ Signs!FetchPrices(c) \/ Signs!SignTx(c)
             \/ Signs!MessageStart(c) \/ Signs!SignMessage(c)
      PROVE  SignInv'
  BY <1>3, SignerStep
<1>4. CASE Signs!Open \/ Signs!Close
  <2>1. /\ UNCHANGED <<wallet, has, caller, signed, chainNext>>
        /\ key' \in {"live", "half", "wiped", "nil"}
    BY <1>4 DEF Signs!Open, Signs!Close, SignInv, Signs!TypeOK
  <2> QED
    BY <2>1 DEF SignInv, Signs!TypeOK, CallersTyped, NoncesAreLinked
<1>5. CASE Signs!NodeAccepts \/ Signs!NodeLags
  <2>1. chainNext \in FirstNonce..MaxNonce /\ FirstNonce \in Nat /\ MaxNonce \in Nat
    BY SigningAssumption DEF SignInv, Signs!TypeOK
  <2>2. /\ UNCHANGED <<wallet, has, caller, signed, key>>
        /\ chainNext' \in FirstNonce..MaxNonce
        /\ \/ chainNext' <= chainNext
           \/ chainNext' = chainNext + 1 /\ chainNext \in signed
    <3>1. CASE Signs!NodeAccepts
      <4>1. chainNext < MaxNonce /\ chainNext' = chainNext + 1 /\ chainNext \in signed
        BY <3>1 DEF Signs!NodeAccepts
      <4>2. chainNext' \in FirstNonce..MaxNonce
        BY <2>1, <4>1
      <4> QED
        BY <3>1, <4>1, <4>2 DEF Signs!NodeAccepts
    <3>2. CASE Signs!NodeLags
      <4>1. chainNext' \in FirstNonce..(chainNext - 1)
        BY <3>2 DEF Signs!NodeLags
      <4>2. chainNext' \in FirstNonce..MaxNonce /\ chainNext' <= chainNext
        BY <2>1, <4>1
      <4>3. UNCHANGED <<wallet, has, caller, signed, key>>
        BY <3>2 DEF Signs!NodeLags
      <4> QED
        BY <4>2, <4>3
    <3> QED
      BY <1>5, <3>1, <3>2
  <2>3. Signs!TypeOK' /\ CallersTyped'
    BY <2>2 DEF SignInv, Signs!TypeOK, CallersTyped
  <2>4. NoncesAreLinked'
    <3> SUFFICES ASSUME wallet = "keystore", has # {} PROVE NoncesAreLinked'
      BY <2>2 DEF NoncesAreLinked
    <3>1. ASSUME NEW n \in FirstNonce..(chainNext' - 1) PROVE n \in signed
      <4>1. CASE chainNext' <= chainNext
        <5>1. chainNext' \in Int /\ chainNext \in Int /\ FirstNonce \in Int
          BY <2>1, <2>2
        <5>2. n \in FirstNonce..(chainNext - 1)
          BY <3>1, <4>1, <5>1, ShorterRange
        <5> QED
          BY <5>2 DEF SignInv, NoncesAreLinked
      <4>2. CASE chainNext' = chainNext + 1 /\ chainNext \in signed
        <5>1. n = chainNext \/ n \in FirstNonce..(chainNext - 1)
          BY <2>1, <3>1, <4>2
        <5> QED
          BY <4>2, <5>1 DEF SignInv, NoncesAreLinked
      <4>3. (chainNext' <= chainNext) \/ (chainNext' = chainNext + 1 /\ chainNext \in signed)
        BY <2>2
      <4> QED
        BY <4>1, <4>2, <4>3
    <3> QED
      BY <2>2, <3>1 DEF SignInv, NoncesAreLinked
  <2> QED
    BY <2>2, <2>3, <2>4 DEF SignInv
<1> QED
  BY <1>1, <1>2, <1>3, <1>4, <1>5 DEF Signs!Next, signingVars

LEMMA SignInit == Signs!Init => SignInv
<1> SUFFICES ASSUME Signs!Init PROVE SignInv
  OBVIOUS
<1>1. CallersTyped
  BY OutIsTyped DEF Signs!Init, Signs!Out, CallersTyped, Places
<1>2. \A c \in Signers : FloorKept(caller[c].tx) /\ caller[c].at = "out"
  BY OutIsTyped DEF Signs!Init, Signs!Out
<1>3. Signs!TypeOK
  BY <1>1, SigningAssumption DEF Signs!Init, Signs!TypeOK, CallersTyped, Places, Signs!KeystoreOpened,
     Signs!KMSOpened, Signs!NoneOpened
<1>4. NoncesAreLinked
  BY <1>2, SigningAssumption DEF Signs!Init, NoncesAreLinked
<1> QED
  BY <1>1, <1>2, <1>3, <1>4 DEF SignInv

LEMMA SignAlways == Spec => []SignInv
<1>1. Init => SignInv
  BY InitOfParts, SignInit
<1>2. SignInv /\ [Next]_vars => SignInv'
  BY StepOfParts, SignStep
<1> QED
  BY <1>1, <1>2, PTL DEF Spec

(* However signers, a Close and a lagging node interleave: a wallet that can
   ask a node leaves no hole in the nonces it signs for, and what is about to
   be signed asks for something back, and for no more than the intent. *)
THEOREM SignaturesSound == Spec => []SignedIsSound
<1>1. SignInv => SignedIsSound
  <2> SUFFICES ASSUME SignInv PROVE SignedIsSound
    OBVIOUS
  <2>1. Signs!SignedNoncesLeaveNoHole
    BY DEF SignInv, NoncesAreLinked, Signs!SignedNoncesLeaveNoHole
  <2>2. ASSUME NEW c \in Signers PROVE FloorKept(caller[c].tx)
    BY DEF SignInv
  <2>3. Signs!SignedKeepsFloor
    BY <2>2 DEF FloorKept, Signs!SignedKeepsFloor
  <2> QED
    BY <2>1, <2>3 DEF SignedIsSound
<1> QED
  BY <1>1, SignAlways, PTL

(* Nothing is signed with a key that Close has begun to take away, though the
   signer looked at it before and waited for a node in between. *)
THEOREM ClosedSignsNothing == Spec => ClosedWalletSignsNothing
<1>1. [Signs!Next]_signingVars => [signed' # signed => key = "live"]_signingVars
  BY DEF signingVars, Signs!Next, Signs!Build, Signs!SetNonce, Signs!SignStart,
     Signs!KeystoreSign, Signs!KMSSign, Signs!NoneSign, Signs!FetchNonce, Signs!FetchPrices,
     Signs!SignTx, Signs!MessageStart, Signs!SignMessage, Signs!Open, Signs!Close, Signs!NodeAccepts, Signs!NodeLags
<1>2. [Next]_vars => [signed' # signed => key = "live"]_signingVars
  BY <1>1, StepOfParts
<1> QED
  BY <1>2, PTL DEF Spec, ClosedWalletSignsNothing, Signs!ClosedWalletSignsNothing, Signs!vars,
     signingVars

-----------------------------------------------------------------------------
(* Simulators.  The state of a call, how many of its transactions have been
   answered in it, and whose fork answered. *)
Results == [success : BOOLEAN, gas : Nat, out : Simulates!Outputs \cup {"nil"},
            block : Blocks \cup {0}]
Calls == [at : {"idle", "begin", "wait", "call", "stop", "done", "judge", "admitted"},
          sim : {"", "anvil", "sol_rpc", "other"}, core : BOOLEAN, txs : 0..MaxTxs,
          block : Blocks \cup {0}, hash : BOOLEAN, results : Seq(Results), alone : BOOLEAN,
          err : BOOLEAN]
Processes == [is : {"none", "starting", "listening"}, block : Blocks \cup {0}]

CallsTyped ==
  /\ call \in [Callers -> Calls] /\ anvil \in [Simulates!Owners -> Processes]
  /\ port \in Simulates!Owners \cup {""}

Counted(k) ==
  /\ Len(k.results) <= k.txs
  /\ k.at \in {"begin", "wait", "call"} => Len(k.results) < k.txs
  /\ k.at \in {"wait", "stop"} => k.sim = "anvil"
  /\ (k.at \in {"stop", "done"} /\ ~k.err) \/ k.at = "judge" => Len(k.results) > 0
  /\ k.at = "judge" => Len(k.results) = k.txs \/ ~k.results[Len(k.results)].success
  /\ k.at = "admitted" =>
       Len(k.results) = k.txs /\ \A i \in 1..k.txs : k.results[i].success

Running(k) == k.at \in {"wait", "call", "stop"} /\ k.sim = "anvil"

OwnAnswers(k) ==
  k.sim = "anvil" /\ k.alone => \A i \in DOMAIN k.results : k.results[i].block \in {0, k.block}

(* A process belongs to a call that is under way, or a killed bot has left it;
   beside that one no call is alone, and neither is one of two calls. *)
ForksAreOwn ==
  /\ \A d \in Callers : anvil[d].is # "none" => Running(call[d]) /\ anvil[d].block = call[d].block
  /\ port # "" => anvil[port].is = "listening"
  /\ anvil[Simulates!Orphan].is # "none" => \A c \in Callers : Running(call[c]) => ~call[c].alone
  /\ \A c, d \in Callers : c # d /\ Running(call[c]) /\ Running(call[d]) => ~call[c].alone

SimInv ==
  /\ CallsTyped /\ ForksAreOwn
  /\ \A c \in Callers : Counted(call[c]) /\ OwnAnswers(call[c])

LEMMA OwnersAre ==
  /\ Callers \subseteq Simulates!Owners /\ "" \notin Simulates!Owners
  /\ Simulates!Orphan \in Simulates!Owners \ Callers
  /\ \A d \in Simulates!Owners : d \in Callers \/ d = Simulates!Orphan
  BY SimulatorsAssumption DEF Simulates!Owners, Simulates!Orphan

LEMMA SimNothing == SimInv /\ UNCHANGED simulatorVars => SimInv'
  BY DEF SimInv, CallsTyped, ForksAreOwn, simulatorVars

LEMMA CallIs ==
  ASSUME SimInv, NEW c \in Callers
  PROVE  call[c] \in Calls /\ Counted(call[c]) /\ OwnAnswers(call[c])
  BY DEF SimInv, CallsTyped

(* A call goes on, and takes no process with it. *)
LEMMA CallGoesOn ==
  ASSUME SimInv, NEW c \in Callers, NEW k \in Calls, Counted(k), OwnAnswers(k),
         call' = [call EXCEPT ![c] = k], UNCHANGED <<anvil, port>>,
         Running(k) <=> Running(call[c]), Running(k) => k.block = call[c].block,
         Running(k) /\ k.alone => call[c].alone
  PROVE  SimInv'
<1>1. call'[c] = k /\ \A d \in Callers : d # c => call'[d] = call[d]
  BY DEF SimInv, CallsTyped
<1>2. CallsTyped'
  BY DEF SimInv, CallsTyped
<1>3. ForksAreOwn'
  <2>1. ASSUME NEW d \in Callers, anvil'[d].is # "none"
        PROVE  Running(call'[d]) /\ anvil'[d].block = call'[d].block
    BY <1>1, <2>1 DEF SimInv, ForksAreOwn
  <2>2. port' # "" => anvil'[port'].is = "listening"
    BY DEF SimInv, ForksAreOwn
  <2>3. ASSUME anvil'[Simulates!Orphan].is # "none", NEW d \in Callers, Running(call'[d])
       PROVE  ~call'[d].alone
    BY <1>1, <2>3 DEF SimInv, ForksAreOwn
  <2>4. ASSUME NEW d \in Callers, NEW e \in Callers, d # e, Running(call'[d]), Running(call'[e])
        PROVE  ~call'[d].alone
    <3>1. Running(call[d]) /\ Running(call[e])
      BY <1>1, <2>4
    <3>2. ~call[d].alone
      BY <2>4, <3>1 DEF SimInv, ForksAreOwn
    <3> QED
      BY <1>1, <2>4, <3>2
  <2> QED
    BY <2>1, <2>2, <2>3, <2>4 DEF ForksAreOwn
<1>4. \A d \in Callers : Counted(call'[d]) /\ OwnAnswers(call'[d])
  BY <1>1 DEF SimInv
<1> QED
  BY <1>2, <1>3, <1>4 DEF SimInv

(* A call that moves without a new answer. *)
LEMMA CallMoves ==
  ASSUME SimInv, NEW c \in Callers, NEW at \in {"begin", "call", "stop", "done", "judge", "admitted"},
         NEW err \in BOOLEAN, call' = [call EXCEPT ![c] = [@ EXCEPT !.at = at, !.err = err]],
         UNCHANGED <<anvil, port>>, Counted([call[c] EXCEPT !.at = at, !.err = err]),
         Running([call[c] EXCEPT !.at = at, !.err = err]) <=> Running(call[c])
  PROVE  SimInv'
<1> DEFINE k == [call[c] EXCEPT !.at = at, !.err = err]
<1>1. k \in Calls /\ k.block = call[c].block /\ k.alone = call[c].alone
  BY CallIs DEF Calls
<1>2. k.sim = call[c].sim /\ k.results = call[c].results
  BY CallIs DEF Calls
<1>3. OwnAnswers(k)
  <2> HIDE DEF k
  <2> QED
    BY <1>1, <1>2, CallIs DEF OwnAnswers
<1>4. call' = [call EXCEPT ![c] = k]
  BY DEF SimInv, CallsTyped
<1> HIDE DEF k
<1>5. Counted(k) /\ (Running(k) <=> Running(call[c]))
  BY DEF k
<1> QED
  BY <1>1, <1>3, <1>4, <1>5, CallGoesOn

LEMMA MaxTxsIsNat == MaxTxs \in Nat
  BY SimulatorsAssumption

LEMMA IdleIs ==
  /\ Simulates!Idle \in Calls /\ Counted(Simulates!Idle) /\ OwnAnswers(Simulates!Idle)
  /\ ~Running(Simulates!Idle)
<1>1. Simulates!Idle \in Calls
  <2>1. <<>> \in Seq(Results)
    OBVIOUS
  <2>2. 0 \in 0..MaxTxs
    BY MaxTxsIsNat
  <2> QED
    BY <2>1, <2>2 DEF Simulates!Idle, Calls
<1>2. Counted(Simulates!Idle) /\ OwnAnswers(Simulates!Idle) /\ ~Running(Simulates!Idle)
  BY DEF Simulates!Idle, Counted, OwnAnswers, Running
<1> QED
  BY <1>1, <1>2

(* A call under way is given an answer. *)
LEMMA AnswerMoves ==
  ASSUME SimInv, NEW c \in Callers, NEW r \in Results, NEW at \in {"call", "stop", "done"},
         call[c].at \in {"begin", "call"}, UNCHANGED <<anvil, port>>,
         call' = [call EXCEPT ![c] = [@ EXCEPT !.results = Append(call[c].results, r), !.at = at]],
         at = "call" => Len(call[c].results) + 1 < call[c].txs,
         at = "stop" => call[c].sim = "anvil",
         call[c].sim = "anvil" =>
           /\ call[c].at = "call" /\ at \in {"call", "stop"}
           /\ call[c].alone => r.block \in {0, call[c].block}
  PROVE  SimInv'
<1> DEFINE k == [call[c] EXCEPT !.results = Append(call[c].results, r), !.at = at]
<1>1. call[c] \in Calls /\ Counted(call[c]) /\ OwnAnswers(call[c])
  BY CallIs
<1>2. PICK old \in Seq(Results) : old = call[c].results
  BY <1>1 DEF Calls
<1>3. Append(old, r) \in Seq(Results) /\ Len(Append(old, r)) = Len(old) + 1
  OBVIOUS
<1>4. k \in Calls
  BY <1>1, <1>2, <1>3 DEF Calls
<1>5. /\ k.at = at /\ k.results = Append(old, r) /\ k.sim = call[c].sim /\ k.alone = call[c].alone
      /\ k.block = call[c].block /\ k.txs = call[c].txs
  BY <1>1, <1>2 DEF Calls
<1>6. call' = [call EXCEPT ![c] = k]
  <2>1. call \in [Callers -> Calls]
    BY DEF SimInv, CallsTyped
  <2> QED
    BY <2>1
<1> HIDE DEF k
<1>7. Counted(k)
  <2>1. Len(old) < k.txs /\ Len(old) \in Nat /\ k.txs \in Nat
    <3>1. k.txs \in 0..MaxTxs
      BY <1>1, <1>5 DEF Calls
    <3>2. Len(old) < k.txs
      BY <1>1, <1>2, <1>5 DEF Counted
    <3> QED
      BY <3>1, <3>2, MaxTxsIsNat
  <2>2. Len(k.results) = Len(old) + 1
    BY <1>3, <1>5
  <2>3. k.at = "call" => Len(old) + 1 < k.txs
    BY <1>2, <1>5
  <2> QED
    BY <1>5, <2>1, <2>2, <2>3 DEF Counted
<1>8. OwnAnswers(k)
  <2> SUFFICES ASSUME k.sim = "anvil", k.alone, NEW i \in DOMAIN k.results
               PROVE  k.results[i].block \in {0, k.block}
    BY DEF OwnAnswers
  <2>1. CASE i = Len(old) + 1
    BY <1>2, <1>5, <2>1
  <2>2. CASE i # Len(old) + 1
    <3>1. i \in DOMAIN old /\ k.results[i] = old[i]
      BY <1>3, <1>5, <2>2
    <3> QED
      BY <1>1, <1>2, <1>5, <3>1 DEF OwnAnswers
  <2> QED
    BY <2>1, <2>2
<1>9. Running(k) <=> Running(call[c])
  BY <1>5 DEF Running
<1> QED
  BY <1>4, <1>5, <1>6, <1>7, <1>8, <1>9, CallGoesOn

LEMMA AskKeeps ==
  ASSUME SimInv, NEW c \in Callers, NEW core \in BOOLEAN, NEW hash \in BOOLEAN,
         NEW n \in 1..MaxTxs, NEW block \in Blocks \cup {0}, NEW sim \in {"anvil", "sol_rpc", "other"},
         Simulates!Ask(c, sim, core, n, block, hash)
  PROVE  SimInv'
<1> DEFINE k == [Simulates!Idle EXCEPT !.at = "begin", !.sim = sim, !.core = core, !.txs = n,
                                       !.block = block, !.hash = hash]
<1>1. n \in 0..MaxTxs /\ n > 0
  BY MaxTxsIsNat
<1>2. PICK idle \in Calls : idle = Simulates!Idle /\ idle.results = <<>>
  BY IdleIs DEF Simulates!Idle
<1> DEFINE k1 == [idle EXCEPT !.at = "begin", !.sim = sim, !.core = core]
           k2 == [k1 EXCEPT !.txs = n, !.block = block, !.hash = hash]
<1>3. k1 \in Calls /\ k1.at = "begin" /\ k1.results = <<>>
  BY <1>2 DEF Calls
<1>4. k \in Calls /\ k.at = "begin" /\ k.txs = n /\ k.results = <<>>
  <2>1. k = k2
    BY <1>2
  <2> HIDE DEF k, k1
  <2>2. k2 \in Calls /\ k2.at = k1.at /\ k2.txs = n /\ k2.results = k1.results
    BY <1>1, <1>3 DEF Calls
  <2> HIDE DEF k2
  <2> QED
    BY <1>3, <2>1, <2>2
<1> HIDE DEF k, k1
<1>5. call' = [call EXCEPT ![c] = k] /\ UNCHANGED <<anvil, port>> /\ call[c].at = "idle"
  BY DEF Simulates!Ask, k
<1>6. Counted(k) /\ OwnAnswers(k) /\ ~Running(k) /\ ~Running(call[c])
  BY <1>1, <1>4, <1>5 DEF Counted, OwnAnswers, Running
<1> QED
  BY <1>4, <1>5, <1>6, CallGoesOn

LEMMA StartKeeps ==
  ASSUME SimInv, NEW c \in Callers, Simulates!StartAnvil(c)
  PROVE  SimInv'
<1>1. call \in [Callers -> Calls] /\ call[c] \in Calls /\ call[c].at = "begin" /\ call[c].sim = "anvil"
  BY CallIs DEF SimInv, CallsTyped, Simulates!StartAnvil
<1>2. CASE Simulates!Fail(c, "done") /\ UNCHANGED anvil
  <2>1. UNCHANGED <<anvil, port>>
    BY <1>2 DEF Simulates!StartAnvil
  <2>2. call' = [call EXCEPT ![c] = [@ EXCEPT !.at = "done", !.err = TRUE]]
    BY <1>1, <1>2 DEF Simulates!Fail
  <2>3. PICK k : k = [call[c] EXCEPT !.at = "done", !.err = TRUE]
    OBVIOUS
  <2>4. /\ k.at = "done" /\ k.err /\ k.results = call[c].results /\ k.txs = call[c].txs
    BY <1>1, <2>3 DEF Calls
  <2>5. Counted(k) /\ ~Running(k) /\ ~Running(call[c])
    BY <1>1, <2>4, CallIs DEF Counted, Running
  <2> QED
    BY <2>1, <2>2, <2>3, <2>5, CallMoves
<1>3. CASE anvil' = [anvil EXCEPT ![c] = [is |-> "starting", block |-> call[c].block]]
           /\ call' = [d \in Callers |->
             IF d = c THEN [call[c] EXCEPT !.at = "wait", !.hash = FALSE,
                              !.alone = @ /\ Simulates!InProgress = {}
                                          /\ anvil[Simulates!Orphan].is = "none"]
             ELSE IF d \in Simulates!InProgress THEN [call[d] EXCEPT !.alone = FALSE]
             ELSE call[d]]
  <2>1. PICK k : k = call'[c]
    OBVIOUS
  <2>2. k = [call[c] EXCEPT !.at = "wait", !.hash = FALSE,
                            !.alone = call[c].alone /\ Simulates!InProgress = {}
                                        /\ anvil[Simulates!Orphan].is = "none"]
    BY <1>3, <2>1
  <2>3. /\ k \in Calls /\ k.at = "wait" /\ k.sim = "anvil" /\ k.block = call[c].block
        /\ k.results = call[c].results /\ k.txs = call[c].txs
    BY <1>1, <2>2 DEF Calls
  <2>4. k.alone => /\ call[c].alone /\ Simulates!InProgress = {}
                   /\ anvil[Simulates!Orphan].is = "none"
    BY <1>1, <2>2 DEF Calls
  <2>5. Counted(k) /\ OwnAnswers(k) /\ Running(k) /\ ~Running(call[c])
    BY <1>1, <2>3, <2>4, CallIs DEF Counted, OwnAnswers, Running
  <2>6. ASSUME NEW d \in Callers, d # c
        PROVE  /\ call'[d] \in Calls /\ Counted(call'[d]) /\ OwnAnswers(call'[d])
               /\ Running(call'[d]) <=> Running(call[d])
               /\ Running(call'[d]) => ~call'[d].alone
               /\ call'[d].block = call[d].block
    <3>1. call[d] \in Calls /\ Counted(call[d]) /\ OwnAnswers(call[d])
      BY CallIs
    <3>2. CASE d \in Simulates!InProgress
      <4>1. PICK e : e = call'[d]
        OBVIOUS
      <4>2. e = [call[d] EXCEPT !.alone = FALSE]
        BY <1>3, <2>6, <3>2, <4>1
      <4>3. /\ e \in Calls /\ e.alone = FALSE /\ e.at = call[d].at /\ e.sim = call[d].sim
            /\ e.results = call[d].results /\ e.txs = call[d].txs /\ e.err = call[d].err
            /\ e.block = call[d].block
        BY <3>1, <4>2 DEF Calls
      <4>4. Counted(e) /\ OwnAnswers(e) /\ (Running(e) <=> Running(call[d]))
        BY <3>1, <4>3 DEF Counted, OwnAnswers, Running
      <4> QED
        BY <4>1, <4>3, <4>4
    <3>3. CASE d \notin Simulates!InProgress
      <4>1. call'[d] = call[d] /\ ~Running(call[d])
        BY <1>3, <2>6, <3>3 DEF Simulates!InProgress, Running
      <4> QED
        BY <3>1, <4>1
    <3> QED
      BY <3>2, <3>3
  <2>7. anvil'[c] = [is |-> "starting", block |-> call[c].block]
        /\ \A d \in Simulates!Owners : d # c => anvil'[d] = anvil[d]
    BY <1>3, OwnersAre DEF SimInv, CallsTyped
  <2>8. port' = port
    BY DEF Simulates!StartAnvil
  <2>9. CallsTyped'
    <3>1. call' \in [Callers -> Calls]
      <4>1. \A d \in Callers : call'[d] \in Calls
        BY <2>1, <2>3, <2>6
      <4>2. call' = [d \in Callers |-> call'[d]]
        BY <1>3
      <4> QED
        BY <4>1, <4>2
    <3>2. [is |-> "starting", block |-> call[c].block] \in Processes
      BY <1>1 DEF Calls, Processes
    <3> QED
      BY <1>3, <2>8, <3>1, <3>2, OwnersAre DEF SimInv, CallsTyped
  <2>10. ForksAreOwn'
    <3>1. ASSUME NEW d \in Callers, anvil'[d].is # "none"
          PROVE  Running(call'[d]) /\ anvil'[d].block = call'[d].block
      <4>1. CASE d = c
        BY <2>1, <2>3, <2>5, <2>7, <4>1
      <4>2. CASE d # c
        <5>1. anvil[d].is # "none" /\ anvil'[d] = anvil[d]
          BY <2>7, <3>1, <4>2, OwnersAre
        <5>2. Running(call[d]) /\ anvil[d].block = call[d].block
          BY <5>1 DEF SimInv, ForksAreOwn
        <5> QED
          BY <2>6, <4>2, <5>1, <5>2
      <4> QED
        BY <4>1, <4>2
    <3>2. port' # "" => anvil'[port'].is = "listening"
      BY <2>5, <2>7, <2>8 DEF SimInv, ForksAreOwn, CallsTyped
    <3>3. ASSUME anvil'[Simulates!Orphan].is # "none", NEW d \in Callers, Running(call'[d])
         PROVE  ~call'[d].alone
      <4>1. anvil[Simulates!Orphan].is # "none"
        BY <2>7, <3>3, OwnersAre
      <4> QED
        BY <2>1, <2>4, <2>6, <3>3, <4>1
    <3>4. ASSUME NEW d \in Callers, NEW e \in Callers, d # e, Running(call'[d]), Running(call'[e])
          PROVE  ~call'[d].alone
      <4>1. CASE d = c
        <5>1. Running(call[e])
          BY <2>6, <3>4, <4>1
        <5>2. e \in Simulates!InProgress
          BY <5>1 DEF Running, Simulates!InProgress
        <5> QED
          BY <2>1, <2>4, <4>1, <5>2
      <4>2. CASE d # c
        BY <2>6, <3>4, <4>2
      <4> QED
        BY <4>1, <4>2
    <3> QED
      BY <3>1, <3>2, <3>3, <3>4 DEF ForksAreOwn
  <2> QED
    BY <2>1, <2>5, <2>6, <2>9, <2>10 DEF SimInv
<1> QED
  BY <1>2, <1>3 DEF Simulates!StartAnvil

(* What becomes of the processes alone. *)
LEMMA ProcessKeeps ==
  ASSUME SimInv, NEW c \in Simulates!Owners, NEW p \in Processes,
         anvil' = [anvil EXCEPT ![c] = p], call' = call,
         p.is # "none" => c \in Callers /\ Running(call[c]) /\ p.block = call[c].block,
         port' \in Simulates!Owners \cup {""}, port' # "" => anvil'[port'].is = "listening"
  PROVE  SimInv'
<1>1. CallsTyped'
  BY DEF SimInv, CallsTyped
<1>2. anvil'[c] = p /\ \A d \in Simulates!Owners : d # c => anvil'[d] = anvil[d]
  BY DEF SimInv, CallsTyped
<1>3. ASSUME NEW d \in Callers, anvil'[d].is # "none"
      PROVE  Running(call'[d]) /\ anvil'[d].block = call'[d].block
  BY <1>2, <1>3, OwnersAre DEF SimInv, ForksAreOwn
<1>4. anvil'[Simulates!Orphan].is # "none" => anvil[Simulates!Orphan].is # "none"
  BY <1>2, OwnersAre
<1>5. ForksAreOwn'
  BY <1>3, <1>4 DEF SimInv, ForksAreOwn
<1> QED
  BY <1>1, <1>5 DEF SimInv

LEMMA NoProcessIs ==
  Simulates!NoProcess \in Processes /\ Simulates!NoProcess.is = "none"
  BY DEF Simulates!NoProcess, Processes

LEMMA BindsKeeps ==
  ASSUME SimInv, NEW c \in Callers, Simulates!AnvilBinds(c)
  PROVE  SimInv'
<1>1. /\ anvil \in [Simulates!Owners -> Processes] /\ anvil[c] \in Processes
      /\ anvil[c].is = "starting" /\ call' = call /\ c \in Simulates!Owners
  BY OwnersAre DEF SimInv, CallsTyped, Simulates!AnvilBinds
<1>2. Running(call[c]) /\ anvil[c].block = call[c].block
  BY <1>1 DEF SimInv, ForksAreOwn
<1>3. CASE port = ""
  <2>1. PICK p : p = [anvil[c] EXCEPT !.is = "listening"]
    OBVIOUS
  <2>2. p \in Processes /\ p.block = anvil[c].block /\ p.is = "listening"
    BY <1>1, <2>1 DEF Processes
  <2>3. anvil' = [anvil EXCEPT ![c] = p] /\ port' = c /\ anvil'[c] = p
    BY <1>1, <1>3, <2>1 DEF Simulates!AnvilBinds
  <2> QED
    BY <1>1, <1>2, <2>2, <2>3, ProcessKeeps
<1>4. CASE port # ""
  <2>1. anvil' = [anvil EXCEPT ![c] = Simulates!NoProcess] /\ port' = port
    BY <1>4 DEF Simulates!AnvilBinds
  <2>2. port \in Simulates!Owners /\ anvil[port].is = "listening"
    BY <1>4 DEF SimInv, CallsTyped, ForksAreOwn
  <2>3. anvil'[port].is = "listening"
    BY <1>1, <2>1, <2>2
  <2> QED
    BY <1>1, <2>1, <2>2, <2>3, NoProcessIs, ProcessKeeps
<1> QED
  BY <1>3, <1>4

(* Without its process, an owner does not hold the port. *)
LEMMA PortReleased ==
  ASSUME SimInv, NEW c \in Simulates!Owners, anvil' = [anvil EXCEPT ![c] = Simulates!NoProcess],
         port' = Simulates!Released(c)
  PROVE  /\ port' \in Simulates!Owners \cup {""}
         /\ port' # "" => port' # c /\ anvil'[port'].is = "listening"
  BY DEF SimInv, CallsTyped, ForksAreOwn, Simulates!Released

LEMMA StopKeeps ==
  ASSUME SimInv, NEW c \in Callers, Simulates!Stop(c)
  PROVE  SimInv'
<1>1. /\ call[c].at = "stop" /\ call[c].sim = "anvil" /\ call' = [call EXCEPT ![c].at = "done"]
      /\ anvil' = [anvil EXCEPT ![c] = Simulates!NoProcess] /\ port' = Simulates!Released(c)
  BY DEF Simulates!Stop, Simulates!Go
<1>2. call \in [Callers -> Calls] /\ call[c] \in Calls /\ Counted(call[c]) /\ OwnAnswers(call[c])
  BY CallIs DEF SimInv, CallsTyped
<1>3. PICK k : k = call'[c]
  OBVIOUS
<1>4. /\ k \in Calls /\ k.at = "done" /\ k.sim = "anvil" /\ k.results = call[c].results
      /\ k.txs = call[c].txs /\ k.err = call[c].err /\ k.alone = call[c].alone
      /\ k.block = call[c].block
  BY <1>1, <1>2, <1>3 DEF Calls
<1>5. /\ \A d \in Callers : d # c => call'[d] = call[d]
      /\ \A d \in Simulates!Owners : d # c => anvil'[d] = anvil[d]
  BY <1>1, <1>2 DEF SimInv, CallsTyped
<1>6. Counted(k) /\ OwnAnswers(k) /\ ~Running(k)
  BY <1>1, <1>2, <1>4 DEF Counted, OwnAnswers, Running
<1>7. anvil'[c].is = "none" /\ c \in Simulates!Owners
  BY <1>1, NoProcessIs, OwnersAre DEF SimInv, CallsTyped
<1>8. CallsTyped'
  <2>1. call' \in [Callers -> Calls]
    <3>1. call' = [call EXCEPT ![c] = k]
      BY <1>1, <1>2, <1>3
    <3> QED
      BY <1>2, <1>4, <3>1
  <2> QED
    BY <1>1, <1>7, <2>1, PortReleased, NoProcessIs DEF SimInv, CallsTyped
<1>9. ForksAreOwn'
  <2>1. ASSUME NEW d \in Callers, anvil'[d].is # "none"
        PROVE  Running(call'[d]) /\ anvil'[d].block = call'[d].block
    BY <1>5, <1>7, <2>1, OwnersAre DEF SimInv, ForksAreOwn
  <2>2. port' # "" => anvil'[port'].is = "listening"
    BY <1>1, <1>7, PortReleased
  <2>3. ASSUME anvil'[Simulates!Orphan].is # "none", NEW d \in Callers, Running(call'[d])
       PROVE  ~call'[d].alone
    <3>1. d # c /\ anvil[Simulates!Orphan].is # "none"
      BY <1>3, <1>5, <1>6, <2>3, OwnersAre
    <3> QED
      BY <1>5, <2>3, <3>1 DEF SimInv, ForksAreOwn
  <2>4. ASSUME NEW d \in Callers, NEW e \in Callers, d # e, Running(call'[d]), Running(call'[e])
        PROVE  ~call'[d].alone
    <3>1. d # c /\ e # c
      BY <1>3, <1>6, <2>4
    <3> QED
      BY <1>5, <2>4, <3>1 DEF SimInv, ForksAreOwn
  <2> QED
    BY <2>1, <2>2, <2>3, <2>4 DEF ForksAreOwn
<1> QED
  BY <1>3, <1>5, <1>6, <1>8, <1>9 DEF SimInv

LEMMA DiesKeeps ==
  ASSUME SimInv, NEW c \in Simulates!Owners, Simulates!AnvilDies(c)
  PROVE  SimInv'
  BY NoProcessIs, PortReleased, ProcessKeeps DEF Simulates!AnvilDies

LEMMA WaitKeeps ==
  ASSUME SimInv, NEW c \in Callers, Simulates!WaitForReady(c)
  PROVE  SimInv'
<1>1. /\ call \in [Callers -> Calls] /\ call[c] \in Calls /\ Counted(call[c])
      /\ call[c].at = "wait" /\ call[c].sim = "anvil" /\ UNCHANGED <<anvil, port>>
  BY CallIs DEF SimInv, CallsTyped, Counted, Simulates!WaitForReady
<1>2. ASSUME NEW at \in {"call", "stop"}, NEW err \in BOOLEAN, at = "stop" => err,
             call' = [call EXCEPT ![c] = [@ EXCEPT !.at = at, !.err = err]]
      PROVE  SimInv'
  <2>1. PICK k : k = [call[c] EXCEPT !.at = at, !.err = err]
    OBVIOUS
  <2>2. /\ k.at = at /\ k.err = err /\ k.sim = "anvil"
        /\ k.results = call[c].results /\ k.txs = call[c].txs
    BY <1>1, <2>1 DEF Calls
  <2>3. Counted(k) /\ Running(k) /\ Running(call[c])
    BY <1>1, <1>2, <2>2 DEF Counted, Running
  <2> QED
    BY <1>1, <1>2, <2>1, <2>3, CallMoves
<1>3. CASE Simulates!Go(c, "call")
  <2>1. PICK err \in BOOLEAN : err = call[c].err
    BY <1>1 DEF Calls
  <2>2. call' = [call EXCEPT ![c] = [@ EXCEPT !.at = "call", !.err = err]]
    BY <1>1, <1>3, <2>1 DEF Simulates!Go, Calls
  <2> QED
    BY <1>2, <2>2
<1>4. CASE Simulates!Fail(c, "stop")
  <2>1. call' = [call EXCEPT ![c] = [@ EXCEPT !.at = "stop", !.err = TRUE]]
    BY <1>1, <1>4 DEF Simulates!Fail
  <2> QED
    BY <1>2, <2>1
<1> QED
  BY <1>3, <1>4 DEF Simulates!WaitForReady

LEMMA FailureIs ==
  ASSUME NEW b \in Blocks \cup {0}
  PROVE  Simulates!Failure(b) \in Results /\ Simulates!Failure(b).block = b
  BY DEF Simulates!Failure, Simulates!Result, Results, Simulates!Outputs

LEMMA EthCallKeeps ==
  ASSUME SimInv, NEW c \in Callers, Simulates!EthCall(c)
  PROVE  SimInv'
<1>1. /\ call \in [Callers -> Calls] /\ call[c] \in Calls /\ Counted(call[c])
      /\ call[c].at = "call" /\ call[c].sim = "anvil" /\ UNCHANGED <<anvil, port>>
  BY CallIs DEF SimInv, CallsTyped, Simulates!EthCall
<1>2. ASSUME NEW r \in Results, call[c].alone => r.block \in {0, call[c].block},
             Simulates!Answered(c, r)
      PROVE  SimInv'
  <2>1. PICK at \in {"call", "stop"} :
          at = IF Len(call[c].results) + 1 < call[c].txs /\ ~call[c].core THEN "call" ELSE "stop"
    OBVIOUS
  <2>2. call' = [call EXCEPT ![c] = [@ EXCEPT !.results = Append(call[c].results, r), !.at = at]]
    BY <1>1, <1>2, <2>1 DEF Simulates!Answered
  <2>3. at = "call" => Len(call[c].results) + 1 < call[c].txs
    BY <2>1
  <2> QED
    BY <1>1, <1>2, <2>2, <2>3, AnswerMoves
<1>3. CASE Simulates!Answered(c, Simulates!Failure(0))
  BY <1>2, <1>3, FailureIs
<1>4. CASE port # "" /\ Simulates!Answered(c, Simulates!Failure(anvil[port].block))
  <2>1. port \in Simulates!Owners /\ anvil[port] \in Processes /\ anvil[port].is = "listening"
    BY <1>4 DEF SimInv, CallsTyped, ForksAreOwn
  <2>2. PICK b : b = anvil[port].block
    OBVIOUS
  <2>3. b \in Blocks \cup {0} /\ Running(call[c])
    BY <1>1, <2>1, <2>2 DEF Processes, Running
  <2>4. ASSUME call[c].alone PROVE b = call[c].block
    <3>1. port # Simulates!Orphan
      BY <2>1, <2>3, <2>4 DEF SimInv, ForksAreOwn
    <3>2. port \in Callers
      BY <2>1, <3>1, OwnersAre
    <3>3. Running(call[port]) /\ b = call[port].block
      BY <2>1, <2>2, <3>2 DEF SimInv, ForksAreOwn
    <3>4. port = c
      BY <2>3, <2>4, <3>2, <3>3 DEF SimInv, ForksAreOwn
    <3> QED
      BY <3>3, <3>4
  <2> QED
    BY <1>2, <1>4, <2>2, <2>3, <2>4, FailureIs
<1> QED
  BY <1>3, <1>4 DEF Simulates!EthCall

LEMMA GasesAreNat == Simulates!Gases \subseteq Nat
  BY SMT DEF Simulates!Gases

LEMMA SolKeeps ==
  ASSUME SimInv, NEW c \in Callers, Simulates!SolSimulate(c)
  PROVE  SimInv'
<1>1. /\ call \in [Callers -> Calls] /\ call[c] \in Calls /\ Counted(call[c])
      /\ call[c].at \in {"begin", "call"} /\ call[c].sim = "sol_rpc" /\ UNCHANGED <<anvil, port>>
  BY CallIs DEF SimInv, CallsTyped, Simulates!SolSimulate
<1>2. ASSUME NEW r \in Results, Simulates!SolAnswered(c, r)
      PROVE  SimInv'
  <2>1. PICK at \in {"call", "done"} :
          at = IF Len(call[c].results) + 1 < call[c].txs /\ ~call[c].core THEN "call" ELSE "done"
    OBVIOUS
  <2>2. call' = [call EXCEPT ![c] = [@ EXCEPT !.results = Append(call[c].results, r), !.at = at]]
    BY <1>1, <1>2, <2>1 DEF Simulates!SolAnswered
  <2>3. at = "call" => Len(call[c].results) + 1 < call[c].txs
    BY <2>1
  <2> QED
    BY <1>1, <1>2, <2>2, <2>3, AnswerMoves
<1>3. ASSUME NEW hasData \in BOOLEAN, NEW hasTo \in BOOLEAN, NEW units \in Simulates!Gases,
             NEW a \in {"refused", "rpc error", "simulation error", "no result", "result"},
             Simulates!SolAnswered(c, IF Simulates!SolanaTxBuilds(hasData, hasTo)
                                      THEN Simulates!SimulateTransactionResult(a, units)
                                      ELSE Simulates!Failure(0))
      PROVE  SimInv'
  <2>1. Simulates!SimulateTransactionResult(a, units) \in Results
    <3>1. Simulates!Result(TRUE, units, "none", 0) \in Results
      BY GasesAreNat DEF Simulates!Result, Results, Simulates!Outputs
    <3>2. Simulates!SimulateTransactionResult(a, units) \in
            {Simulates!Failure(0), Simulates!Result(TRUE, units, "none", 0)}
      BY DEF Simulates!SimulateTransactionResult
    <3> QED
      BY <3>1, <3>2, FailureIs
  <2> QED
    BY <1>2, <1>3, <2>1, FailureIs
<1> QED
  BY <1>3 DEF Simulates!SolSimulate

LEMMA OtherKeeps ==
  ASSUME SimInv, NEW c \in Callers, Simulates!OtherSimulate(c)
  PROVE  SimInv'
<1>1. /\ call \in [Callers -> Calls] /\ call[c] \in Calls /\ Counted(call[c])
      /\ call[c].at = "begin" /\ call[c].sim = "other" /\ UNCHANGED <<anvil, port>>
  BY CallIs DEF SimInv, CallsTyped, Simulates!OtherSimulate
<1>2. CASE Simulates!Fail(c, "done")
  <2>1. call' = [call EXCEPT ![c] = [@ EXCEPT !.at = "done", !.err = TRUE]]
    BY <1>1, <1>2 DEF Simulates!Fail
  <2>2. PICK k : k = [call[c] EXCEPT !.at = "done", !.err = TRUE]
    OBVIOUS
  <2>3. /\ k.at = "done" /\ k.err /\ k.results = call[c].results /\ k.txs = call[c].txs
    BY <1>1, <2>2 DEF Calls
  <2>4. Counted(k) /\ ~Running(k) /\ ~Running(call[c])
    BY <1>1, <2>3 DEF Counted, Running
  <2> QED
    BY <1>1, <2>1, <2>2, <2>4, CallMoves
<1>3. ASSUME NEW r \in Results, Simulates!Responded(c, r)
      PROVE  SimInv'
  <2>1. call' = [call EXCEPT ![c] = [@ EXCEPT !.results = Append(call[c].results, r), !.at = "done"]]
    BY <1>1, <1>3 DEF Simulates!Responded
  <2> QED
    BY <1>1, <2>1, AnswerMoves
<1>4. ASSUME NEW gas \in Simulates!Gases, NEW out \in Simulates!Outputs
      PROVE  Simulates!Result(TRUE, gas, out, 0) \in Results
  BY GasesAreNat DEF Simulates!Result, Results
<1>5. Simulates!Nil \in Results
  BY DEF Simulates!Nil, Simulates!Result, Results
<1> QED
  BY <1>2, <1>3, <1>4, <1>5, FailureIs DEF Simulates!OtherSimulate

LEMMA NextKeeps ==
  ASSUME SimInv, NEW c \in Callers, Simulates!NextRequest(c)
  PROVE  SimInv'
<1>1. /\ call \in [Callers -> Calls] /\ call[c] \in Calls /\ Counted(call[c])
      /\ call[c].at = "done" /\ ~call[c].err /\ UNCHANGED <<anvil, port>>
  BY CallIs DEF SimInv, CallsTyped, Simulates!NextRequest
<1>2. PICK rs \in Seq(Results) : rs = call[c].results
  BY <1>1 DEF Calls
<1>3. Len(rs) > 0 /\ Len(rs) \in Nat /\ Simulates!Last(rs) = rs[Len(rs)]
  BY <1>1, <1>2 DEF Counted, Simulates!Last
<1>4. /\ call[c].txs \in Nat /\ Len(rs) <= call[c].txs
  <2>1. call[c].txs \in 0..MaxTxs
    BY <1>1 DEF Calls
  <2> QED
    BY <1>1, <1>2, <2>1, MaxTxsIsNat DEF Counted
<1>5. PICK at \in {"begin", "judge"} :
        at = IF /\ Simulates!Last(rs).success \/ Simulates!Last(rs) = Simulates!Nil
                /\ Len(rs) < call[c].txs
             THEN "begin" ELSE "judge"
  OBVIOUS
<1>6. PICK err \in BOOLEAN : err = call[c].err
  BY <1>1 DEF Calls
<1>7. call' = [call EXCEPT ![c] = [@ EXCEPT !.at = at, !.err = err]]
  <2>1. call' = [call EXCEPT ![c].at = at]
    BY <1>2, <1>5 DEF Simulates!NextRequest, Simulates!Go
  <2> QED
    BY <1>1, <1>6, <2>1 DEF Calls
<1>8. PICK k : k = [call[c] EXCEPT !.at = at, !.err = err]
  OBVIOUS
<1>9. k.at = at /\ k.results = rs /\ k.txs = call[c].txs
  BY <1>1, <1>2, <1>8 DEF Calls
<1>10. Counted(k) /\ ~Running(k) /\ ~Running(call[c])
  <2>1. k.at = "begin" => Len(rs) < k.txs
    BY <1>5, <1>9
  <2>2. k.at = "judge" => Len(rs) = k.txs \/ ~rs[Len(rs)].success
    BY <1>3, <1>4, <1>5, <1>9
  <2> QED
    BY <1>1, <1>3, <1>4, <1>9, <2>1, <2>2 DEF Counted, Running
<1> QED
  BY <1>1, <1>7, <1>8, <1>10, CallMoves

LEMMA IdleKeeps ==
  ASSUME SimInv, NEW c \in Callers, call[c].at \in {"judge", "admitted", "done"},
         call' = [call EXCEPT ![c] = Simulates!Idle], UNCHANGED <<anvil, port>>
  PROVE  SimInv'
<1>1. ~Running(call[c])
  BY DEF Running
<1> QED
  BY <1>1, IdleIs, CallGoesOn

LEMMA JudgeKeeps ==
  ASSUME SimInv, NEW c \in Callers, Simulates!Judge(c)
  PROVE  SimInv'
<1>1. /\ call \in [Callers -> Calls] /\ call[c] \in Calls /\ Counted(call[c])
      /\ call[c].at = "judge" /\ UNCHANGED <<anvil, port>>
  BY CallIs DEF SimInv, CallsTyped, Simulates!Judge
<1>2. CASE ~Simulates!Accepted(call[c].results) /\ call' = [call EXCEPT ![c] = Simulates!Idle]
  BY <1>1, <1>2, IdleKeeps
<1>3. PICK rs \in Seq(Results) : rs = call[c].results
  BY <1>1 DEF Calls
<1>4. Len(rs) \in Nat /\ Len(rs) > 0 /\ DOMAIN rs = 1..Len(rs)
  BY <1>1, <1>3 DEF Counted
<1>5. ASSUME \A i \in 1..Len(rs) : rs[i].success, Len(rs) = call[c].txs,
             Simulates!Go(c, "admitted")
      PROVE  SimInv'
  <2>1. PICK err \in BOOLEAN : err = call[c].err
    BY <1>1 DEF Calls
  <2>2. call' = [call EXCEPT ![c] = [@ EXCEPT !.at = "admitted", !.err = err]]
    <3>1. call' = [call EXCEPT ![c].at = "admitted"]
      BY <1>5 DEF Simulates!Go
    <3> QED
      BY <1>1, <2>1, <3>1 DEF Calls
  <2>3. PICK k : k = [call[c] EXCEPT !.at = "admitted", !.err = err]
    OBVIOUS
  <2>4. k.at = "admitted" /\ k.results = rs /\ k.txs = Len(rs)
    BY <1>1, <1>3, <1>5, <2>3 DEF Calls
  <2>5. Counted(k) /\ ~Running(k) /\ ~Running(call[c])
    BY <1>1, <1>4, <1>5, <2>4 DEF Counted, Running
  <2> QED
    BY <1>1, <2>2, <2>3, <2>5, CallMoves
<1>6. CASE Simulates!Accepted(call[c].results) /\ Simulates!Go(c, "admitted")
  <2>1. \A i \in 1..Len(rs) : rs[i].success
    BY <1>3, <1>4, <1>6 DEF Simulates!Accepted
  <2>2. Len(rs) = call[c].txs
    <3>1. rs[Len(rs)].success
      BY <1>4, <2>1
    <3> QED
      BY <1>1, <1>3, <3>1 DEF Counted
  <2> QED
    BY <1>5, <1>6, <2>1, <2>2
<1>7. CASE /\ call[c].txs = 1 /\ Simulates!AcceptedForFees(call[c].results)
           /\ Simulates!Go(c, "admitted")
  <2>1. Len(rs) = 1 /\ rs[1].success
    BY <1>3, <1>7 DEF Simulates!AcceptedForFees
  <2>2. \A i \in 1..Len(rs) : rs[i].success
    BY <2>1
  <2> QED
    BY <1>5, <1>7, <2>1, <2>2
<1> QED
  BY <1>2, <1>6, <1>7 DEF Simulates!Judge

(* A killed bot has no calls left, and nothing to ask of its process. *)
LEMMA KillKeeps ==
  ASSUME SimInv, Simulates!KillBot
  PROVE  SimInv'
<1>1. call' = [c \in Callers |-> Simulates!Idle]
  BY DEF Simulates!KillBot
<1>2. \A c \in Callers : Counted(call'[c]) /\ OwnAnswers(call'[c]) /\ ~Running(call'[c])
  BY <1>1, IdleIs
<1>3. /\ anvil' \in [Simulates!Owners -> Processes] /\ port' \in Simulates!Owners \cup {""}
      /\ \A c \in Callers : anvil'[c].is = "none"
      /\ port' # "" => anvil'[port'].is = "listening"
  <2>1. CASE \A c \in Simulates!Owners : anvil[c].is = "none" /\ UNCHANGED <<anvil, port>>
    <3>1. UNCHANGED <<anvil, port>>
      BY <2>1, OwnersAre
    <3> QED
      BY <2>1, <3>1, OwnersAre DEF SimInv, CallsTyped, ForksAreOwn
  <2>2. ASSUME NEW c \in Simulates!Owners, port' = Simulates!Orphan,
               anvil' = [d \in Simulates!Owners |->
                           IF d = Simulates!Orphan
                           THEN [is |-> "listening", block |-> anvil[c].block]
                           ELSE Simulates!NoProcess]
        PROVE  /\ anvil' \in [Simulates!Owners -> Processes] /\ port' \in Simulates!Owners \cup {""}
               /\ \A d \in Callers : anvil'[d].is = "none"
               /\ port' # "" => anvil'[port'].is = "listening"
    <3>1. anvil[c].block \in Blocks \cup {0}
      BY DEF SimInv, CallsTyped, Processes
    <3>2. [is |-> "listening", block |-> anvil[c].block] \in Processes
      BY <3>1 DEF Processes
    <3> QED
      BY <2>2, <3>2, OwnersAre, NoProcessIs
  <2> QED
    BY <2>1, <2>2 DEF Simulates!KillBot
<1>4. CallsTyped'
  BY <1>1, <1>3, IdleIs DEF CallsTyped
<1>5. ForksAreOwn'
  BY <1>2, <1>3 DEF ForksAreOwn
<1> QED
  BY <1>2, <1>4, <1>5 DEF SimInv

LEMMA SimStep == SimInv /\ [Simulates!Next]_simulatorVars => SimInv'
<1> SUFFICES ASSUME SimInv, [Simulates!Next]_simulatorVars PROVE SimInv'
  OBVIOUS
<1>1. CASE UNCHANGED simulatorVars
  BY <1>1, SimNothing
<1>2. ASSUME NEW c \in Callers, NEW core \in BOOLEAN, NEW hash \in BOOLEAN, NEW n \in 1..MaxTxs,
             \/ \E block \in Blocks : Simulates!Ask(c, "anvil", core, n, block, hash)
             \/ Simulates!Ask(c, "sol_rpc", core, n, 0, FALSE)
             \/ Simulates!Ask(c, "other", TRUE, n, 0, FALSE)
      PROVE  SimInv'
  BY <1>2, AskKeeps
<1>3. ASSUME NEW c \in Callers,
             \/ Simulates!StartAnvil(c) \/ Simulates!AnvilBinds(c)
             \/ Simulates!WaitForReady(c) \/ Simulates!EthCall(c) \/ Simulates!Stop(c)
             \/ Simulates!SolSimulate(c) \/ Simulates!OtherSimulate(c)
             \/ Simulates!NextRequest(c) \/ Simulates!Judge(c)
      PROVE  SimInv'
  BY <1>3, StartKeeps, BindsKeeps, WaitKeeps, EthCallKeeps, StopKeeps, SolKeeps,
     OtherKeeps, NextKeeps, JudgeKeeps
<1>4. ASSUME NEW c \in Callers, Simulates!Return(c)
      PROVE  SimInv'
  BY <1>4, IdleKeeps DEF Simulates!Return
<1>5. ASSUME NEW c \in Simulates!Owners, Simulates!AnvilDies(c)
      PROVE  SimInv'
  BY <1>5, DiesKeeps
<1>6. CASE Simulates!KillBot
  BY <1>6, KillKeeps
<1> QED
  BY <1>1, <1>2, <1>3, <1>4, <1>5, <1>6 DEF Simulates!Next, simulatorVars, Simulates!vars

LEMMA SimInit == Simulates!Init => SimInv
<1> SUFFICES ASSUME Simulates!Init PROVE SimInv
  OBVIOUS
<1>1. /\ \A c \in Callers : call[c] = Simulates!Idle
      /\ \A c \in Simulates!Owners : anvil[c] = Simulates!NoProcess
  BY DEF Simulates!Init
<1>2. CallsTyped
  BY IdleIs, NoProcessIs DEF Simulates!Init, CallsTyped
<1>3. ForksAreOwn
  BY <1>1, IdleIs, NoProcessIs, OwnersAre DEF Simulates!Init, ForksAreOwn
<1> QED
  BY <1>1, <1>2, <1>3, IdleIs DEF SimInv

LEMMA SimAlways == Spec => []SimInv
<1>1. Init => SimInv
  BY InitOfParts, SimInit
<1>2. SimInv /\ [Next]_vars => SimInv'
  BY StepOfParts, SimStep
<1> QED
  BY <1>1, <1>2, PTL DEF Spec

(* Whatever calls share the port and whenever a process dies: a call beside
   which no other ran is answered by its own fork, and what is admitted has
   been simulated to its last transaction, each with success. *)
THEOREM SimulationsSound == Spec => []SimulationsAreSound
<1>1. SimInv => SimulationsAreSound
  <2> SUFFICES ASSUME SimInv PROVE SimulationsAreSound
    OBVIOUS
  <2>1. Simulates!AloneMeansOwnFork
    BY DEF SimInv, OwnAnswers, Simulates!AloneMeansOwnFork
  <2>2. Simulates!AdmittedWereAllSimulated
    BY DEF SimInv, Counted, Simulates!AdmittedWereAllSimulated
  <2> QED
    BY <2>1, <2>2 DEF SimulationsAreSound
<1> QED
  BY <1>1, SimAlways, PTL

LEMMA SimTypes == SimInv => Simulates!TypeOK
<1> SUFFICES ASSUME SimInv PROVE Simulates!TypeOK
  OBVIOUS
<1>1. ASSUME NEW c \in Callers PROVE Len(call[c].results) <= MaxTxs
  <2>1. call[c] \in Calls /\ Counted(call[c])
    BY CallIs
  <2>2. PICK rs \in Seq(Results) : rs = call[c].results
    BY <2>1 DEF Calls
  <2>3. call[c].txs \in 0..MaxTxs /\ Len(rs) <= call[c].txs
    BY <2>1, <2>2 DEF Calls, Counted
  <2> QED
    BY <2>2, <2>3, MaxTxsIsNat
<1>2. ASSUME NEW c \in Simulates!Owners PROVE anvil[c].is \in {"none", "starting", "listening"}
  BY DEF SimInv, CallsTyped, Processes
<1> QED
  BY <1>1, <1>2 DEF SimInv, CallsTyped, Simulates!TypeOK

-----------------------------------------------------------------------------
(* Strategy.  Scores and amounts are numbers within their limits; ranges lie
   within the ticks, by whichever calculator they were made. *)
LEMMA MaxTickIs == Decides!MaxTick \in Nat /\ Decides!MaxTick >= 200000
  BY SMT DEF Decides!MaxTick

LEMMA MaxScoreIs == Decides!MaxScore \in Nat
  BY SMT DEF Decides!MaxScore

LEMMA MaxScoreEnds == Decides!MaxScore <= 100000
  BY SMT DEF Decides!MaxScore

LEMMA HalfOfMaxScore == 50000 \in 0..Decides!MaxScore
  BY SMT DEF Decides!MaxScore

(* Part of a whole. *)
LEMMA ShareIs ==
  ASSUME NEW a \in Nat, NEW d \in Nat \ {0}, a <= d, NEW k \in Nat
  PROVE  (a * k) \div d \in 0..k
<1>1. PICK x : x = a * k
  OBVIOUS
<1>2. x \in Nat /\ x <= d * k
  BY <1>1
<1>3. x \div d \in Nat /\ x \div d <= k
  BY <1>2
<1> QED
  BY <1>1, <1>3

LEMMA QuotientIs ==
  ASSUME NEW a \in Nat, NEW d \in Nat \ {0}
  PROVE  a \div d \in Nat
  OBVIOUS

(* Capped amounts. *)
LEMMA LeastIs ==
  ASSUME NEW a \in Nat, NEW b \in Nat
  PROVE  Decides!Least(a, b) \in 0..b
  BY DEF Decides!Least

LEMMA NormalIs ==
  ASSUME NEW v \in Nat, NEW min \in Nat, NEW max \in Nat, min < max
  PROVE  Decides!NormalizeScore(v, min, max) \in 0..Decides!MaxScore
<1>1. CASE v <= min \/ v >= max
  BY <1>1, MaxScoreIs, SMT DEF Decides!NormalizeScore
<1>2. CASE ~(v <= min) /\ ~(v >= max)
  <2>1. PICK a \in Nat, d \in Nat \ {0} : a = v - min /\ d = max - min /\ a <= d
    BY <1>2
  <2>2. (a * Decides!MaxScore) \div d \in 0..Decides!MaxScore
    BY <2>1, MaxScoreIs, ShareIs, SMT
  <2> QED
    BY <1>2, <2>1, <2>2, SMT DEF Decides!NormalizeScore
<1> QED
  BY <1>1, <1>2

LEMMA FeeIs ==
  ASSUME NEW tvl \in Nat, NEW vol \in Nat
  PROVE  Decides!FeeAPRScore(tvl, vol) \in 0..Decides!MaxScore
<1>1. CASE tvl = 0
  BY <1>1, MaxScoreIs, SMT DEF Decides!FeeAPRScore
<1>2. CASE tvl # 0
  <2>1. PICK x \in Nat : x = (vol * 1095) \div tvl
    BY <1>2, QuotientIs
  <2>2. Decides!Least(10 * x, Decides!MaxScore) \in 0..Decides!MaxScore
    BY MaxScoreIs, LeastIs, SMT
  <2>3. Decides!FeeAPRScore(tvl, vol) = Decides!Least(10 * x, Decides!MaxScore)
    BY <1>2, <2>1, SMT DEF Decides!FeeAPRScore
  <2> QED
    BY <2>2, <2>3
<1> QED
  BY <1>1, <1>2

LEMMA VolatilityScoreIs ==
  ASSUME NEW tvl \in Nat, NEW vol \in Nat
  PROVE  Decides!VolatilityScore(tvl, vol) \in 0..Decides!MaxScore
<1>1. CASE vol = 0
  BY <1>1, HalfOfMaxScore, SMT DEF Decides!VolatilityScore
<1>2. CASE vol # 0
  <2>1. PICK x \in Nat : x = (tvl * 10000) \div vol
    BY <1>2, QuotientIs, SMT
  <2>2. Decides!Least(x, Decides!MaxScore) \in 0..Decides!MaxScore
    BY MaxScoreIs, LeastIs, SMT
  <2>3. Decides!VolatilityScore(tvl, vol) = Decides!Least(x, Decides!MaxScore)
    BY <1>2, <2>1, SMT DEF Decides!VolatilityScore
  <2> QED
    BY <2>2, <2>3
<1> QED
  BY <1>1, <1>2

LEMMA TotalIs ==
  ASSUME NEW m \in Nat, NEW f \in 0..m, NEW t \in 0..m, NEW v \in 0..m, NEW w \in 0..m, NEW s \in 0..m
  PROVE  Decides!Total(f, t, v, w, s) \in 0..m
  BY DEF Decides!Total

LEMMA SecurityIs ==
  ASSUME NEW tvl \in Nat
  PROVE  Decides!SecurityScore(tvl) \in 0..Decides!MaxScore
<1>1. Decides!NormalizeScore(tvl, 10, 50000) \in 0..Decides!MaxScore
  <2>1. 10 \in Nat /\ 50000 \in Nat /\ 10 < 50000
    BY SMT
  <2> QED
    BY <2>1, NormalIs, SMT
<1> QED
  BY <1>1, SMT DEF Decides!SecurityScore

LEMMA ScoreIs ==
  ASSUME NEW p \in Profiles
  PROVE  Decides!Score(p) \in 0..Decides!MaxScore
<1>1. PICK tvl \in Nat, vol \in Nat : tvl = p.tvl /\ vol = p.vol
  BY StrategyAssumption, SMT
<1>2. PICK f, t, v, w, s :
        /\ f = Decides!FeeAPRScore(tvl, vol)
        /\ t = Decides!NormalizeScore(tvl, 0, 10000)
        /\ v = Decides!NormalizeScore(vol, 0, 1000)
        /\ w = Decides!VolatilityScore(tvl, vol)
        /\ s = Decides!SecurityScore(tvl)
  OBVIOUS
<1>3. f \in 0..Decides!MaxScore
  BY <1>2, FeeIs
<1>4. w \in 0..Decides!MaxScore
  BY <1>2, VolatilityScoreIs
<1>5. t \in 0..Decides!MaxScore
  BY <1>2, NormalIs, SMT
<1>6. v \in 0..Decides!MaxScore
  BY <1>2, NormalIs, SMT
<1>7. s \in 0..Decides!MaxScore
  BY <1>2, SecurityIs
<1>8. Decides!Total(f, t, v, w, s) \in 0..Decides!MaxScore
  BY <1>3, <1>4, <1>5, <1>6, <1>7, MaxScoreIs, TotalIs, SMT
<1> QED
  BY <1>1, <1>2, <1>8, SMT DEF Decides!Score

(* The ticks a range may have, and how wide one around a tick is. *)
InTicks(r) == -Decides!MaxTick <= r.lower /\ r.lower <= r.upper /\ r.upper <= Decides!MaxTick

LEMMA AroundIs ==
  ASSUME NEW tick \in Int, -Decides!MaxTick <= tick, tick <= Decides!MaxTick,
         NEW width \in Nat, NEW r, r = Decides!Around(tick, width)
  PROVE  /\ r.lower \in Int /\ r.upper \in Int /\ InTicks(r)
         /\ width >= 100 => r.lower < r.upper
<1>1. PICK h \in Nat : h = width \div 2
  OBVIOUS
<1>2. r.lower = Decides!Most(tick - h, -Decides!MaxTick) /\ r.upper = Decides!Least(tick + h, Decides!MaxTick)
  BY <1>1 DEF Decides!Around, Decides!Bounded
<1>3. width >= 100 => h > 0
  BY <1>1
<1> QED
  BY <1>2, <1>3, MaxTickIs, SMT DEF Decides!Most, Decides!Least, InTicks

LEMMA TickIs ==
  ASSUME NEW p \in Profiles
  PROVE  p.tick \in Int /\ -Decides!MaxTick <= p.tick /\ p.tick <= Decides!MaxTick
  BY StrategyAssumption, SMT DEF Decides!MaxTick

LEMMA SigmaIs ==
  ASSUME NEW tier \in {"A", "B", "C"}
  PROVE  /\ Decides!TierThresholds[tier].kSigma \in Nat
         /\ Decides!TierThresholds[tier].maxPerPool \in Nat
         /\ 1 <= Decides!TierThresholds[tier].maxPerPool
         /\ Decides!TierThresholds[tier].maxPerPool <= 1000
  BY SMT DEF Decides!TierThresholds

LEMMA WidthIs ==
  ASSUME NEW tier \in {"A", "B", "C"}, NEW v \in Int
  PROVE  Decides!RangeWidth(tier, v) \in Nat /\ Decides!RangeWidth(tier, v) >= 100
<1>1. Decides!BaseWidth(tier) \in Nat
  BY SMT DEF Decides!BaseWidth
<1>2. PICK x \in Int : x = Decides!BaseWidth(tier) * Decides!TierThresholds[tier].kSigma * (v + 1000)
  BY <1>1, SigmaIs, SMT
<1>3. x \div 100000 \in Int
  BY SMT
<1> QED
  BY <1>2, <1>3, SMT DEF Decides!RangeWidth, Decides!Most

LEMMA VolatilityIs ==
  ASSUME NEW p \in Profiles
  PROVE  Decides!Volatility(p) \in Int
<1>1. PICK tvl \in Nat, vol \in Nat : tvl = p.tvl /\ vol = p.vol
  BY StrategyAssumption, SMT
<1>2. CASE tvl = 0
  BY <1>1, <1>2, SMT DEF Decides!Volatility
<1>3. CASE tvl # 0
  <2>1. PICK x \in Int : x = (1000 * vol) \div tvl
    BY <1>3, SMT
  <2> QED
    BY <1>1, <1>3, <2>1, SMT DEF Decides!Volatility, Decides!Most, Decides!Least
<1> QED
  BY <1>2, <1>3

LEMMA DynamicIs ==
  ASSUME NEW tick \in Int, -Decides!MaxTick <= tick, tick <= Decides!MaxTick,
         NEW v \in Nat, NEW tier \in {"A", "B", "C"},
         NEW r, r = Decides!CalculateDynamicRange(tick, v, tier)
  PROVE  r.lower \in Int /\ r.upper \in Int /\ InTicks(r)
<1>1. PICK k \in Nat : k = Decides!TierThresholds[tier].kSigma
  BY SigmaIs
<1>2. PICK bonus \in {1, 2} : bonus = IF tier = "A" THEN 2 ELSE 1
  OBVIOUS
<1>3. PICK x \in Nat : x = (v * 8 * k * bonus) \div 100
  BY SMT
<1>4. PICK spread \in Nat : spread = Decides!Least(100 + x, 10000) /\ spread <= 10000
  BY SMT DEF Decides!Least
<1>5. PICK h \in Nat : h = spread \div 2 /\ h <= 5000
  BY <1>4, SMT
<1>6. PICK up \in Nat : up = Decides!Most(-Decides!MaxTick - (tick - h), 0)
  <2>1. PICK y \in Int : y = -Decides!MaxTick - (tick - h)
    BY MaxTickIs, SMT
  <2>2. Decides!Most(y, 0) \in Nat
    BY SMT DEF Decides!Most
  <2> QED
    BY <2>1, <2>2
<1>7. PICK down \in Nat : down = Decides!Most(tick + h + up - Decides!MaxTick, 0)
  BY MaxTickIs, SMT DEF Decides!Most
<1>8. r = [lower |-> tick - h + up - down, upper |-> tick + h + up - down]
  BY <1>1, <1>2, <1>3, <1>4, <1>5, <1>6, <1>7, SMT DEF Decides!CalculateDynamicRange
<1> QED
  BY <1>5, <1>6, <1>7, <1>8, MaxTickIs, SMT DEF Decides!Most, InTicks

LEMMA RangeIs ==
  ASSUME NEW tick \in Int, -Decides!MaxTick <= tick, tick <= Decides!MaxTick,
         NEW v \in Nat, NEW tier \in {"A", "B", "C"},
         NEW r, r = Decides!CalculateRange(tick, v, tier)
  PROVE  r.lower \in Int /\ r.upper \in Int /\ InTicks(r)
<1>1. PICK k \in Nat : k = Decides!TierThresholds[tier].kSigma
  BY SigmaIs
<1>2. PICK tenths \in Nat : tenths = CASE tier = "A" -> 15 [] tier = "B" -> 12 [] tier = "C" -> 8
  BY SMT
<1>3. PICK x \in Nat : x = (v * k) \div 1000
  BY SMT
<1>4. PICK y \in Nat : y = Decides!Most(x, 100)
  BY SMT DEF Decides!Most
<1>5. PICK w \in Nat : w = (y * tenths) \div 10
  BY SMT
<1>6. r = Decides!Around(tick, w)
  BY <1>1, <1>2, <1>3, <1>4, <1>5, SMT DEF Decides!CalculateRange
<1> QED
  BY <1>6, AroundIs

(* What an intent needs to be carried out, and a position. *)
Usable(i) ==
  /\ i.pool \in MarketPools /\ i.tier \in {"A", "B"} /\ i.total \in 0..Decides!MaxScore
  /\ i.lower \in Int /\ i.upper \in Int /\ InTicks(i) /\ i.lower < i.upper
  /\ i.amount \in Nat /\ 0 < i.amount /\ i.amount <= Decides!TierThresholds[i.tier].maxPerPool
  /\ i.amount <= 1000 * Decides!MinTVL

Holdings == [pool : MarketPools, tier : {"A", "B", "C"}, total : 0..Decides!MaxScore,
             lower : Int, upper : Int, seasoned : BOOLEAN]

(* Between two scans scores do not change, and none of the pools that were held
   has more than the one that is. *)
StratInv ==
  /\ market \in [MarketPools -> Profiles]
  /\ DOMAIN found \subseteq MarketPools /\ DOMAIN scored = DOMAIN found
  /\ \A p \in DOMAIN found : found[p] \in Profiles /\ found[p].tvl >= Decides!MinTVL
  /\ \A p \in DOMAIN scored : scored[p] \in 0..Decides!MaxScore
  /\ intent # Decides!None => Usable(intent)
  /\ held # Decides!None =>
       /\ held \in Holdings /\ InTicks(held) /\ held.pool \in visited
       /\ \A p \in visited : p \in DOMAIN scored => scored[p] <= Decides!CurrentScore

LEMMA TierIs ==
  ASSUME NEW total \in Int
  PROVE  /\ Decides!AssignTier(total) \in {"A", "B", "C"}
         /\ total >= 60000 => Decides!AssignTier(total) \in {"A", "B"}
  BY SMT DEF Decides!AssignTier

LEMMA AmountIs ==
  ASSUME NEW p \in Profiles, p.tvl >= Decides!MinTVL, NEW tier \in {"A", "B", "C"},
         NEW x, x = Decides!MaxAmount(p, tier)
  PROVE  /\ x \in Nat /\ 0 < x /\ x <= Decides!TierThresholds[tier].maxPerPool
         /\ x <= 1000 * Decides!MinTVL
<1>1. PICK limit \in Nat : /\ limit = Decides!TierThresholds[tier].maxPerPool
                           /\ 1 <= limit /\ limit <= 1000
  BY SigmaIs
<1>2. PICK tvl \in Nat : tvl = p.tvl /\ tvl >= 10
  BY StrategyAssumption, SMT DEF Decides!MinTVL
<1>3. x = Decides!Least(limit, 1000 * tvl)
  BY <1>1, <1>2 DEF Decides!MaxAmount
<1>4. PICK y \in Nat : y = 1000 * tvl /\ y >= 10000
  BY <1>2, SMT
<1>5. x \in Nat /\ 0 < x /\ x <= limit
  BY <1>1, <1>3, <1>4, SMT DEF Decides!Least
<1>6. 1000 * Decides!MinTVL = 10000
  BY SMT DEF Decides!MinTVL
<1> QED
  BY <1>1, <1>5, <1>6, SMT

LEMMA IntentIs ==
  ASSUME NEW pool \in MarketPools, NEW p \in Profiles, p.tvl >= Decides!MinTVL,
         NEW total \in 0..Decides!MaxScore,
         NEW i, i = Decides!EvaluatePool(pool, p, total), i # Decides!None
  PROVE  Usable(i)
<1>1. total \in Nat /\ total <= Decides!MaxScore
  BY MaxScoreIs
<1>2. PICK tier : tier = Decides!AssignTier(total)
  OBVIOUS
<1>3. PICK tick : tick = IF p.tick = 0 THEN total \div 10 ELSE p.tick
  OBVIOUS
<1>4. PICK w : w = Decides!RangeWidth(tier, Decides!Volatility(p))
  OBVIOUS
<1>5. PICK range : range = Decides!Around(tick, w)
  OBVIOUS
<1>6. PICK x : x = Decides!MaxAmount(p, tier)
  OBVIOUS
<1>7. /\ ~(total < 60000)
      /\ i = [pool |-> pool, tier |-> tier, lower |-> range.lower, upper |-> range.upper,
              amount |-> x, total |-> total]
  BY <1>2, <1>3, <1>4, <1>5, <1>6, SMT DEF Decides!EvaluatePool
<1>8. tier \in {"A", "B"}
  BY <1>1, <1>2, <1>7, TierIs, SMT
<1>9. tick \in Int /\ -Decides!MaxTick <= tick /\ tick <= Decides!MaxTick
  <2>1. total \div 10 \in Int /\ 0 <= total \div 10 /\ total \div 10 <= 200000
    <3>1. total <= 100000
      BY <1>1, MaxScoreIs, MaxScoreEnds, SMT
    <3> QED
      BY <1>1, <3>1, SMT
  <2> QED
    BY <1>3, <2>1, TickIs, MaxTickIs, SMT
<1>10. w \in Nat /\ w >= 100
  BY <1>4, <1>8, VolatilityIs, WidthIs
<1>11. range.lower \in Int /\ range.upper \in Int /\ InTicks(range) /\ range.lower < range.upper
  BY <1>5, <1>9, <1>10, AroundIs
<1>12. /\ x \in Nat /\ 0 < x /\ x <= Decides!TierThresholds[tier].maxPerPool
       /\ x <= 1000 * Decides!MinTVL
  BY <1>6, <1>8, AmountIs
<1>13. /\ i.pool = pool /\ i.tier = tier /\ i.lower = range.lower /\ i.upper = range.upper
       /\ i.amount = x /\ i.total = total
  BY <1>7
<1> QED
  BY <1>8, <1>11, <1>12, <1>13 DEF Usable, InTicks

LEMMA StratNothing ==
  StratInv /\ UNCHANGED <<found, scored, intent, held, visited>> /\ market' \in [MarketPools -> Profiles]
    => StratInv'
  BY DEF StratInv, Decides!CurrentScore

LEMMA HeldIs ==
  ASSUME StratInv, held # Decides!None
  PROVE  /\ held \in Holdings /\ held.pool \in MarketPools /\ held.tier \in {"A", "B", "C"}
         /\ held.lower \in Int /\ held.upper \in Int /\ InTicks(held)
         /\ market[held.pool] \in Profiles
  BY DEF StratInv, Holdings

(* Only the range of the position, or its age, changes. *)
LEMMA HeldMoves ==
  ASSUME StratInv, held # Decides!None, UNCHANGED <<market, found, scored, intent, visited>>,
         held' \in Holdings, held'.pool = held.pool, held'.total = held.total, InTicks(held')
  PROVE  StratInv'
<1>1. Decides!CurrentScore' = Decides!CurrentScore
  BY DEF Decides!CurrentScore
<1> QED
  BY <1>1 DEF StratInv

LEMMA TakeMoves ==
  ASSUME StratInv, held # Decides!None, UNCHANGED <<market, found, scored, intent, visited>>,
         NEW r, r.lower \in Int, r.upper \in Int, InTicks(r), Decides!Take(r)
  PROVE  StratInv'
<1>1. held \in Holdings
  BY HeldIs
<1>2. held' = [held EXCEPT !.lower = r.lower, !.upper = r.upper]
  BY DEF Decides!Take
<1>3. /\ held' \in Holdings /\ held'.pool = held.pool /\ held'.total = held.total
      /\ held'.lower = r.lower /\ held'.upper = r.upper
  BY <1>1, <1>2 DEF Holdings
<1> QED
  BY <1>3, HeldMoves DEF InTicks

(* A range that is centred on a tick again keeps its width. *)
LEMMA CentredIs ==
  ASSUME StratInv, held # Decides!None, NEW tick \in Int, -Decides!MaxTick <= tick,
         tick <= Decides!MaxTick, NEW r, r = Decides!Around(tick, held.upper - held.lower)
  PROVE  r.lower \in Int /\ r.upper \in Int /\ InTicks(r)
<1>1. PICK w \in Nat : w = held.upper - held.lower
  BY HeldIs DEF InTicks
<1> QED
  BY <1>1, AroundIs

LEMMA MoveKeeps ==
  ASSUME StratInv, Decides!MoveRange
  PROVE  StratInv'
<1>1. /\ held # Decides!None /\ UNCHANGED <<market, found, scored, intent, visited>>
      /\ held.tier \in {"A", "B", "C"} /\ market[held.pool] \in Profiles
  BY HeldIs DEF Decides!MoveRange
<1>2. PICK tick : tick = market[held.pool].tick
  OBVIOUS
<1>3. tick \in Int /\ -Decides!MaxTick <= tick /\ tick <= Decides!MaxTick
  BY <1>1, <1>2, TickIs
<1>4. ASSUME NEW pct \in {20, 21},
             Decides!Take(Decides!AdjustRangeForRebalance(tick, held.lower, held.upper, pct))
      PROVE  StratInv'
  <2>1. PICK r : r = Decides!AdjustRangeForRebalance(tick, held.lower, held.upper, pct)
    OBVIOUS
  <2>2. CASE pct > 20
    <3>1. r = Decides!Around(tick, held.upper - held.lower)
      BY <2>1, <2>2 DEF Decides!AdjustRangeForRebalance
    <3>2. r.lower \in Int /\ r.upper \in Int /\ InTicks(r)
      BY <1>1, <1>3, <3>1, CentredIs
    <3> QED
      BY <1>1, <1>4, <2>1, <3>2, TakeMoves
  <2>3. CASE ~(pct > 20)
    <3>1. r = [lower |-> held.lower, upper |-> held.upper]
      BY <2>1, <2>3 DEF Decides!AdjustRangeForRebalance
    <3>2. r.lower \in Int /\ r.upper \in Int /\ InTicks(r)
      BY <1>1, <3>1, HeldIs DEF InTicks
    <3> QED
      BY <1>1, <1>4, <2>1, <3>2, TakeMoves
  <2> QED
    BY <2>2, <2>3
<1>5. ASSUME NEW v \in Volatilities, Decides!Take(Decides!CalculateDynamicRange(tick, v, held.tier))
      PROVE  StratInv'
  <2>1. PICK r : r = Decides!CalculateDynamicRange(tick, v, held.tier)
    OBVIOUS
  <2>2. v \in Nat
    BY StrategyAssumption, SMT
  <2>3. r.lower \in Int /\ r.upper \in Int /\ InTicks(r)
    BY <1>1, <1>3, <2>1, <2>2, DynamicIs
  <2> QED
    BY <1>1, <1>5, <2>1, <2>3, TakeMoves
<1>6. ASSUME NEW v \in Volatilities, Decides!Take(Decides!CalculateRange(tick, v, held.tier))
      PROVE  StratInv'
  <2>1. PICK r : r = Decides!CalculateRange(tick, v, held.tier)
    OBVIOUS
  <2>2. v \in Nat
    BY StrategyAssumption, SMT
  <2>3. r.lower \in Int /\ r.upper \in Int /\ InTicks(r)
    BY <1>1, <1>3, <2>1, <2>2, RangeIs
  <2> QED
    BY <1>1, <1>6, <2>1, <2>3, TakeMoves
<1>7. ASSUME Decides!Take(Decides!CalculateRangeFromScore(held.tier))
      PROVE  StratInv'
  <2>1. PICK r : r = Decides!CalculateRangeFromScore(held.tier)
    OBVIOUS
  <2>2. PICK w : w = Decides!RangeWidth(held.tier, 500)
    OBVIOUS
  <2>3. w \in Nat /\ r = Decides!Around(0, w)
    BY <1>1, <2>1, <2>2, WidthIs DEF Decides!CalculateRangeFromScore
  <2>4. -Decides!MaxTick <= 0 /\ 0 <= Decides!MaxTick
    BY MaxTickIs, SMT
  <2>5. r.lower \in Int /\ r.upper \in Int /\ InTicks(r)
    BY <2>3, <2>4, AroundIs
  <2> QED
    BY <1>1, <1>7, <2>1, <2>5, TakeMoves
<1> QED
  BY <1>2, <1>4, <1>5, <1>6, <1>7 DEF Decides!MoveRange

LEMMA RebalanceKeeps ==
  ASSUME StratInv, Decides!Rebalance
  PROVE  StratInv'
<1>1. /\ held # Decides!None /\ UNCHANGED <<market, found, scored, intent, visited>>
      /\ Decides!Take(Decides!NewRange(held.lower, held.upper))
  BY DEF Decides!Rebalance
<1>2. PICK tick \in Int : tick = 200000 /\ -Decides!MaxTick <= tick /\ tick <= Decides!MaxTick
  BY MaxTickIs, SMT
<1>3. PICK r : r = Decides!NewRange(held.lower, held.upper)
  OBVIOUS
<1>4. r = Decides!Around(tick, held.upper - held.lower)
  BY <1>2, <1>3, SMT DEF Decides!NewRange
<1>5. r.lower \in Int /\ r.upper \in Int /\ InTicks(r)
  BY <1>1, <1>2, <1>4, CentredIs, SMT
<1> QED
  BY <1>1, <1>3, <1>5, TakeMoves

LEMMA HoldOnKeeps ==
  ASSUME StratInv, Decides!HoldOn
  PROVE  StratInv'
<1>1. /\ held # Decides!None /\ UNCHANGED <<market, found, scored, intent, visited>>
      /\ held' = [held EXCEPT !.seasoned = TRUE] /\ held \in Holdings /\ InTicks(held)
  BY HeldIs DEF Decides!HoldOn
<1>2. /\ held' \in Holdings /\ held'.pool = held.pool /\ held'.total = held.total
      /\ held'.lower = held.lower /\ held'.upper = held.upper
  BY <1>1 DEF Holdings
<1> QED
  BY <1>1, <1>2, HeldMoves DEF InTicks

LEMMA ScanKeeps ==
  ASSUME StratInv, Decides!ScanOnce
  PROVE  StratInv'
<1>1. /\ found' = [p \in {q \in MarketPools : market[q].tvl >= Decides!MinTVL} |-> market[p]]
      /\ scored' = [p \in DOMAIN found' |-> Decides!Score(found'[p])]
      /\ visited' = IF held = Decides!None THEN {} ELSE {held.pool}
      /\ UNCHANGED <<market, intent, held>>
  BY DEF Decides!ScanOnce
<1>2. DOMAIN found' \subseteq MarketPools /\ DOMAIN scored' = DOMAIN found'
  BY <1>1
<1>3. \A p \in DOMAIN found' : found'[p] \in Profiles /\ found'[p].tvl >= Decides!MinTVL
  BY <1>1 DEF StratInv
<1>4. \A p \in DOMAIN scored' : scored'[p] \in 0..Decides!MaxScore
  BY <1>1, <1>3, ScoreIs
<1>5. ASSUME held # Decides!None
      PROVE  \A p \in visited' : p \in DOMAIN scored' => scored'[p] <= Decides!CurrentScore'
  <2>1. SUFFICES ASSUME held.pool \in DOMAIN scored'
                 PROVE  scored'[held.pool] <= Decides!CurrentScore'
    BY <1>1, <1>5
  <2>2. Decides!CurrentScore' = scored'[held.pool]
    BY <1>1, <2>1 DEF Decides!CurrentScore
  <2> QED
    BY <1>4, <2>1, <2>2, MaxScoreIs
<1> QED
  BY <1>1, <1>2, <1>3, <1>4, <1>5 DEF StratInv

LEMMA EvaluateKeeps ==
  ASSUME StratInv, NEW p \in DOMAIN found, Decides!Evaluate(p)
  PROVE  StratInv'
<1>1. /\ intent' = Decides!EvaluatePool(p, found[p], scored[p])
      /\ UNCHANGED <<market, found, scored, held, visited>>
  BY DEF Decides!Evaluate
<1>2. /\ p \in MarketPools /\ found[p] \in Profiles /\ found[p].tvl >= Decides!MinTVL
      /\ scored[p] \in 0..Decides!MaxScore
  BY DEF StratInv
<1>3. intent' # Decides!None => Usable(intent')
  BY <1>1, <1>2, IntentIs
<1>4. Decides!CurrentScore' = Decides!CurrentScore
  BY <1>1 DEF Decides!CurrentScore
<1> QED
  BY <1>1, <1>3, <1>4 DEF StratInv

LEMMA OpenKeeps ==
  ASSUME StratInv, Decides!OpenIntent
  PROVE  StratInv'
<1>1. /\ intent # Decides!None
      /\ held' = [pool |-> intent.pool, tier |-> intent.tier, total |-> intent.total,
                  lower |-> intent.lower, upper |-> intent.upper, seasoned |-> FALSE]
      /\ visited' = {intent.pool} /\ intent' = Decides!None /\ UNCHANGED <<market, found, scored>>
  BY DEF Decides!OpenIntent
<1>2. Usable(intent)
  BY <1>1 DEF StratInv
<1>3. /\ held' \in Holdings /\ held'.pool = intent.pool /\ InTicks(held')
  BY <1>1, <1>2 DEF Usable, Holdings, InTicks
<1>4. \A p \in visited' : p \in DOMAIN scored' => scored'[p] <= Decides!CurrentScore'
  <2>1. SUFFICES ASSUME intent.pool \in DOMAIN scored
                 PROVE  scored'[intent.pool] <= Decides!CurrentScore'
    BY <1>1
  <2>2. Decides!CurrentScore' = scored[intent.pool] /\ scored' = scored
    BY <1>1, <1>3, <2>1 DEF Decides!CurrentScore
  <2>3. scored[intent.pool] \in 0..Decides!MaxScore
    BY <2>1 DEF StratInv
  <2> QED
    BY <2>2, <2>3, MaxScoreIs
<1> QED
  BY <1>1, <1>3, <1>4 DEF StratInv

(* The score of a position is a number. *)
LEMMA CurrentIs ==
  ASSUME StratInv, held # Decides!None
  PROVE  Decides!CurrentScore \in 0..Decides!MaxScore
  BY DEF StratInv, Holdings, Decides!CurrentScore

LEMMA RotateKeeps ==
  ASSUME StratInv, NEW p \in MarketPools, Decides!Rotate(p)
  PROVE  StratInv' /\ p \notin visited
<1>1. /\ held # Decides!None /\ p \in DOMAIN scored
      /\ \A q \in DOMAIN scored : scored[q] <= scored[p]
      /\ scored[p] > Decides!CurrentScore
      /\ visited' = visited \cup {p} /\ UNCHANGED <<market, found, scored, intent>>
  BY DEF Decides!Rotate, Decides!ShouldRotate
<1>2. PICK seasoned \in BOOLEAN :
        held' = [held EXCEPT !.pool = p, !.total = scored[p],
                             !.tier = Decides!AssignTier(scored[p]), !.seasoned = seasoned]
  BY DEF Decides!Rotate
<1>3. held \in Holdings /\ InTicks(held) /\ scored[p] \in 0..Decides!MaxScore
  BY <1>1 DEF StratInv
<1>4. Decides!AssignTier(scored[p]) \in {"A", "B", "C"}
  BY <1>3, MaxScoreIs, TierIs
<1>5. /\ held' \in Holdings /\ held'.pool = p
      /\ held'.lower = held.lower /\ held'.upper = held.upper
  BY <1>2, <1>3, <1>4 DEF Holdings
<1>6. Decides!CurrentScore' = scored[p]
  BY <1>1, <1>5 DEF Decides!CurrentScore
<1>7. \A q \in visited' : q \in DOMAIN scored' => scored'[q] <= Decides!CurrentScore'
  BY <1>1, <1>6
<1>8. StratInv'
  BY <1>1, <1>3, <1>5, <1>7 DEF StratInv, InTicks
<1>9. p \notin visited
  <2> SUFFICES ASSUME p \in visited PROVE FALSE
    OBVIOUS
  <2>1. scored[p] <= Decides!CurrentScore
    BY <1>1 DEF StratInv
  <2> QED
    BY <1>1, <1>3, <2>1, CurrentIs, MaxScoreIs
<1> QED
  BY <1>8, <1>9

LEMMA StratStep == StratInv /\ [Decides!Next]_strategyVars => StratInv'
<1> SUFFICES ASSUME StratInv, [Decides!Next]_strategyVars PROVE StratInv'
  OBVIOUS
<1>1. CASE UNCHANGED strategyVars
  BY <1>1, StratNothing DEF strategyVars, StratInv
<1>2. ASSUME NEW p \in MarketPools, Decides!MarketMoves(p) PROVE StratInv'
  BY <1>2, StratNothing DEF Decides!MarketMoves, StratInv
<1>3. CASE Decides!Close
  BY <1>3 DEF Decides!Close, StratInv
<1> QED
  BY <1>1, <1>2, <1>3, ScanKeeps, EvaluateKeeps, OpenKeeps, MoveKeeps, RebalanceKeeps,
     HoldOnKeeps, RotateKeeps DEF Decides!Next

LEMMA StratInit == Decides!Init => StratInv
  BY DEF Decides!Init, StratInv

LEMMA StratAlways == Spec => []StratInv
<1>1. Init => StratInv
  BY InitOfParts, StratInit
<1>2. StratInv /\ [Next]_vars => StratInv'
  BY StepOfParts, StratStep
<1> QED
  BY <1>1, <1>2, PTL DEF Spec

(* However the markets look and move, and in whatever order calculators,
   breaches and rotations follow each other: an intent can be carried out, and
   the range held lies within the ticks and is not turned around. *)
THEOREM RangesSound == Spec => []RangesAreSound
<1>1. StratInv => RangesAreSound
  <2> SUFFICES ASSUME StratInv PROVE RangesAreSound
    OBVIOUS
  <2>1. Decides!HeldRangeIsSound
    BY DEF StratInv, InTicks, Decides!HeldRangeIsSound
  <2>2. Decides!IntentsAreUsable
    <3> SUFFICES ASSUME intent # Decides!None PROVE Decides!IntentsAreUsable
      BY DEF Decides!IntentsAreUsable
    <3>1. Usable(intent)
      BY DEF StratInv
    <3>2. ASSUME intent.pool \in DOMAIN found
          PROVE  intent.amount <= 1000 * found[intent.pool].tvl
      <4>1. PICK tvl \in Nat : tvl = found[intent.pool].tvl /\ tvl >= Decides!MinTVL
        BY <3>2, StrategyAssumption, SMT DEF StratInv
      <4>2. Decides!MinTVL \in Nat
        BY SMT DEF Decides!MinTVL
      <4>3. intent.amount \in Int
        BY <3>1 DEF Usable
      <4> QED
        BY <3>1, <4>1, <4>2, <4>3, SMT DEF Usable
    <3> QED
      BY <3>1, <3>2 DEF Usable, InTicks, Decides!IntentsAreUsable
  <2> QED
    BY <2>1, <2>2 DEF RangesAreSound
<1> QED
  BY <1>1, StratAlways, PTL

(* Between two scans no rotation comes back to a pool that was left: none of
   the pools that were held has a better score than the one that is. *)
THEOREM NoRotationReturns == Spec => RotationsNeverReturn
<1> DEFINE Left == held # Decides!None /\ held' # Decides!None /\ held'.pool # held.pool
                     => held'.pool \notin visited
<1>1. ASSUME StratInv, Decides!Next PROVE Left
  <2>1. ASSUME NEW p \in MarketPools, Decides!Rotate(p) PROVE Left
    <3>1. held'.pool = p
      BY <2>1, <1>1 DEF Decides!Rotate, Decides!ShouldRotate, StratInv, Holdings
    <3> QED
      BY <1>1, <2>1, <3>1, RotateKeeps
  <2>2. CASE Decides!HoldOn \/ Decides!MoveRange \/ Decides!Rebalance
    <3>1. ASSUME held # Decides!None PROVE held'.pool = held.pool
      <4>1. held \in Holdings
        BY <1>1, <3>1, HeldIs
      <4> QED
        BY <2>2, <4>1 DEF Holdings, Decides!HoldOn, Decides!MoveRange, Decides!Rebalance,
           Decides!Take
    <3> QED
      BY <3>1
  <2> QED
    BY <1>1, <2>1, <2>2 DEF Decides!Next, Decides!MarketMoves, Decides!ScanOnce,
       Decides!Evaluate, Decides!OpenIntent, Decides!Close
<1>2. StratInv /\ [Next]_vars => [Left]_strategyVars
  BY <1>1, StepOfParts
<1> QED
  BY <1>2, StratAlways, PTL DEF Spec, RotationsNeverReturn, Decides!RotationsNeverReturn,
     Decides!vars, strategyVars

LEMMA StratTypes == StratInv => Decides!TypeOK
  BY DEF StratInv, Holdings, Decides!TypeOK

-----------------------------------------------------------------------------
(* Backtest.  The rows of the caches, the data of a run, and which run wrote
   which file last. *)
FileNames == {"verdict.md", "pnl_series.csv", "summary.json"}

By(p, f) == IF files[p][f] = Tests!None THEN 0 ELSE files[p][f].by

Torn(p, f) == files[p][f] # Tests!None /\ files[p][f].text = "part"

(* A swap: the two numbers of its id, and its time. *)
SwapSet == ((0..Horizon) \X (0..2)) \X (0..Horizon)

StatesOf(from, to) == {t \in from..(to - 1) : (t - from) % StateStep = 0}

EarningOf(swaps, mode) == {s \in swaps : TickAt[s[2]] \in Tests!TickRange(mode)}

FeesOf(swaps, states, from, mode) ==
  LET later == states \ {from}
  IN SumFunctionOnSet(
       [t \in later |-> Cardinality({s \in EarningOf(swaps, mode) : t - StateStep <= s[2] /\ s[2] <= t})],
       later)

RowsTyped ==
  /\ DOMAIN swapRows \subseteq (0..Horizon) \X (0..2)
  /\ \A i \in DOMAIN swapRows : swapRows[i] \in [pool : TestedPools, time : 0..(Horizon - 1)]
  /\ stateRows \subseteq (0..Horizon) \X (0..(Horizon - 1))

Verdicts == {"", "PASS", "FAIL: no ground truth but fees detected"}

Runs == [at : {"swaps", "states", "simulate"} \cup FileNames, pool : TestedPools,
         from : 0..Horizon, to : 0..Horizon, cached : BOOLEAN,
         swaps : SUBSET SwapSet, states : SUBSET (0..Horizon),
         mode : {""} \cup Tests!Modes, fees : Nat, verdict : Verdicts]

(* The swaps of a run are not before its window, and its states are those of
   its window: the cache finds none. *)
RunTyped ==
  /\ runs \in 0..MaxRuns
  /\ run # Tests!NoRun =>
       /\ run \in Runs /\ runs > 0 /\ run.from <= run.to
       /\ \A s \in run.swaps : run.from <= s[2]
       /\ run.at \notin {"swaps", "states"} => run.states = StatesOf(run.from, run.to)
       /\ run.at = "verdict.md" =>
            run.mode \in Tests!Modes /\ run.fees = FeesOf(run.swaps, run.states, run.from, run.mode)

(* A run writes its files one after another, each whole before the next: those
   of its pool that it has not come to are of an earlier run. *)
FileInOrder(p) ==
  /\ By(p, "summary.json") \in Nat /\ By(p, "pnl_series.csv") \in Nat
  /\ By(p, "verdict.md") \in Nat
  /\ By(p, "summary.json") <= By(p, "pnl_series.csv")
  /\ By(p, "pnl_series.csv") <= By(p, "verdict.md") /\ By(p, "verdict.md") <= runs
  /\ run # Tests!NoRun => By(p, "summary.json") < runs
  /\ run # Tests!NoRun /\ run.at # "summary.json" => By(p, "pnl_series.csv") < runs
  /\ Torn(p, "verdict.md") => By(p, "pnl_series.csv") < By(p, "verdict.md")
  /\ Torn(p, "pnl_series.csv") => By(p, "summary.json") < By(p, "pnl_series.csv")
  /\ /\ By(p, "summary.json") = By(p, "verdict.md") /\ By(p, "verdict.md") > 0
     /\ ~Torn(p, "summary.json")
     => files[p]["summary.json"].value = files[p]["verdict.md"].value

FilesInOrder ==
  /\ files = [p \in TestedPools |-> [f \in FileNames |-> files[p][f]]]
  /\ \A p \in TestedPools : FileInOrder(p)
  /\ run.at \in {"pnl_series.csv", "summary.json"} =>
       /\ By(run.pool, "verdict.md") = runs /\ ~Torn(run.pool, "verdict.md")
       /\ files[run.pool]["verdict.md"].value = run.verdict
  /\ run.at = "summary.json" =>
       By(run.pool, "pnl_series.csv") = runs /\ ~Torn(run.pool, "pnl_series.csv")

TestInv ==
  RowsTyped /\ RunTyped /\ FilesInOrder /\ Tests!CacheHoldsEachSwapOnce

LEMMA SameCardinality == \A S : Tests!Cardinality(S) = Cardinality(S)
  BY DEF Cardinality, Tests!Cardinality

LEMMA FixtureStatesAre == Tests!FixtureStates = StatesOf(run.from, run.to)
  BY DEF Tests!FixtureStates, StatesOf

LEMMA SameSum == \A f, S : Tests!SumFunctionOnSet(f, S) = SumFunctionOnSet(f, S)
  BY DEF Tests!SumFunctionOnSet, Tests!FoldFunctionOnSet, Tests!MapThenFoldSet,
         SumFunctionOnSet, FoldFunctionOnSet, MapThenFoldSet

LEMMA SimulatedFeesAre ==
  ASSUME NEW mode
  PROVE  Tests!SimulatedFees(mode) = FeesOf(run.swaps, run.states, run.from, mode)
<1> DEFINE later == run.states \ {run.from}
           f == [t \in later |-> Tests!FeesAccrued(mode, t - StateStep, t)]
           g == [t \in later |-> Cardinality({s \in EarningOf(run.swaps, mode) :
                                                t - StateStep <= s[2] /\ s[2] <= t})]
<1>1. Tests!Earning(mode) = EarningOf(run.swaps, mode)
  BY DEF Tests!Earning, EarningOf
<1>2. ASSUME NEW t PROVE Tests!FeesAccrued(mode, t - StateStep, t) =
        Cardinality({s \in EarningOf(run.swaps, mode) : t - StateStep <= s[2] /\ s[2] <= t})
  <2>1. Tests!FeesAccrued(mode, t - StateStep, t) =
          Tests!Cardinality({s \in Tests!Earning(mode) : t - StateStep <= s[2] /\ s[2] <= t})
    BY DEF Tests!FeesAccrued
  <2> QED
    BY <2>1, <1>1, SameCardinality
<1>3. f = g
  BY <1>2
<1>4. Tests!SimulatedFees(mode) = Tests!SumFunctionOnSet(f, later)
  BY DEF Tests!SimulatedFees
<1>5. FeesOf(run.swaps, run.states, run.from, mode) = SumFunctionOnSet(g, later)
  BY DEF FeesOf
<1> HIDE DEF f, g, later
<1> QED
  BY <1>3, <1>4, <1>5, SameSum

LEMMA WindowIs ==
  /\ Horizon \in Nat /\ Interval \in Nat \ {0} /\ StateStep \in Nat \ {0} /\ MaxRuns \in Nat /\ TestedPools \cap (0..Horizon) = {}
  /\ \A w \in Windows : w[1] \in 0..Horizon /\ w[2] \in 0..Horizon
  BY BacktestAssumption

LEMMA IdleIsNoRun ==
  ASSUME TestInv
  PROVE  (run.at = "idle" <=> run = Tests!NoRun) /\ Tests!NoRun.at = "idle"
<1>1. Tests!NoRun.at = "idle"
  BY DEF Tests!NoRun
<1>2. run # Tests!NoRun => run.at # "idle"
  BY DEF TestInv, RunTyped, Runs, FileNames
<1> QED
  BY <1>1, <1>2

LEMMA SwapsAreFinite ==
  ASSUME NEW S \in SUBSET SwapSet
  PROVE  IsFiniteSet(S)
<1>1. IsFiniteSet(0..Horizon)
  BY WindowIs, FS_Interval
<1>2. IsFiniteSet(0..2)
  <2>1. PICK two \in Int : two = 2
    OBVIOUS
  <2>2. IsFiniteSet(0..two)
    BY FS_Interval
  <2> QED
    BY <2>1, <2>2
<1>3. IsFiniteSet((0..Horizon) \X (0..2))
  BY <1>1, <1>2, FS_Product
<1>4. IsFiniteSet(SwapSet)
  BY <1>1, <1>3, FS_Product DEF SwapSet
<1> QED
  BY <1>4, FS_Subset

LEMMA FeesAreNat ==
  ASSUME NEW swaps \in SUBSET SwapSet, NEW states \in SUBSET (0..Horizon),
         NEW from, NEW mode
  PROVE  FeesOf(swaps, states, from, mode) \in Nat
<1> DEFINE later == states \ {from}
           f == [t \in later |-> Cardinality({s \in EarningOf(swaps, mode) :
                                                t - StateStep <= s[2] /\ s[2] <= t})]
<1>1. IsFiniteSet(later)
  <2>1. IsFiniteSet(0..Horizon)
    BY WindowIs, FS_Interval
  <2> QED
    BY <2>1, FS_Subset
<1>2. \A t \in later : f[t] \in Nat
  <2>1. ASSUME NEW t \in later PROVE f[t] \in Nat
    <3>1. {s \in EarningOf(swaps, mode) : t - StateStep <= s[2] /\ s[2] <= t}
            \in SUBSET SwapSet
      BY DEF EarningOf
    <3> QED
      BY <3>1, SwapsAreFinite, FS_CardinalityType
  <2> QED
    BY <2>1
<1>3. FeesOf(swaps, states, from, mode) = SumFunctionOnSet(f, later)
  BY DEF FeesOf
<1> HIDE DEF f, later
<1> QED
  BY <1>1, <1>2, <1>3, SumNat

(* No row is written. *)
LEMMA RowsStay ==
  ASSUME TestInv, UNCHANGED <<swapRows, stateRows>>, answered' => answered
  PROVE  RowsTyped' /\ Tests!CacheHoldsEachSwapOnce'
<1>1. RowsTyped'
  BY DEF TestInv, RowsTyped
<1>2. Tests!CacheHoldsEachSwapOnce'
  BY DEF TestInv, Tests!CacheHoldsEachSwapOnce
<1> QED
  BY <1>1, <1>2

(* The run goes on and writes no file. *)
LEMMA RunMoves ==
  ASSUME TestInv, UNCHANGED <<runs, files>>,
         \/ run' = Tests!NoRun
         \/ /\ run # Tests!NoRun /\ run.at # "summary.json"
            /\ run'.at \notin {"pnl_series.csv", "summary.json"},
         RunTyped', RowsTyped' /\ Tests!CacheHoldsEachSwapOnce'
  PROVE  TestInv'
<1>1. Tests!NoRun.at = "idle"
  BY DEF Tests!NoRun
<1>2. \A p, f : By(p, f)' = By(p, f) /\ (Torn(p, f)' <=> Torn(p, f))
  BY DEF By, Torn
<1>3. FilesInOrder'
  <2>1. ASSUME NEW p \in TestedPools PROVE FileInOrder(p)'
    BY <1>2 DEF TestInv, FilesInOrder, FileInOrder
  <2>2. run'.at \notin {"pnl_series.csv", "summary.json"}
    BY <1>1
  <2> QED
    BY <2>1, <2>2 DEF TestInv, FilesInOrder
<1> QED
  BY <1>3 DEF TestInv

LEMMA DivBound ==
  ASSUME NEW a \in Nat, NEW b \in Nat \ {0}
  PROVE  a \div b \in 0..a
  OBVIOUS

LEMMA TestStartKeeps ==
  ASSUME TestInv, NEW p \in TestedPools, NEW w \in Windows, NEW cached \in BOOLEAN,
         Tests!Start(p, w[1], w[2], cached)
  PROVE  TestInv'
<1>1. /\ run = Tests!NoRun /\ runs < MaxRuns /\ w[1] <= w[2] /\ runs' = runs + 1
      /\ UNCHANGED <<swapRows, stateRows, files, answered>>
      /\ w[1] \in 0..Horizon /\ w[2] \in 0..Horizon /\ runs \in 0..MaxRuns /\ MaxRuns \in Nat
  BY IdleIsNoRun, WindowIs DEF Tests!Start, TestInv, RunTyped
<1>2. PICK r : r = [at |-> "swaps", pool |-> p, from |-> w[1], to |-> w[2], cached |-> cached,
                    swaps |-> {}, states |-> {}, mode |-> "", fees |-> 0, verdict |-> ""]
  OBVIOUS
<1>3. /\ run' = r /\ r \in Runs /\ r.at = "swaps" /\ r.from = w[1] /\ r.to = w[2] /\ r.swaps = {}
  <2>1. run' = r
    BY <1>2 DEF Tests!Start
  <2>2. 0 \in Nat /\ "" \in Verdicts
    BY DEF Verdicts
  <2> QED
    BY <1>1, <1>2, <2>1, <2>2 DEF Runs
<1>4. RunTyped'
  BY <1>1, <1>3 DEF RunTyped
<1>5. \A q, f : By(q, f)' = By(q, f) /\ (Torn(q, f)' <=> Torn(q, f))
  BY <1>1 DEF By, Torn
<1>6. FilesInOrder'
  <2>1. ASSUME NEW q \in TestedPools PROVE FileInOrder(q)'
    BY <1>1, <1>5 DEF TestInv, FilesInOrder, FileInOrder
  <2> QED
    BY <1>1, <1>3, <2>1 DEF TestInv, FilesInOrder
<1>7. RowsTyped' /\ Tests!CacheHoldsEachSwapOnce'
  BY <1>1, RowsStay
<1>8. QED
  BY <1>4, <1>6, <1>7 DEF TestInv

LEMMA TimesIsNat == \A i, b \in Nat : i * b \in Nat
  OBVIOUS

(* The blocks of a window are at times of their own. *)
LEMMA TimesApart ==
  ASSUME NEW b \in 0..Horizon, NEW c \in 0..Horizon, run.from \in 0..Horizon,
         Tests!TimeOf(b) = Tests!TimeOf(c), b # c
  PROVE  FALSE
<1>1. Interval \in Nat \ {0} /\ Horizon \in Nat /\ b \in Nat /\ c \in Nat /\ run.from \in Int
  BY WindowIs
<1>2. Interval * b = Interval * c
  <2>1. Interval * b \in Nat /\ Interval * c \in Nat
    BY <1>1, TimesIsNat
  <2> QED
    BY <1>1, <2>1 DEF Tests!TimeOf
<1>3. \A i \in Nat \ {0} : \A x, y \in Nat : i * x = i * y => x = y
  OBVIOUS
<1> QED
  BY <1>1, <1>2, <1>3

LEMMA LoadSwapsKeeps ==
  ASSUME TestInv, Tests!LoadSwaps
  PROVE  TestInv'
<1>1. /\ run.at = "swaps" /\ run # Tests!NoRun /\ run \in Runs /\ run.from <= run.to
      /\ run.from \in 0..Horizon /\ run.to \in 0..Horizon /\ run.pool \in TestedPools
      /\ Horizon \in Nat /\ runs \in 0..MaxRuns /\ runs > 0
      /\ UNCHANGED <<stateRows, runs, files>>
  BY IdleIsNoRun, WindowIs DEF Tests!LoadSwaps, TestInv, RunTyped, Runs
<1>2. ASSUME NEW swaps \in SUBSET SwapSet, Tests!Loaded(swaps),
             \A s \in swaps : run.from <= s[2]
      PROVE  RunTyped' /\ run'.at = "states"
  <2>1. PICK r : r = [run EXCEPT !.swaps = swaps, !.at = "states"]
    OBVIOUS
  <2>2. run' = r /\ r \in Runs /\ r.at = "states" /\ r.from = run.from /\ r.to = run.to /\ r.swaps = swaps
    BY <1>1, <1>2, <2>1 DEF Tests!Loaded, Runs
  <2> QED
    BY <1>1, <1>2, <2>2 DEF RunTyped
<1>3. CASE /\ Tests!Loaded(Tests!SwapsFromCache) /\ UNCHANGED <<swapRows, answered>>
  <2>1. /\ Tests!SwapsFromCache \in SUBSET SwapSet
        /\ \A s \in Tests!SwapsFromCache : run.from <= s[2]
    <3>1. ASSUME NEW i \in DOMAIN swapRows, swapRows[i].time \in run.from..run.to
          PROVE  i \in (0..Horizon) \X (0..2) /\ swapRows[i].time \in 0..Horizon
      BY <1>1, <3>1 DEF TestInv, RowsTyped
    <3> QED
      BY <1>1, <3>1 DEF Tests!SwapsFromCache, SwapSet
  <2>2. RunTyped' /\ run'.at = "states"
    BY <1>2, <1>3, <2>1
  <2>3. RowsTyped' /\ Tests!CacheHoldsEachSwapOnce'
    BY <1>1, <1>3, RowsStay
  <2> QED
    BY <1>1, <2>2, <2>3, RunMoves
<1>4. CASE /\ Tests!Loaded(Tests!FixtureSwaps)
           /\ IF run.cached THEN /\ Tests!CacheSwaps \/ UNCHANGED swapRows
                                 /\ answered' = (answered /\ Tests!SwapsFromCache = {})
              ELSE UNCHANGED <<swapRows, answered>>
  <2> DEFINE new == Tests!FixtureIds
  <2>1. \A id \in new : /\ id \in (0..Horizon) \X (0..2)
                         /\ Tests!TimeOf(id[1]) \in run.from..run.to
                         /\ Tests!TimeOf(id[1]) \in 0..(Horizon - 1)
    <3>1. ASSUME NEW id \in new
          PROVE  /\ id \in (0..Horizon) \X (0..2)
                 /\ Tests!TimeOf(id[1]) \in run.from..run.to
                 /\ Tests!TimeOf(id[1]) \in 0..(Horizon - 1)
      <4>1. id \in (0..Horizon) \X (0..2) /\ Tests!TimeOf(id[1]) < run.to
        BY DEF Tests!FixtureIds
      <4>2. Interval * id[1] \in Nat
        <5>1. id[1] \in Nat
          BY <1>1, <4>1
        <5> QED
          BY <5>1, WindowIs, TimesIsNat
      <4> QED
        BY <1>1, <4>1, <4>2 DEF Tests!TimeOf
    <3> QED
      BY <3>1
  <2>2. /\ Tests!FixtureSwaps \in SUBSET SwapSet
        /\ \A s \in Tests!FixtureSwaps : run.from <= s[2]
    <3> HIDE DEF new
    <3>1. Tests!FixtureSwaps = {<<id, Tests!TimeOf(id[1])>> : id \in new}
      BY DEF Tests!FixtureSwaps, new
    <3>2. ASSUME NEW id \in new
          PROVE  /\ <<id, Tests!TimeOf(id[1])>> \in SwapSet
                 /\ run.from <= Tests!TimeOf(id[1])
      BY <1>1, <2>1 DEF SwapSet
    <3> QED
      BY <3>1, <3>2
  <2>3. RunTyped' /\ run'.at = "states"
    BY <1>2, <1>4, <2>2
  <2>4. ASSUME Tests!CacheSwaps, answered' = (answered /\ Tests!SwapsFromCache = {})
        PROVE  RowsTyped' /\ Tests!CacheHoldsEachSwapOnce'
    <3> HIDE DEF new
    <3>1. /\ DOMAIN swapRows' = DOMAIN swapRows \cup new
          /\ \A id \in new : swapRows'[id] = [pool |-> run.pool, time |-> Tests!TimeOf(id[1])]
          /\ \A id \in DOMAIN swapRows \ new : swapRows'[id] = swapRows[id]
      BY <2>4 DEF Tests!CacheSwaps, new
    <3>2. RowsTyped'
      <4>1. ASSUME NEW id \in new PROVE swapRows'[id] \in [pool : TestedPools, time : 0..(Horizon - 1)]
        BY <1>1, <2>1, <3>1
      <4>2. DOMAIN swapRows' \subseteq (0..Horizon) \X (0..2)
        BY <2>1, <3>1 DEF TestInv, RowsTyped
      <4>3. ASSUME NEW id \in DOMAIN swapRows' PROVE swapRows'[id] \in [pool : TestedPools, time : 0..(Horizon - 1)]
        BY <3>1, <4>1 DEF TestInv, RowsTyped
      <4> QED
        BY <1>1, <4>2, <4>3 DEF TestInv, RowsTyped
    <3>3. ASSUME answered', NEW x \in DOMAIN swapRows', NEW y \in DOMAIN swapRows', x # y,
                 x[2] = y[2], swapRows'[x] = swapRows'[y]
          PROVE  FALSE
      <4>1. answered /\ Tests!SwapsFromCache = {}
        BY <2>4, <3>3
      <4>2. ASSUME NEW k \in DOMAIN swapRows, swapRows[k].pool = run.pool,
                   swapRows[k].time \in run.from..run.to
            PROVE  FALSE
        BY <4>1, <4>2 DEF Tests!SwapsFromCache
      <4>3. ASSUME NEW i \in new, NEW j \in DOMAIN swapRows \ new PROVE swapRows'[i] # swapRows'[j]
        <5>1. swapRows'[i] = [pool |-> run.pool, time |-> Tests!TimeOf(i[1])] /\ swapRows'[j] = swapRows[j]
              /\ Tests!TimeOf(i[1]) \in run.from..run.to
          BY <2>1, <3>1, <4>3
        <5>2. swapRows'[i].pool = run.pool /\ swapRows'[i].time = Tests!TimeOf(i[1])
          BY <5>1
        <5> QED
          BY <4>2, <4>3, <5>1, <5>2
      <4>4. CASE x \in new /\ y \in new
        <5>1. ASSUME NEW k \in new
              PROVE  swapRows'[k].time = Tests!TimeOf(k[1]) /\ k \in (0..Horizon) \X (0..2)
          <6>1. swapRows'[k] = [pool |-> run.pool, time |-> Tests!TimeOf(k[1])]
            BY <3>1
          <6> QED
            BY <2>1, <6>1
        <5>2. /\ x \in (0..Horizon) \X (0..2) /\ y \in (0..Horizon) \X (0..2)
              /\ Tests!TimeOf(x[1]) = Tests!TimeOf(y[1])
          BY <3>3, <4>4, <5>1
        <5>3. x[1] # y[1] /\ x[1] \in 0..Horizon /\ y[1] \in 0..Horizon
          BY <3>3, <5>2
        <5> QED
          BY <1>1, <5>2, <5>3, TimesApart
      <4>5. CASE x \notin new /\ y \notin new
        BY <3>1, <3>3, <4>1, <4>5 DEF TestInv, Tests!CacheHoldsEachSwapOnce
      <4> QED
        BY <3>1, <3>3, <4>3, <4>4, <4>5
    <3> QED
      BY <3>2, <3>3 DEF Tests!CacheHoldsEachSwapOnce
  <2>5. RowsTyped' /\ Tests!CacheHoldsEachSwapOnce'
    BY <1>1, <1>4, <2>4, RowsStay
  <2> QED
    BY <1>1, <2>3, <2>5, RunMoves
<1> QED
  BY <1>3, <1>4 DEF Tests!LoadSwaps

LEMMA LoadPoolStatesKeeps ==
  ASSUME TestInv, Tests!LoadPoolStates
  PROVE  TestInv'
<1>1. /\ run.at = "states" /\ run # Tests!NoRun /\ run \in Runs /\ run.from <= run.to
      /\ run.from \in 0..Horizon /\ run.to \in 0..Horizon /\ run.pool \in TestedPools
      /\ Horizon \in Nat /\ StateStep \in Nat \ {0} /\ TestedPools \cap (0..Horizon) = {}
      /\ runs \in 0..MaxRuns /\ runs > 0 /\ UNCHANGED <<swapRows, runs, files, answered>>
  BY IdleIsNoRun, WindowIs DEF Tests!LoadPoolStates, TestInv, RunTyped, Runs
<1>2. Tests!StatesFromCache = {}
  <2>1. ASSUME NEW q \in stateRows PROVE q[1] # run.pool
    BY <1>1 DEF TestInv, RowsTyped
  <2> QED
    BY <2>1 DEF Tests!StatesFromCache
<1>3. /\ run' = [run EXCEPT !.states = Tests!FixtureStates, !.at = "simulate"]
      /\ Tests!CachePoolStates \/ UNCHANGED stateRows
  BY <1>2 DEF Tests!LoadPoolStates
<1>4. Tests!FixtureStates = StatesOf(run.from, run.to) /\ Tests!FixtureStates \in SUBSET (0..Horizon)
  BY <1>1, FixtureStatesAre DEF StatesOf
<1>5. PICK r : r = [run EXCEPT !.states = Tests!FixtureStates, !.at = "simulate"]
  OBVIOUS
<1>6. /\ run' = r /\ r \in Runs /\ r.at = "simulate" /\ r.from = run.from /\ r.to = run.to
      /\ r.swaps = run.swaps /\ r.states = StatesOf(run.from, run.to)
  BY <1>1, <1>3, <1>4, <1>5 DEF Runs
<1>7. RunTyped'
  BY <1>1, <1>6 DEF RunTyped, TestInv
<1>8. stateRows' \subseteq (0..Horizon) \X (0..(Horizon - 1))
  <2>1. ASSUME NEW t \in Tests!FixtureStates
        PROVE  Tests!BlockHash(t) \in 0..Horizon /\ t \in 0..(Horizon - 1)
    <3>1. t \in run.from..(run.to - 1)
      BY DEF Tests!FixtureStates
    <3>2. t - run.from \in Nat /\ t - run.from <= Horizon /\ t \in 0..(Horizon - 1)
      BY <1>1, <3>1
    <3>3. (t - run.from) \div StateStep \in 0..(t - run.from)
      BY <1>1, <3>2, DivBound
    <3> QED
      BY <1>1, <3>2, <3>3 DEF Tests!BlockHash
  <2>2. CASE Tests!CachePoolStates
    BY <2>1, <2>2 DEF Tests!CachePoolStates, TestInv, RowsTyped
  <2> QED
    BY <1>3, <2>2 DEF TestInv, RowsTyped
<1>9. RowsTyped' /\ Tests!CacheHoldsEachSwapOnce'
  BY <1>1, <1>8 DEF TestInv, RowsTyped, Tests!CacheHoldsEachSwapOnce
<1> QED
  BY <1>1, <1>6, <1>7, <1>9, RunMoves

LEMMA SimulateKeeps ==
  ASSUME TestInv, NEW mode \in Tests!Modes, Tests!Simulate(mode)
  PROVE  TestInv'
<1>1. /\ run.at = "simulate" /\ run # Tests!NoRun /\ run \in Runs /\ run.from <= run.to
      /\ run.swaps \in SUBSET SwapSet /\ run.states \in SUBSET (0..Horizon)
      /\ runs \in 0..MaxRuns /\ runs > 0 /\ UNCHANGED <<swapRows, stateRows, runs, files, answered>>
  BY IdleIsNoRun DEF Tests!Simulate, TestInv, RunTyped, Runs
<1> DEFINE fees == FeesOf(run.swaps, run.states, run.from, mode)
           verdict == Tests!Compare(fees, Tests!CollectedFees)
<1>2. fees \in Nat /\ Tests!SimulatedFees(mode) = fees
  BY <1>1, FeesAreNat, SimulatedFeesAre
<1>3. verdict \in Verdicts
  <2>1. CASE fees = 0
    <3>1. verdict = "PASS"
      BY <2>1 DEF Tests!Compare, Tests!CollectedFees
    <3> QED
      BY <3>1 DEF Verdicts
  <2>2. CASE fees # 0
    <3>1. verdict = "FAIL: no ground truth but fees detected"
      BY <2>2 DEF Tests!Compare, Tests!CollectedFees
    <3> QED
      BY <3>1 DEF Verdicts
  <2> HIDE DEF fees
  <2> QED
    BY <2>1, <2>2
<1> HIDE DEF fees, verdict
<1>4. PICK r : r = [run EXCEPT !.mode = mode, !.fees = fees, !.at = "verdict.md", !.verdict = verdict]
  OBVIOUS
<1>5. run' = r
  BY <1>2, <1>4 DEF Tests!Simulate, verdict
<1>6. /\ r \in Runs /\ r.at = "verdict.md" /\ r.from = run.from /\ r.to = run.to
      /\ r.swaps = run.swaps /\ r.states = run.states /\ r.mode = mode /\ r.fees = fees
  BY <1>1, <1>2, <1>3, <1>4 DEF Runs, FileNames
<1>7. RunTyped'
  BY <1>1, <1>5, <1>6 DEF RunTyped, TestInv, fees
<1>8. RowsTyped' /\ Tests!CacheHoldsEachSwapOnce'
  BY <1>1, RowsStay
<1> QED
  BY <1>1, <1>5, <1>6, <1>7, <1>8, RunMoves

LEMMA NoRunIsTyped ==
  ASSUME TestInv, UNCHANGED <<swapRows, stateRows, runs, files, answered>>, run' = Tests!NoRun
  PROVE  TestInv'
<1>1. RunTyped'
  BY DEF TestInv, RunTyped
<1>2. RowsTyped' /\ Tests!CacheHoldsEachSwapOnce'
  BY RowsStay
<1> QED
  BY <1>1, <1>2, RunMoves

LEMMA FilesAreThere ==
  /\ Tests!VerdictFile # Tests!None /\ Tests!VerdictFile.by = runs
  /\ Tests!VerdictFile.text = "whole" /\ Tests!VerdictFile.value = run.verdict
  /\ Tests!PnLSeriesFile # Tests!None /\ Tests!PnLSeriesFile.by = runs /\ Tests!PnLSeriesFile.text = "whole"
  /\ Tests!SummaryFile # Tests!None /\ Tests!SummaryFile.by = runs /\ Tests!SummaryFile.text = "whole"
  /\ Tests!SummaryFile.value = run.verdict
  /\ Tests!Torn # Tests!None /\ Tests!Torn.by = runs /\ Tests!Torn.text = "part"
<1>1. "none" \in DOMAIN Tests!None
  BY DEF Tests!None
<1>2. /\ "none" \notin DOMAIN Tests!VerdictFile
      /\ "none" \notin DOMAIN Tests!PnLSeriesFile
      /\ "none" \notin DOMAIN Tests!SummaryFile
      /\ "none" \notin DOMAIN Tests!Torn
  BY DEF Tests!VerdictFile, Tests!PnLSeriesFile, Tests!SummaryFile, Tests!Torn
<1>3. /\ Tests!VerdictFile.by = runs /\ Tests!PnLSeriesFile.by = runs /\ Tests!SummaryFile.by = runs
      /\ Tests!VerdictFile.text = "whole" /\ Tests!PnLSeriesFile.text = "whole" /\ Tests!SummaryFile.text = "whole"
      /\ Tests!VerdictFile.value = run.verdict /\ Tests!SummaryFile.value = run.verdict
      /\ Tests!Torn.by = runs /\ Tests!Torn.text = "part"
  BY DEF Tests!VerdictFile, Tests!PnLSeriesFile, Tests!SummaryFile, Tests!Torn
<1> QED
  BY <1>1, <1>2, <1>3

(* What one file that is written changes. *)
LEMMA WriteFileWrites ==
  ASSUME TestInv, NEW name \in FileNames, NEW content, content # Tests!None, content.by = runs,
         files' = [files EXCEPT ![run.pool][name] = content], run.at = name
  PROVE  /\ files' = [p \in TestedPools |-> [f \in FileNames |-> files'[p][f]]]
         /\ \A q \in TestedPools : \A f \in FileNames :
              files'[q][f] = IF q = run.pool /\ f = name THEN content ELSE files[q][f]
         /\ \A q \in TestedPools : \A f \in FileNames :
              By(q, f)' = IF q = run.pool /\ f = name THEN runs ELSE By(q, f)
         /\ \A q \in TestedPools : \A f \in FileNames :
              q # run.pool \/ f # name => (Torn(q, f)' <=> Torn(q, f))
         /\ \A q \in TestedPools : q = run.pool => (Torn(q, name)' <=> content.text = "part")
         /\ run # Tests!NoRun
<1>1. files = [p \in TestedPools |-> [f \in FileNames |-> files[p][f]]]
  BY DEF TestInv, FilesInOrder
<1>2. run # Tests!NoRun
  BY IdleIsNoRun DEF FileNames
<1>3. run.pool \in TestedPools
  BY <1>2 DEF TestInv, RunTyped, Runs
<1>4. DOMAIN files = TestedPools /\ \A q \in TestedPools : DOMAIN files[q] = FileNames
      /\ files[q] = [f \in FileNames |-> files[q][f]]
  BY <1>1
<1>5. \A q \in TestedPools : \A f \in FileNames :
        files'[q][f] = IF q = run.pool /\ f = name THEN content ELSE files[q][f]
  BY <1>3, <1>4
<1>6. files' = [p \in TestedPools |-> files'[p]]
  BY <1>1
<1>7. \A q \in TestedPools : files'[q] = [f \in FileNames |-> files'[q][f]]
  <2>1. ASSUME NEW q \in TestedPools PROVE files'[q] = [f \in FileNames |-> files'[q][f]]
    BY <1>3, <1>4
  <2> QED
    BY <2>1
<1>8. files' = [p \in TestedPools |-> [f \in FileNames |-> files'[p][f]]]
  BY <1>6, <1>7
<1>9. \A q \in TestedPools : \A f \in FileNames :
        By(q, f)' = IF q = run.pool /\ f = name THEN runs ELSE By(q, f)
  BY <1>5 DEF By
<1>10. /\ \A q \in TestedPools : \A f \in FileNames :
            q # run.pool \/ f # name => (Torn(q, f)' <=> Torn(q, f))
       /\ \A q \in TestedPools : q = run.pool => (Torn(q, name)' <=> content.text = "part")
  BY <1>5 DEF Torn
<1> QED
  BY <1>2, <1>5, <1>8, <1>9, <1>10

(* A file is cut off or never begun, and the run has ended. *)
LEMMA BreaksOffKeeps ==
  ASSUME TestInv, NEW name \in FileNames, run.at = name, Tests!BreaksOff(name),
         UNCHANGED <<swapRows, stateRows, runs, answered>>
  PROVE  TestInv'
<1>1. run' = Tests!NoRun
  BY DEF Tests!BreaksOff
<1>2. CASE files' = [files EXCEPT ![run.pool][name] = Tests!Torn]
  <2>1. /\ files' = [p \in TestedPools |-> [f \in FileNames |-> files'[p][f]]]
        /\ \A q \in TestedPools : \A f \in FileNames :
             files'[q][f] = IF q = run.pool /\ f = name THEN Tests!Torn ELSE files[q][f]
        /\ \A q \in TestedPools : \A f \in FileNames :
             By(q, f)' = IF q = run.pool /\ f = name THEN runs ELSE By(q, f)
        /\ \A q \in TestedPools : \A f \in FileNames :
             q # run.pool \/ f # name => (Torn(q, f)' <=> Torn(q, f))
        /\ \A q \in TestedPools : q = run.pool => (Torn(q, name)')
        /\ run # Tests!NoRun
    <3>1. PICK content : content = Tests!Torn
      OBVIOUS
    <3>2. content # Tests!None /\ content.by = runs /\ content.text = "part"
      BY <3>1, FilesAreThere
    <3>3. files' = [files EXCEPT ![run.pool][name] = content]
      BY <1>2, <3>1
    <3>4. /\ \A q \in TestedPools : \A f \in FileNames :
               q # run.pool \/ f # name => (Torn(q, f)' <=> Torn(q, f))
          /\ \A q \in TestedPools : q = run.pool => (Torn(q, name)' <=> content.text = "part")
      BY <3>2, <3>3, WriteFileWrites
    <3>5. /\ \A q \in TestedPools : \A f \in FileNames :
               q # run.pool \/ f # name => (Torn(q, f)' <=> Torn(q, f))
          /\ \A q \in TestedPools : q = run.pool => (Torn(q, name)')
      BY <3>2, <3>4
    <3>6. files' = [p \in TestedPools |-> [f \in FileNames |-> files'[p][f]]] /\ run # Tests!NoRun
      BY <3>2, <3>3, WriteFileWrites
    <3>7. \A q \in TestedPools : \A f \in FileNames :
            files'[q][f] = IF q = run.pool /\ f = name THEN content ELSE files[q][f]
      <4>1. /\ files = [p \in TestedPools |-> [f \in FileNames |-> files[p][f]]]
            /\ run.pool \in TestedPools
        BY <3>6 DEF TestInv, FilesInOrder, RunTyped, Runs
      <4>2. DOMAIN files = TestedPools /\ \A q \in TestedPools : DOMAIN files[q] = FileNames
        BY <4>1
      <4> QED
        BY <3>3, <4>1, <4>2
    <3>8. \A q \in TestedPools : \A f \in FileNames :
            By(q, f)' = IF q = run.pool /\ f = name THEN runs ELSE By(q, f)
      BY <3>2, <3>3, WriteFileWrites
    <3> QED
      BY <3>1, <3>5, <3>6, <3>7, <3>8
  <2>2. runs \in 0..MaxRuns /\ MaxRuns \in Nat
    BY WindowIs DEF TestInv, RunTyped
  <2>3. RunTyped'
    BY <1>1, <2>2 DEF RunTyped
  <2>4. "verdict.md" \in FileNames /\ "pnl_series.csv" \in FileNames /\ "summary.json" \in FileNames
    BY DEF FileNames
  <2>5. /\ name \in {"pnl_series.csv", "summary.json"} =>
             By(run.pool, "verdict.md") = runs /\ ~Torn(run.pool, "verdict.md")
        /\ name = "summary.json" =>
             By(run.pool, "pnl_series.csv") = runs /\ ~Torn(run.pool, "pnl_series.csv")
    BY DEF TestInv, FilesInOrder
  <2>6. ASSUME NEW q \in TestedPools PROVE FileInOrder(q)'
    <3>1. FileInOrder(q) /\ runs \in Nat
      BY <2>2 DEF TestInv, FilesInOrder
    <3>2. CASE q # run.pool
      <4>1. ASSUME NEW f \in FileNames
            PROVE  By(q, f)' = By(q, f) /\ (Torn(q, f)' <=> Torn(q, f)) /\ files'[q][f] = files[q][f]
        BY <2>1, <3>2
      <4>2. \A f \in {"verdict.md", "pnl_series.csv", "summary.json"} :
              By(q, f)' = By(q, f) /\ (Torn(q, f)' <=> Torn(q, f)) /\ files'[q][f] = files[q][f]
        BY <4>1 DEF FileNames
      <4> QED
        BY <1>1, <3>1, <2>1, <4>2 DEF FileInOrder
    <3>3. CASE q = run.pool /\ name = "verdict.md"
      <4>1. /\ By(q, "summary.json")' = By(q, "summary.json") /\ By(q, "verdict.md")' = runs
            /\ By(q, "pnl_series.csv")' = By(q, "pnl_series.csv")
            /\ (Torn(q, "pnl_series.csv")' <=> Torn(q, "pnl_series.csv"))
        BY <2>1, <2>4, <3>3
      <4> QED
        BY <1>1, <2>1, <3>1, <3>3, <4>1 DEF FileInOrder
    <3>4. CASE q = run.pool /\ name = "pnl_series.csv"
      <4>1. /\ By(q, "summary.json")' = By(q, "summary.json") /\ By(q, "verdict.md")' = runs
            /\ By(q, "pnl_series.csv")' = runs /\ ~Torn(q, "verdict.md")'
        BY <2>1, <2>4, <2>5, <3>3, <3>4
      <4> QED
        BY <1>1, <2>1, <3>1, <3>4, <4>1 DEF FileInOrder
    <3>5. CASE q = run.pool /\ name = "summary.json"
      <4>1. /\ By(q, "summary.json")' = runs /\ By(q, "verdict.md")' = runs
            /\ By(q, "pnl_series.csv")' = runs /\ ~Torn(q, "verdict.md")'
            /\ ~Torn(q, "pnl_series.csv")' /\ Torn(q, "summary.json")'
        BY <2>1, <2>4, <2>5, <3>5
      <4> QED
        BY <1>1, <2>1, <3>1, <3>5, <4>1 DEF FileInOrder
    <3> QED
      BY <3>2, <3>3, <3>4, <3>5 DEF FileNames
  <2>7. FilesInOrder'
    <3>1. run'.at = "idle"
      BY <1>1 DEF Tests!NoRun
    <3> QED
      BY <2>1, <2>6, <3>1 DEF FilesInOrder
  <2> QED
    BY <2>3, <2>7, RowsStay DEF TestInv
<1>3. CASE UNCHANGED files
  BY <1>1, <1>3, NoRunIsTyped
<1> QED
  BY <1>2, <1>3 DEF Tests!BreaksOff

LEMMA WriteVerdictKeeps ==
  ASSUME TestInv, Tests!WriteFile("verdict.md", Tests!VerdictFile)
  PROVE  TestInv'
<1>1. /\ run.at = "verdict.md" /\ UNCHANGED <<swapRows, stateRows, runs, answered>>
      /\ \/ files' = [files EXCEPT ![run.pool]["verdict.md"] = Tests!VerdictFile]
            /\ run' = [run EXCEPT !.at = "pnl_series.csv"]
         \/ Tests!BreaksOff("verdict.md")
  BY DEF Tests!WriteFile, Tests!AfterFile, Tests!Go
<1>2. CASE /\ files' = [files EXCEPT ![run.pool]["verdict.md"] = Tests!VerdictFile]
           /\ run' = [run EXCEPT !.at = "pnl_series.csv"]
  <2>1. /\ files' = [p \in TestedPools |-> [f \in FileNames |-> files'[p][f]]]
        /\ \A q \in TestedPools : \A f \in FileNames :
             files'[q][f] = IF q = run.pool /\ f = "verdict.md" THEN Tests!VerdictFile ELSE files[q][f]
        /\ \A q \in TestedPools : \A f \in FileNames :
             By(q, f)' = IF q = run.pool /\ f = "verdict.md" THEN runs ELSE By(q, f)
        /\ \A q \in TestedPools : \A f \in FileNames :
             q # run.pool \/ f # "verdict.md" => (Torn(q, f)' <=> Torn(q, f))
        /\ \A q \in TestedPools : q = run.pool => (~Torn(q, "verdict.md")')
        /\ run # Tests!NoRun
    <3>1. PICK content : content = Tests!VerdictFile
      OBVIOUS
    <3>2. "verdict.md" \in FileNames /\ content # Tests!None /\ content.by = runs /\ content.text = "whole"
      BY <3>1, FilesAreThere DEF FileNames
    <3>3. files' = [files EXCEPT ![run.pool]["verdict.md"] = content]
      BY <1>2, <3>1
    <3>4. /\ \A q \in TestedPools : \A f \in FileNames :
               q # run.pool \/ f # "verdict.md" => (Torn(q, f)' <=> Torn(q, f))
          /\ \A q \in TestedPools : q = run.pool => (Torn(q, "verdict.md")' <=> content.text = "part")
      BY <1>1, <3>2, <3>3, WriteFileWrites
    <3>5. /\ \A q \in TestedPools : \A f \in FileNames :
               q # run.pool \/ f # "verdict.md" => (Torn(q, f)' <=> Torn(q, f))
          /\ \A q \in TestedPools : q = run.pool => (~Torn(q, "verdict.md")')
      BY <3>2, <3>4
    <3> QED
      BY <1>1, <3>1, <3>2, <3>3, <3>5, WriteFileWrites
  <2>2. PICK r : r = [run EXCEPT !.at = "pnl_series.csv"]
    OBVIOUS
  <2>3. /\ run \in Runs /\ run.from <= run.to /\ runs > 0 /\ runs \in 0..MaxRuns
        /\ \A s \in run.swaps : run.from <= s[2]
        /\ run.states = StatesOf(run.from, run.to)
    BY <1>1, <2>1 DEF TestInv, RunTyped
  <2>4. /\ run' = r /\ r \in Runs /\ r.at = "pnl_series.csv" /\ r.from = run.from /\ r.to = run.to
        /\ r.swaps = run.swaps /\ r.states = run.states /\ r.pool = run.pool /\ r.verdict = run.verdict
        /\ run.pool \in TestedPools
    BY <1>2, <2>2, <2>3 DEF Runs, FileNames
  <2>5. RunTyped'
    BY <1>1, <2>3, <2>4 DEF RunTyped
  <2>6. "verdict.md" \in FileNames /\ "pnl_series.csv" \in FileNames /\ "summary.json" \in FileNames
    BY DEF FileNames
  <2>7. ASSUME NEW q \in TestedPools PROVE FileInOrder(q)'
    <3>1. FileInOrder(q) /\ runs \in Nat
      BY <2>3 DEF TestInv, FilesInOrder
    <3>2. CASE q # run.pool
      <4>1. ASSUME NEW f \in FileNames
            PROVE  By(q, f)' = By(q, f) /\ (Torn(q, f)' <=> Torn(q, f)) /\ files'[q][f] = files[q][f]
        BY <2>1, <3>2
      <4>2. \A f \in {"verdict.md", "pnl_series.csv", "summary.json"} :
              By(q, f)' = By(q, f) /\ (Torn(q, f)' <=> Torn(q, f)) /\ files'[q][f] = files[q][f]
        BY <4>1 DEF FileNames
      <4> QED
        BY <1>1, <2>4, <3>1, <2>1, <4>2 DEF FileInOrder
    <3>3. CASE q = run.pool
      <4>1. By(q, "verdict.md")' = runs /\ By(q, "pnl_series.csv")' = By(q, "pnl_series.csv")
            /\ By(q, "summary.json")' = By(q, "summary.json") /\ ~Torn(q, "verdict.md")'
            /\ (Torn(q, "pnl_series.csv")' <=> Torn(q, "pnl_series.csv"))
        BY <2>1, <2>6, <3>3
      <4> QED
        BY <1>1, <2>1, <2>4, <3>1, <4>1 DEF FileInOrder
    <3> QED
      BY <3>2, <3>3
  <2>8. FilesInOrder'
    <3>1. PICK p \in TestedPools : p = run.pool
      BY <2>4
    <3>2. /\ By(p, "verdict.md")' = runs /\ files'[p]["verdict.md"].value = run.verdict
          /\ ~Torn(p, "verdict.md")'
      BY <2>1, <2>6, <3>1, FilesAreThere
    <3>3. p = run'.pool
      BY <2>4, <3>1
    <3>4. By(run.pool, "verdict.md")' = By(p, "verdict.md")' /\ (Torn(run.pool, "verdict.md")' <=> Torn(p, "verdict.md")')
      BY <3>3 DEF By, Torn
    <3> QED
      BY <1>1, <2>1, <2>4, <2>7, <3>2, <3>3, <3>4 DEF FilesInOrder
  <2> QED
    BY <1>1, <2>5, <2>8, RowsStay DEF TestInv
<1>3. CASE Tests!BreaksOff("verdict.md")
  BY <1>1, <1>3, BreaksOffKeeps DEF FileNames
<1> QED
  BY <1>1, <1>2, <1>3

LEMMA WritePnLSeriesKeeps ==
  ASSUME TestInv, Tests!WriteFile("pnl_series.csv", Tests!PnLSeriesFile)
  PROVE  TestInv'
<1>1. /\ run.at = "pnl_series.csv" /\ UNCHANGED <<swapRows, stateRows, runs, answered>>
      /\ \/ files' = [files EXCEPT ![run.pool]["pnl_series.csv"] = Tests!PnLSeriesFile]
            /\ run' = [run EXCEPT !.at = "summary.json"]
         \/ Tests!BreaksOff("pnl_series.csv")
  BY DEF Tests!WriteFile, Tests!AfterFile, Tests!Go
<1>2. CASE /\ files' = [files EXCEPT ![run.pool]["pnl_series.csv"] = Tests!PnLSeriesFile]
           /\ run' = [run EXCEPT !.at = "summary.json"]
  <2>1. /\ files' = [p \in TestedPools |-> [f \in FileNames |-> files'[p][f]]]
        /\ \A q \in TestedPools : \A f \in FileNames :
             files'[q][f] = IF q = run.pool /\ f = "pnl_series.csv" THEN Tests!PnLSeriesFile ELSE files[q][f]
        /\ \A q \in TestedPools : \A f \in FileNames :
             By(q, f)' = IF q = run.pool /\ f = "pnl_series.csv" THEN runs ELSE By(q, f)
        /\ \A q \in TestedPools : \A f \in FileNames :
             q # run.pool \/ f # "pnl_series.csv" => (Torn(q, f)' <=> Torn(q, f))
        /\ \A q \in TestedPools : q = run.pool => (~Torn(q, "pnl_series.csv")')
        /\ run # Tests!NoRun
    <3>1. PICK content : content = Tests!PnLSeriesFile
      OBVIOUS
    <3>2. "pnl_series.csv" \in FileNames /\ content # Tests!None /\ content.by = runs /\ content.text = "whole"
      BY <3>1, FilesAreThere DEF FileNames
    <3>3. files' = [files EXCEPT ![run.pool]["pnl_series.csv"] = content]
      BY <1>2, <3>1
    <3>4. /\ \A q \in TestedPools : \A f \in FileNames :
               q # run.pool \/ f # "pnl_series.csv" => (Torn(q, f)' <=> Torn(q, f))
          /\ \A q \in TestedPools : q = run.pool => (Torn(q, "pnl_series.csv")' <=> content.text = "part")
      BY <1>1, <3>2, <3>3, WriteFileWrites
    <3>5. /\ \A q \in TestedPools : \A f \in FileNames :
               q # run.pool \/ f # "pnl_series.csv" => (Torn(q, f)' <=> Torn(q, f))
          /\ \A q \in TestedPools : q = run.pool => (~Torn(q, "pnl_series.csv")')
      BY <3>2, <3>4
    <3> QED
      BY <1>1, <3>1, <3>2, <3>3, <3>5, WriteFileWrites
  <2>2. PICK r : r = [run EXCEPT !.at = "summary.json"]
    OBVIOUS
  <2>3. /\ run \in Runs /\ run.from <= run.to /\ runs > 0 /\ runs \in 0..MaxRuns
        /\ \A s \in run.swaps : run.from <= s[2]
        /\ run.states = StatesOf(run.from, run.to)
    BY <1>1, <2>1 DEF TestInv, RunTyped
  <2>4. /\ run' = r /\ r \in Runs /\ r.at = "summary.json" /\ r.from = run.from /\ r.to = run.to
        /\ r.swaps = run.swaps /\ r.states = run.states /\ r.pool = run.pool /\ r.verdict = run.verdict
        /\ run.pool \in TestedPools
    BY <1>2, <2>2, <2>3 DEF Runs, FileNames
  <2>5. RunTyped'
    BY <1>1, <2>3, <2>4 DEF RunTyped
  <2>6. "verdict.md" \in FileNames /\ "pnl_series.csv" \in FileNames /\ "summary.json" \in FileNames
    BY DEF FileNames
  <2>7. /\ By(run.pool, "verdict.md") = runs /\ files[run.pool]["verdict.md"].value = run.verdict
        /\ ~Torn(run.pool, "verdict.md")
    BY <1>1 DEF TestInv, FilesInOrder
  <2>8. ASSUME NEW q \in TestedPools PROVE FileInOrder(q)'
    <3>1. FileInOrder(q) /\ runs \in Nat
      BY <2>3 DEF TestInv, FilesInOrder
    <3>2. CASE q # run.pool
      <4>1. ASSUME NEW f \in FileNames
            PROVE  By(q, f)' = By(q, f) /\ (Torn(q, f)' <=> Torn(q, f)) /\ files'[q][f] = files[q][f]
        BY <2>1, <3>2
      <4>2. \A f \in {"verdict.md", "pnl_series.csv", "summary.json"} :
              By(q, f)' = By(q, f) /\ (Torn(q, f)' <=> Torn(q, f)) /\ files'[q][f] = files[q][f]
        BY <4>1 DEF FileNames
      <4> QED
        BY <1>1, <2>4, <3>1, <2>1, <4>2 DEF FileInOrder
    <3>3. CASE q = run.pool
      <4>1. By(q, "pnl_series.csv")' = runs /\ By(q, "verdict.md")' = By(q, "verdict.md")
            /\ By(q, "summary.json")' = By(q, "summary.json")
            /\ files'[q]["verdict.md"] = files[q]["verdict.md"]
            /\ files'[q]["summary.json"] = files[q]["summary.json"]
            /\ ~Torn(q, "verdict.md")' /\ ~Torn(q, "pnl_series.csv")'
            /\ (Torn(q, "summary.json")' <=> Torn(q, "summary.json"))
        BY <2>1, <2>6, <2>7, <3>3
      <4> QED
        BY <1>1, <2>1, <2>4, <2>7, <3>1, <3>3, <4>1 DEF FileInOrder
    <3> QED
      BY <3>2, <3>3
  <2>9. FilesInOrder'
    <3>1. PICK p \in TestedPools : p = run.pool
      BY <2>4
    <3>2. By(p, "pnl_series.csv")' = runs /\ By(p, "verdict.md")' = runs
          /\ files'[p]["verdict.md"].value = run.verdict
          /\ ~Torn(p, "verdict.md")' /\ ~Torn(p, "pnl_series.csv")'
      BY <2>1, <2>6, <2>7, <3>1
    <3>3. p = run'.pool
      BY <2>4, <3>1
    <3>4. /\ By(run.pool, "verdict.md")' = By(p, "verdict.md")'
          /\ By(run.pool, "pnl_series.csv")' = By(p, "pnl_series.csv")'
          /\ (Torn(run.pool, "verdict.md")' <=> Torn(p, "verdict.md")')
          /\ (Torn(run.pool, "pnl_series.csv")' <=> Torn(p, "pnl_series.csv")')
      BY <3>3 DEF By, Torn
    <3> QED
      BY <1>1, <2>1, <2>4, <2>8, <3>2, <3>3, <3>4 DEF FilesInOrder
  <2> QED
    BY <1>1, <2>5, <2>9, RowsStay DEF TestInv
<1>3. CASE Tests!BreaksOff("pnl_series.csv")
  BY <1>1, <1>3, BreaksOffKeeps DEF FileNames
<1> QED
  BY <1>1, <1>2, <1>3

LEMMA WriteSummaryKeeps ==
  ASSUME TestInv, Tests!WriteFile("summary.json", Tests!SummaryFile)
  PROVE  TestInv'
<1>1. /\ run.at = "summary.json" /\ UNCHANGED <<swapRows, stateRows, runs, answered>>
      /\ \/ /\ files' = [files EXCEPT ![run.pool]["summary.json"] = Tests!SummaryFile]
            /\ run' = Tests!NoRun
         \/ Tests!BreaksOff("summary.json")
  BY DEF Tests!WriteFile, Tests!AfterFile
<1>2. CASE /\ files' = [files EXCEPT ![run.pool]["summary.json"] = Tests!SummaryFile]
           /\ run' = Tests!NoRun
  <2>1. /\ files' = [p \in TestedPools |-> [f \in FileNames |-> files'[p][f]]]
        /\ \A q \in TestedPools : \A f \in FileNames :
             files'[q][f] = IF q = run.pool /\ f = "summary.json" THEN Tests!SummaryFile ELSE files[q][f]
        /\ \A q \in TestedPools : \A f \in FileNames :
             By(q, f)' = IF q = run.pool /\ f = "summary.json" THEN runs ELSE By(q, f)
        /\ \A q \in TestedPools : \A f \in FileNames :
             q # run.pool \/ f # "summary.json" => (Torn(q, f)' <=> Torn(q, f))
        /\ \A q \in TestedPools : q = run.pool => (~Torn(q, "summary.json")')
        /\ run # Tests!NoRun
    <3>1. PICK content : content = Tests!SummaryFile
      OBVIOUS
    <3>2. "summary.json" \in FileNames /\ content # Tests!None /\ content.by = runs /\ content.text = "whole"
      BY <3>1, FilesAreThere DEF FileNames
    <3>3. files' = [files EXCEPT ![run.pool]["summary.json"] = content]
      BY <1>2, <3>1
    <3>4. /\ \A q \in TestedPools : \A f \in FileNames :
               q # run.pool \/ f # "summary.json" => (Torn(q, f)' <=> Torn(q, f))
          /\ \A q \in TestedPools : q = run.pool => (Torn(q, "summary.json")' <=> content.text = "part")
      BY <1>1, <3>2, <3>3, WriteFileWrites
    <3>5. /\ \A q \in TestedPools : \A f \in FileNames :
               q # run.pool \/ f # "summary.json" => (Torn(q, f)' <=> Torn(q, f))
          /\ \A q \in TestedPools : q = run.pool => (~Torn(q, "summary.json")')
      BY <3>2, <3>4
    <3> QED
      BY <1>1, <3>1, <3>2, <3>3, <3>5, WriteFileWrites
  <2>2. runs \in 0..MaxRuns /\ MaxRuns \in Nat
    BY WindowIs DEF TestInv, RunTyped
  <2>3. RunTyped'
    BY <1>1, <1>2, <2>2 DEF RunTyped
  <2>4. "verdict.md" \in FileNames /\ "pnl_series.csv" \in FileNames /\ "summary.json" \in FileNames
    BY DEF FileNames
  <2>5. /\ By(run.pool, "verdict.md") = runs /\ files[run.pool]["verdict.md"].value = run.verdict
        /\ By(run.pool, "pnl_series.csv") = runs
        /\ ~Torn(run.pool, "verdict.md") /\ ~Torn(run.pool, "pnl_series.csv")
    BY <1>1 DEF TestInv, FilesInOrder
  <2>6. ASSUME NEW q \in TestedPools PROVE FileInOrder(q)'
    <3>1. FileInOrder(q) /\ runs \in Nat
      BY <2>2 DEF TestInv, FilesInOrder
    <3>2. CASE q # run.pool
      <4>1. ASSUME NEW f \in FileNames
            PROVE  By(q, f)' = By(q, f) /\ (Torn(q, f)' <=> Torn(q, f)) /\ files'[q][f] = files[q][f]
        BY <2>1, <3>2
      <4>2. \A f \in {"verdict.md", "pnl_series.csv", "summary.json"} :
              By(q, f)' = By(q, f) /\ (Torn(q, f)' <=> Torn(q, f)) /\ files'[q][f] = files[q][f]
        BY <4>1 DEF FileNames
      <4> QED
        BY <1>1, <1>2, <3>1, <2>1, <4>2 DEF FileInOrder
    <3>3. CASE q = run.pool
      <4>1. /\ By(q, "summary.json")' = runs /\ By(q, "verdict.md")' = runs
            /\ By(q, "pnl_series.csv")' = runs
            /\ files'[q]["verdict.md"] = files[q]["verdict.md"]
            /\ files'[q]["summary.json"].value = run.verdict
            /\ ~Torn(q, "verdict.md")' /\ ~Torn(q, "pnl_series.csv")'
        BY <2>1, <2>4, <2>5, <3>3, FilesAreThere
      <4> QED
        BY <1>1, <1>2, <2>1, <2>5, <3>1, <3>3, <4>1 DEF FileInOrder
    <3> QED
      BY <3>2, <3>3
  <2>7. FilesInOrder'
    <3>1. run'.at = "idle"
      BY <1>2 DEF Tests!NoRun
    <3> QED
      BY <2>1, <2>6, <3>1 DEF FilesInOrder
  <2> QED
    BY <1>1, <2>3, <2>7, RowsStay DEF TestInv
<1>3. CASE Tests!BreaksOff("summary.json")
  BY <1>1, <1>3, BreaksOffKeeps DEF FileNames
<1> QED
  BY <1>1, <1>2, <1>3

LEMMA TestStays ==
  ASSUME TestInv, UNCHANGED <<swapRows, stateRows, run, runs, files, answered>>
  PROVE  TestInv'
<1>1. RunTyped'
  BY DEF TestInv, RunTyped
<1>2. RowsTyped' /\ Tests!CacheHoldsEachSwapOnce'
  BY RowsStay
<1>3. \A p, f : By(p, f)' = By(p, f) /\ (Torn(p, f)' <=> Torn(p, f))
  BY DEF By, Torn
<1>4. FilesInOrder'
  <2>1. ASSUME NEW p \in TestedPools PROVE FileInOrder(p)'
    BY <1>3 DEF TestInv, FilesInOrder, FileInOrder
  <2>2. /\ By(run.pool, "verdict.md")' = By(run.pool, "verdict.md")
        /\ By(run.pool, "pnl_series.csv")' = By(run.pool, "pnl_series.csv")
        /\ (Torn(run.pool, "verdict.md")' <=> Torn(run.pool, "verdict.md"))
        /\ (Torn(run.pool, "pnl_series.csv")' <=> Torn(run.pool, "pnl_series.csv"))
    BY DEF By, Torn
  <2> QED
    BY <2>1, <2>2 DEF TestInv, FilesInOrder
<1> QED
  BY <1>1, <1>2, <1>4 DEF TestInv

LEMMA TestStep ==
  ASSUME TestInv, [Next]_vars
  PROVE  TestInv'
<1>1. CASE UNCHANGED backtestVars
  BY <1>1, TestStays DEF backtestVars
<1>2. CASE Tests!Next
  <2>1. ASSUME Tests!Kill PROVE TestInv'
    <3>1. CASE run.at \in Tests!Outputs
      <4>1. /\ run.at \in FileNames /\ Tests!BreaksOff(run.at)
            /\ UNCHANGED <<swapRows, stateRows, runs, answered>>
        BY <2>1, <3>1 DEF Tests!Kill, Tests!Outputs, FileNames
      <4> QED
        BY <4>1, BreaksOffKeeps
    <3>2. CASE run.at \notin Tests!Outputs
      BY <2>1, <3>2, NoRunIsTyped DEF Tests!Kill
    <3> QED
      BY <3>1, <3>2
  <2>2. ASSUME Tests!Aggregate PROVE TestInv'
    BY <2>2, TestStays DEF Tests!Aggregate
  <2> QED
    BY <1>2, <2>1, <2>2, TestStartKeeps, LoadSwapsKeeps, LoadPoolStatesKeeps, SimulateKeeps,
       WriteVerdictKeeps, WritePnLSeriesKeeps, WriteSummaryKeeps DEF Tests!Next
<1>3. UNCHANGED vars => UNCHANGED backtestVars
  BY DEF vars
<1>4. Next => Tests!Next \/ UNCHANGED backtestVars
  BY DEF Next
<1> QED
  BY <1>1, <1>2, <1>3, <1>4

LEMMA TestInit == Init => TestInv
<1>1. SUFFICES ASSUME Tests!Init PROVE TestInv
  BY DEF Init
<1>2. /\ DOMAIN swapRows = {} /\ stateRows = {} /\ run = Tests!NoRun /\ runs = 0
      /\ files = [p \in TestedPools |-> [f \in FileNames |-> Tests!None]] /\ answered
      /\ MaxRuns \in Nat /\ Tests!NoRun.at = "idle"
  BY <1>1, WindowIs DEF Tests!Init, FileNames, Tests!Outputs, Tests!NoRun
<1>3. RowsTyped /\ RunTyped /\ Tests!CacheHoldsEachSwapOnce
  BY <1>2 DEF RowsTyped, RunTyped, Tests!CacheHoldsEachSwapOnce
<1>4. ASSUME NEW p \in TestedPools, NEW f \in FileNames PROVE files[p][f] = Tests!None /\ By(p, f) = 0 /\ ~Torn(p, f)
  BY <1>2 DEF By, Torn
<1>5. ASSUME NEW p \in TestedPools PROVE FileInOrder(p)
  BY <1>2, <1>4 DEF FileInOrder, FileNames
<1>6. files = [p \in TestedPools |-> [f \in FileNames |-> files[p][f]]]
  BY <1>2
<1> QED
  BY <1>2, <1>3, <1>5, <1>6 DEF TestInv, FilesInOrder

LEMMA TestAlways == Spec => []TestInv
  BY TestInit, TestStep, PTL DEF Spec

(* The cache never holds one swap under two ids, and however runs fail in
   between or within their files, those of a directory are of one run after
   another, and a whole summary agrees with the verdict of its run. *)
THEOREM CacheAndFilesSound == Spec => []CacheAndFilesAgree
<1>1. ASSUME TestInv PROVE CacheAndFilesAgree
  <2>1. ASSUME NEW p \in TestedPools
        PROVE  /\ By(p, "summary.json") <= By(p, "pnl_series.csv")
               /\ By(p, "pnl_series.csv") <= By(p, "verdict.md")
               /\ Torn(p, "verdict.md") => By(p, "pnl_series.csv") < By(p, "verdict.md")
               /\ Torn(p, "pnl_series.csv") => By(p, "summary.json") < By(p, "pnl_series.csv")
               /\ /\ By(p, "summary.json") = By(p, "verdict.md") /\ By(p, "verdict.md") > 0
                  /\ ~Torn(p, "summary.json")
                  => files[p]["summary.json"].value = files[p]["verdict.md"].value
    BY <1>1 DEF TestInv, FilesInOrder, FileInOrder
  <2>2. Tests!FilesAgree
    BY <2>1 DEF Tests!FilesAgree, By, Torn
  <2> QED
    BY <1>1, <2>2 DEF CacheAndFilesAgree, TestInv
<1> QED
  BY <1>1, TestAlways, PTL

-----------------------------------------------------------------------------
(* Sums of fees over the states of a window. *)
LEMMA DivModIs ==
  ASSUME NEW a \in Int, NEW b \in Nat \ {0}
  PROVE  /\ a \div b \in Int /\ a % b \in 0..(b - 1)
         /\ a = b * (a \div b) + (a % b)
<1>1. a \div b \in Int
  OBVIOUS
<1>2. a % b \in 0..(b - 1)
  OBVIOUS
<1>3. a = b * (a \div b) + (a % b)
  OBVIOUS
<1> QED
  BY <1>1, <1>2, <1>3

LEMMA NoMultipleBetween ==
  ASSUME NEW b \in Nat \ {0}, NEW k \in Int
  PROVE  /\ b * k > 0 => b * k >= b
         /\ b * k \in 0..(b - 1) => b * k = 0
<1>1. k >= 1 => b * k >= b
  OBVIOUS
<1>2. k <= 0 => b * k <= 0
  OBVIOUS
<1> QED
  BY <1>1, <1>2

LEMMA Distributes ==
  ASSUME NEW b \in Int, NEW k \in Int, NEW l \in Int
  PROVE  b * (k - l) = b * k - b * l /\ b * (k - 1) = b * k - b /\ b * (k - l) \in Int
  OBVIOUS

(* Two numbers that b divides, and what it divides next. *)
LEMMA MultiplesApart ==
  ASSUME NEW b \in Nat \ {0}, NEW x \in Int, NEW y \in Int, x % b = 0, y % b = 0
  PROVE  /\ x < y => x <= y - b
         /\ (y - b) % b = 0
<1>1. PICK k \in Int : x = b * k
  <2>1. x = b * (x \div b) + (x % b) /\ x \div b \in Int
    BY DivModIs
  <2>2. b * (x \div b) \in Int
    BY <2>1
  <2>3. x = b * (x \div b)
    BY <2>1, <2>2
  <2> QED
    BY <2>1, <2>3
<1>2. PICK l \in Int : y = b * l
  <2>1. y = b * (y \div b) + (y % b) /\ y \div b \in Int
    BY DivModIs
  <2>2. b * (y \div b) \in Int
    BY <2>1
  <2>3. y = b * (y \div b)
    BY <2>1, <2>2
  <2> QED
    BY <2>1, <2>3
<1>3. y - x = b * (l - k)
  BY <1>1, <1>2, Distributes
<1>4. x < y => x <= y - b
  BY <1>3, NoMultipleBetween
<1>5. (y - b) % b = 0
  <2>1. PICK m \in Int : y - b = b * m + ((y - b) % b)
    <3>1. y - b \in Int
      OBVIOUS
    <3>2. y - b = b * ((y - b) \div b) + ((y - b) % b) /\ (y - b) \div b \in Int
      BY <3>1, DivModIs
    <3> QED
      BY <3>2, Zenon
  <2>2. (y - b) % b \in 0..(b - 1)
    BY DivModIs
  <2>3. y - b = b * (l - 1)
    BY <1>2, Distributes
  <2>4. b * ((l - 1) - m) = b * (l - 1) - b * m
    BY Distributes
  <2> DEFINE r == (y - b) % b
             p == b * (l - 1)
             q == b * m
  <2>5. p \in Int /\ q \in Int /\ p = q + r
    <3>1. p = y - b /\ p = q + r
      BY <2>1, <2>3
    <3>2. q \in Int /\ p \in Int
      OBVIOUS
    <3> QED
      BY <3>1, <3>2
  <2>6. b * ((l - 1) - m) = r
    <3>1. b * ((l - 1) - m) = p - q
      BY <2>4
    <3> HIDE DEF p, q, r
    <3>2. r \in Int
      BY <2>2 DEF r
    <3> QED
      BY <2>5, <3>1, <3>2
  <2>7. (l - 1) - m \in Int
    OBVIOUS
  <2> QED
    BY <2>2, <2>6, <2>7, NoMultipleBetween
<1> QED
  BY <1>4, <1>5

(* A state that is not the first has one before it, and none between. *)
LEMMA StateBefore ==
  ASSUME NEW from \in 0..Horizon, NEW to \in 0..Horizon, NEW t \in StatesOf(from, to), t # from
  PROVE  /\ t - StateStep \in StatesOf(from, to)
         /\ \A x \in StatesOf(from, to) : x < t => x <= t - StateStep
<1>1. Horizon \in Nat /\ StateStep \in Nat \ {0}
  BY WindowIs
<1>2. from \in Nat /\ to \in Nat /\ t \in from..(to - 1) /\ (t - from) % StateStep = 0
  BY <1>1 DEF StatesOf
<1>3. ASSUME NEW x \in StatesOf(from, to), x < t PROVE x <= t - StateStep
  <2>1. x \in from..(to - 1) /\ (x - from) % StateStep = 0
    BY DEF StatesOf
  <2>2. x - from \in Int /\ t - from \in Int /\ x - from < t - from
    BY <1>2, <1>3, <2>1
  <2>3. x - from <= (t - from) - StateStep
    BY <1>1, <1>2, <2>1, <2>2, MultiplesApart
  <2> QED
    BY <1>1, <1>2, <2>1, <2>3
<1>4. from \in StatesOf(from, to)
  <2>1. (from - from) % StateStep = 0
    BY <1>1, <1>2
  <2> QED
    BY <1>2, <2>1 DEF StatesOf
<1>5. from <= t - StateStep
  BY <1>2, <1>3, <1>4
<1>6. ((t - from) - StateStep) % StateStep = 0
  <2>1. t - from \in Int
    BY <1>2
  <2> QED
    BY <1>1, <1>2, <2>1, MultiplesApart
<1>7. ((t - StateStep) - from) % StateStep = 0
  <2>1. (t - StateStep) - from = (t - from) - StateStep
    BY <1>1, <1>2
  <2> QED
    BY <1>6, <2>1
<1>8. t - StateStep \in StatesOf(from, to)
  BY <1>1, <1>2, <1>5, <1>7 DEF StatesOf
<1> QED
  BY <1>3, <1>8

(* A set of natural numbers that is finite and not empty has a least one, and
   a greatest one. *)
LEMMA LeastIn ==
  ASSUME NEW S, IsFiniteSet(S), S \in SUBSET Nat, NEW T \in SUBSET S, T # {}
  PROVE  /\ \E x \in T : \A y \in T : x <= y
         /\ \E x \in T : \A y \in T : y <= x
<1> DEFINE below == {{y \in T : y <= x} : x \in T}
           above == {{y \in T : x <= y} : x \in T}
<1>1. IsFiniteSet(T) /\ T \in SUBSET Nat
  BY FS_Subset
<1>2. below \subseteq SUBSET T /\ below # {} /\ above \subseteq SUBSET T /\ above # {}
  OBVIOUS
<1>3. PICK B \in below : \A U \in SUBSET B : U # B => U \notin below
  BY <1>1, <1>2, MinimalSubset
<1>4. PICK A \in above : \A U \in SUBSET A : U # A => U \notin above
  BY <1>1, <1>2, MinimalSubset
<1>5. PICK b \in T : B = {y \in T : y <= b}
  BY <1>3
<1>6. PICK a \in T : A = {y \in T : a <= y}
  BY <1>4
<1>7. ASSUME NEW z \in T, z < b PROVE FALSE
  <2> DEFINE U == {y \in T : y <= z}
  <2>1. U \in below
    BY <1>7
  <2>2. \A y \in T : y \in Nat
    BY <1>1
  <2>3. (\A y \in T : y <= z => y <= b) /\ b <= b /\ ~(b <= z)
    BY <1>7, <2>2
  <2>4. U \in SUBSET B /\ b \in B /\ b \notin U
    BY <1>5, <2>3
  <2> HIDE DEF U, below
  <2> QED
    BY <1>3, <2>1, <2>4
<1>8. ASSUME NEW z \in T, a < z PROVE FALSE
  <2> DEFINE U == {y \in T : z <= y}
  <2>1. U \in above
    BY <1>8
  <2>2. \A y \in T : y \in Nat
    BY <1>1
  <2>3. (\A y \in T : z <= y => a <= y) /\ a <= a /\ ~(z <= a)
    BY <1>8, <2>2
  <2>4. U \in SUBSET A /\ a \in A /\ a \notin U
    BY <1>6, <2>3
  <2> HIDE DEF U, above
  <2> QED
    BY <1>4, <2>1, <2>4
<1> QED
  BY <1>1, <1>7, <1>8

Fee(E, t) == Cardinality({s \in E : t - StateStep <= s[2] /\ s[2] <= t})

FeeOf(E, later) == [t \in later |-> Fee(E, t)]

UpTo(E, t) == {s \in E : s[2] <= t}

Inside(E, states, from, t) == {s \in E : s[2] \in states /\ from < s[2] /\ s[2] < t}

Total(E, states, from, t) == Cardinality(UpTo(E, t)) + Cardinality(Inside(E, states, from, t))

(* One interval adds the swaps after the state before it, and those on it. *)
LEMMA IntervalAdds ==
  ASSUME NEW from \in 0..Horizon, NEW to \in 0..Horizon,
         NEW E \in SUBSET SwapSet, \A s \in E : from <= s[2],
         NEW t \in StatesOf(from, to), t # from
  PROVE  /\ t - StateStep = from => Total(E, StatesOf(from, to), from, t) = Fee(E, t)
         /\ t - StateStep # from =>
              Total(E, StatesOf(from, to), from, t)
                = Total(E, StatesOf(from, to), from, t - StateStep) + Fee(E, t)
<1> DEFINE states == StatesOf(from, to)
           before == t - StateStep
           on == {s \in E : s[2] = before}
           after == {s \in E : before < s[2] /\ s[2] <= t}
           fees == {s \in E : before <= s[2] /\ s[2] <= t}
<1>1. Horizon \in Nat /\ StateStep \in Nat \ {0} /\ t \in Nat /\ from \in Nat /\ before \in states
      /\ \A s \in E : s[2] \in Nat
  <2>1. Horizon \in Nat /\ StateStep \in Nat \ {0}
    BY WindowIs
  <2>2. before \in states
    BY StateBefore
  <2>3. from \in Nat /\ t \in from..(to - 1) /\ to \in Nat
    BY <2>1 DEF StatesOf
  <2>4. \A s \in E : s[2] \in Nat
    BY <2>1 DEF SwapSet
  <2> QED
    BY <2>1, <2>2, <2>3, <2>4
<1>2. \A x \in states : x < t => x <= before
  BY StateBefore
<1>3. before \in Nat /\ from <= before /\ before < t
  BY <1>1 DEF StatesOf
<1> HIDE DEF before, states
<1>4. /\ IsFiniteSet(on) /\ IsFiniteSet(after) /\ IsFiniteSet(fees)
      /\ IsFiniteSet(UpTo(E, before)) /\ IsFiniteSet(UpTo(E, t))
      /\ IsFiniteSet(Inside(E, states, from, before)) /\ IsFiniteSet(Inside(E, states, from, t))
  <2>1. IsFiniteSet(E)
    BY SwapsAreFinite
  <2>2. /\ on \in SUBSET E /\ after \in SUBSET E /\ fees \in SUBSET E
        /\ UpTo(E, before) \in SUBSET E /\ UpTo(E, t) \in SUBSET E
        /\ Inside(E, states, from, before) \in SUBSET E /\ Inside(E, states, from, t) \in SUBSET E
    BY DEF UpTo, Inside
  <2> HIDE DEF on, after, fees
  <2> QED
    BY <2>1, <2>2, FS_Subset
<1>5. fees = on \cup after /\ on \cap after = {}
  BY <1>1, <1>3
<1>6. UpTo(E, t) = UpTo(E, before) \cup after /\ UpTo(E, before) \cap after = {}
  BY <1>1, <1>3 DEF UpTo
<1>7. before # from => /\ Inside(E, states, from, t) = Inside(E, states, from, before) \cup on
                       /\ Inside(E, states, from, before) \cap on = {}
  BY <1>1, <1>2, <1>3 DEF Inside
<1>8. before = from => Inside(E, states, from, t) = {} /\ UpTo(E, t) = fees
  BY <1>1, <1>2, <1>3 DEF Inside, UpTo
<1> HIDE DEF on, after, fees
<1>9. \A A, B : IsFiniteSet(A) /\ IsFiniteSet(B) /\ A \cap B = {} =>
        Cardinality(A \cup B) = Cardinality(A) + Cardinality(B)
  <2>1. ASSUME NEW A, NEW B, IsFiniteSet(A), IsFiniteSet(B), A \cap B = {}
        PROVE  Cardinality(A \cup B) = Cardinality(A) + Cardinality(B)
    <3>1. Cardinality(A) \in Nat /\ Cardinality(B) \in Nat /\ Cardinality({}) = 0
      BY <2>1, FS_CardinalityType, FS_EmptySet
    <3>2. Cardinality(A \cup B) = Cardinality(A) + Cardinality(B) - Cardinality(A \cap B)
      BY <2>1, FS_Union
    <3>3. Cardinality(A \cap B) = 0
      BY <2>1, <3>1, Zenon
    <3> QED
      BY <3>1, <3>2, <3>3
  <2> QED
    BY <2>1
<1>10. /\ Cardinality(on) \in Nat /\ Cardinality(after) \in Nat /\ Cardinality(UpTo(E, before)) \in Nat
       /\ Cardinality(Inside(E, states, from, before)) \in Nat /\ Cardinality({}) = 0
  BY <1>4, FS_CardinalityType, FS_EmptySet
<1>11. Cardinality(fees) = Cardinality(on) + Cardinality(after)
  BY <1>4, <1>5, <1>9
<1>12. Cardinality(UpTo(E, t)) = Cardinality(UpTo(E, before)) + Cardinality(after)
  BY <1>4, <1>6, <1>9
<1>13. before # from => Cardinality(Inside(E, states, from, t))
                          = Cardinality(Inside(E, states, from, before)) + Cardinality(on)
  BY <1>4, <1>7, <1>9
<1>14. Cardinality(fees) = Fee(E, t)
  BY DEF fees, before, Fee
<1>15. CASE before = from
  <2>1. Cardinality(Inside(E, states, from, t)) = 0 /\ Cardinality(UpTo(E, t)) = Cardinality(fees)
    BY <1>8, <1>10, <1>15
  <2> QED
    BY <1>10, <1>11, <1>14, <1>15, <2>1 DEF before, states, Total
<1>16. CASE before # from
  BY <1>10, <1>11, <1>12, <1>13, <1>14, <1>16 DEF before, states, Total
<1> QED
  BY <1>15, <1>16

(* What all intervals add up to. *)
LEMMA IntervalsAddUp ==
  ASSUME NEW from \in 0..Horizon, NEW to \in 0..Horizon,
         NEW E \in SUBSET SwapSet, \A s \in E : from <= s[2],
         NEW t \in StatesOf(from, to), t # from
  PROVE  LET later == StatesOf(from, to) \ {from}
         IN  SumFunctionOnSet(FeeOf(E, later), {x \in later : x <= t})
               = Total(E, StatesOf(from, to), from, t)
<1> DEFINE states == StatesOf(from, to)
           later == states \ {from}
           f == FeeOf(E, later)
           below(x) == {y \in later : y <= x}
           total(x) == Total(E, states, from, x)
           Good(x) == SumFunctionOnSet(f, below(x)) = total(x)
           Bad == {x \in later : ~Good(x)}
<1>1. SUFFICES ASSUME Bad # {} PROVE FALSE
  OBVIOUS
<1>2. IsFiniteSet(later) /\ later \in SUBSET Nat
  <2>1. IsFiniteSet(0..Horizon) /\ Horizon \in Nat
    BY WindowIs, FS_Interval
  <2>2. later \in SUBSET (0..Horizon)
    BY <2>1 DEF StatesOf
  <2> QED
    BY <2>1, <2>2, FS_Subset
<1> HIDE DEF Bad, later
<1>3. Bad \in SUBSET later
  BY DEF Bad
<1>4. PICK x \in Bad : \A y \in Bad : x <= y
  BY <1>1, <1>2, <1>3, LeastIn
<1>5. x \in states /\ x # from /\ x \in later /\ x \in Nat /\ StateStep \in Nat \ {0}
  BY <1>2, <1>3, WindowIs DEF later
<1> DEFINE before == x - StateStep
           fee == Fee(E, x)
<1>6. /\ before = from => total(x) = fee
      /\ before # from => total(x) = total(before) + fee
  BY <1>5, IntervalAdds
<1>7. f[x] = fee
  BY <1>5 DEF FeeOf
<1>8. before \in states /\ (\A y \in states : y < x => y <= before) /\ before < x
  BY <1>5, StateBefore
<1>9. \A y \in later : f[y] \in Nat
  <2>1. ASSUME NEW y \in later PROVE f[y] \in Nat
    <3>1. {s \in E : y - StateStep <= s[2] /\ s[2] <= y} \in SUBSET SwapSet
      OBVIOUS
    <3>2. Fee(E, y) \in Nat
      BY <3>1, SwapsAreFinite, FS_CardinalityType DEF Fee
    <3> QED
      BY <3>2 DEF FeeOf
  <2> QED
    BY <2>1
<1> HIDE DEF f, states, fee
<1>10. \A y \in later : y \in Nat /\ from < y /\ (y <= x <=> y <= before \/ y = x)
  <2>1. ASSUME NEW y \in later PROVE y \in Nat /\ from < y /\ (y <= x <=> y <= before \/ y = x)
    <3>1. y \in states /\ y # from /\ y \in Nat
      BY <1>2 DEF later
    <3>2. from \in Nat /\ from <= y
      BY <3>1, WindowIs DEF states, StatesOf
    <3> QED
      BY <1>5, <1>8, <3>1, <3>2
  <2> QED
    BY <2>1
<1>11. before \in Int /\ before < x /\ x \in later
  BY <1>5, <1>8
<1> HIDE DEF before
<1>12. below(x) = below(before) \cup {x} /\ x \notin below(before)
  BY <1>10, <1>11
<1>13. IsFiniteSet(below(before)) /\ \A y \in below(before) \cup {x} : f[y] \in Int
  <2>1. below(before) \in SUBSET later
    OBVIOUS
  <2>2. \A y \in below(before) \cup {x} : y \in later
    BY <1>5
  <2> QED
    BY <1>2, <1>9, <2>1, <2>2, FS_Subset
<1> HIDE DEF below, total
<1>14. SumFunctionOnSet(f, below(x)) = f[x] + SumFunctionOnSet(f, below(before))
  BY <1>12, <1>13, SumAdd
<1>15. f[x] \in Nat
  BY <1>5, <1>9
<1>16. CASE before = from
  <2>1. below(before) = {}
    <3>1. \A y \in later : ~(y <= before)
      BY <1>16, <1>10
    <3> QED
      BY <3>1 DEF below
  <2> QED
    BY <1>6, <1>7, <1>14, <1>15, <1>16, <2>1, SumEmpty DEF Bad
<1>17. CASE before # from
  <2>1. before \in later /\ before \notin Bad
    BY <1>4, <1>5, <1>8, <1>17, <1>11 DEF later
  <2>2. SumFunctionOnSet(f, below(before)) = total(before)
    BY <2>1 DEF Bad
  <2>3. total(before) \in Int
    BY <2>2, <1>13, SumRemove
  <2> QED
    BY <1>6, <1>7, <1>14, <1>15, <1>17, <2>2, <2>3 DEF Bad
<1> QED
  BY <1>16, <1>17

(* A simulation counts every swap between its first and its last state, and
   those on a state in between a second time. *)
THEOREM EverySwapIsCounted == Spec => []FeesCountEverySwap
<1>1. ASSUME TestInv, run.at = "verdict.md"
      PROVE  LET last == Tests!Max(run.states)
                 within == {s \in Tests!Earning(run.mode) : s[2] <= last}
             IN run.fees = IF Tests!Cardinality(run.states) < 2 THEN 0
                           ELSE Tests!Cardinality(within)
                                + Tests!Cardinality({s \in within : s[2] \in run.states \ {run.from, last}})
  <2> DEFINE states == run.states
             later == states \ {run.from}
             E == EarningOf(run.swaps, run.mode)
             last == Tests!Max(states)
  <2>1. /\ run \in Runs /\ run.from <= run.to /\ states = StatesOf(run.from, run.to)
        /\ run.fees = FeesOf(run.swaps, states, run.from, run.mode)
        /\ \A s \in run.swaps : run.from <= s[2]
    BY <1>1, IdleIsNoRun DEF TestInv, RunTyped
  <2>2. /\ run.from \in 0..Horizon /\ run.to \in 0..Horizon /\ Horizon \in Nat
        /\ run.from \in Nat /\ run.to \in Nat
        /\ E \in SUBSET SwapSet /\ \A s \in E : run.from <= s[2]
    <3>1. /\ run.from \in 0..Horizon /\ run.to \in 0..Horizon /\ Horizon \in Nat
          /\ run.swaps \in SUBSET SwapSet
      BY <2>1, WindowIs DEF Runs
    <3>2. run.from \in Nat /\ run.to \in Nat
      BY <3>1
    <3>3. E \in SUBSET run.swaps
      BY DEF EarningOf
    <3> HIDE DEF E
    <3> QED
      BY <2>1, <3>1, <3>2, <3>3
  <2>3. IsFiniteSet(states) /\ states \in SUBSET Nat /\ \A t \in states : run.from <= t
    <3>1. IsFiniteSet(0..Horizon)
      BY <2>2, FS_Interval
    <3>2. states \in SUBSET (0..Horizon) /\ \A t \in states : run.from <= t
      BY <2>1, <2>2 DEF StatesOf
    <3> QED
      <4>1. states \in SUBSET Nat
        BY <2>2, <3>2
      <4>2. IsFiniteSet(states)
        BY <3>1, <3>2, FS_Subset
      <4> QED
        BY <3>2, <4>1, <4>2
  <2>4. run.fees = SumFunctionOnSet(FeeOf(E, later), later)
    <3>1. FeeOf(E, later) = [t \in later |-> Cardinality({s \in E : t - StateStep <= s[2] /\ s[2] <= t})]
      BY DEF FeeOf, Fee
    <3> QED
      BY <2>1, <3>1 DEF FeesOf
  <2>5. Tests!Earning(run.mode) = E
    BY DEF Tests!Earning, EarningOf
  <2> HIDE DEF states, E
  <2>6. CASE Cardinality(states) < 2
    <3>1. later = {}
      <4>1. CASE run.from \in states
        <5>1. IsFiniteSet(later) /\ Cardinality(later) = Cardinality(states) - 1
          BY <2>3, <4>1, FS_RemoveElement
        <5>2. Cardinality(states) \in Nat /\ Cardinality(later) \in Nat
          BY <2>3, <5>1, FS_CardinalityType
        <5>3. Cardinality(later) = 0
          BY <2>6, <5>1, <5>2
        <5> QED
          BY <5>1, <5>3, FS_EmptySet
      <4>2. CASE run.from \notin states
        <5>1. ASSUME NEW t \in states PROVE FALSE
          <6>1. (run.from - run.from) % StateStep = 0 /\ run.from <= run.to - 1
            BY <2>1, <2>2, <5>1, WindowIs DEF StatesOf
          <6> QED
            BY <2>1, <2>2, <4>2, <6>1 DEF StatesOf
        <5> QED
          BY <5>1
      <4> QED
        BY <4>1, <4>2
    <3> QED
      BY <2>4, <2>6, <3>1, SumEmpty, SameCardinality DEF states
  <2>7. CASE ~(Cardinality(states) < 2)
    <3>1. states # {}
      BY <2>7, FS_EmptySet
    <3>2. \E x \in states : \A y \in states : y <= x
      BY <2>3, <3>1, LeastIn
    <3>3. last \in states /\ \A y \in states : y <= last
      <4>1. last = CHOOSE x \in states : \A y \in states : x >= y
        BY DEF Tests!Max
      <4>2. \E x \in states : \A y \in states : x >= y
        BY <2>3, <3>2
      <4>3. last \in states /\ \A y \in states : last >= y
        BY <4>1, <4>2
      <4> QED
        BY <2>3, <4>3
    <3> HIDE DEF last
    <3>4. last # run.from
      <4>1. ASSUME last = run.from PROVE FALSE
        <5>1. \A t \in states : t = run.from
          BY <2>2, <2>3, <3>3, <4>1
        <5>2. states = {run.from}
          BY <3>1, <5>1
        <5>3. Cardinality(states) = 1
          BY <5>2, FS_Singleton, Zenon
        <5> QED
          BY <2>7, <5>3
      <4> QED
        BY <4>1
    <3>5. {x \in later : x <= last} = later
      BY <3>3
    <3>6. run.fees = Cardinality(UpTo(E, last)) + Cardinality(Inside(E, states, run.from, last))
      BY <2>1, <2>2, <2>4, <3>3, <3>4, <3>5, IntervalsAddUp DEF Total
    <3> DEFINE within == {s \in E : s[2] <= last}
               mid == {s \in within : s[2] \in states \ {run.from, last}}
    <3>7. within = UpTo(E, last)
      BY DEF UpTo
    <3>8. mid = Inside(E, states, run.from, last)
      <4>1. \A t \in states : t \in Nat /\ run.from <= t /\ t <= last
        BY <2>3, <3>3
      <4>2. last \in Nat
        BY <2>3, <3>3
      <4>3. ASSUME NEW s \in E
            PROVE  (s[2] <= last /\ s[2] \in states \ {run.from, last})
                     <=> (s[2] \in states /\ run.from < s[2] /\ s[2] < last)
        BY <2>2, <4>1, <4>2
      <4> QED
        BY <4>3 DEF Inside
    <3>9. run.fees = Tests!Cardinality(within) + Tests!Cardinality(mid)
      BY <3>6, <3>7, <3>8, SameCardinality
    <3> QED
      BY <2>5, <2>7, <3>9, SameCardinality DEF states, last
  <2> QED
    BY <2>6, <2>7
<1>2. TestInv => FeesCountEverySwap
  BY <1>1 DEF FeesCountEverySwap, Tests!FeesCountEverySwap
<1> QED
  BY <1>2, TestAlways, PTL

-----------------------------------------------------------------------------
(* AuditLog.  Events are appended in their order; a rotation that has not
   failed leaves a hole, into which it moves the next file. *)
LogInv ==
  /\ Logs!AuditKeepsOrder
  /\ events \in 0..MaxEvents
  /\ \A k \in DOMAIN written : written[k] \in 1..events
  /\ written \in Seq(Nat)
  /\ DOMAIN dir \subseteq 0..MaxFiles
  /\ dir = [n \in DOMAIN dir |-> dir[n]]
  /\ \A n \in DOMAIN dir : dir[n] \in Seq(Nat)
  /\ handle \in {"open", "closed", "none"} /\ rotation \in 0..(MaxFiles + 1)
  /\ handle = "open" => 0 \in DOMAIN dir /\ ~closed
  /\ rotation # 0 => handle = "closed" /\ ~closed
  /\ rotation \in 1..MaxFiles => 0 \in DOMAIN dir
  /\ moved /\ rotation \in 2..MaxFiles => MaxFiles - rotation + 1 \notin DOMAIN dir

(* Nothing that the order of the records is about. *)
LEMMA LogStays ==
  ASSUME LogInv, UNCHANGED <<dir, events, written>>, moved' => moved,
         handle' \in {"open", "closed", "none"}, rotation' \in 0..(MaxFiles + 1),
         handle' = "open" => 0 \in DOMAIN dir /\ ~closed',
         rotation' # 0 => handle' = "closed" /\ ~closed',
         rotation' \in 1..MaxFiles => 0 \in DOMAIN dir,
         moved' /\ rotation' \in 2..MaxFiles => MaxFiles - rotation' + 1 \notin DOMAIN dir
  PROVE  LogInv'
<1>1. Logs!AuditKeepsOrder'
  BY DEF LogInv, Logs!AuditKeepsOrder, Logs!Kept
<1> QED
  BY <1>1 DEF LogInv

(* A file gets the next number: it takes the place of the oldest one, or that
   of none if no rename has failed. *)
LEMMA MovedKeepsOrder ==
  ASSUME LogInv, NEW from \in DOMAIN dir, from \in 0..(MaxFiles - 1),
         dir' = Logs!Moved(dir, from, from + 1), UNCHANGED <<written, events, moved>>,
         moved => from + 1 = MaxFiles \/ from + 1 \notin DOMAIN dir
  PROVE  /\ Logs!AuditKeepsOrder'
         /\ DOMAIN dir' = (DOMAIN dir \ {from}) \cup {from + 1}
         /\ dir' = [n \in DOMAIN dir' |-> dir'[n]]
         /\ \A n \in DOMAIN dir' : dir'[n] \in Seq(Nat)
<1> DEFINE origin(n) == IF n = from + 1 THEN from ELSE n
<1>1. /\ DOMAIN dir' = (DOMAIN dir \ {from}) \cup {from + 1}
      /\ dir' = [n \in DOMAIN dir' |-> dir'[n]]
  BY DEF Logs!Moved
<1>2. MaxFiles \in Nat \ {0} /\ \A n \in DOMAIN dir : n \in Nat /\ n <= MaxFiles
  BY AuditAssumption DEF LogInv
<1>3. ASSUME NEW n \in DOMAIN dir'
      PROVE  n \in Nat /\ origin(n) \in DOMAIN dir /\ dir'[n] = dir[origin(n)] /\ n <= MaxFiles
  BY <1>1, <1>2, <1>3 DEF Logs!Moved
<1>4. ASSUME NEW n \in DOMAIN dir', NEW m \in DOMAIN dir', n > m
      PROVE  origin(n) > origin(m)
  <2>1. n # from /\ m # from
    BY <1>1, <1>2
  <2> QED
    BY <1>2, <1>3, <1>4, <2>1
<1>5. ASSUME NEW n \in DOMAIN dir', NEW m \in DOMAIN dir',
             NEW i \in DOMAIN dir'[n], NEW j \in DOMAIN dir'[m], n > m \/ (n = m /\ i < j)
      PROVE  dir'[n][i] < dir'[m][j]
  <2>1. /\ origin(n) \in DOMAIN dir /\ dir'[n] = dir[origin(n)]
        /\ origin(m) \in DOMAIN dir /\ dir'[m] = dir[origin(m)]
    BY <1>3
  <2>2. origin(n) > origin(m) \/ (origin(n) = origin(m) /\ i < j)
    BY <1>4, <1>5
  <2> HIDE DEF origin
  <2> QED
    BY <2>1, <2>2 DEF LogInv, Logs!AuditKeepsOrder
<1>6. ASSUME NEW n \in DOMAIN dir', NEW i \in DOMAIN dir'[n]
      PROVE  \E k \in DOMAIN written' : written'[k] = dir'[n][i]
  <2>1. origin(n) \in DOMAIN dir /\ dir'[n] = dir[origin(n)]
    BY <1>3
  <2> HIDE DEF origin
  <2> QED
    BY <2>1 DEF LogInv, Logs!AuditKeepsOrder
<1>7. ASSUME moved', NEW k \in DOMAIN written', NEW n \in DOMAIN dir', NEW i \in DOMAIN dir'[n],
             dir'[n][i] <= written'[k]
      PROVE  Logs!Kept(written[k])'
  <2>1. /\ origin(n) \in DOMAIN dir /\ dir'[n] = dir[origin(n)] /\ n \in Nat /\ n <= MaxFiles
    BY <1>3
  <2>2. i \in DOMAIN dir[origin(n)] /\ dir[origin(n)][i] <= written[k] /\ k \in DOMAIN written
    BY <1>7, <2>1
  <2>3. Logs!Kept(written[k])
    <3> HIDE DEF origin
    <3> QED
      BY <1>7, <2>1, <2>2 DEF LogInv, Logs!AuditKeepsOrder
  <2>4. PICK m \in DOMAIN dir : \E j \in DOMAIN dir[m] : dir[m][j] = written[k]
    BY <2>3 DEF Logs!Kept
  <2>5. PICK j \in DOMAIN dir[m] : dir[m][j] = written[k]
    BY <2>4
  <2>6. CASE m = from
    <3>1. from + 1 \in DOMAIN dir' /\ dir'[from + 1] = dir[m]
      BY <1>1, <1>3, <2>6
    <3> QED
      BY <2>5, <3>1 DEF Logs!Kept
  <2>7. CASE m # from /\ m # from + 1
    <3>1. m \in DOMAIN dir' /\ dir'[m] = dir[m]
      BY <1>1, <1>3, <2>7
    <3> QED
      BY <2>5, <3>1 DEF Logs!Kept
  <2>8. CASE m = from + 1
    <3>1. m = MaxFiles
      BY <1>7, <2>8
    <3>2. origin(n) < m
      BY <1>1, <1>2, <2>1, <2>8, <3>1
    <3>3. dir[m][j] < dir[origin(n)][i]
      <4> HIDE DEF origin
      <4>1. m > origin(n)
        BY <1>2, <2>1, <3>2
      <4> QED
        BY <2>1, <2>2, <2>5, <4>1 DEF LogInv, Logs!AuditKeepsOrder
    <3>4. dir[m][j] \in Nat /\ dir[origin(n)][i] \in Nat
      <4> HIDE DEF origin
      <4>1. dir[m] \in Seq(Nat) /\ dir[origin(n)] \in Seq(Nat)
        BY <2>1 DEF LogInv
      <4> QED
        BY <4>1, <2>2, <2>5
    <3> QED
      BY <2>2, <2>5, <3>3, <3>4
  <2> QED
    BY <2>6, <2>7, <2>8
<1>8. Logs!AuditKeepsOrder'
  BY <1>5, <1>6, <1>7 DEF Logs!AuditKeepsOrder
<1>9. \A n \in DOMAIN dir' : dir'[n] \in Seq(Nat)
  <2>1. ASSUME NEW n \in DOMAIN dir' PROVE dir'[n] \in Seq(Nat)
    BY <1>3 DEF LogInv
  <2> QED
    BY <2>1
<1> QED
  BY <1>1, <1>8, <1>9

(* Opening a log leaves what is in the files. *)
LEMMA OpenKeepsOrder ==
  ASSUME LogInv, dir' = Logs!OpenForAppend(dir), UNCHANGED <<written, events, moved>>,
         handle' = "open", ~closed', rotation' = 0
  PROVE  LogInv'
<1>1. /\ DOMAIN dir' = DOMAIN dir \cup {0} /\ dir' = [n \in DOMAIN dir' |-> dir'[n]]
      /\ \A n \in DOMAIN dir : dir'[n] = dir[n]
      /\ \A n \in DOMAIN dir' \ DOMAIN dir : dir'[n] = <<>>
  BY DEF Logs!OpenForAppend
<1>2. <<>> \in Seq(Nat) /\ DOMAIN <<>> = {}
  OBVIOUS
<1>3. \A n \in DOMAIN dir' : \A i \in DOMAIN dir'[n] : n \in DOMAIN dir /\ dir'[n] = dir[n]
  BY <1>1, <1>2
<1>4. \A e : Logs!Kept(e) => Logs!Kept(e)'
  BY <1>1 DEF Logs!Kept
<1>5. Logs!AuditKeepsOrder'
  BY <1>3, <1>4 DEF LogInv, Logs!AuditKeepsOrder
<1>6. \A n \in DOMAIN dir' : dir'[n] \in Seq(Nat)
  BY <1>1, <1>2 DEF LogInv
<1>7. DOMAIN dir' \subseteq 0..MaxFiles /\ 0 \in 0..(MaxFiles + 1)
  BY <1>1, AuditAssumption DEF LogInv
<1> QED
  BY <1>1, <1>5, <1>6, <1>7 DEF LogInv

LEMMA WriteKeepsOrder ==
  ASSUME LogInv, rotation = 0, handle = "open", events < MaxEvents, events' = events + 1,
         dir' = [dir EXCEPT ![0] = Append(@, events')], written' = Append(written, events'),
         UNCHANGED <<handle, rotation, closed, moved>>
  PROVE  LogInv'
<1> DEFINE e == events + 1
<1>1. /\ 0 \in DOMAIN dir /\ DOMAIN dir' = DOMAIN dir /\ dir' = [n \in DOMAIN dir' |-> dir'[n]]
      /\ dir'[0] = Append(dir[0], e) /\ \A n \in DOMAIN dir \ {0} : dir'[n] = dir[n]
  BY DEF LogInv
<1>2. /\ events \in Nat /\ e \in Nat /\ events < e /\ e \in 0..MaxEvents /\ events' = e
  BY AuditAssumption DEF LogInv
<1>3. /\ dir[0] \in Seq(Nat) /\ written \in Seq(Nat)
      /\ \A k \in DOMAIN written : written[k] \in Nat /\ written[k] <= events
  BY <1>1, <1>2 DEF LogInv
<1> HIDE DEF e
<1>4. /\ written' \in Seq(Nat)
      /\ \A k \in DOMAIN written : k \in DOMAIN written' /\ written'[k] = written[k]
      /\ \A k \in DOMAIN written' \ DOMAIN written : written'[k] = e
      /\ \E k \in DOMAIN written' : written'[k] = e
  <2>1. written' = Append(written, e)
    BY <1>2
  <2>2. written'[Len(written) + 1] = e /\ Len(written) + 1 \in DOMAIN written'
    BY <1>2, <1>3, <2>1
  <2>3. /\ written' \in Seq(Nat)
        /\ \A k \in DOMAIN written : k \in DOMAIN written' /\ written'[k] = written[k]
        /\ \A k \in DOMAIN written' \ DOMAIN written : written'[k] = e
    BY <1>2, <1>3, <2>1
  <2> QED
    BY <2>2, <2>3
<1>5. /\ dir'[0] \in Seq(Nat)
      /\ \A i \in DOMAIN dir[0] : i \in DOMAIN dir'[0] /\ dir'[0][i] = dir[0][i]
      /\ \A i \in DOMAIN dir'[0] \ DOMAIN dir[0] : dir'[0][i] = e /\ i = Len(dir[0]) + 1
      /\ \A i \in DOMAIN dir'[0] : i \in Nat /\ i <= Len(dir[0]) + 1
      /\ Len(dir[0]) + 1 \in DOMAIN dir'[0] /\ dir'[0][Len(dir[0]) + 1] = e /\ Len(dir[0]) \in Nat
  BY <1>1, <1>2, <1>3
<1>6. \A n \in DOMAIN dir' : \A i \in DOMAIN dir'[n] :
        \/ i \in DOMAIN dir[n] /\ dir'[n][i] = dir[n][i]
        \/ n = 0 /\ i = Len(dir[0]) + 1 /\ dir'[n][i] = e
  BY <1>1, <1>5
<1>7. \A n \in DOMAIN dir : \A i \in DOMAIN dir[n] : dir[n][i] < e
  <2>1. ASSUME NEW n \in DOMAIN dir, NEW i \in DOMAIN dir[n] PROVE dir[n][i] < e
    <3>1. PICK k \in DOMAIN written : written[k] = dir[n][i]
      BY DEF LogInv, Logs!AuditKeepsOrder
    <3> QED
      BY <1>2, <1>3, <3>1
  <2> QED
    BY <2>1
<1>8. ASSUME NEW n \in DOMAIN dir', NEW m \in DOMAIN dir',
             NEW i \in DOMAIN dir'[n], NEW j \in DOMAIN dir'[m], n > m \/ (n = m /\ i < j)
      PROVE  dir'[n][i] < dir'[m][j]
  <2>1. n \in Nat /\ m \in Nat
    BY <1>1, AuditAssumption DEF LogInv
  <2>2. CASE j \in DOMAIN dir[m] /\ dir'[m][j] = dir[m][j]
    <3>1. i \in DOMAIN dir[n] /\ dir'[n][i] = dir[n][i]
      <4>1. ASSUME n = 0, i = Len(dir[0]) + 1 PROVE FALSE
        <5>1. m = 0 /\ i < j
          BY <1>8, <2>1, <4>1
        <5>2. j \in 1..Len(dir[0])
          BY <1>3, <2>2, <5>1
        <5> QED
          BY <1>5, <4>1, <5>1, <5>2
      <4> QED
        BY <1>6, <4>1
    <3> QED
      BY <1>1, <1>8, <2>2, <3>1 DEF LogInv, Logs!AuditKeepsOrder
  <2>3. CASE m = 0 /\ j = Len(dir[0]) + 1 /\ dir'[m][j] = e
    <3>1. i \in DOMAIN dir[n] /\ dir'[n][i] = dir[n][i]
      <4>1. ASSUME n = 0, i = Len(dir[0]) + 1 PROVE FALSE
        BY <1>5, <1>8, <2>3, <4>1
      <4> QED
        BY <1>6, <4>1
    <3> QED
      BY <1>1, <1>7, <2>3, <3>1
  <2> QED
    BY <1>6, <2>2, <2>3
<1>9. ASSUME NEW n \in DOMAIN dir', NEW i \in DOMAIN dir'[n]
      PROVE  \E k \in DOMAIN written' : written'[k] = dir'[n][i]
  <2>1. CASE i \in DOMAIN dir[n] /\ dir'[n][i] = dir[n][i]
    <3>1. PICK k \in DOMAIN written : written[k] = dir[n][i]
      BY <1>1, <2>1 DEF LogInv, Logs!AuditKeepsOrder
    <3> QED
      BY <1>4, <2>1, <3>1
  <2>2. CASE dir'[n][i] = e
    BY <1>4, <2>2
  <2> QED
    BY <1>6, <2>1, <2>2
<1>10. ASSUME moved', NEW k \in DOMAIN written', NEW n \in DOMAIN dir', NEW i \in DOMAIN dir'[n],
              dir'[n][i] <= written'[k]
       PROVE  \E m \in DOMAIN dir' : \E j \in DOMAIN dir'[m] : dir'[m][j] = written'[k]
  <2>1. CASE written'[k] = e
    BY <1>1, <1>5, <2>1
  <2>2. CASE written'[k] # e
    <3>1. k \in DOMAIN written /\ written'[k] = written[k]
      BY <1>4, <2>2
    <3>2. i \in DOMAIN dir[n] /\ dir'[n][i] = dir[n][i]
      <4>1. dir'[n][i] # e
        <5>1. written[k] \in Nat /\ written[k] <= events
          BY <1>3, <3>1
        <5> QED
          BY <1>2, <1>10, <3>1, <5>1
      <4>2. \/ i \in DOMAIN dir[n] /\ dir'[n][i] = dir[n][i]
            \/ dir'[n][i] = e
        BY <1>6, <1>10
      <4> QED
        BY <4>1, <4>2, Zenon
    <3>3. Logs!Kept(written[k])
      BY <1>1, <1>10, <3>1, <3>2 DEF LogInv, Logs!AuditKeepsOrder
    <3>4. PICK m \in DOMAIN dir : \E j \in DOMAIN dir[m] : dir[m][j] = written[k]
      BY <3>3 DEF Logs!Kept
    <3>5. PICK j \in DOMAIN dir[m] : dir[m][j] = written[k]
      BY <3>4
    <3>6. m \in DOMAIN dir' /\ j \in DOMAIN dir'[m] /\ dir'[m][j] = dir[m][j]
      BY <1>1, <1>5
    <3> QED
      BY <3>1, <3>5, <3>6
  <2> QED
    BY <2>1, <2>2
<1>11. Logs!AuditKeepsOrder'
  BY <1>8, <1>9, <1>10 DEF Logs!AuditKeepsOrder, Logs!Kept
<1>12. \A k \in DOMAIN written' : written'[k] \in 1..events'
  BY <1>2, <1>3, <1>4 DEF LogInv
<1>13. \A n \in DOMAIN dir' : dir'[n] \in Seq(Nat)
  BY <1>1, <1>5 DEF LogInv
<1>14. DOMAIN dir' \subseteq 0..MaxFiles /\ 0 \in DOMAIN dir' /\ 0 \in 0..(MaxFiles + 1) /\ ~(0 \in 1..MaxFiles)
  BY <1>1 DEF LogInv
<1> QED
  BY <1>1, <1>2, <1>4, <1>11, <1>12, <1>13, <1>14 DEF LogInv

LEMMA LogIs ==
  ASSUME LogInv
  PROVE  /\ MaxFiles \in Nat \ {0} /\ handle \in {"open", "closed", "none"}
         /\ rotation \in 0..(MaxFiles + 1) /\ rotation \in Nat
         /\ handle # "closed" => rotation = 0
  BY AuditAssumption DEF LogInv

LEMMA HandleEventKeeps ==
  ASSUME LogInv, Logs!HandleEvent
  PROVE  LogInv'
<1>1. /\ rotation = 0 /\ events < MaxEvents /\ events' = events + 1
      /\ UNCHANGED <<handle, rotation, closed, moved>>
      /\ \/ /\ handle = "open"
            /\ dir' = [dir EXCEPT ![0] = Append(@, events')] /\ written' = Append(written, events')
         \/ UNCHANGED <<dir, written>>
  BY DEF Logs!HandleEvent
<1>2. CASE UNCHANGED <<dir, written>>
  <2>1. Logs!AuditKeepsOrder'
    BY <1>1, <1>2 DEF LogInv, Logs!AuditKeepsOrder, Logs!Kept
  <2>2. events' \in 0..MaxEvents /\ \A k \in DOMAIN written' : written'[k] \in 1..events'
    <3>1. events \in Nat /\ MaxEvents \in Nat
      BY AuditAssumption DEF LogInv
    <3> QED
      BY <1>1, <1>2, <3>1 DEF LogInv
  <2> QED
    BY <1>1, <1>2, <2>1, <2>2 DEF LogInv
<1> QED
  BY <1>1, <1>2, WriteKeepsOrder

LEMMA RotateShiftKeeps ==
  ASSUME LogInv, Logs!RotateShift
  PROVE  LogInv'
<1>1. /\ rotation \in 1..(MaxFiles - 1) /\ rotation' = rotation + 1
      /\ UNCHANGED <<handle, closed, events, written>>
  BY DEF Logs!RotateShift, Logs!Shifted
<1>2. PICK n : n = MaxFiles - rotation
  OBVIOUS
<1>3. \/ n \in DOMAIN dir /\ dir' = Logs!Moved(dir, n, n + 1) /\ UNCHANGED moved
      \/ UNCHANGED dir /\ moved' = (moved /\ n \notin DOMAIN dir)
  BY <1>1, <1>2 DEF Logs!RotateShift, Logs!Shifted
<1>4. /\ n \in 1..(MaxFiles - 1) /\ MaxFiles - rotation' + 1 = n /\ n + 1 \in 2..MaxFiles
      /\ rotation' \in 0..(MaxFiles + 1) /\ rotation # 0 /\ rotation \in 1..MaxFiles
      /\ n # 0 /\ n + 1 # 0 /\ n + 1 # n /\ MaxFiles \in Nat /\ n \in 0..(MaxFiles - 1)
  BY <1>1, <1>2, LogIs
<1>5. 0 \in DOMAIN dir /\ handle = "closed" /\ ~closed
  BY <1>4 DEF LogInv
<1>6. CASE n \in DOMAIN dir /\ dir' = Logs!Moved(dir, n, n + 1) /\ UNCHANGED moved
  <2>1. moved => n + 1 = MaxFiles \/ n + 1 \notin DOMAIN dir
    <3>1. CASE rotation = 1
      BY <1>2, <1>4, <3>1
    <3>2. CASE rotation # 1
      <4>1. rotation \in 2..MaxFiles /\ MaxFiles - rotation + 1 = n + 1
        BY <1>1, <1>2, <1>4, <3>2
      <4> QED
        BY <4>1 DEF LogInv
    <3> QED
      BY <3>1, <3>2
  <2>2. /\ Logs!AuditKeepsOrder' /\ DOMAIN dir' = (DOMAIN dir \ {n}) \cup {n + 1}
        /\ dir' = [m \in DOMAIN dir' |-> dir'[m]] /\ \A m \in DOMAIN dir' : dir'[m] \in Seq(Nat)
    <3>1. n \in DOMAIN dir /\ n \in 0..(MaxFiles - 1)
      BY <1>4, <1>6
    <3>2. dir' = Logs!Moved(dir, n, n + 1) /\ UNCHANGED <<written, events, moved>>
      BY <1>1, <1>6
    <3> QED
      BY <2>1, <3>1, <3>2, MovedKeepsOrder, Zenon
  <2>3. DOMAIN dir' \subseteq 0..MaxFiles /\ 0 \in DOMAIN dir' /\ n \notin DOMAIN dir'
    <3>1. DOMAIN dir \subseteq 0..MaxFiles
      BY DEF LogInv
    <3>2. n + 1 \in 0..MaxFiles
      BY <1>4
    <3>3. DOMAIN dir' = (DOMAIN dir \ {n}) \cup {n + 1}
      BY <2>2
    <3> QED
      BY <1>4, <1>5, <3>1, <3>2, <3>3
  <2>4. events \in 0..MaxEvents /\ written \in Seq(Nat) /\ \A k \in DOMAIN written : written[k] \in 1..events
    BY DEF LogInv
  <2> QED
    BY <1>1, <1>4, <1>5, <2>2, <2>3, <2>4 DEF LogInv
<1>7. CASE UNCHANGED dir /\ moved' = (moved /\ n \notin DOMAIN dir)
  BY <1>1, <1>4, <1>5, <1>7, LogStays
<1> QED
  BY <1>3, <1>6, <1>7

LEMMA RotateCurrentKeeps ==
  ASSUME LogInv, Logs!RotateCurrent
  PROVE  LogInv'
<1>1. /\ rotation = MaxFiles /\ UNCHANGED <<handle, closed, events, written, moved>>
      /\ \/ dir' = Logs!Moved(dir, 0, 0 + 1) /\ rotation' = MaxFiles + 1
         \/ UNCHANGED dir /\ rotation' = 0
  BY DEF Logs!RotateCurrent
<1>2. MaxFiles \in Nat \ {0} /\ rotation # 0 /\ rotation \in 1..MaxFiles /\ 0 \in 0..(MaxFiles - 1)
  BY <1>1, LogIs
<1>3. 0 \in DOMAIN dir /\ handle = "closed" /\ ~closed
  BY <1>2 DEF LogInv
<1>4. CASE dir' = Logs!Moved(dir, 0, 0 + 1) /\ rotation' = MaxFiles + 1
  <2>1. moved => 0 + 1 = MaxFiles \/ 0 + 1 \notin DOMAIN dir
    <3>1. CASE MaxFiles = 1
      BY <3>1
    <3>2. CASE MaxFiles # 1
      <4>1. rotation \in 2..MaxFiles /\ MaxFiles - rotation + 1 = 0 + 1
        BY <1>1, <1>2, <3>2
      <4> QED
        BY <4>1 DEF LogInv
    <3> QED
      BY <3>1, <3>2
  <2>2. /\ Logs!AuditKeepsOrder' /\ DOMAIN dir' = (DOMAIN dir \ {0}) \cup {0 + 1}
        /\ dir' = [m \in DOMAIN dir' |-> dir'[m]] /\ \A m \in DOMAIN dir' : dir'[m] \in Seq(Nat)
    BY <1>1, <1>2, <1>3, <1>4, <2>1, MovedKeepsOrder
  <2>3. DOMAIN dir' \subseteq 0..MaxFiles
    BY <1>2, <2>2 DEF LogInv
  <2>4. rotation' \in 0..(MaxFiles + 1) /\ rotation' \notin 1..MaxFiles /\ rotation' \notin 2..MaxFiles
    BY <1>2, <1>4
  <2>5. events \in 0..MaxEvents /\ written \in Seq(Nat) /\ \A k \in DOMAIN written : written[k] \in 1..events
    BY DEF LogInv
  <2> QED
    BY <1>1, <1>3, <2>2, <2>3, <2>4, <2>5 DEF LogInv
<1>5. CASE UNCHANGED dir /\ rotation' = 0
  BY <1>1, <1>2, <1>3, <1>5, LogStays
<1> QED
  BY <1>1, <1>4, <1>5

LEMMA LogStep ==
  ASSUME LogInv, [Next]_vars
  PROVE  LogInv'
<1>1. CASE UNCHANGED auditVars
  BY <1>1, LogIs, LogStays DEF auditVars, LogInv
<1>2. ASSUME Logs!NewAuditLog PROVE LogInv'
  <2>1. rotation = 0
    BY <1>2, LogIs DEF Logs!NewAuditLog
  <2> QED
    BY <1>2, <2>1, OpenKeepsOrder DEF Logs!NewAuditLog
<1>3. ASSUME Logs!Close PROVE LogInv'
  BY <1>3, LogIs, LogStays DEF Logs!Close, LogInv
<1>4. ASSUME Logs!RotateStart PROVE LogInv'
  <2>1. /\ handle = "open" /\ rotation = 0 /\ rotation' = 1 /\ handle' = "closed"
        /\ UNCHANGED <<dir, closed, events, written, moved>>
    BY <1>4 DEF Logs!RotateStart
  <2>2. 0 \in DOMAIN dir /\ ~closed
    BY <2>1 DEF LogInv
  <2>3. 1 \in 0..(MaxFiles + 1) /\ 1 \notin 2..MaxFiles
    BY LogIs
  <2> QED
    BY <2>1, <2>2, <2>3, LogStays
<1>5. ASSUME Logs!RotateReopen PROVE LogInv'
  <2>1. /\ rotation = MaxFiles + 1 /\ rotation' = 0 /\ UNCHANGED <<closed, events, written, moved>>
        /\ (dir' = Logs!OpenForAppend(dir) /\ handle' = "open") \/ UNCHANGED <<dir, handle>>
    BY <1>5 DEF Logs!RotateReopen
  <2>2. handle = "closed" /\ ~closed /\ 0 \in 0..(MaxFiles + 1) /\ 0 \notin 1..MaxFiles /\ 0 \notin 2..MaxFiles
    <3>1. rotation # 0 /\ MaxFiles \in Nat
      BY <2>1, LogIs
    <3> QED
      BY <3>1 DEF LogInv
  <2>3. CASE dir' = Logs!OpenForAppend(dir) /\ handle' = "open"
    BY <2>1, <2>2, <2>3, OpenKeepsOrder
  <2>4. CASE UNCHANGED <<dir, handle>>
    BY <2>1, <2>2, <2>4, LogStays
  <2> QED
    BY <2>1, <2>3, <2>4
<1>6. ASSUME Logs!Kill PROVE LogInv'
  BY <1>6, LogIs, LogStays DEF Logs!Kill
<1>7. Logs!Next \/ UNCHANGED auditVars
  BY StepOfParts
<1> QED
  BY <1>1, <1>2, <1>3, <1>4, <1>5, <1>6, <1>7, HandleEventKeeps, RotateShiftKeeps,
     RotateCurrentKeeps DEF Logs!Next

LEMMA LogInit == Init => LogInv
<1>1. SUFFICES ASSUME Logs!Init PROVE LogInv
  BY InitOfParts
<1>2. /\ DOMAIN dir = {} /\ DOMAIN written = {} /\ written \in Seq(Nat) /\ events = 0 /\ handle = "none"
      /\ rotation = 0 /\ ~closed /\ dir = [n \in DOMAIN dir |-> dir[n]]
  BY <1>1 DEF Logs!Init
<1>3. 0 \in 0..MaxEvents /\ 0 \in 0..(MaxFiles + 1) /\ 0 \notin 1..MaxFiles /\ 0 \notin 2..MaxFiles
  BY AuditAssumption
<1>4. Logs!AuditKeepsOrder
  BY <1>2 DEF Logs!AuditKeepsOrder
<1> QED
  BY <1>2, <1>3, <1>4 DEF LogInv

LEMMA LogAlways == Spec => []LogInv
  BY LogInit, LogStep, PTL DEF Spec

(* Cut off at any step of a rotation, the files hold the events in their order,
   and all of them from some event on unless a rename has failed. *)
THEOREM AuditSound == Spec => []AuditKeepsOrder
<1>1. LogInv => AuditKeepsOrder
  BY DEF LogInv, AuditKeepsOrder
<1> QED
  BY <1>1, LogAlways, PTL

-----------------------------------------------------------------------------
(* Sources.  What is selected of a sequence, by the ranks of the indices. *)
Rank(I, i) == Cardinality({j \in I : j <= i})

LEMMA SameCardinalityOfSources == \A S : Asks!Cardinality(S) = Cardinality(S)
  BY DEF Cardinality, Asks!Cardinality

LEMMA RanksAreAll ==
  ASSUME NEW I, IsFiniteSet(I), I \in SUBSET Nat, NEW k \in 1..Cardinality(I)
  PROVE  \E i \in I : Rank(I, i) = k
<1> DEFINE f == [i \in I |-> Rank(I, i)]
           T == 1..Cardinality(I)
<1>1. Cardinality(I) \in Nat /\ IsFiniteSet(T) /\ Cardinality(T) = Cardinality(I)
  <2>1. Cardinality(I) \in Nat
    BY FS_CardinalityType
  <2> QED
    BY <2>1, FS_Interval
<1>2. ASSUME NEW i \in I
      PROVE  /\ IsFiniteSet({j \in I : j <= i})
             /\ Rank(I, i) \in T
  <2>1. {j \in I : j <= i} \in SUBSET I /\ i \in {j \in I : j <= i}
    OBVIOUS
  <2>2. IsFiniteSet({j \in I : j <= i}) /\ Rank(I, i) <= Cardinality(I)
    BY <2>1, FS_Subset DEF Rank
  <2>3. Rank(I, i) \in Nat /\ Rank(I, i) # 0
    BY <2>1, <2>2, FS_CardinalityType, FS_EmptySet DEF Rank
  <2> QED
    BY <1>1, <2>2, <2>3
<1>3. ASSUME NEW i \in I, NEW j \in I, i < j PROVE Rank(I, i) # Rank(I, j)
  <2> DEFINE A == {x \in I : x <= i}
             B == {x \in I : x <= j}
  <2>1. A \in SUBSET B /\ j \in B /\ j \notin A
    <3>1. i \in Nat /\ \A x \in I : x \in Nat /\ j \in Nat
      OBVIOUS
    <3>2. (\A x \in I : x <= i => x <= j) /\ j <= j /\ ~(j <= i)
      BY <1>3, <3>1
    <3> QED
      BY <3>2
  <2>2. IsFiniteSet(B)
    BY <1>2
  <2> HIDE DEF A, B
  <2>3. Cardinality(B) = Cardinality(A) => A = B
    BY <2>1, <2>2, FS_Subset
  <2> QED
    BY <2>1, <2>3 DEF Rank, A, B
<1>4. f \in Injection(I, T)
  <2>1. f \in [I -> T]
    BY <1>2
  <2>2. ASSUME NEW i \in I, NEW j \in I, f[i] = f[j] PROVE i = j
    <3>1. Rank(I, i) = Rank(I, j)
      BY <2>2
    <3>2. i \in Nat /\ j \in Nat
      OBVIOUS
    <3> QED
      BY <1>3, <3>1, <3>2
  <2> HIDE DEF f, T
  <2> QED
    BY <2>1, <2>2 DEF Injection, IsInjective
<1>5. f \in Surjection(I, T)
  <2> HIDE DEF f, T
  <2> QED
    BY <1>1, <1>4, FS_Injection
<1>6. \E i \in I : f[i] = k
  <2>1. \A y \in T : \E i \in I : f[i] = y
    <3> HIDE DEF f, T
    <3> QED
      BY <1>5 DEF Surjection
  <2> QED
    BY <2>1
<1> QED
  BY <1>6

LEMMA OnlyIs ==
  ASSUME NEW S, NEW s \in Seq(S), NEW I \in SUBSET DOMAIN s
  PROVE  /\ Asks!Only(s, I) \in Seq(S) /\ Len(Asks!Only(s, I)) <= Len(s)
         /\ \A k \in DOMAIN Asks!Only(s, I) : \E i \in I : Asks!Only(s, I)[k] = s[i]
<1> DEFINE n == Cardinality(I)
           at(k) == Asks!Kth(I, k)
           o == [k \in 1..n |-> s[at(k)]]
<1>1. Asks!Only(s, I) = o
  <2>1. Asks!Cardinality(I) = n
    BY SameCardinalityOfSources
  <2> QED
    BY <2>1 DEF Asks!Only
<1>2. Len(s) \in Nat /\ DOMAIN s = 1..Len(s)
  OBVIOUS
<1>3. IsFiniteSet(I) /\ n \in Nat /\ n <= Len(s) /\ I \in SUBSET Nat
  <2>1. IsFiniteSet(1..Len(s)) /\ Cardinality(1..Len(s)) = Len(s)
    <3>1. 1 \in Int /\ Len(s) \in Int
      BY <1>2
    <3>2. /\ IsFiniteSet(1..Len(s))
          /\ Cardinality(1..Len(s)) = IF 1 > Len(s) THEN 0 ELSE Len(s) - 1 + 1
      BY <3>1, FS_Interval
    <3> QED
      BY <1>2, <3>2
  <2>2. IsFiniteSet(I) /\ n <= Len(s)
    BY <1>2, <2>1, FS_Subset
  <2> QED
    BY <1>2, <2>2, FS_CardinalityType
<1>4. ASSUME NEW k \in 1..n PROVE at(k) \in I /\ o[k] = s[at(k)]
  <2>1. \E i \in I : Rank(I, i) = k
    BY <1>3, RanksAreAll
  <2>2. at(k) = CHOOSE i \in I : Asks!Cardinality({j \in I : j <= i}) = k
    BY DEF Asks!Kth
  <2>3. \A i : Asks!Cardinality({j \in I : j <= i}) = Rank(I, i)
    BY SameCardinalityOfSources DEF Rank
  <2>4. at(k) \in I
    BY <2>1, <2>2, <2>3
  <2> QED
    BY <2>4
<1> HIDE DEF at, n
<1>5. \A k \in 1..n : \E i \in I : o[k] = s[i]
  BY <1>4
<1>6. \A k \in 1..n : o[k] \in S
  <2>1. ASSUME NEW k \in 1..n PROVE o[k] \in S
    <3>1. PICK i \in I : o[k] = s[i]
      BY <1>5
    <3> QED
      BY <1>2, <3>1
  <2> QED
    BY <2>1
<1>7. o \in [1..n -> S]
  BY <1>6
<1> HIDE DEF o
<1>8. o \in Seq(S) /\ Len(o) = n /\ DOMAIN o = 1..n
  BY <1>3, <1>7
<1> QED
  BY <1>1, <1>3, <1>5, <1>8

Trades == [time : Int, sane : BOOLEAN]

LEMMA TakeIs ==
  ASSUME NEW S, NEW s \in Seq(S), NEW n \in Nat \ {0}
  PROVE  /\ Asks!Take(s, n) \in Seq(S) /\ Len(Asks!Take(s, n)) <= n
         /\ \A k \in DOMAIN Asks!Take(s, n) : k \in DOMAIN s /\ Asks!Take(s, n)[k] = s[k]
<1>1. CASE Len(s) <= n
  BY <1>1 DEF Asks!Take
<1>2. CASE ~(Len(s) <= n)
  <2>1. Asks!Take(s, n) = SubSeq(s, 1, n) /\ n \in 1..Len(s)
    BY <1>2 DEF Asks!Take
  <2> QED
    BY <2>1
<1> QED
  BY <1>1, <1>2

LEMMA ReverseIs ==
  ASSUME NEW S, NEW s \in Seq(S)
  PROVE  Asks!Reverse(s) \in Seq(S)
<1>1. \A i \in 1..Len(s) : s[(Len(s) - i) + 1] \in S
  OBVIOUS
<1> QED
  BY <1>1 DEF Asks!Reverse

LEMMA WithinIs ==
  ASSUME NEW s \in Seq(Trades), NEW from \in Int, NEW to \in Int
  PROVE  /\ Asks!Within(s, from, to) \in Seq(Trades)
         /\ \A k \in DOMAIN Asks!Within(s, from, to) :
              from <= Asks!Within(s, from, to)[k].time /\ Asks!Within(s, from, to)[k].time <= to
<1> DEFINE I == {i \in DOMAIN s : from <= s[i].time /\ s[i].time <= to}
<1>1. I \in SUBSET DOMAIN s /\ Asks!Within(s, from, to) = Asks!Only(s, I)
  BY DEF Asks!Within
<1>2. \A i \in I : from <= s[i].time /\ s[i].time <= to
  OBVIOUS
<1> HIDE DEF I
<1> QED
  BY <1>1, <1>2, OnlyIs

LEMMA TimesOfIs ==
  ASSUME NEW s \in Seq(Trades)
  PROVE  /\ Len(Asks!TimesOf(s)) = Len(s) /\ DOMAIN Asks!TimesOf(s) = DOMAIN s
         /\ \A i \in DOMAIN s : Asks!TimesOf(s)[i] = s[i].time
  BY DEF Asks!TimesOf

LEMMA ParsedTimesOfIs ==
  ASSUME NEW s \in Seq(Trades)
  PROVE  /\ Len(Asks!ParsedTimesOf(s)) = Len(s) /\ DOMAIN Asks!ParsedTimesOf(s) = DOMAIN s
         /\ \A i \in DOMAIN s : Asks!ParsedTimesOf(s)[i] \in {s[i].time, 0}
  BY DEF Asks!ParsedTimesOf

LEMMA LimitIs ==
  ASSUME NEW limit \in Int, NEW default \in Nat \ {0}
  PROVE  Asks!Limit(limit, default) \in Nat \ {0} /\ (limit > 0 => Asks!Limit(limit, default) = limit)
  BY DEF Asks!Limit

(* A call of a service: an error unless it is up. *)
Replied(r, v) == r = (IF state = "up" THEN [ok |-> TRUE, value |-> v] ELSE [ok |-> FALSE, value |-> <<>>])

(* One that is decoded, from the body that is read. *)
Read(body) == IF state = "strange" THEN <<>> ELSE body

Accepted(r, v) ==
  r = (IF state \in {"up", "strange"} THEN [ok |-> TRUE, value |-> v] ELSE [ok |-> FALSE, value |-> <<>>])

SourceInv ==
  /\ Asks!TypeOK /\ SourcesAnswerHonestly
  /\ listed \in Seq(Kinds)
  /\ trades \in Seq(Trades)

(* What an answer has to be to keep to the request. *)
Honest(source, method, from, to, limit, r) ==
  /\ r.ok \in BOOLEAN
  /\ ~r.ok => r.value = <<>>
  /\ r.ok /\ ~(method = "swaps" /\ source = "geckoterminal") =>
       /\ state # "refused"
       /\ state = "garbled" => method = "health"
       /\ state = "status" => method = "swaps" /\ source = "solana"
       /\ state = "strange" => source # "subgraph"
  /\ method \in {"discover", "swaps"} /\ limit > 0 => Len(r.value) <= limit
  /\ method \in {"swaps", "prices"} =>
       \A i \in DOMAIN r.value :
         \/ from <= r.value[i] /\ r.value[i] <= to
         \/ source = "dexscreener" /\ method = "swaps"
         \/ source \in {"subgraph", "geckoterminal"} /\ r.value[i] = 0

LEMMA AnswerKeeps ==
  ASSUME SourceInv, NEW source, NEW method, NEW from, NEW to, NEW limit, NEW floor, NEW r,
         Asks!Ask(source, method, from, to, limit, floor, r), Honest(source, method, from, to, limit, r)
  PROVE  SourceInv'
<1>1. PICK a : a = [source |-> source, method |-> method, from |-> from, to |-> to,
                    limit |-> limit, floor |-> floor, service |-> state, ok |-> r.ok, value |-> r.value]
  OBVIOUS
<1>2. answer' = a /\ UNCHANGED <<state, listed, trades>>
  BY <1>1 DEF Asks!Ask
<1>3. /\ a.source = source /\ a.method = method /\ a.from = from /\ a.to = to /\ a.limit = limit
      /\ a.service = state /\ a.ok = r.ok /\ a.value = r.value
  BY <1>1
<1>4. Asks!TypeOK'
  BY <1>2, <1>3 DEF SourceInv, Asks!TypeOK, Honest
<1>5. Asks!OutagesAreErrors'
  BY <1>2, <1>3 DEF Asks!OutagesAreErrors, Honest
<1>6. Asks!AnswersKeepToTheRequest'
  BY <1>2, <1>3 DEF Asks!AnswersKeepToTheRequest, Honest
<1> QED
  BY <1>2, <1>4, <1>5, <1>6 DEF SourceInv, SourcesAnswerHonestly

(* A reply that keeps to the request, of an adapter that may have accepted a
   strange body or not. *)
LEMMA AcceptedIsHonest ==
  ASSUME NEW r, NEW v, NEW source, NEW method, NEW from \in Int, NEW to \in Int, NEW limit \in Int,
         Replied(r, v) \/ (Accepted(r, v) /\ source # "subgraph"),
         method \in {"discover", "swaps"} /\ limit > 0 => Len(v) <= limit,
         method \in {"swaps", "prices"} =>
           \A i \in DOMAIN v :
             \/ from <= v[i] /\ v[i] <= to
             \/ source = "dexscreener" /\ method = "swaps"
             \/ source \in {"subgraph", "geckoterminal"} /\ v[i] = 0
  PROVE  Honest(source, method, from, to, limit, r)
<1>1. CASE r = [ok |-> TRUE, value |-> v]
  <2>1. r.ok = TRUE /\ r.value = v
    BY <1>1
  <2>2. r # [ok |-> FALSE, value |-> <<>>]
    <3>1. [ok |-> FALSE, value |-> <<>>].ok = FALSE
      OBVIOUS
    <3> QED
      BY <2>1, <3>1
  <2>3. state = "up" \/ (state = "strange" /\ source # "subgraph")
    BY <2>2 DEF Replied, Accepted
  <2> QED
    BY <2>1, <2>3 DEF Honest
<1>2. CASE r = [ok |-> FALSE, value |-> <<>>]
  <2>1. r.ok = FALSE /\ r.value = <<>>
    BY <1>2
  <2>2. Len(r.value) = 0 /\ DOMAIN r.value = {}
    BY <2>1
  <2>3. limit > 0 => Len(r.value) <= limit
    BY <2>2
  <2> QED
    BY <2>1, <2>2, <2>3 DEF Honest
<1> QED
  BY <1>1, <1>2 DEF Replied, Accepted

LEMMA RepliedIsHonest ==
  ASSUME NEW r, NEW v, Replied(r, v), NEW source, NEW method, NEW from \in Int, NEW to \in Int,
         NEW limit \in Int,
         method \in {"discover", "swaps"} /\ limit > 0 => Len(v) <= limit,
         method \in {"swaps", "prices"} =>
           \A i \in DOMAIN v :
             \/ from <= v[i] /\ v[i] <= to
             \/ source = "dexscreener" /\ method = "swaps"
             \/ source \in {"subgraph", "geckoterminal"} /\ v[i] = 0
  PROVE  Honest(source, method, from, to, limit, r)
  BY AcceptedIsHonest

LEMMA ErrIsHonest ==
  ASSUME NEW source, NEW method, NEW from, NEW to, NEW limit \in Int
  PROVE  Honest(source, method, from, to, limit, Asks!Err)
<1>1. Asks!Err.ok = FALSE /\ Asks!Err.value = <<>>
  BY DEF Asks!Err
<1>2. Len(Asks!Err.value) = 0 /\ DOMAIN Asks!Err.value = {}
  BY <1>1
<1>3. limit > 0 => Len(Asks!Err.value) <= limit
  BY <1>2
<1> QED
  BY <1>1, <1>2, <1>3 DEF Honest

LEMMA RequestIs ==
  ASSUME NEW body
  PROVE  /\ state = "up" => Asks!Request(body).ok /\ Asks!Request(body).value = body
         /\ state # "up" => /\ ~Asks!Request(body).ok
                            /\ Asks!Request(body) = [ok |-> FALSE, value |-> <<>>]
  BY DEF Asks!Request, Asks!Ok, Asks!Err

LEMMA DecodedIs ==
  ASSUME NEW body
  PROVE  /\ state \in {"up", "strange"} => Asks!Decoded(body).ok /\ Asks!Decoded(body).value = Read(body)
         /\ state \notin {"up", "strange"} => /\ ~Asks!Decoded(body).ok
                                              /\ Asks!Decoded(body) = [ok |-> FALSE, value |-> <<>>]
  BY DEF Asks!Decoded, Asks!Request, Asks!Ok, Asks!Err, Read

(* What is read of a sequence is one that is not longer. *)
LEMMA ReadIs ==
  ASSUME NEW S, NEW s \in Seq(S)
  PROVE  Read(s) \in Seq(S) /\ Len(Read(s)) <= Len(s) /\ \A k \in DOMAIN Read(s) : k \in DOMAIN s /\ Read(s)[k] = s[k]
<1>1. <<>> \in Seq(S) /\ Len(<<>>) = 0 /\ DOMAIN <<>> = {} /\ Len(s) \in Nat
  OBVIOUS
<1> QED
  BY <1>1 DEF Read

LEMMA RequestsAreTyped ==
  /\ Times \subseteq Int /\ Floors \subseteq Int /\ Limits \subseteq Int /\ MaxPools \in Nat
  BY SourcesAssumption

LEMMA DiscoverKeeps ==
  ASSUME SourceInv, NEW limit \in Limits, NEW floor \in Floors, Asks!Discover(limit, floor)
  PROVE  SourceInv'
<1>1. limit \in Int /\ floor \in Int /\ 0 \in Int /\ listed \in Seq(Kinds)
  BY RequestsAreTyped DEF SourceInv
<1> DEFINE taken == Asks!Take(listed, Asks!Limit(limit, 50))
           tvl(x) == Asks!Only(x, {i \in DOMAIN x : Asks!SubgraphTVL(x[i]) >= floor})
           above(x) == Asks!AboveFloor(x, floor)
           cut(x) == IF limit > 0 THEN Asks!Take(above(x), limit) ELSE above(x)
<1>2. taken \in Seq(Kinds) /\ (limit > 0 => Len(taken) <= limit)
  <2>1. 50 \in Nat \ {0}
    OBVIOUS
  <2>2. Asks!Limit(limit, 50) \in Nat \ {0} /\ (limit > 0 => Asks!Limit(limit, 50) = limit)
    BY <1>1, <2>1, LimitIs
  <2> QED
    BY <1>1, <2>2, TakeIs
<1>3. \A x \in Seq(Kinds) : /\ tvl(x) \in Seq(Kinds) /\ Len(tvl(x)) <= Len(x)
                             /\ above(x) \in Seq(Kinds) /\ Len(above(x)) <= Len(x)
  BY OnlyIs DEF Asks!AboveFloor
<1> HIDE DEF tvl, above, taken
<1>4. ASSUME Asks!Ask("subgraph", "discover", 0, 0, limit, floor, Asks!SubgraphDiscover(floor, limit))
      PROVE  SourceInv'
  <2> DEFINE r == Asks!SubgraphDiscover(floor, limit)
             q == Asks!Request(taken)
  <2>1. r = IF q.ok THEN [ok |-> TRUE, value |-> tvl(q.value)] ELSE q
    BY DEF Asks!SubgraphDiscover, Asks!Then, Asks!ExecuteQuery, Asks!Ok, taken, tvl
  <2> HIDE DEF r
  <2>2. Replied(r, tvl(taken))
    BY <2>1, RequestIs DEF Replied
  <2>3. limit > 0 => Len(tvl(taken)) <= limit
    BY <1>1, <1>2, <1>3
  <2>4. Honest("subgraph", "discover", 0, 0, limit, r)
    BY <1>1, <2>2, <2>3, RepliedIsHonest
  <2> QED
    BY <1>4, <2>4, AnswerKeeps DEF r
<1>5. ASSUME Asks!Ask("dexscreener", "discover", 0, 0, limit, floor, Asks!DexDiscover(floor, limit))
      PROVE  SourceInv'
  <2> DEFINE r == Asks!DexDiscover(floor, limit)
             q == Asks!Decoded(listed)
             pools == Read(listed)
  <2>1. r = IF q.ok THEN [ok |-> TRUE, value |-> cut(q.value)] ELSE q
    BY DEF Asks!DexDiscover, Asks!Then, Asks!SearchPools, Asks!Ok, above
  <2> HIDE DEF r
  <2>2. pools \in Seq(Kinds)
    BY <1>1, ReadIs
  <2>3. Accepted(r, cut(pools))
    <3> HIDE DEF cut
    <3> QED
      BY <2>1, DecodedIs DEF Accepted
  <2> HIDE DEF pools
  <2>4. limit > 0 => Len(cut(pools)) <= limit
    <3>1. above(pools) \in Seq(Kinds)
      BY <1>3, <2>2
    <3>2. CASE limit > 0
      <4>1. Len(Asks!Take(above(pools), limit)) <= limit
        BY <1>1, <3>1, <3>2, TakeIs
      <4> QED
        BY <3>2, <4>1
    <3> QED
      BY <3>2
  <2> HIDE DEF cut
  <2>5. Honest("dexscreener", "discover", 0, 0, limit, r)
    BY <1>1, <2>3, <2>4, AcceptedIsHonest
  <2> QED
    BY <1>5, <2>5, AnswerKeeps DEF r
<1>6. ASSUME Asks!Ask("geckoterminal", "discover", 0, 0, limit, floor, Asks!GeckoDiscover(floor, limit))
      PROVE  SourceInv'
  <2> DEFINE r == Asks!GeckoDiscover(floor, limit)
             q == Asks!Decoded(taken)
             pools == Read(taken)
  <2>1. r = IF q.ok THEN [ok |-> TRUE, value |-> above(q.value)] ELSE q
    BY DEF Asks!GeckoDiscover, Asks!Then, Asks!GetPoolsByNetwork, Asks!Ok, taken, above
  <2> HIDE DEF r
  <2>2. Accepted(r, above(pools))
    BY <2>1, DecodedIs DEF Accepted
  <2>3. pools \in Seq(Kinds) /\ Len(pools) <= Len(taken)
    BY <1>2, ReadIs
  <2> HIDE DEF pools
  <2>4. limit > 0 => Len(above(pools)) <= limit
    BY <1>1, <1>2, <1>3, <2>3
  <2>5. Honest("geckoterminal", "discover", 0, 0, limit, r)
    BY <1>1, <2>2, <2>4, AcceptedIsHonest
  <2> QED
    BY <1>6, <2>5, AnswerKeeps DEF r
<1>7. ASSUME Asks!Ask("solana", "discover", 0, 0, limit, floor, Asks!SolanaNotImplemented)
      PROVE  SourceInv'
  <2>1. Honest("solana", "discover", 0, 0, limit, Asks!SolanaNotImplemented)
    BY <1>1, ErrIsHonest DEF Asks!SolanaNotImplemented
  <2> QED
    BY <1>7, <2>1, AnswerKeeps
<1> QED
  BY <1>4, <1>5, <1>6, <1>7 DEF Asks!Discover

(* The subgraph's swaps are no more than the limit, and of the window or without
   a time. *)
KeepsTo(v, from, to, limit) ==
  /\ limit > 0 => Len(v) <= limit
  /\ \A i \in DOMAIN v : (from <= v[i] /\ v[i] <= to) \/ v[i] = 0

RepliedWithin(r, from, to, limit) == \E v : Replied(r, v) /\ KeepsTo(v, from, to, limit)

LEMMA SubgraphSwapsAre ==
  ASSUME SourceInv, NEW from \in Int, NEW to \in Int, NEW limit \in Int
  PROVE  RepliedWithin(Asks!SubgraphSwaps(from, to, limit), from, to, limit)
<1> DEFINE l == Asks!Limit(Asks!Limit(limit, 1000), 1000)
           w == Asks!Within(trades, from, to)
           t == Asks!Take(w, l)
           r == Asks!SubgraphSwaps(from, to, limit)
           q == Asks!Request(t)
<1>1. r = IF q.ok THEN [ok |-> TRUE, value |-> Asks!ParsedTimesOf(q.value)] ELSE q
  BY SMT DEF Asks!SubgraphSwaps, Asks!Then, Asks!QuerySwaps, Asks!ExecuteQuery, Asks!Ok
<1>2. l \in Nat \ {0} /\ (limit > 0 => l = limit)
  <2>1. 1000 \in Nat \ {0}
    BY SMT
  <2>2. Asks!Limit(limit, 1000) \in Nat \ {0} /\ (limit > 0 => Asks!Limit(limit, 1000) = limit)
    BY <2>1, LimitIs, SMT
  <2>3. Asks!Limit(limit, 1000) > 0 /\ Asks!Limit(limit, 1000) \in Int
    BY <2>2, SMT
  <2>4. l \in Nat \ {0} /\ l = Asks!Limit(limit, 1000)
    BY <2>1, <2>3, LimitIs, SMT
  <2> QED
    BY <2>2, <2>4, SMT
<1> HIDE DEF l, r
<1>3. w \in Seq(Trades) /\ \A k \in DOMAIN w : from <= w[k].time /\ w[k].time <= to
  BY WithinIs DEF SourceInv
<1>4. t \in Seq(Trades) /\ Len(t) <= l /\ \A k \in DOMAIN t : k \in DOMAIN w /\ t[k] = w[k]
  BY <1>2, <1>3, TakeIs
<1> DEFINE v == Asks!ParsedTimesOf(t)
<1>5. Replied(r, v)
  BY <1>1, RequestIs DEF Replied
<1>6. Len(v) = Len(t) /\ DOMAIN v = DOMAIN t /\ \A i \in DOMAIN t : v[i] \in {t[i].time, 0}
  BY <1>4, ParsedTimesOfIs
<1>7. limit > 0 => Len(v) <= limit
  BY <1>2, <1>4, <1>6
<1>8. \A i \in DOMAIN v : (from <= v[i] /\ v[i] <= to) \/ v[i] = 0
  BY <1>3, <1>4, <1>6
<1> QED
  BY <1>5, <1>7, <1>8 DEF r, RepliedWithin, KeepsTo

LEMMA SwapsKeep ==
  ASSUME SourceInv, NEW from \in Times, NEW to \in Times, NEW limit \in Limits,
         Asks!Swaps(from, to, limit)
  PROVE  SourceInv'
<1>1. from \in Int /\ to \in Int /\ limit \in Int /\ 0 \in Int /\ trades \in Seq(Trades)
  BY RequestsAreTyped DEF SourceInv
<1>2. ASSUME Asks!Ask("subgraph", "swaps", from, to, limit, 0, Asks!SubgraphSwaps(from, to, limit))
      PROVE  SourceInv'
  <2>1. RepliedWithin(Asks!SubgraphSwaps(from, to, limit), from, to, limit)
    BY <1>1, SubgraphSwapsAre
  <2>2. PICK v : Replied(Asks!SubgraphSwaps(from, to, limit), v) /\ KeepsTo(v, from, to, limit)
    BY <2>1 DEF RepliedWithin
  <2>3. Honest("subgraph", "swaps", from, to, limit, Asks!SubgraphSwaps(from, to, limit))
    BY <1>1, <2>2, RepliedIsHonest DEF KeepsTo
  <2> QED
    BY <1>2, <2>3, AnswerKeeps
<1>3. ASSUME Asks!Ask("dexscreener", "swaps", from, to, limit, 0, Asks!DexSwaps(limit))
      PROVE  SourceInv'
  <2> DEFINE r == Asks!DexSwaps(limit)
             b == Read(Asks!Reverse(trades))
             q == Asks!Decoded(Asks!Reverse(trades))
             sane(x) == Asks!Only(x, {i \in DOMAIN x : x[i].sane})
             cut(x) == Asks!TimesOf(IF limit > 0 THEN Asks!Take(sane(x), limit) ELSE sane(x))
  <2>1. r = IF q.ok THEN [ok |-> TRUE, value |-> cut(q.value)] ELSE q
    BY DEF Asks!DexSwaps, Asks!Then, Asks!GetRecentSwaps, Asks!Ok
  <2> HIDE DEF r
  <2>2. b \in Seq(Trades)
    BY <1>1, ReverseIs, ReadIs
  <2>3. sane(b) \in Seq(Trades)
    BY <2>2, OnlyIs
  <2>4. Accepted(r, cut(b))
    <3> HIDE DEF cut
    <3> QED
      BY <2>1, DecodedIs DEF Accepted
  <2> HIDE DEF sane, b
  <2>5. limit > 0 => Len(cut(b)) <= limit
    BY <1>1, <2>3, TakeIs, TimesOfIs
  <2> HIDE DEF cut
  <2>6. Honest("dexscreener", "swaps", from, to, limit, r)
    BY <1>1, <2>4, <2>5, AcceptedIsHonest
  <2> QED
    BY <1>3, <2>6, AnswerKeeps DEF r
<1>4. ASSUME Asks!Ask("geckoterminal", "swaps", from, to, limit, 0, Asks!GeckoSwaps)
      PROVE  SourceInv'
  <2>1. Asks!GeckoSwaps.ok = TRUE /\ Asks!GeckoSwaps.value = <<>>
    BY DEF Asks!GeckoSwaps, Asks!Ok
  <2>2. Len(Asks!GeckoSwaps.value) = 0 /\ DOMAIN Asks!GeckoSwaps.value = {}
    BY <2>1
  <2>3. limit > 0 => Len(Asks!GeckoSwaps.value) <= limit
    BY <1>1, <2>2
  <2>4. Honest("geckoterminal", "swaps", from, to, limit, Asks!GeckoSwaps)
    BY <2>1, <2>2, <2>3 DEF Honest
  <2> QED
    BY <1>4, <2>4, AnswerKeeps
<1>5. ASSUME Asks!Ask("solana", "swaps", from, to, limit, 0, Asks!SolanaSwaps(from, to, limit))
      PROVE  SourceInv'
  <2> DEFINE r == Asks!SolanaSwaps(from, to, limit)
             l == Asks!Limit(Asks!Limit(limit, 100), 100)
             b == Asks!Reverse(trades)
             t == Asks!Take(b, l)
             q == Asks!GetRecentTrades(Asks!Limit(limit, 100))
             F(x) == Asks!TimesOf(Asks!Within(x, from, to))
  <2>1. r = IF q.ok THEN [ok |-> TRUE, value |-> F(q.value)] ELSE q
    BY SMT DEF Asks!SolanaSwaps, Asks!Then, Asks!Ok
  <2>2. q = IF state = "status" THEN [ok |-> TRUE, value |-> <<>>] ELSE Asks!Decoded(t)
    BY SMT DEF Asks!GetRecentTrades, Asks!Ok
  <2>3. l \in Nat \ {0} /\ (limit > 0 => l = limit)
    <3>1. 100 \in Nat \ {0} /\ limit \in Int
      BY <1>1, SMT
    <3>2. Asks!Limit(limit, 100) \in Nat \ {0} /\ (limit > 0 => Asks!Limit(limit, 100) = limit)
      BY <3>1, LimitIs, SMT
    <3>3. Asks!Limit(limit, 100) > 0 /\ Asks!Limit(limit, 100) \in Int
      BY <3>2, SMT
    <3>4. l \in Nat \ {0} /\ l = Asks!Limit(limit, 100)
      BY <3>1, <3>3, LimitIs, SMT
    <3> QED
      BY <3>2, <3>4, SMT
  <2> HIDE DEF r, q, l, F
  <2>4. b \in Seq(Trades)
    BY <1>1, ReverseIs
  <2>5. t \in Seq(Trades) /\ Len(t) <= l
    BY <2>3, <2>4, TakeIs
  <2>6. ASSUME NEW x \in Seq(Trades)
        PROVE  Len(F(x)) <= Len(x) /\ \A i \in DOMAIN F(x) : from <= F(x)[i] /\ F(x)[i] <= to
    <3> DEFINE w == Asks!Within(x, from, to)
    <3>1. w \in Seq(Trades) /\ \A k \in DOMAIN w : from <= w[k].time /\ w[k].time <= to
      BY <1>1, WithinIs
    <3>2. Len(w) <= Len(x)
      <4>1. {i \in DOMAIN x : from <= x[i].time /\ x[i].time <= to} \in SUBSET DOMAIN x
        OBVIOUS
      <4> QED
        BY <4>1, OnlyIs DEF Asks!Within
    <3> HIDE DEF w
    <3>3. Len(Asks!TimesOf(w)) = Len(w) /\ DOMAIN Asks!TimesOf(w) = DOMAIN w
          /\ \A i \in DOMAIN w : Asks!TimesOf(w)[i] = w[i].time
      BY <3>1, TimesOfIs
    <3>4. F(x) = Asks!TimesOf(w)
      BY DEF F, w
    <3> QED
      BY <3>1, <3>2, <3>3, <3>4
  <2>7. CASE state = "status"
    <3>1. q.ok = TRUE /\ q.value = <<>> /\ <<>> \in Seq(Trades)
      BY <2>2, <2>7
    <3>2. r.ok = TRUE /\ r.value = F(<<>>)
      BY <2>1, <3>1
    <3>3. limit > 0 => Len(r.value) <= limit
      <4>1. Len(F(<<>>)) <= Len(<<>>) /\ Len(<<>>) = 0
        BY <2>6, <3>1
      <4>2. Asks!Within(<<>>, from, to) \in Seq(Trades)
        BY <1>1, <3>1, WithinIs
      <4>3. Len(F(<<>>)) \in Nat
        BY <4>2, TimesOfIs DEF F
      <4> QED
        BY <1>1, <3>2, <4>1, <4>3
    <3>4. \A i \in DOMAIN r.value : from <= r.value[i] /\ r.value[i] <= to
      BY <2>6, <3>1, <3>2
    <3>5. Honest("solana", "swaps", from, to, limit, r)
      BY <2>7, <3>2, <3>3, <3>4 DEF Honest
    <3> QED
      BY <1>5, <3>5, AnswerKeeps DEF r
  <2>8. CASE state # "status"
    <3> DEFINE u == Read(t)
    <3>1. Accepted(r, F(u))
      BY <2>1, <2>2, <2>8, DecodedIs DEF Accepted
    <3>2. u \in Seq(Trades) /\ Len(u) <= Len(t)
      BY <2>5, ReadIs
    <3> HIDE DEF u
    <3>3. limit > 0 => Len(F(u)) <= limit
      <4>1. Len(F(u)) <= Len(u)
        BY <2>6, <3>2
      <4>2. Asks!Within(u, from, to) \in Seq(Trades)
        BY <1>1, <3>2, WithinIs
      <4>3. Len(F(u)) \in Nat
        BY <4>2, TimesOfIs DEF F
      <4> QED
        BY <1>1, <2>3, <2>5, <3>2, <4>1, <4>3
    <3>4. \A i \in DOMAIN F(u) : from <= F(u)[i] /\ F(u)[i] <= to
      BY <2>6, <3>2
    <3>5. Honest("solana", "swaps", from, to, limit, r)
      BY <1>1, <3>1, <3>3, <3>4, AcceptedIsHonest
    <3> QED
      BY <1>5, <3>5, AnswerKeeps DEF r
  <2> QED
    BY <2>7, <2>8
<1> QED
  BY <1>2, <1>3, <1>4, <1>5 DEF Asks!Swaps

LEMMA PricesKeep ==
  ASSUME SourceInv, NEW from \in Times, NEW to \in Times, Asks!Prices(from, to)
  PROVE  SourceInv'
<1>1. from \in Int /\ to \in Int /\ 0 \in Int /\ trades \in Seq(Trades)
  BY RequestsAreTyped DEF SourceInv
<1>2. ASSUME Asks!Ask("subgraph", "prices", from, to, 0, 0, Asks!SubgraphPrices(from, to))
      PROVE  SourceInv'
  <2> DEFINE r == Asks!SubgraphPrices(from, to)
  <2>1. PICK thousand : thousand = 1000
    OBVIOUS
  <2>2. r = Asks!SubgraphSwaps(from, to, thousand) /\ thousand \in Int
    BY <2>1, SMT DEF Asks!SubgraphPrices
  <2> HIDE DEF r
  <2>3. RepliedWithin(r, from, to, thousand)
    BY <1>1, <2>2, SubgraphSwapsAre
  <2>4. PICK v : Replied(r, v) /\ KeepsTo(v, from, to, thousand)
    BY <2>3 DEF RepliedWithin
  <2>5. Honest("subgraph", "prices", from, to, 0, r)
    BY <1>1, <2>4, RepliedIsHonest DEF KeepsTo
  <2> QED
    BY <1>2, <2>5, AnswerKeeps DEF r
<1>3. ASSUME Asks!Ask("dexscreener", "prices", from, to, 0, 0, Asks!DexPrices(from, to))
      PROVE  SourceInv'
  <2> DEFINE r == Asks!DexPrices(from, to)
             b == Read(Asks!Reverse(trades))
             q == Asks!Decoded(Asks!Reverse(trades))
             F(x) == Asks!TimesOf(Asks!Within(x, from, to))
             w == Asks!Within(b, from, to)
  <2>1. r = IF q.ok THEN [ok |-> TRUE, value |-> F(q.value)] ELSE q
    BY DEF Asks!DexPrices, Asks!Then, Asks!GetRecentSwaps, Asks!Ok
  <2>2. b \in Seq(Trades)
    BY <1>1, ReverseIs, ReadIs
  <2>3. w \in Seq(Trades) /\ \A k \in DOMAIN w : from <= w[k].time /\ w[k].time <= to
    BY <1>1, <2>2, WithinIs
  <2> HIDE DEF r, w
  <2>4. DOMAIN Asks!TimesOf(w) = DOMAIN w /\ \A i \in DOMAIN w : Asks!TimesOf(w)[i] = w[i].time
    BY <2>3, TimesOfIs
  <2>5. F(b) = Asks!TimesOf(w)
    BY DEF w
  <2>6. \A i \in DOMAIN F(b) : from <= F(b)[i] /\ F(b)[i] <= to
    BY <2>3, <2>4, <2>5
  <2> HIDE DEF F
  <2>7. Accepted(r, F(b))
    BY <2>1, DecodedIs DEF Accepted
  <2>8. Honest("dexscreener", "prices", from, to, 0, r)
    BY <1>1, <2>6, <2>7, AcceptedIsHonest
  <2> QED
    BY <1>3, <2>8, AnswerKeeps DEF r
<1>4. ASSUME Asks!Ask("geckoterminal", "prices", from, to, 0, 0, Asks!GeckoPrices(from, to))
      PROVE  SourceInv'
  <2> DEFINE r == Asks!GeckoPrices(from, to)
             l == Asks!Limit(1000, 1000)
             w == Asks!Within(trades, from, to)
             t == Asks!Take(w, l)
             q == Asks!Decoded(t)
             u == Read(t)
  <2>1. r = IF q.ok THEN [ok |-> TRUE, value |-> Asks!ParsedTimesOf(q.value)] ELSE q
    BY SMT DEF Asks!GeckoPrices, Asks!Then, Asks!GetOHLCV, Asks!Ok
  <2>2. l \in Nat \ {0}
    BY SMT DEF Asks!Limit
  <2> HIDE DEF r, l
  <2>3. w \in Seq(Trades) /\ \A k \in DOMAIN w : from <= w[k].time /\ w[k].time <= to
    BY <1>1, WithinIs
  <2>4. t \in Seq(Trades) /\ \A k \in DOMAIN t : k \in DOMAIN w /\ t[k] = w[k]
    BY <2>2, <2>3, TakeIs
  <2> HIDE DEF t, w
  <2>5. u \in Seq(Trades) /\ \A k \in DOMAIN u : k \in DOMAIN t /\ u[k] = t[k]
    BY <2>4, ReadIs
  <2>6. Accepted(r, Asks!ParsedTimesOf(u))
    BY <2>1, DecodedIs DEF Accepted
  <2> HIDE DEF u
  <2>7. /\ DOMAIN Asks!ParsedTimesOf(u) = DOMAIN u
        /\ \A i \in DOMAIN u : Asks!ParsedTimesOf(u)[i] \in {u[i].time, 0}
    BY <2>5, ParsedTimesOfIs
  <2>8. \A i \in DOMAIN Asks!ParsedTimesOf(u) :
          \/ from <= Asks!ParsedTimesOf(u)[i] /\ Asks!ParsedTimesOf(u)[i] <= to
          \/ Asks!ParsedTimesOf(u)[i] = 0
    BY <2>3, <2>4, <2>5, <2>7
  <2>9. Honest("geckoterminal", "prices", from, to, 0, r)
    BY <1>1, <2>6, <2>8, AcceptedIsHonest
  <2> QED
    BY <1>4, <2>9, AnswerKeeps DEF r
<1> QED
  BY <1>2, <1>3, <1>4 DEF Asks!Prices

(* Answers of another kind have only their success to keep to. *)
OkIsHonest(source, r) ==
  /\ r.ok \in BOOLEAN /\ (~r.ok => r.value = <<>>)
  /\ r.ok => state = "up" \/ (state = "strange" /\ source # "subgraph")

LEMMA NumbersKeep ==
  ASSUME SourceInv, Asks!Numbers
  PROVE  SourceInv'
<1>1. ASSUME NEW source, NEW r, OkIsHonest(source, r), Asks!Scalar(source, r) PROVE SourceInv'
  <2>1. Honest(source, "number", 0, 0, 0, r)
    BY <1>1 DEF OkIsHonest, Honest
  <2> QED
    BY <1>1, <2>1, AnswerKeeps DEF Asks!Scalar
<1>2. ASSUME NEW source, NEW r, NEW v, NEW q,
             r = IF q.ok THEN [ok |-> TRUE, value |-> v] ELSE q,
             \/ \E body : q = Asks!Request(body)
             \/ source # "subgraph" /\ \E body : q = Asks!Decoded(body)
      PROVE  OkIsHonest(source, r)
  <2>1. \/ q.ok /\ (state = "up" \/ (state = "strange" /\ source # "subgraph"))
        \/ ~q.ok /\ q = [ok |-> FALSE, value |-> <<>>]
    BY <1>2, RequestIs, DecodedIs
  <2>2. CASE q.ok
    <3>1. r = [ok |-> TRUE, value |-> v]
      BY <1>2, <2>2
    <3>2. r.ok = TRUE
      BY <3>1
    <3> QED
      BY <2>1, <2>2, <3>2 DEF OkIsHonest
  <2>3. CASE ~q.ok
    <3>1. r = [ok |-> FALSE, value |-> <<>>]
      BY <1>2, <2>1, <2>3
    <3>2. r.ok = FALSE /\ r.value = <<>>
      BY <3>1
    <3> QED
      BY <3>2 DEF OkIsHonest
  <2> QED
    BY <2>2, <2>3
<1>3. OkIsHonest("subgraph", Asks!SubgraphMetadata)
  BY <1>2 DEF Asks!SubgraphMetadata, Asks!ExecuteQuery, Asks!Then, Asks!Ok
<1>4. OkIsHonest("dexscreener", Asks!DexMetadata)
  <2>1. PICK q : q = Asks!Decoded(listed)
    OBVIOUS
  <2>2. Asks!GetPoolByAddress = IF q.ok THEN [ok |-> TRUE, value |-> Asks!Take(q.value, 1)] ELSE q
    BY <2>1 DEF Asks!GetPoolByAddress, Asks!Then, Asks!Ok
  <2>3. "dexscreener" # "subgraph" /\ \E body : q = Asks!Decoded(body)
    BY <2>1
  <2>4. OkIsHonest("dexscreener", Asks!GetPoolByAddress)
    BY <1>2, <2>2, <2>3
  <2> QED
    BY <2>4 DEF Asks!DexMetadata, Asks!Then, Asks!Ok, OkIsHonest
<1>5. OkIsHonest("geckoterminal", Asks!GeckoMetadata)
  <2>1. PICK q : q = Asks!GetPoolInfo
    OBVIOUS
  <2>2. Asks!GeckoMetadata =
          IF q.ok THEN [ok |-> TRUE, value |-> IF q.value = <<>> THEN <<0>>
                                               ELSE <<Asks!Parsed(q.value[1].liquidity)>>] ELSE q
    BY <2>1 DEF Asks!GeckoMetadata, Asks!Then, Asks!Ok
  <2>3. "geckoterminal" # "subgraph" /\ \E body : q = Asks!Decoded(body)
    BY <2>1 DEF Asks!GetPoolInfo
  <2> QED
    BY <1>2, <2>2, <2>3
<1>6. \A fees : OkIsHonest("subgraph", Asks!QueryCollectedFees(fees))
  BY <1>2 DEF Asks!QueryCollectedFees, Asks!ExecuteQuery, Asks!Then, Asks!Ok
<1>7. \A prices : OkIsHonest("dexscreener", Asks!DexTokenPrice(prices))
  BY DecodedIs DEF Asks!DexTokenPrice, Asks!Ok, Asks!Err, OkIsHonest
<1>8. \A known, price : OkIsHonest("solana", Asks!JupiterTokenPrice(known, price))
  BY DEF Asks!JupiterTokenPrice, Asks!Request, Asks!Ok, Asks!Err, OkIsHonest
<1> QED
  BY <1>1, <1>3, <1>4, <1>5, <1>6, <1>7, <1>8 DEF Asks!Numbers

LEMMA HealthKeeps ==
  ASSUME SourceInv, Asks!Health
  PROVE  SourceInv'
<1> DEFINE Fine(source, r) == /\ r.ok \in BOOLEAN /\ (~r.ok => r.value = <<>>)
                              /\ r.ok => \/ state \in {"up", "garbled"}
                                         \/ state = "strange" /\ source # "subgraph"
<1>1. ASSUME NEW source, NEW r, Asks!Ask(source, "health", 0, 0, 0, 0, r), Fine(source, r)
      PROVE  SourceInv'
  <2>1. Honest(source, "health", 0, 0, 0, r)
    BY <1>1 DEF Honest
  <2> QED
    BY <1>1, <2>1, AnswerKeeps
<1>2. \A data : Fine("subgraph", Asks!SubgraphHealth(data))
  BY DEF Asks!SubgraphHealth, Asks!ExecuteQuery, Asks!Request, Asks!Ok, Asks!Err
<1>3. Fine("dexscreener", Asks!DexHealth) /\ Fine("geckoterminal", Asks!GeckoHealth)
  BY DEF Asks!DexHealth, Asks!GeckoHealth, Asks!Ok, Asks!Err
<1>4. Fine("solana", Asks!SolanaHealth) /\ Fine("solana", Asks!GetTokenMetadata)
  BY DEF Asks!SolanaHealth, Asks!GetTokenMetadata, Asks!Decoded, Asks!Request, Asks!Ok, Asks!Err
<1> QED
  BY <1>1, <1>2, <1>3, <1>4 DEF Asks!Health

LEMMA NoAnswerIs ==
  ASSUME SourceInv, answer' = Asks!NoAnswer, state' \in Asks!States,
         listed' \in Seq(Kinds), Len(listed') <= MaxPools, trades' \in Seq(Trades)
  PROVE  SourceInv'
<1>1. /\ answer'.ok = FALSE /\ answer'.value = <<>> /\ answer'.method = "" /\ answer'.source = ""
  BY DEF Asks!NoAnswer
<1>2. Asks!TypeOK' /\ Asks!OutagesAreErrors' /\ Asks!AnswersKeepToTheRequest'
  BY <1>1 DEF Asks!TypeOK, Asks!OutagesAreErrors, Asks!AnswersKeepToTheRequest
<1> QED
  BY <1>2 DEF SourceInv, SourcesAnswerHonestly

LEMMA SourceStep ==
  ASSUME SourceInv, [Next]_vars
  PROVE  SourceInv'
<1>1. CASE UNCHANGED sourceVars
  BY <1>1 DEF sourceVars, SourceInv, SourcesAnswerHonestly, Asks!TypeOK, Asks!OutagesAreErrors,
         Asks!AnswersKeepToTheRequest
<1>2. /\ state \in Asks!States /\ listed \in Seq(Kinds)
      /\ Len(listed) <= MaxPools /\ trades \in Seq(Trades)
  BY DEF SourceInv, Asks!TypeOK
<1>3. ASSUME Asks!Use PROVE SourceInv'
  <2>1. answer' = Asks!NoAnswer /\ UNCHANGED <<state, listed, trades>>
    BY <1>3 DEF Asks!Use
  <2> QED
    BY <1>2, <2>1, NoAnswerIs
<1>4. ASSUME NEW s \in Asks!States, Asks!Service(s) PROVE SourceInv'
  <2>1. answer' = Asks!NoAnswer /\ state' = s /\ UNCHANGED <<listed, trades>>
    BY <1>4 DEF Asks!Service
  <2> QED
    BY <1>2, <2>1, NoAnswerIs
<1>5. ASSUME NEW kind \in Kinds, Asks!List(kind) PROVE SourceInv'
  <2>1. /\ answer' = Asks!NoAnswer /\ UNCHANGED <<state, trades>>
        /\ listed' = (IF Len(listed) < MaxPools THEN Append(listed, kind) ELSE <<>>)
    BY <1>5 DEF Asks!List
  <2>2. listed' \in Seq(Kinds) /\ Len(listed') <= MaxPools
    BY <1>2, <2>1, RequestsAreTyped
  <2> QED
    BY <1>2, <2>1, <2>2, NoAnswerIs
<1>6. ASSUME NEW t \in Times, NEW sane \in BOOLEAN, Asks!Trade(t, sane) PROVE SourceInv'
  <2>1. /\ answer' = Asks!NoAnswer /\ UNCHANGED <<state, listed>>
        /\ trades' = Append(trades, [time |-> t, sane |-> sane])
    BY <1>6 DEF Asks!Trade
  <2>2. [time |-> t, sane |-> sane] \in Trades
    BY RequestsAreTyped DEF Trades
  <2>3. trades' \in Seq(Trades)
    BY <1>2, <2>1, <2>2
  <2> QED
    BY <1>2, <2>1, <2>3, NoAnswerIs
<1>7. Asks!Next \/ UNCHANGED sourceVars
  BY StepOfParts
<1> QED
  BY <1>1, <1>3, <1>4, <1>5, <1>6, <1>7, DiscoverKeeps, SwapsKeep, PricesKeep, NumbersKeep,
     HealthKeeps DEF Asks!Next

LEMMA SourceInit == Init => SourceInv
<1>1. SUFFICES ASSUME Asks!Init PROVE SourceInv
  BY InitOfParts
<1>2. /\ state = "up" /\ listed = <<>> /\ trades = <<>> /\ answer = Asks!NoAnswer
  BY <1>1 DEF Asks!Init
<1>3. answer.ok = FALSE /\ answer.value = <<>> /\ answer.method = "" /\ answer.source = ""
  BY <1>2 DEF Asks!NoAnswer
<1>4. listed \in Seq(Kinds) /\ trades \in Seq(Trades) /\ Len(listed) <= MaxPools /\ state \in Asks!States
  BY <1>2, RequestsAreTyped DEF Asks!States
<1> QED
  BY <1>2, <1>3, <1>4 DEF SourceInv, SourcesAnswerHonestly, Asks!TypeOK, Asks!OutagesAreErrors,
         Asks!AnswersKeepToTheRequest

LEMMA SourceAlways == Spec => []SourceInv
  BY SourceInit, SourceStep, PTL DEF Spec

(* A service that cannot be reached is never taken for an empty market, and an
   answer keeps to the limit and to the window of its request, with the
   exceptions the properties name, for any pools, trades and requests. *)
THEOREM SourcesSound == Spec => []SourcesAnswerHonestly
<1>1. SourceInv => SourcesAnswerHonestly
  BY DEF SourceInv
<1> QED
  BY <1>1, SourceAlways, PTL

-----------------------------------------------------------------------------
LEMMA TestTypes == TestInv => Tests!TypeOK
<1>1. SUFFICES ASSUME TestInv PROVE Tests!TypeOK
  OBVIOUS
<1>2. \A i \in DOMAIN swapRows :
        /\ i \in (0..Horizon) \X (0..2)
        /\ swapRows[i] \in [pool : TestedPools, time : 0..(Horizon - 1)]
  BY <1>1 DEF TestInv, RowsTyped
<1>3. run # Tests!NoRun => run.fees \in Nat /\ run.states \subseteq 0..Horizon
  BY <1>1 DEF TestInv, RunTyped, Runs
<1> QED
  BY <1>1, <1>2, <1>3 DEF TestInv, RowsTyped, RunTyped, Tests!TypeOK, Tests!Instants

TornInv == torn \in BOOLEAN

LEMMA LogTypes == LogInv /\ TornInv => Logs!TypeOK
  BY DEF LogInv, Logs!TypeOK, TornInv

LEMMA TornAlways == Spec => []TornInv
<1>1. Init => TornInv
  BY InitOfParts DEF Logs!Init, TornInv
<1>2. TornInv /\ [Next]_vars => TornInv'
  <2>1. Logs!Next => torn' \in {torn, TRUE, FALSE}
    <3>1. Logs!HandleEvent => torn' \in {torn, TRUE, FALSE}
      BY DEF Logs!HandleEvent
    <3>2. Logs!RotateCurrent => torn' \in {torn, TRUE, FALSE}
      BY DEF Logs!RotateCurrent
    <3>3. \/ Logs!NewAuditLog \/ Logs!Close \/ Logs!RotateStart \/ Logs!RotateShift
          \/ Logs!RotateReopen \/ Logs!Kill
          => UNCHANGED torn
      BY DEF Logs!NewAuditLog, Logs!Close, Logs!RotateStart, Logs!RotateShift,
         Logs!RotateReopen, Logs!Kill
    <3> QED
      BY <3>1, <3>2, <3>3 DEF Logs!Next
  <2>2. UNCHANGED auditVars => torn' = torn
    BY DEF auditVars
  <2> QED
    BY <2>1, <2>2, StepOfParts DEF TornInv
<1> QED
  BY <1>1, <1>2, PTL DEF Spec

(* Every part keeps its types. *)
THEOREM TypeCorrect == Spec => []TypeOK
<1>1. /\ TestInv /\ SignInv /\ StratInv /\ SimInv /\ LogInv /\ SourceInv
      /\ TornInv
      => TypeOK
  BY TestTypes, LogTypes, SimTypes, StratTypes DEF SignInv, SourceInv, TypeOK
<1> QED
  BY <1>1, TestAlways, SignAlways, StratAlways, SimAlways, LogAlways, TornAlways,
     SourceAlways, PTL
=============================================================================
