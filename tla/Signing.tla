------------------------------- MODULE Signing -------------------------------
(***************************************************************************)
(* From an intent to a signature: the TxBuilder of core/execution and the  *)
(* three wallets it may be given.  The keystore wallet has no lock: Sign    *)
(* looks at its key, asks the node for the nonce and the prices, and looks *)
(* at the key again, while other goroutines sign or close the wallet.      *)
(* The wallet is opened by its provider before anyone uses it; gas, prices *)
(* and calldata decide nothing but whether a call fails.                   *)
(***************************************************************************)
EXTENDS Integers

CONSTANTS
  Signers,      \* goroutines that build and sign
  KindsOf,      \* signer -> the kinds of transactions it builds
  Amounts,      \* amounts of an intent, and of its liquidity
  Slippages,    \* SlippageBps of an intent
  FirstNonce,   \* what PendingNonceAt answers at first
  MaxNonce,     \* bound: the node accepts no nonce from it on
  TokenNonce    \* what it answers for the address of a token

VARIABLES
  wallet,     \* the kind of wallet: "keystore", "kms" or "none"
  has,        \* what the keystore wallet can ask: "chain", "rpc", both, neither
  key,        \* keystoreWallet.key, or KMSWallet.isOpen as "live" and "nil"
  caller,     \* per signer: where it is, its transaction, the nonce it got
  signed,     \* the nonces signed for, with the key of the wallet
  chainNext,  \* what PendingNonceAt answers
  panicked    \* a panic has ended the process

vars == <<wallet, has, key, caller, signed, chainNext, panicked>>

Bps == 10000
NoTx == [kind |-> "", evm |-> FALSE, nonce |-> 0, want |-> <<0, 0>>, min |-> <<0, 0>>,
         slippage |-> 0]
Out == [at |-> "out", tx |-> NoTx, nonce |-> 0]

Return(c)    == caller' = [caller EXCEPT ![c] = Out]
Go(c, where) == caller' = [caller EXCEPT ![c].at = where]
Built(c, tx) == caller' = [caller EXCEPT ![c] = [Out EXCEPT !.at = "built", !.tx = tx]]

-----------------------------------------------------------------------------
(* Mutant: the slippage widens the amount. *)
CalculateSlippageAmountWider(amount, slippage) == (amount * (Bps + slippage)) \div Bps

(* calculateSlippageAmount: big.Int's Div rounds down. *)
CalculateSlippageAmount(amount, slippage) == (amount * (Bps - slippage)) \div Bps

Minima(want, slippage) == <<CalculateSlippageAmount(want[1], slippage),
                            CalculateSlippageAmount(want[2], slippage)>>

(* BuildMintCalldata: the checks on the intent.  A slippage below zero passes. *)
BuildMint(want, slippage, ticksOrdered, inTime, evm) ==
  IF ticksOrdered /\ inTime /\ slippage < Bps /\ Minima(want, slippage) # <<0, 0>>
  THEN [NoTx EXCEPT !.kind = "mint", !.evm = evm, !.want = want, !.slippage = slippage,
                    !.min = Minima(want, slippage)]
  ELSE NoTx

(* BuildDecreaseLiquidityCalldata: with a slippage, both minima come from the
   liquidity; without, from the intent. *)
BuildDecrease(liquidity, min, slippage, inTime, evm) ==
  LET floor == IF slippage > 0 THEN Minima(<<liquidity, liquidity>>, slippage) ELSE min IN
  IF inTime /\ floor # <<0, 0>>
  THEN [NoTx EXCEPT !.kind = "decrease", !.evm = evm, !.slippage = slippage, !.min = floor,
                    !.want = IF slippage > 0 THEN <<liquidity, liquidity>> ELSE min]
  ELSE NoTx

(* BuildIncreaseLiquidityCalldata, which the builder itself does not use: the
   amounts are looked at, the minima are not. *)
BuildIncrease(want, slippage, inTime, evm) ==
  IF inTime /\ want # <<0, 0>>
  THEN [NoTx EXCEPT !.kind = "increase", !.evm = evm, !.want = want, !.slippage = slippage,
                    !.min = Minima(want, slippage)]
  ELSE NoTx

(* The transaction a builder returns, or its error. *)
Offer(c, tx) == IF tx = NoTx THEN UNCHANGED caller ELSE Built(c, tx)

BuildAddLiquidityTx(c) ==
  /\ "mint" \in KindsOf[c]
  /\ \E a0, a1 \in Amounts, s \in Slippages, ordered, inTime, evm \in BOOLEAN :
       Offer(c, BuildMint(<<a0, a1>>, s, ordered, inTime, evm))

BuildRemoveLiquidityTx(c) ==
  /\ "decrease" \in KindsOf[c]
  /\ \E l, m0, m1 \in Amounts, s \in Slippages, inTime, evm \in BOOLEAN :
       Offer(c, BuildDecrease(l, <<m0, m1>>, s, inTime, evm))

(* A caller that makes a transaction of the calldata. *)
BuildIncreaseLiquidityTx(c) ==
  /\ "increase" \in KindsOf[c]
  /\ \E a0, a1 \in Amounts, s \in Slippages, inTime, evm \in BOOLEAN :
       Offer(c, BuildIncrease(<<a0, a1>>, s, inTime, evm))

(* BuildRebalanceTxs: two empty transactions, without a chain. *)
BuildRebalanceTxs(c) ==
  "rebalance" \in KindsOf[c] /\ Built(c, [NoTx EXCEPT !.kind = "rebalance"])

BuildCollectFeesTx(c) ==
  "collect" \in KindsOf[c] /\ Built(c, [NoTx EXCEPT !.kind = "collect", !.evm = TRUE])

(* ApproveExact, and Revoke, which is ApproveExact of nothing, of the keystore
   wallet: the nonce asked for is that of the token. *)
KeystoreApprove(c) ==
  /\ wallet = "keystore" /\ key # "nil" /\ "rpc" \in has
  /\ Built(c, [NoTx EXCEPT !.kind = "approve", !.evm = TRUE, !.nonce = TokenNonce])
  /\ UNCHANGED panicked

(* The KMS wallet does not implement them, opened or not; the third panics. *)
KMSApprove == wallet = "kms" /\ UNCHANGED <<caller, panicked>>
NoneApprove == wallet = "none" /\ panicked' = TRUE /\ UNCHANGED caller

ApproveExact(c) ==
  "approve" \in KindsOf[c] /\ (KeystoreApprove(c) \/ KMSApprove \/ NoneApprove)

Build(c) ==
  /\ caller[c].at = "out"
  /\ \/ /\ \/ BuildAddLiquidityTx(c) \/ BuildRemoveLiquidityTx(c)
           \/ BuildIncreaseLiquidityTx(c) \/ BuildRebalanceTxs(c) \/ BuildCollectFeesTx(c)
        /\ UNCHANGED panicked
     \/ ApproveExact(c)
  /\ UNCHANGED <<wallet, has, key, signed, chainNext>>

(* TxBuilder.SetNonce, which a caller may leave out. *)
SetNonce(c) ==
  /\ caller[c].at = "built"
  /\ caller' = [caller EXCEPT ![c].tx.nonce = chainNext]
  /\ UNCHANGED <<wallet, has, key, signed, chainNext, panicked>>

-----------------------------------------------------------------------------
(* Sign of the keystore wallet, first part: no key, or a chain that is not an
   EVM chain, is an error. *)
KeystoreSign(c) ==
  /\ wallet = "keystore"
  /\ IF key # "nil" /\ caller[c].tx.evm THEN Go(c, "nonce") ELSE Return(c)
  /\ UNCHANGED <<signed, panicked>>

(* The KMS wallet returns a signature of zeros, if it is open. *)
KMSSign(c) ==
  /\ wallet = "kms"
  /\ signed' = IF key = "live" THEN signed \cup {caller[c].tx.nonce} ELSE signed
  /\ Return(c)
  /\ UNCHANGED panicked

(* The wallet of the shadow modes panics. *)
NoneSign == wallet = "none" /\ panicked' = TRUE /\ UNCHANGED <<caller, signed>>

SignStart(c) ==
  /\ caller[c].at = "built"
  /\ KeystoreSign(c) \/ KMSSign(c) \/ NoneSign
  /\ UNCHANGED <<wallet, has, key, chainNext>>

(* Mutant: a signature that is on its way is counted as if it were sure. *)
NonceAhead(c) ==
  IF \E d \in Signers \ {c} : caller[d].at \in {"prices", "sign"}
  THEN chainNext + 1 ELSE chainNext

(* buildEVMTransaction: the nonce is that of the node, if there is one to ask;
   the one in the transaction is passed over. *)
NonceFor(c) == IF has # {} THEN chainNext ELSE caller[c].tx.nonce

FetchNonce(c) ==
  /\ caller[c].at = "nonce"
  /\ \/ caller' = [caller EXCEPT ![c].nonce = NonceFor(c), ![c].at = "prices"]
     \/ has # {} /\ Return(c)
  /\ UNCHANGED <<wallet, has, key, signed, chainNext, panicked>>

(* The header, the tip and the estimate: any of them may fail. *)
FetchPrices(c) ==
  /\ caller[c].at = "prices"
  /\ Go(c, "sign") \/ Return(c)
  /\ UNCHANGED <<wallet, has, key, signed, chainNext, panicked>>

(* Mutant: Sign goes on with the key it saw at first. *)
SignTxWithKeySeen(c) ==
  /\ caller[c].at = "sign"
  /\ Return(c)
  /\ signed' = signed \cup {caller[c].nonce}
  /\ UNCHANGED <<wallet, has, key, chainNext, panicked>>

(* types.SignTx with the key as it is by now: a wiped one is refused, of a half
   wiped one comes an error or the signature of another sender, and one that is
   gone is dereferenced. *)
SignTx(c) ==
  /\ caller[c].at = "sign"
  /\ Return(c)
  /\ signed' = IF key = "live"
               THEN signed \cup {caller[c].nonce}
               ELSE signed
  /\ panicked' = (key = "nil")
  /\ UNCHANGED <<wallet, has, key, chainNext>>

(* SignMessage, only of the keystore wallet: it looks at the key, and again to
   sign; a message has no nonce. *)
MessageStart(c) ==
  /\ caller[c].at = "out" /\ wallet = "keystore" /\ key # "nil"
  /\ Go(c, "message")
  /\ UNCHANGED <<wallet, has, key, signed, chainNext, panicked>>

SignMessage(c) ==
  /\ caller[c].at = "message"
  /\ Return(c)
  /\ panicked' = (key = "nil")
  /\ UNCHANGED <<wallet, has, key, signed, chainNext>>

(* Open: nothing for the keystore wallet, whose provider has loaded the key;
   it does not bring a key back. *)
Open ==
  /\ key' = IF wallet = "kms" THEN "live" ELSE key
  /\ UNCHANGED <<wallet, has, caller, signed, chainNext, panicked>>

(* Close: the keystore wallet wipes the key, word by word, and then drops it. *)
Close ==
  /\ \/ wallet = "kms" /\ key' = "nil"
     \/ wallet = "keystore" /\ key = "live" /\ key' = "half"
     \/ wallet = "keystore" /\ key = "half" /\ key' = "wiped"
     \/ wallet = "keystore" /\ key = "wiped" /\ key' = "nil"
  /\ UNCHANGED <<wallet, has, caller, signed, chainNext, panicked>>

-----------------------------------------------------------------------------
(* What was signed is broadcast and accepted by the node, in nonce order; an
   endpoint that lags answers with less. *)
NodeAccepts ==
  /\ chainNext < MaxNonce
  /\ chainNext \in signed
  /\ chainNext' = chainNext + 1
  /\ UNCHANGED <<wallet, has, key, caller, signed, panicked>>

NodeLags ==
  /\ chainNext' \in FirstNonce..(chainNext - 1)
  /\ UNCHANGED <<wallet, has, key, caller, signed, panicked>>

(* What the providers return: WalletProvider.Open has decrypted the key and set
   what the wallet may ask; that of KMS is not open yet, the third is nothing. *)
KeystoreOpened == wallet = "keystore" /\ key = "live" /\ has \in SUBSET {"chain", "rpc"}
KMSOpened == wallet = "kms" /\ key = "nil" /\ has = {}
NoneOpened == wallet = "none" /\ key = "nil" /\ has = {}

Init ==
  /\ KeystoreOpened \/ KMSOpened \/ NoneOpened
  /\ caller = [c \in Signers |-> Out]
  /\ signed = {}
  /\ chainNext = FirstNonce
  /\ panicked = FALSE

Next ==
  /\ ~panicked
  /\ \/ \E c \in Signers : Build(c) \/ SetNonce(c) \/ SignStart(c) \/ FetchNonce(c)
                           \/ FetchPrices(c) \/ SignTx(c)
                           \/ MessageStart(c) \/ SignMessage(c)
     \/ Open \/ Close
     \/ NodeAccepts \/ NodeLags

Spec == Init /\ [][Next]_vars

-----------------------------------------------------------------------------
(* Types of the wallet and of its callers. *)
TypeOK ==
  /\ key \in {"live", "half", "wiped", "nil"}
  /\ \A c \in Signers :
       /\ caller[c].at \in {"out", "built", "nonce", "prices", "sign", "message"}
       /\ caller[c].nonce \in Nat
  /\ chainNext \in FirstNonce..MaxNonce
  /\ signed \subseteq Nat

(* Whoever signs beside whom, and however far the endpoints lag, a wallet that
   can ask a node leaves no hole in the nonces it has signed for: no signature
   waits for a nonce that nobody holds. *)
SignedNoncesLeaveNoHole ==
  wallet = "keystore" /\ has # {} =>
    \A n \in signed : n > FirstNonce => n - 1 \in signed

(* Nothing is signed with a key that Close has begun to take away, also when
   the signer saw it before; ports/wallet.go: "After Close, subsequent
   Sign/Approve calls should fail until Open is called again". *)
ClosedWalletSignsNothing == [][signed' # signed => key = "live"]_vars

(* A transaction about to be signed that changes liquidity under a slippage of
   at most the whole never asks for more than the intent does, and, unless it
   adds to a position, asks for something back. *)
SignedKeepsFloor ==
  \A c \in Signers :
    LET tx == caller[c].tx IN
    caller[c].at = "sign" /\ tx.kind \in {"mint", "decrease", "increase"} /\ tx.slippage \in 0..Bps =>
      /\ tx.kind # "increase" => tx.min # <<0, 0>>
      /\ \A i \in 1..2 : 0 <= tx.min[i] /\ tx.min[i] <= tx.want[i]
=============================================================================
