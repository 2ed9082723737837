----------------------------- MODULE EarnScripts -----------------------------
(* The scripts of src/src, which drive the earn product on a local chain: the *)
(* functions of stacks.ts and bitcoin.ts and the steps of each script, as     *)
(* sequences of instructions.  An instruction is what runs between two waits  *)
(* for the network; EarnNetwork gives the instructions their effect.          *)
(*                                                                            *)
(* An amount of bitcoin is counted in units of eight satoshi.                 *)
EXTENDS Integers, Sequences, SequencesExt

MilliBtc == 12500
TxFee == 1250                                          \* 10000 satoshi

-----------------------------------------------------------------------------
(* Where the nonce of a transaction comes from: the account as the API knows  *)
(* it (no nonce given), a nonce that the script holds, a held nonce that is   *)
(* fetched again when it is zero (`nonce ? nonce : await getNonce`), or a     *)
(* number written in the script.                                              *)
Fresh          == [from |-> "api", plus |-> 0]
HeldOneLess(k) == [from |-> "held", plus |-> k - 1]
Held(k)        == [from |-> "held", plus |-> k]
HeldOrFresh(k) == [from |-> "heldOrApi", plus |-> k]
Literal(n)     == [from |-> "literal", plus |-> n]

NonceOf(source, held, known) ==
    CASE source.from = "api"       -> known
      [] source.from = "held"      -> held + source.plus
      [] source.from = "heldOrApi" -> IF held + source.plus = 0 THEN known ELSE held + source.plus
      [] source.from = "literal"   -> source.plus

(* bitcoin.ts: the script of a hash time-locked output.  The recipient takes  *)
(* it with the preimage of the hash, the sender after `expiration` blocks.    *)
NoHtlc ==
    [hash |-> "none", sender |-> "none", recipient |-> "none", expiration |-> 0, swapper |-> 0]

Htlc(hash, sender, recipient, expiration, swapper) ==
    [hash |-> hash, sender |-> sender, recipient |-> recipient,
     expiration |-> expiration, swapper |-> swapper]

(* A contract call: who signs it, the function of which contract, how many    *)
(* arguments, which contracts are among them, and for the swap calls what of  *)
(* the arguments is about a transaction of Bitcoin.                           *)
Call(by, contract, fn, args, names) ==
    [by |-> by, contract |-> contract, fn |-> fn, args |-> args, names |-> names,
     proves |-> "none", output |-> 0, htlc |-> NoHtlc, preimage |-> "none"]

Proving(call, tx, output) == [call EXCEPT !.proves = tx, !.output = output]

(* Instructions. *)
GetNonce(by)               == <<[op |-> "getNonce", by |-> by]>>
Make(call, source)         == <<[op |-> "make", call |-> call, nonce |-> source]>>
Broadcast                  == <<[op |-> "broadcast"]>>
Submit(call, source)       == Make(call, source) \o Broadcast
WaitForStacksBlock         == <<[op |-> "note", chain |-> "stacks"], [op |-> "awaitBlock"]>>
WaitForBitcoinBlock        == <<[op |-> "note", chain |-> "bitcoin"], [op |-> "awaitBlock"]>>
WaitForStacksTransaction   == <<[op |-> "awaitTransaction"]>>
WaitForTxConfirmation(tx)  == <<[op |-> "awaitConfirmation", tx |-> tx]>>
GetProof(tx)               == <<[op |-> "getProof", tx |-> tx]>>
Load                       == <<[op |-> "load"]>>
Read(contract, fn, args, into) ==
    <<[op |-> "read", contract |-> contract, fn |-> fn, args |-> args, into |-> into]>>

(* sendToAddress spends output `index` of `from`, which the script takes to   *)
(* be worth `worth`, into a payment and a change output; `amount` 0 stands    *)
(* for the amount that the contract told.                                     *)
SendToAddress(tx, from, index, pays, worth, amount) ==
    <<[op |-> "send", tx |-> tx, from |-> from, index |-> index, pays |-> pays,
       worth |-> worth, amount |-> amount]>>

(* A spend of the htlc that `tx` pays, in the branch of its script.           *)
SpendHtlc(tx, from, by, preimage, sequence) ==
    <<[op |-> "spend", tx |-> tx, from |-> from, by |-> by, preimage |-> preimage,
       sequence |-> sequence]>>

-----------------------------------------------------------------------------
(* The calls of stacks.ts and those that the scripts make themselves.         *)
InitializeSwapper(by) == Call(by, "magic-protocol", "InitializeSwapper", 0, {})
OnboardUserAddress == Call("deployer", "globals", "OnboardUserAddress", 3, {})
TransferToSupplier == Call("deployer", "Wrapped-Bitcoin", "Transfer", 4, {"supplier-interface"})
RegisterSupplier == Call("deployer", "supplier-interface", "RegisterSupplier", 7, {})
UpdateLiquidity == Call("deployer", "supplier-interface", "UpdateLiquidity", 2, {})

CreatePool ==
    Call("deployer", "pool-v1-0", "CreatePool", 17,
         {"lp-token", "zest-reward-dist", "payment-fixed", "rewards-calc", "liquidity-vault-v1-0",
          "cp-token", "cover-vault", "cp-rewards-token", "Wrapped-Bitcoin"})

FinalizePool ==
    Call("delegate", "pool-v1-0", "FinalizePool", 4, {"lp-token", "zest-reward-dist", "cp-token"})

SendFunds(by, tx, htlc) ==
    [Proving(Call(by, "supplier-interface", "SendFunds", 12, {}), tx, 0) EXCEPT !.htlc = htlc]

SendFundsFinalize(preimage) ==
    [Call("lp", "supplier-interface", "SendFundsFinalize", 9,
          {"lp-token", "zest-reward-dist", "liquidity-vault-v1-0", "Wrapped-Bitcoin",
           "rewards-calc"})
     EXCEPT !.preimage = preimage]

CreateLoan ==
    Call("borrower", "pool-v1-0", "CreateLoan", 11,
         {"lp-token", "Wrapped-Bitcoin", "coll-vault", "funding-vault"})

FundLoan ==
    Call("delegate", "pool-v1-0", "FundLoan", 6,
         {"lp-token", "liquidity-vault-v1-0", "funding-vault", "Wrapped-Bitcoin"})

Drawdown ==
    Call("borrower", "supplier-interface", "Drawdown", 11,
         {"lp-token", "Wrapped-Bitcoin", "coll-vault", "funding-vault", "swap-router"})

FinalizeDrawdown ==
    Proving(Call("deployer", "supplier-interface", "FinalizeDrawdown", 13,
                 {"lp-token", "Wrapped-Bitcoin", "coll-vault", "funding-vault"}),
            "drawdown", 0)

MakePayment(preimage) ==
    [Call("borrower", "supplier-interface", "MakePayment", 12,
          {"payment-fixed", "lp-token", "liquidity-vault-v1-0", "cp-token", "cp-rewards-token",
           "zest-reward-dist", "swap-router", "Wrapped-Bitcoin"})
     EXCEPT !.preimage = preimage]

WithdrawRewards ==
    Call("lp", "supplier-interface", "WithdrawRewards", 7,
         {"lp-token", "liquidity-vault-v1-0", "Wrapped-Bitcoin"})

FinalizeOutbound ==
    Proving(Call("deployer", "supplier-interface", "FinalizeOutbound", 6, {}), "rewards", 0)

SetupContractsSkipping ==
    Submit(TransferToSupplier, Held(0)) \o Submit(RegisterSupplier, Held(1))
        \o Submit(CreatePool, Held(2)) \o Submit(UpdateLiquidity, Held(4))

(* setupContracts: four calls at the nonces after the one it is given.        *)
SetupContracts ==
    Submit(TransferToSupplier, Held(0)) \o Submit(RegisterSupplier, Held(1))
        \o Submit(CreatePool, Held(2)) \o Submit(UpdateLiquidity, Held(3))

LastNonceCount == 4
LastNonce == 3                                         \* what setupContracts returns

(* setupBitcoinAddresses: pay the LP out of the coinbase of block 5.          *)
SetupBitcoinAddresses ==
    SendToAddress("funding", "coinbase5", 0, NoHtlc, 50000 * MilliBtc, 1000 * MilliBtc)

(* The htlc that pays a swap; all scripts but one let it expire after 500     *)
(* blocks.  sender is the key of the Stacks account.                          *)
SwapHtlc(hash, sender, swapper) == Htlc(hash, sender, "supplier", 500, swapper)

-----------------------------------------------------------------------------
(* initialize-pool.ts: the pool is created twice, by setupContracts and by    *)
(* createPool, and finalized by its delegate once the second is confirmed.    *)
InitializePoolSteps ==
    GetNonce("deployer") \o SetupContracts
        \o Submit(CreatePool, HeldOrFresh(LastNonce + 1)) \o WaitForStacksTransaction
        \o Submit(FinalizePool, Fresh)

SendFundsStepsUnanchored ==
    LET htlc == SwapHtlc("hash1", "lp", 0)
    IN  Submit(InitializeSwapper("lp"), Fresh)
            \o SetupBitcoinAddresses \o WaitForTxConfirmation("funding")
            \o SendToAddress("deposit", "funding", 0, htlc, 1000 * MilliBtc, 100 * MilliBtc)
            \o WaitForTxConfirmation("deposit") \o GetProof("deposit")
            \o GetNonce("lp") \o Submit(SendFunds("lp", "deposit", htlc), HeldOrFresh(0))
            \o WaitForStacksBlock
            \o Submit(SendFundsFinalize("hash1"), Fresh)

(* send-funds.ts: escrow bitcoin of the LP in an htlc, prove it to the        *)
(* supplier interface and reveal the preimage.                                *)
SendFundsSteps ==
    LET htlc == SwapHtlc("hash1", "lp", 0)
    IN  Submit(InitializeSwapper("lp"), Fresh)
            \o SetupBitcoinAddresses \o WaitForTxConfirmation("funding")
            \o SendToAddress("deposit", "funding", 0, htlc, 1000 * MilliBtc, 100 * MilliBtc)
            \o WaitForTxConfirmation("deposit") \o WaitForStacksBlock
            \o GetProof("deposit")
            \o GetNonce("lp") \o Submit(SendFunds("lp", "deposit", htlc), HeldOrFresh(0))
            \o WaitForStacksBlock
            \o Submit(SendFundsFinalize("hash1"), Fresh)

(* drawdown.ts: lend the pool's funds to the borrower and pay them out of the *)
(* coinbase of block 6.  The loan is created twice in a row.                  *)
DrawdownSteps ==
    Load
        \o Submit(OnboardUserAddress, Fresh) \o WaitForStacksBlock
        \o Submit(CreateLoan, Fresh) \o Submit(CreateLoan, Fresh) \o WaitForStacksBlock
        \o Submit(FundLoan, Fresh) \o WaitForStacksBlock
        \o Submit(Drawdown, Fresh)

DrawdownPayout ==
    SendToAddress("drawdown", "coinbase6", 0, NoHtlc, 50000 * MilliBtc, 1000 * MilliBtc)
        \o WaitForTxConfirmation("drawdown") \o WaitForStacksBlock
        \o GetProof("drawdown") \o Submit(FinalizeDrawdown, Fresh)

(* make-payment.ts, from the deposit of the LP to the first payment.          *)
PaymentDeposit ==
    LET htlc == SwapHtlc("hash1", "lp", 0)
    IN  Load
            \o Submit(InitializeSwapper("lp"), Fresh) \o Submit(OnboardUserAddress, Fresh)
            \o SetupBitcoinAddresses \o WaitForTxConfirmation("funding")
            \o SendToAddress("deposit", "funding", 0, htlc, 1000 * MilliBtc, 100 * MilliBtc)
            \o WaitForTxConfirmation("deposit")
            \o GetNonce("deployer") \o SetupContracts \o WaitForStacksBlock

PaymentEscrowAtOnce ==
    GetProof("deposit")
        \o Make(SendFunds("lp", "deposit", SwapHtlc("hash1", "lp", 0)), Fresh)
        \o WaitForStacksBlock \o Broadcast
        \o Submit(FinalizePool, Fresh)
        \o Submit(SendFundsFinalize("hash1"), Literal(2))

PaymentEscrow ==
    GetProof("deposit")
        \o Make(SendFunds("lp", "deposit", SwapHtlc("hash1", "lp", 0)), Fresh)
        \o WaitForStacksBlock \o Broadcast
        \o Submit(FinalizePool, Fresh) \o WaitForStacksBlock
        \o Submit(SendFundsFinalize("hash1"), Literal(2))

PaymentLoanAtOnce ==
    Submit(CreateLoan, Fresh)
        \o Submit(FundLoan, Fresh) \o WaitForStacksBlock
        \o Submit(Drawdown, Fresh)

PaymentLoan ==
    Submit(CreateLoan, Fresh) \o WaitForStacksBlock
        \o Submit(FundLoan, Fresh) \o WaitForStacksBlock
        \o Submit(Drawdown, Fresh)

PaymentPayout ==
    SendToAddress("drawdown", "coinbase6", 0, NoHtlc, 50000 * MilliBtc, 1000 * MilliBtc)
        \o WaitForTxConfirmation("drawdown") \o WaitForStacksBlock
        \o GetProof("drawdown") \o Submit(FinalizeDrawdown, Fresh)

(* The script calls initialize-swapper of BridgeContract, a binding that is   *)
(* not among the generated ones; this is the call of the ported script, which *)
(* names the contract that has the function now.                              *)
PaymentDue ==
    GetNonce("borrower") \o Submit(InitializeSwapper("borrower"), Held(0))
        \o Read("loan-v1-0", "GetLoanRead", 1, "loan")
        \o Read("payment-fixed", "GetPayment", 6, "due")

PaymentRepay ==
    LET htlc == SwapHtlc("hash2", "borrower", 1)
    IN  SendToAddress("payment", "drawdown", 0, htlc, 1000 * MilliBtc, 0)
            \o WaitForTxConfirmation("payment") \o WaitForStacksBlock
            \o GetProof("payment") \o Submit(SendFunds("borrower", "payment", htlc), Fresh)
            \o WaitForStacksBlock
            \o Submit(MakePayment("hash2"), Fresh)

(* claim-rewards.ts: the same up to the payment, with a loan of 0.5 bitcoin,  *)
(* and then the rewards of the LP out of the change of the payout.            *)
ClaimDeposit ==
    LET htlc == SwapHtlc("hash1", "lp", 0)
    IN  Load
            \o Submit(OnboardUserAddress, Literal(54))
            \o GetNonce("lp") \o Submit(InitializeSwapper("lp"), Held(0))
            \o SetupBitcoinAddresses \o WaitForTxConfirmation("funding")
            \o SendToAddress("deposit", "funding", 0, htlc, 1000 * MilliBtc, 500 * MilliBtc)
            \o WaitForTxConfirmation("deposit")
            \o GetNonce("deployer") \o SetupContracts \o WaitForStacksBlock

ClaimEscrow ==
    GetProof("deposit")
        \o Make(SendFunds("lp", "deposit", SwapHtlc("hash1", "lp", 0)), Fresh)
        \o WaitForStacksBlock \o Broadcast
        \o Submit(FinalizePool, Fresh) \o WaitForStacksBlock
        \o Submit(SendFundsFinalize("hash1"), Literal(2))

ClaimLoan ==
    Submit(CreateLoan, Fresh) \o WaitForStacksBlock
        \o Submit(FundLoan, Fresh) \o WaitForStacksBlock
        \o Submit(Drawdown, Fresh)

ClaimPayout ==
    SendToAddress("drawdown", "coinbase6", 0, NoHtlc, 50000 * MilliBtc, 500 * MilliBtc)
        \o WaitForTxConfirmation("drawdown") \o WaitForStacksBlock
        \o GetProof("drawdown") \o Submit(FinalizeDrawdown, Fresh)

ClaimDue ==
    GetNonce("borrower") \o Submit(InitializeSwapper("borrower"), Held(0))
        \o Read("loan-v1-0", "GetLoanRead", 1, "loan")
        \o Read("payment-fixed", "GetPayment", 6, "due")

ClaimRepay ==
    LET htlc == SwapHtlc("hash2", "borrower", 1)
    IN  SendToAddress("payment", "drawdown", 0, htlc, 500 * MilliBtc, 0)
            \o WaitForTxConfirmation("payment") \o WaitForStacksBlock
            \o GetProof("payment") \o Submit(SendFunds("borrower", "payment", htlc), Fresh)
            \o WaitForStacksBlock
            \o Submit(MakePayment("hash2"), Fresh) \o WaitForStacksBlock

ClaimRewardsOtherChange ==
    Read("lp-token", "WithdrawableFundsOf", 2, "due")
        \o Submit(WithdrawRewards, Fresh)
        \o SendToAddress("rewards", "drawdown", 1, NoHtlc, 49000 * MilliBtc - TxFee, 0)
        \o WaitForTxConfirmation("rewards") \o WaitForStacksBlock
        \o GetProof("rewards") \o Submit(FinalizeOutbound, Fresh)

ClaimRewards ==
    Read("lp-token", "WithdrawableFundsOf", 2, "due")
        \o Submit(WithdrawRewards, Fresh)
        \o SendToAddress("rewards", "drawdown", 1, NoHtlc, 49500 * MilliBtc - TxFee, 0)
        \o WaitForTxConfirmation("rewards") \o WaitForStacksBlock
        \o GetProof("rewards") \o Submit(FinalizeOutbound, Fresh)

(* supplier-redeem-htlc.ts and claim-htlc-example.ts: pay an htlc out of the  *)
(* first unspent output of the miner; the supplier takes it with the          *)
(* preimage, or the sender takes it back after four blocks.                   *)
RedeemHtlc ==
    SendToAddress("funding", "unspent", 0, NoHtlc, 50000 * MilliBtc, 5000 * MilliBtc)
        \o WaitForTxConfirmation("funding")
        \o SendToAddress("deposit", "funding", 0, SwapHtlc("hash1", "lp", 0),
                         5000 * MilliBtc, 1000 * MilliBtc)
        \o WaitForTxConfirmation("deposit")
        \o SpendHtlc("redeem", "deposit", "supplier", "hash1", 0)
        \o WaitForTxConfirmation("redeem")

RefundHtlc ==
    SendToAddress("funding", "unspent", 0, NoHtlc, 50000 * MilliBtc, 5000 * MilliBtc)
        \o WaitForTxConfirmation("funding")
        \o SendToAddress("deposit", "funding", 0, Htlc("hash1", "lp", "supplier", 4, 0),
                         5000 * MilliBtc, 1000 * MilliBtc)
        \o WaitForTxConfirmation("deposit")
        \o FlattenSeq([i \in 1 .. 6 |-> WaitForBitcoinBlock])
        \o SpendHtlc("refund", "deposit", "lp", "none", 4)
        \o WaitForTxConfirmation("refund")

Program ==
    [initializePool |-> InitializePoolSteps,
     sendFunds      |-> SendFundsSteps,
     drawdown       |-> DrawdownSteps \o DrawdownPayout,
     makePayment    |-> PaymentDeposit \o PaymentEscrow \o PaymentLoan \o PaymentPayout
                            \o PaymentDue \o PaymentRepay,
     claimRewards   |-> ClaimDeposit \o ClaimEscrow \o ClaimLoan \o ClaimPayout
                            \o ClaimDue \o ClaimRepay \o ClaimRewards,
     redeemHtlc     |-> RedeemHtlc,
     refundHtlc     |-> RefundHtlc]

(* The call, or the transaction of Bitcoin, that a script is run for.         *)
Goal ==
    [initializePool |-> "FinalizePool", sendFunds |-> "SendFundsFinalize",
     drawdown |-> "FinalizeDrawdown", makePayment |-> "MakePayment",
     claimRewards |-> "FinalizeOutbound", redeemHtlc |-> "redeem", refundHtlc |-> "refund"]

(* The scripts whose body is in a try block that logs and goes on.            *)
Catching == {"initializePool", "sendFunds"}
=============================================================================
