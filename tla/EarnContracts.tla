---------------------------- MODULE EarnContracts ----------------------------
(* The contracts of the earn product that the scripts of src/src name, as     *)
(* their generated bindings in src/onchain/artifacts/contracts.ts state them: *)
(* each function with the number of its arguments.  The contracts themselves  *)
(* are not in the repository.  A binding lists the functions a transaction    *)
(* can call first and the read-only ones after them; the second part is the   *)
(* table ...Reads.                                                            *)
EXTENDS TLC

WrappedBitcoin ==
    [AddPrincipalToRole |-> 2, BurnTokens |-> 2, Initialize |-> 4,
     MintTokens |-> 2, RemovePrincipalFromRole |-> 2, RevokeTokens |-> 3,
     SetTokenUri |-> 1, Transfer |-> 4, UpdateBlacklisted |-> 2]

WrappedBitcoinReads ==
    [DetectTransferRestriction |-> 3, GetBalance |-> 1, GetDecimals |-> 0,
     GetName |-> 0, GetSymbol |-> 0, GetTokenUri |-> 0, GetTotalSupply |-> 0,
     HasRole |-> 2, IsBlacklisted |-> 1, MessageForRestriction |-> 1]

MagicProtocol ==
    [AddFunds |-> 1, EscrowSwap |-> 12, FinalizeOutboundSwap |-> 6,
     FinalizeSwap |-> 2, InitializeSwapper |-> 0, InitiateOutboundSwap |-> 4,
     RegisterSupplier |-> 6, RemoveFunds |-> 1, RevokeExpiredInbound |-> 1,
     RevokeExpiredOutbound |-> 1, UpdateSupplierFees |-> 4,
     UpdateSupplierPublicKey |-> 1]

MagicProtocolReads ==
    [BuffToU8 |-> 1, BytesLen |-> 1, ConcatBuffs |-> 1,
     GenerateHtlcScript |-> 5, GenerateHtlcScriptHash |-> 5,
     GenerateOutput |-> 2, GenerateP2pkhOutput |-> 1,
     GenerateP2shOutput |-> 1, GenerateScriptHash |-> 1,
     GetAmountWithFeeRate |-> 2, GetCompletedOutboundSwapByTxid |-> 1,
     GetCompletedOutboundSwapTxid |-> 1, GetEscrow |-> 1,
     GetFullInbound |-> 1, GetFullSupplier |-> 1, GetFunds |-> 1,
     GetInboundMeta |-> 1, GetInboundSwap |-> 1, GetNextOutboundId |-> 0,
     GetNextSupplierId |-> 0, GetNextSwapperId |-> 0, GetOutboundSwap |-> 1,
     GetPreimage |-> 1, GetSupplier |-> 1, GetSupplierIdByController |-> 1,
     GetSupplierIdByPublicKey |-> 1, GetSwapAmount |-> 3, GetSwapperId |-> 1,
     GetSwapperPrincipal |-> 1, GetTotalInboundVolume |-> 0,
     GetTotalOutboundVolume |-> 0, GetTotalVolume |-> 0,
     GetUserInboundVolume |-> 1, GetUserOutboundVolume |-> 1,
     GetUserTotalVolume |-> 1, ReadUint32 |-> 2, ValidateBtcAddr |-> 2,
     ValidateExpiration |-> 2, ValidateFee |-> 1,
     ValidateOutboundRevocable |-> 1]

SupplierInterface ==
    [AddFunds |-> 1, CancelDrawdown |-> 8, CancelRollover |-> 8,
     CompleteRollover |-> 11, Drawdown |-> 11, DrawdownXbtc |-> 8,
     FinalizeDrawdown |-> 13, FinalizeOutbound |-> 6, FinalizeRollover |-> 13,
     MakeFullPayment |-> 12, MakeFullPaymentXbtc |-> 11, MakePayment |-> 12,
     MakePaymentXbtc |-> 11, MakeResidualPayment |-> 7,
     RegisterSupplier |-> 7, RemoveFunds |-> 1, SendFunds |-> 12,
     SendFundsFinalize |-> 9, SendFundsWrap |-> 20, SendFundsXbtc |-> 8,
     TransferOwner |-> 1, UpdateLiquidity |-> 2, UpdateSupplier |-> 6,
     Withdraw |-> 9, WithdrawCoverRewards |-> 7,
     WithdrawCoverRewardsXbtc |-> 7, WithdrawRewards |-> 7,
     WithdrawRewardsXbtc |-> 4, WithdrawXbtc |-> 6]

SupplierInterfaceReads ==
    [GetCurrentLiquidity |-> 0, GetLiquidity |-> 1, GetLiquidityRead |-> 1,
     GetOwner |-> 0, ValidateOwner |-> 0]

Globals ==
    [AddAdmin |-> 1, AddGovernor |-> 1, GetContractOwner |-> 0,
     IsOnboardedAddress |-> 3, IsOnboardedUser |-> 1,
     OffboardUserAddress |-> 3, OnboardUserAddress |-> 3, RemoveAdmin |-> 1,
     RemoveGovernor |-> 1, SetCollContract |-> 1, SetCollVault |-> 1,
     SetContingencyPlan |-> 1, SetContractOwner |-> 1,
     SetCoverCooldownPeriod |-> 1, SetCoverPoolContract |-> 1,
     SetCoverPoolToken |-> 1, SetCoverRewardsPoolToken |-> 1,
     SetCoverUnstakeWindow |-> 1, SetCoverVault |-> 1, SetCp |-> 1,
     SetFundingPeriod |-> 1, SetFundingVault |-> 1, SetGracePeriod |-> 1,
     SetInvestorFee |-> 1, SetLiquidityVault |-> 1, SetLoanContract |-> 1,
     SetLp |-> 1, SetLpCooldownPeriod |-> 1, SetLpUnstakeWindow |-> 1,
     SetMaxSlippage |-> 1, SetPaused |-> 1, SetPayment |-> 1,
     SetPoolContract |-> 1, SetProtocolTreasury |-> 1, SetRewardsCalc |-> 1,
     SetSp |-> 1, SetStakerCooldownPeriod |-> 1, SetStakerUnstakeWindow |-> 1,
     SetSupplierInterface |-> 1, SetSwap |-> 1, SetTreasuryFee |-> 1,
     SetXbtcContract |-> 1, SetZp |-> 1]

GlobalsReads ==
    [GetCoverPoolContract |-> 0, GetCycleLengthDefault |-> 0,
     GetDayLengthDefault |-> 0, GetGlobals |-> 0, GetLoanContract |-> 0,
     GetPoolContract |-> 0, IsAdmin |-> 1, IsCollContract |-> 1,
     IsCollVault |-> 1, IsContractOwner |-> 0, IsCoverPoolContract |-> 1,
     IsCoverPoolToken |-> 1, IsCoverRewardsPoolToken |-> 1,
     IsCoverVault |-> 1, IsCp |-> 1, IsFundingVault |-> 1, IsGovernor |-> 1,
     IsLiquidityVault |-> 1, IsLoanContract |-> 1, IsLp |-> 1,
     IsOnboardedAddressRead |-> 3, IsOnboardedUserRead |-> 1, IsPayment |-> 1,
     IsPoolContract |-> 1, IsRewardsCalc |-> 1, IsSp |-> 1,
     IsSupplierInterface |-> 1, IsSwap |-> 1, IsTreasury |-> 1, IsXbtc |-> 1,
     IsZp |-> 1]

PoolV10 ==
    [AcceptRollover |-> 6, AddCoverProvider |-> 2, AddLiquidityProvider |-> 2,
     ApproveGovernor |-> 2, CallerIs |-> 1, CancelDrawdown |-> 8,
     CancelRollover |-> 9, CompleteRollover |-> 9,
     CompleteRolloverNoWithdrawal |-> 8, CreateLoan |-> 11, CreatePool |-> 17,
     DeclareLoanLiquidated |-> 9, DisableCover |-> 3, Drawdown |-> 9,
     EnableCover |-> 3, FinalizeDrawdown |-> 7, FinalizePool |-> 4,
     FinalizeRollover |-> 7, FundLoan |-> 6, GetFundsSent |-> 2,
     GetLoanPoolId |-> 1, GetPool |-> 1, GetSentFunds |-> 3, IsGovernor |-> 2,
     IsSupplierInterface |-> 0, LiquidateLoan |-> 11,
     MakeResidualPayment |-> 7, RecommitFunds |-> 10,
     RemoveCoverProvider |-> 2, RemoveLiquidityProvider |-> 2,
     RemovedGovernor |-> 2, ReturnOtcLiquidation |-> 12, SendFunds |-> 10,
     SetContractOwner |-> 1, SetCoverFee |-> 3, SetCycleLength |-> 4,
     SetDelegate |-> 4, SetDelegateFee |-> 3, SetLiquidityCap |-> 3,
     SetMaxMaturityLength |-> 3, SetMinCycles |-> 4, SetOpen |-> 4,
     SignalWithdrawal |-> 3, TriggerDefaultMode |-> 2, Unwind |-> 6,
     Withdraw |-> 7, WithdrawRewards |-> 5, WithdrawZestRewards |-> 3]

PoolV10Reads ==
    [CalculateNewCommitment |-> 5, DftToXbtc |-> 1,
     FundsCommitmentEndsAtHeight |-> 2, FundsCommittedFor |-> 2,
     FundsLockedFor |-> 2, GetContractOwner |-> 0, GetCurrentCycle |-> 1,
     GetCycleAt |-> 2, GetCycleStart |-> 1, GetFundsSentRead |-> 2,
     GetHeightOfCycle |-> 2, GetLastPoolId |-> 1, GetLoanPoolIdRead |-> 1,
     GetNextCycle |-> 1, GetNextCycleHeight |-> 1, GetPoolRead |-> 1,
     GetTimeUntilWithdrawal |-> 2, HasCommittedFunds |-> 2,
     HasLockedFunds |-> 2, IsContractOwner |-> 1, IsDelegate |-> 1,
     IsLiquidityProvider |-> 2, LcCheck |-> 2, TimeLeftForWithdrawal |-> 2,
     TimeLeftUntilWithdrawal |-> 2, TimeUntilCommitmentEnds |-> 2,
     ToPrecision |-> 1]

LoanV10 ==
    [CancelDrawdown |-> 10, CancelRollover |-> 9, CompleteRollover |-> 8,
     CreateLoan |-> 10, Drawdown |-> 12, FinalizeDrawdown |-> 10,
     FinalizeRollover |-> 6, FundLoan |-> 1, GetLoan |-> 1,
     GetRolloverProgress |-> 1, GetWithdrawableCollateral |-> 6,
     IsSupplierInterface |-> 0, Liquidate |-> 6, LiquidateOtc |-> 5,
     MakeFullPayment |-> 13, MakePayment |-> 13, MakeResidualPayment |-> 5,
     ReadyRollover |-> 2, RequestRollover |-> 7, SetContractOwner |-> 1,
     Unwind |-> 5, WithdrawCollateralLoan |-> 6]

LoanV10Reads ==
    [CallerIsPool |-> 0, CanBorrow |-> 1, CanLiquidate |-> 1, GetBp |-> 2,
     GetContractOwner |-> 0, GetLastLoanId |-> 0, GetLoanRead |-> 1,
     GetPoolContract |-> 0, GetRolloverProgressOptional |-> 1,
     GetRolloverProgressRead |-> 1, IsContractOwner |-> 1, IsOnboarded |-> 1,
     NextPaymentIn |-> 1, ToPrecision |-> 1]

PaymentFixed ==
    [Callback |-> 2, MakeFullPayment |-> 12, MakeNextPayment |-> 12,
     SetContractOwner |-> 1, SetEarlyRepaymentFee |-> 1, SetLateFee |-> 1,
     TriggerLatePayment |-> 2]

PaymentFixedReads ==
    [GetContractOwner |-> 0, GetCurrentLoanPayment |-> 2,
     GetEarlyRepaymentAmount |-> 2, GetPayment |-> 6,
     GetPaymentAtHeight |-> 3, GetPrc |-> 2, IsApprovedContract |-> 1,
     IsContractOwner |-> 1, IsPayingLateFees |-> 1]

LpToken ==
    [AddRewards |-> 2, Burn |-> 3, DistributeLosses |-> 2,
     GetContractOwner |-> 0, Mint |-> 3, RecognizableLossesOf |-> 2,
     RecognizeLosses |-> 2, SetContractOwner |-> 1, SetCycleStart |-> 2,
     SetTokenUri |-> 2, Transfer |-> 4, TransferMany |-> 1,
     TransferManyMemo |-> 1, TransferMemo |-> 5, WithdrawRewards |-> 2]

LpTokenReads ==
    [AccumulativeFundsOf |-> 2, AccumulativeLossesOf |-> 2, GetBalance |-> 2,
     GetBalanceUint |-> 2, GetDecimals |-> 1, GetLossesCorrection |-> 2,
     GetLossesPerShare |-> 1, GetOverallBalance |-> 1, GetOverallSupply |-> 0,
     GetPointsCorrection |-> 2, GetPointsPerShare |-> 1,
     GetPoolFundsBalance |-> 2, GetPoolLostFunds |-> 2,
     GetPoolSentFunds |-> 2, GetRecognizedLosses |-> 2, GetTokenUri |-> 1,
     GetTotalSupply |-> 1, GetTotalSupplyUint |-> 1, GetWithdrawnFunds |-> 2,
     IsApprovedContract |-> 1, IsContractOwner |-> 1,
     RecognizableLossesOfRead |-> 2, WithdrawableFundsOf |-> 2]

ZestRewardDist ==
    [AddRewards |-> 2, Burn |-> 3, EmptyCommitments |-> 2,
     GetCommittedFunds |-> 2, GetContractOwner |-> 0, Mint |-> 3,
     SetContractOwner |-> 1, SetCycleStart |-> 2, SetShareCycles |-> 5,
     SetTokenUri |-> 2, Transfer |-> 4, TransferMany |-> 1,
     TransferManyMemo |-> 1, TransferMemo |-> 5, WithdrawCycleRewards |-> 2,
     WithdrawRewards |-> 2]

ZestRewardDistReads ==
    [AccumulativeFundsOf |-> 2, GetAllCycleRewardsOf |-> 2, GetBalance |-> 2,
     GetBalanceUint |-> 2, GetClaimableRewardsBy |-> 2, GetCurrentCycle |-> 1,
     GetCycleAt |-> 2, GetCycleRewards |-> 2, GetCycleShare |-> 2,
     GetCycleSharePrincipal |-> 3, GetCycleStart |-> 1, GetDecimals |-> 1,
     GetNextCycleHeight |-> 1, GetOverallBalance |-> 1,
     GetOverallSupply |-> 0, GetPointsCorrection |-> 2,
     GetPointsPerShare |-> 1, GetSentFunds |-> 2, GetSumCycles |-> 4,
     GetTokenUri |-> 1, GetTotalSupply |-> 1, GetTotalSupplyUint |-> 1,
     GetWithdrawableRewards |-> 2, GetWithdrawnFunds |-> 2,
     IsApprovedContract |-> 1, IsContractOwner |-> 1,
     WithdrawableFundsOfRead |-> 2]

CpToken ==
    [AddRewards |-> 2, Burn |-> 3, DistributeLosses |-> 2,
     EmptyCommitments |-> 2, GetCommittedFunds |-> 2, GetContractOwner |-> 0,
     Mint |-> 3, RecognizableLossesOf |-> 2, RecognizeLosses |-> 2,
     SetContractOwner |-> 1, SetCycleStart |-> 2, SetShareCycles |-> 5,
     SetTokenUri |-> 2, Transfer |-> 4, TransferMany |-> 1,
     TransferManyMemo |-> 1, TransferMemo |-> 5, WithdrawCycleRewards |-> 2,
     WithdrawRewards |-> 2]

CpTokenReads ==
    [AccumulativeFundsOf |-> 2, AccumulativeLossesOf |-> 2, GetBalance |-> 2,
     GetBalanceUint |-> 2, GetCoverPoolFundsBalance |-> 2,
     GetCoverPoolLostFunds |-> 2, GetCoverPoolSentFunds |-> 2,
     GetCurrentCycle |-> 1, GetCycleAt |-> 2, GetCycleRewards |-> 2,
     GetCycleShare |-> 2, GetCycleSharePrincipal |-> 3, GetCycleStart |-> 1,
     GetDecimals |-> 1, GetLossesCorrection |-> 2, GetLossesPerShare |-> 1,
     GetNextCycleHeight |-> 1, GetOverallBalance |-> 1,
     GetOverallSupply |-> 0, GetPointsCorrection |-> 2,
     GetPointsPerShare |-> 1, GetRecognizedLosses |-> 2, GetSentFunds |-> 2,
     GetSumCycles |-> 4, GetTokenUri |-> 1, GetTotalSupply |-> 1,
     GetTotalSupplyUint |-> 1, GetWithdrawableRewards |-> 2,
     GetWithdrawnFunds |-> 2, IsApprovedContract |-> 1, IsContractOwner |-> 1,
     RecognizableLossesOfRead |-> 2, WithdrawableFundsOf |-> 2,
     WithdrawableFundsOfRead |-> 2]

CpRewardsToken ==
    [AddRewards |-> 2, Burn |-> 3, GetContractOwner |-> 0, Mint |-> 3,
     SetContractOwner |-> 1, SetTokenUri |-> 2, Transfer |-> 4,
     TransferMany |-> 1, TransferManyMemo |-> 1, TransferMemo |-> 5,
     WithdrawRewards |-> 2]

CpRewardsTokenReads ==
    [AccumulativeFundsOf |-> 2, GetBalance |-> 2, GetBalanceUint |-> 2,
     GetDecimals |-> 1, GetOverallBalance |-> 1, GetOverallSupply |-> 0,
     GetPointsCorrection |-> 2, GetPointsPerShare |-> 1, GetSentFunds |-> 2,
     GetTokenUri |-> 1, GetTotalSupply |-> 1, GetTotalSupplyUint |-> 1,
     GetWithdrawnFunds |-> 2, IsApprovedContract |-> 1, IsContractOwner |-> 1,
     WithdrawableFundsOf |-> 2]

RewardsCalc ==
    [Callback |-> 2, GetContractOwner |-> 0, MintRewards |-> 3,
     MintRewardsBase |-> 2, SetContractOwner |-> 1]

RewardsCalcReads ==
    [GetBaseReward |-> 0, GetMintRewards |-> 3, GetMintRewardsBase |-> 2,
     GetMultiplier |-> 1, IsApprovedContract |-> 1, IsContractOwner |-> 1,
     Polynomial |-> 1]

LiquidityVaultV10 ==
    [AddAsset |-> 4, Draw |-> 3, GetAsset |-> 1, GetContractOwner |-> 0,
     RemoveAsset |-> 4, SetContractOwner |-> 1, Transfer |-> 3]

LiquidityVaultV10Reads ==
    [IsApprovedContract |-> 1, IsContractOwner |-> 1]

CoverVault ==
    [AddAsset |-> 4, Draw |-> 3, GetAsset |-> 1, GetContractOwner |-> 0,
     RemoveAsset |-> 4, SetContractOwner |-> 1, Transfer |-> 3]

CoverVaultReads ==
    [IsApprovedContract |-> 1, IsContractOwner |-> 1]

CollVault ==
    [AddCollateral |-> 4, Draw |-> 3, GetLoanColl |-> 1,
     RemoveCollateral |-> 4, SetContractOwner |-> 1, Store |-> 4,
     Transfer |-> 3]

CollVaultReads ==
    [GetContractOwner |-> 0, IsApprovedContract |-> 1, IsContractOwner |-> 1]

FundingVault ==
    [AddAsset |-> 4, Draw |-> 3, GetAsset |-> 1, GetContractOwner |-> 0,
     RemoveAsset |-> 4, SetContractOwner |-> 1, Transfer |-> 3]

FundingVaultReads ==
    [IsApprovedContract |-> 1, IsContractOwner |-> 1]

SwapRouter ==
    [GetXGivenY |-> 3, GetYGivenX |-> 3, SetPairValue |-> 3, SwapXForY |-> 5,
     SwapYForX |-> 5]

SwapRouterReads ==
    [GetPair |-> 2, GetRelativeValueBp |-> 2]

(* The contracts by name, with the functions that a transaction may call ...  *)
Interface ==
       "Wrapped-Bitcoin" :> WrappedBitcoin
    @@ "magic-protocol" :> MagicProtocol
    @@ "supplier-interface" :> SupplierInterface
    @@ "globals" :> Globals
    @@ "pool-v1-0" :> PoolV10
    @@ "loan-v1-0" :> LoanV10
    @@ "payment-fixed" :> PaymentFixed
    @@ "lp-token" :> LpToken
    @@ "zest-reward-dist" :> ZestRewardDist
    @@ "cp-token" :> CpToken
    @@ "cp-rewards-token" :> CpRewardsToken
    @@ "rewards-calc" :> RewardsCalc
    @@ "liquidity-vault-v1-0" :> LiquidityVaultV10
    @@ "cover-vault" :> CoverVault
    @@ "coll-vault" :> CollVault
    @@ "funding-vault" :> FundingVault
    @@ "swap-router" :> SwapRouter

(* ... and those that callReadOnlyFunction may call.                          *)
ReadInterface ==
       "Wrapped-Bitcoin" :> WrappedBitcoinReads
    @@ "magic-protocol" :> MagicProtocolReads
    @@ "supplier-interface" :> SupplierInterfaceReads
    @@ "globals" :> GlobalsReads
    @@ "pool-v1-0" :> PoolV10Reads
    @@ "loan-v1-0" :> LoanV10Reads
    @@ "payment-fixed" :> PaymentFixedReads
    @@ "lp-token" :> LpTokenReads
    @@ "zest-reward-dist" :> ZestRewardDistReads
    @@ "cp-token" :> CpTokenReads
    @@ "cp-rewards-token" :> CpRewardsTokenReads
    @@ "rewards-calc" :> RewardsCalcReads
    @@ "liquidity-vault-v1-0" :> LiquidityVaultV10Reads
    @@ "cover-vault" :> CoverVaultReads
    @@ "coll-vault" :> CollVaultReads
    @@ "funding-vault" :> FundingVaultReads
    @@ "swap-router" :> SwapRouterReads

Deployed == DOMAIN Interface

(* A transaction reaches the function it is meant for: the contract exists,   *)
(* offers it and takes as many arguments as are given.                        *)
Offers(table, contract, fn, args) ==
    /\ contract \in DOMAIN table
    /\ fn \in DOMAIN table[contract]
    /\ table[contract][fn] = args
=============================================================================
