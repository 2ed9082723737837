---------------------------- MODULE ZestIncentives ----------------------------
(***************************************************************************)
(* The rewards of sBTC depositors: rewards/incentives.clar with the maps   *)
(* of reserve-data/rewards-data.clar and rewards-data-1.clar as variables, *)
(* and the calls of wrappers/borrow-helper.clar that bring a user's        *)
(* rewards up to date.                                                     *)
(*                                                                         *)
(* A reward is proportional to the z-token balance a user has when the     *)
(* program next looks at it, and to the growth of the program's index      *)
(* since it last did.  The wrapper looks before a deposit and before a     *)
(* withdrawal; it does not look when a liquidation moves z-tokens, which   *)
(* is why the two are separate actions here.                               *)
(*                                                                         *)
(* Abstractions: one program (sBTC rewarded in wSTX, the only one of the   *)
(* contract); of the pool, only the z-token balance with interest, which   *)
(* supply, withdraw and liquidation-call move and blocks make grow.        *)
(***************************************************************************)
EXTENDS ZestMath, FiniteSets

CONSTANTS
  User,        \* depositors and liquidators
  Amount,      \* amounts that are supplied, withdrawn, seized
  Held0,       \* per user: the z-tokens held before the program starts
  MaxBalance,  \* bound on the z-tokens of one user
  WorthOfMax,  \* bound on the reward tokens a MaxBalance is worth
  Growth,      \* interest a balance may earn in a block
  Rate,        \* the reward rates the owner sets
  Price,       \* per token: the prices the owner sets
  Precision,   \* per token: the decimals the owner sets
  Fund,        \* reward tokens the contract is given
  Taken,       \* amounts the owner withdraws of them
  MaxStarts    \* bound on the calls of initialize-reward-program-data

Token == {"supplied", "reward"}

ASSUME IncentivesAssumption ==
  /\ IsFiniteSet(User)
  /\ Amount \subseteq Nat \ {0} /\ Growth \subseteq Nat /\ Rate \subseteq Nat
  /\ Held0 \in [User -> Nat] /\ MaxBalance \in Nat
  /\ Price \in [Token -> SUBSET (Nat \ {0})]
  /\ Precision \in [Token -> SUBSET Nat]
  /\ Fund \in Nat /\ Taken \subseteq Nat /\ MaxStarts \in Nat

(* Nobody starts with more than MaxBalance, and no prices and decimals the *)
(* owner may set make a MaxBalance worth more than WorthOfMax.             *)
ASSUME WorthAssumption ==
  /\ \A u \in User : Held0[u] <= MaxBalance
  /\ WorthOfMax \in Nat
  /\ \A d \in Precision["supplied"], e \in Precision["reward"],
        p \in Price["supplied"], q \in Price["reward"] :
       GetYFromX(MaxBalance, d, e, p, q) <= WorthOfMax

VARIABLES
  index,        \* last-liquidity-cumulative-index; 0 while there is no program
  rate,         \* liquidity-rate
  updated,      \* last-updated-block
  price,        \* rewards-data price
  precision,    \* rewards-data asset-precision
  userIndex,    \* user-program-index, 0 where the map has no entry
  vaultRewards, \* vault-rewards: settled and not yet paid
  received,     \* reward tokens paid to a user
  fund,         \* reward tokens of the contract
  balance,      \* get-balance of the z-token, with interest
  starts,       \* how often the program was initialized
  height        \* stacks-block-height

programVars == <<index, rate, updated>>
settingVars == <<price, precision>>
rewardVars  == <<userIndex, vaultRewards, received>>
vars == <<programVars, settingVars, rewardVars, fund, balance, starts, height>>

-----------------------------------------------------------------------------
(* What a user is due. *)

(* convert-to *)
ConvertTo(n) ==
  GetYFromX(n, precision["supplied"], precision["reward"],
            price["supplied"], price["reward"])

(* get-normalized-income, and what update-cumulative-index stores *)
NormalizedIncome == Mul(CalculateLinearInterest(rate, updated, height), index)

(* get-user-program-index-eval, after update-cumulative-index *)
UserProgramIndex(u) ==
  IF userIndex[u] # 0 THEN userIndex[u]
  ELSE IF balance[u] > 0 THEN One
  ELSE NormalizedIncome

(* calculate-cumulated-balance *)
CumulatedBalance(u) ==
  MulWithFactor(ConvertTo(balance[u]), precision["reward"],
                Div(NormalizedIncome, UserProgramIndex(u)))

BalanceIncrease(u) == CumulatedBalance(u) - ConvertTo(balance[u])

SettledIndexStale(u) == UserProgramIndex(u)

SettledIndexTwice(u) ==
  Mul(CalculateLinearInterest(rate, updated, height), NormalizedIncome)

(* the index set-user-program-index leaves *)
SettledIndex(u) == NormalizedIncome

ClaimRewardsPrivIndexLost(u) ==
  /\ index # 0 /\ BalanceIncrease(u) >= 0
  /\ index' = index /\ updated' = height
  /\ userIndex' = [userIndex EXCEPT ![u] = SettledIndex(u)]
  /\ UNCHANGED <<rate, settingVars, starts, height>>

(* claim-rewards-priv: the increase is not negative, or the call aborts *)
ClaimRewardsPriv(u) ==
  /\ index # 0
  /\ BalanceIncrease(u) >= 0
  /\ index' = NormalizedIncome
  /\ updated' = height
  /\ userIndex' = [userIndex EXCEPT ![u] = SettledIndex(u)]
  /\ UNCHANGED <<rate, settingVars, starts, height>>

VaultRewardsReplaced(u) == BalanceIncrease(u)

(* vault-rewards after the hook *)
VaultRewardsAfter(u) == vaultRewards[u] + BalanceIncrease(u)

(* claim-rewards-to-vault, the hook *)
ClaimRewardsToVault(u) ==
  /\ ClaimRewardsPriv(u)
  /\ vaultRewards' = [vaultRewards EXCEPT ![u] = VaultRewardsAfter(u)]
  /\ UNCHANGED <<received, fund>>

-----------------------------------------------------------------------------
(* Transactions of the users. *)

(* supply of the wrapper *)
Supply(u, n) ==
  /\ balance[u] + n <= MaxBalance
  /\ ClaimRewardsToVault(u)
  /\ balance' = [balance EXCEPT ![u] = @ + n]

WithdrawUnbounded(u, n) ==
  /\ ClaimRewardsToVault(u)
  /\ balance' = [balance EXCEPT ![u] = @ - n]

(* withdraw of the wrapper *)
Withdraw(u, n) ==
  /\ n <= balance[u]
  /\ ClaimRewardsToVault(u)
  /\ balance' = [balance EXCEPT ![u] = @ - n]

(* claim-rewards of the wrapper: everything is paid, if it is anything *)
ClaimRewards(u) ==
  LET all == VaultRewardsAfter(u)
  IN /\ ClaimRewardsPriv(u)
     /\ all > 0 /\ all <= fund
     /\ vaultRewards' = [vaultRewards EXCEPT ![u] = 0]
     /\ received' = [received EXCEPT ![u] = @ + all]
     /\ fund' = fund - all
     /\ UNCHANGED balance

(* liquidation-call of the wrapper, which has no hook: the z-tokens go to  *)
(* the liquidator, or are burned.                                          *)
LiquidationCall(l, u, n, toReceiveAToken) ==
  /\ l # u /\ n <= balance[u]
  /\ toReceiveAToken => balance[l] + n <= MaxBalance
  /\ balance' = [balance EXCEPT ![u] = @ - n, ![l] = IF toReceiveAToken THEN @ + n ELSE @]
  /\ UNCHANGED <<programVars, settingVars, rewardVars, fund, starts, height>>

-----------------------------------------------------------------------------
(* Transactions of the contract's owner. *)

(* initialize-reward-program-data, which the code lets the owner repeat *)
InitializeRewardProgramData ==
  /\ starts < MaxStarts
  /\ index' = One /\ rate' = 0 /\ updated' = height
  /\ starts' = starts + 1
  /\ UNCHANGED <<settingVars, rewardVars, fund, balance, height>>

(* set-liquidity-rate, which leaves the index where it is *)
SetLiquidityRate(r) ==
  /\ index # 0
  /\ rate' = r
  /\ UNCHANGED <<index, updated, settingVars, rewardVars, fund, balance, starts, height>>

(* set-price *)
SetPrice(t, p) ==
  /\ price' = [price EXCEPT ![t] = p]
  /\ UNCHANGED <<programVars, precision, rewardVars, fund, balance, starts, height>>

(* set-precision *)
SetPrecision(t, d) ==
  /\ precision' = [precision EXCEPT ![t] = d]
  /\ UNCHANGED <<programVars, price, rewardVars, fund, balance, starts, height>>

(* withdraw-assets *)
WithdrawAssets(n) ==
  /\ n <= fund
  /\ fund' = fund - n
  /\ UNCHANGED <<programVars, settingVars, rewardVars, balance, starts, height>>

-----------------------------------------------------------------------------
(* A block passes, with the interest the deposits earn in the pool. *)
NextBlock ==
  /\ height < MaxHeight
  /\ height' = height + 1
  /\ \E g \in Growth :
       balance' = [u \in User |->
         IF balance[u] = 0 \/ balance[u] + g > MaxBalance
         THEN balance[u] ELSE balance[u] + g]
  /\ UNCHANGED <<programVars, settingVars, rewardVars, fund, starts>>

(* The owner has set the prices and the decimals, not yet the program.     *)
Init ==
  /\ index = 0 /\ rate = 0 /\ updated = 0
  /\ price \in [Token -> UNION {Price[t] : t \in Token}]
  /\ \A t \in Token : price[t] \in Price[t]
  /\ precision \in [Token -> UNION {Precision[t] : t \in Token}]
  /\ \A t \in Token : precision[t] \in Precision[t]
  /\ userIndex = [u \in User |-> 0]
  /\ vaultRewards = [u \in User |-> 0]
  /\ received = [u \in User |-> 0]
  /\ fund = Fund
  /\ balance = Held0
  /\ starts = 0 /\ height = 0

UserStep ==
  \/ \E u \in User, n \in Amount :
       \/ Supply(u, n)
       \/ Withdraw(u, n)
  \/ \E u \in User : ClaimRewards(u)

LiquidationStep ==
  \E l, u \in User, n \in Amount, asZToken \in BOOLEAN :
    LiquidationCall(l, u, n, asZToken)

OwnerStep ==
  \/ InitializeRewardProgramData
  \/ \E r \in Rate : SetLiquidityRate(r)
  \/ \E t \in Token :
       \/ \E p \in Price[t] : SetPrice(t, p)
       \/ \E d \in Precision[t] : SetPrecision(t, d)
  \/ \E n \in Taken : WithdrawAssets(n)

Next == UserStep \/ LiquidationStep \/ OwnerStep \/ NextBlock

(* Nobody has to claim, or to send anything: no fairness. *)
Spec == Init /\ [][Next]_vars

-----------------------------------------------------------------------------
(* Properties. *)

(* The entries of the data maps are unsigned integers, and the program is  *)
(* never ahead of the chain.                                               *)
ProgramTypeOK ==
  /\ index \in Nat /\ rate \in Nat /\ updated \in 0 .. height
  /\ userIndex \in [User -> Nat]
  /\ starts \in Nat /\ height \in 0 .. MaxHeight

TypeOK ==
  /\ ProgramTypeOK
  /\ price \in [Token -> Nat \ {0}] /\ precision \in [Token -> Nat]
  /\ vaultRewards \in [User -> Nat] /\ received \in [User -> Nat]
  /\ fund \in Nat /\ balance \in [User -> Nat]

(* A program that was started once never stands in the way of its users:   *)
(* no user's index is ahead of the program, so the subtraction in the hook *)
(* that every deposit and withdrawal of sBTC passes does not underflow.    *)
HookNeverBlocks ==
  index # 0 /\ starts = 1 => \A u \in User : UserProgramIndex(u) <= NormalizedIncome

(* All a user got or could get now. *)
Entitlement(u) ==
  received[u] + (IF index = 0 THEN vaultRewards[u] ELSE VaultRewardsAfter(u))

(* Deposits, withdrawals and claims settle rewards and neither make nor    *)
(* lose any: within a block they leave what every user got or can get as   *)
(* it was, whatever order and however often they come.                     *)
RewardsSettled ==
  [][UserStep => \A u \in User : Entitlement(u)' = Entitlement(u)]_vars

(* Time and other users take no reward away, not even through the rounding *)
(* of an index that others bring up to date: only a liquidation of the     *)
(* user, or the owner of the program, does.                                *)
RewardsOnlyGrow ==
  [][\A u \in User :
       \/ Entitlement(u)' >= Entitlement(u)
       \/ balance[u]' < balance[u] /\ userIndex'[u] = userIndex[u]
       \/ rate' # rate \/ price' # price \/ precision' # precision
       \/ starts' # starts]_vars

(* What the roundings of so many settlements add up to at most: in each,   *)
(* half a unit of the index for all that is held, and half a unit of the   *)
(* reward.                                                                 *)
SettlementRounding(n) == (n * (WorthOfMax + One) + One) \div (2 * One)

(* Nobody gets more than one who held MaxBalance since the program started *)
(* and claimed once, but for the rounding of one settlement in a block: no *)
(* order of deposits, withdrawals, claims and liquidations pays a user     *)
(* twice for the same growth of the index.                                 *)
PaidOnce ==
  index # 0 /\ starts = 1 =>
    \A u \in User :
      Entitlement(u) <= Mul(WorthOfMax, NormalizedIncome) - WorthOfMax
                          + SettlementRounding(height)

=============================================================================
