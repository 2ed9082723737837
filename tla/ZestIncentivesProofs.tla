------------------------- MODULE ZestIncentivesProofs -------------------------
(***************************************************************************)
(* The rewards of depositors, for every set of users, every rate, price    *)
(* and precision, and every interest the deposits earn: the hook never     *)
(* stands in the way of a deposit or a withdrawal, settles what is due and *)
(* no more, and nobody but the owner or a liquidation takes it away.       *)
(***************************************************************************)
EXTENDS ZestIncentives, ZestMathProofs

USE IncentivesAssumption DEF IncentivesAssumption

(* Before its program starts, no user has an index; while it runs, the     *)
(* index it has stored is at least one and no user is ahead of it.         *)
Behind ==
  /\ starts = 0 => index = 0 /\ \A u \in User : userIndex[u] = 0
  /\ starts = 1 => index >= One /\ \A u \in User : userIndex[u] <= index

IndexInv == ProgramTypeOK /\ Behind

(* What the hook stores is a natural number and not below what it found.   *)
LEMMA IncomeGrows ==
  ASSUME ProgramTypeOK
  PROVE  NormalizedIncome \in Nat /\ NormalizedIncome >= index
<1>1. height \in 0 .. MaxHeight /\ updated \in 0 .. height
  BY DEF ProgramTypeOK
<1>2. rate \in Nat /\ index \in Nat
  BY DEF ProgramTypeOK
<1> DEFINE f == CalculateLinearInterest(rate, updated, height)
<1>3. f \in Nat /\ f >= One
  BY <1>1, <1>2, InterestAtLeastOne
<1> HIDE DEF f
<1>4. Mul(f, index) \in Nat /\ Mul(f, index) >= index
  BY <1>2, <1>3, MulNat, MulGrows
<1> QED BY <1>4 DEF NormalizedIncome, f

(* The hook keeps every user behind the program. *)
LEMMA HookKeepsBehind ==
  ASSUME NEW u \in User, IndexInv, ClaimRewardsPriv(u)
  PROVE  IndexInv'
<1>1. NormalizedIncome \in Nat /\ NormalizedIncome >= index
  BY IncomeGrows DEF IndexInv
<1>2. /\ index' = NormalizedIncome /\ updated' = height /\ rate' = rate
      /\ userIndex' = [userIndex EXCEPT ![u] = NormalizedIncome]
      /\ starts' = starts /\ height' = height /\ index # 0
  BY DEF ClaimRewardsPriv, SettledIndex
<1>3. ProgramTypeOK'
  BY <1>1, <1>2 DEF IndexInv, ProgramTypeOK
<1>4. starts' # 0
  BY <1>2 DEF IndexInv, Behind
<1>5. ASSUME starts = 1
      PROVE  index' >= One /\ \A v \in User : userIndex'[v] <= index'
  <2>1. index \in Nat /\ index >= One /\ One \in Nat
    BY <1>5, OneNat DEF IndexInv, Behind, ProgramTypeOK
  <2>2. ASSUME NEW v \in User PROVE userIndex'[v] <= index'
    <3>1. userIndex[v] \in Nat /\ userIndex[v] <= index
      BY <1>5 DEF IndexInv, Behind, ProgramTypeOK
    <3>2. userIndex'[v] = IF v = u THEN NormalizedIncome ELSE userIndex[v]
      BY <1>2 DEF IndexInv, ProgramTypeOK
    <3> QED BY <1>1, <1>2, <2>1, <3>1, <3>2
  <2> QED BY <1>1, <1>2, <2>1, <2>2
<1> QED BY <1>2, <1>3, <1>4, <1>5 DEF IndexInv, Behind

LEMMA InitBehind ==
  ASSUME Init
  PROVE  IndexInv
BY MathAssumption DEF Init, IndexInv, Behind, ProgramTypeOK, MathAssumption

(* Starting the program gives it the index one, which no user is ahead of  *)
(* when it is the first start.                                             *)
LEMMA StartKeepsBehind ==
  ASSUME IndexInv, InitializeRewardProgramData
  PROVE  IndexInv'
<1>1. /\ index' = One /\ rate' = 0 /\ updated' = height
      /\ starts' = starts + 1 /\ userIndex' = userIndex /\ height' = height
  BY DEF InitializeRewardProgramData, rewardVars
<1>2. ProgramTypeOK'
  BY <1>1, OneNat DEF IndexInv, ProgramTypeOK
<1>3. starts \in Nat /\ userIndex \in [User -> Nat]
  BY DEF IndexInv, ProgramTypeOK
<1>4. starts' # 0
  BY <1>1, <1>3
<1>5. starts' = 1 => index' >= One /\ \A u \in User : userIndex'[u] <= index'
  BY <1>1, <1>3, OneNat DEF IndexInv, Behind
<1> QED BY <1>2, <1>4, <1>5 DEF IndexInv, Behind

LEMMA NextBehind ==
  ASSUME IndexInv, [Next]_vars
  PROVE  IndexInv'
<1>1. ASSUME NEW u \in User, NEW n \in Amount, Supply(u, n) \/ Withdraw(u, n)
      PROVE  IndexInv'
  BY <1>1, HookKeepsBehind DEF Supply, Withdraw, ClaimRewardsToVault
<1>2. ASSUME NEW u \in User, ClaimRewards(u) PROVE IndexInv'
  BY <1>2, HookKeepsBehind DEF ClaimRewards
<1>3. ASSUME UNCHANGED <<programVars, userIndex, starts, height>> PROVE IndexInv'
  BY <1>3 DEF IndexInv, Behind, ProgramTypeOK, programVars
<1>4. ASSUME NEW r \in Rate, SetLiquidityRate(r) PROVE IndexInv'
  BY <1>4 DEF SetLiquidityRate, IndexInv, Behind, ProgramTypeOK, rewardVars
<1>5. ASSUME NextBlock PROVE IndexInv'
  <2>1. /\ height < MaxHeight /\ height' = height + 1 /\ MaxHeight \in Nat
        /\ UNCHANGED <<index, rate, updated, userIndex, starts>>
    BY <1>5, MathAssumption DEF NextBlock, programVars, rewardVars, MathAssumption
  <2> QED BY <2>1 DEF IndexInv, Behind, ProgramTypeOK
<1>6. CASE UserStep
  BY <1>1, <1>2, <1>6 DEF UserStep
<1>7. CASE LiquidationStep
  BY <1>3, <1>7 DEF LiquidationStep, LiquidationCall, rewardVars
<1>8. CASE OwnerStep
  <2>1. CASE InitializeRewardProgramData
    BY <2>1, StartKeepsBehind
  <2>2. ASSUME NEW r \in Rate, SetLiquidityRate(r) PROVE IndexInv'
    BY <1>4, <2>2
  <2>3. ASSUME NEW t \in Token, NEW p \in Price[t], SetPrice(t, p) PROVE IndexInv'
    BY <1>3, <2>3 DEF SetPrice, rewardVars
  <2>4. ASSUME NEW t \in Token, NEW d \in Precision[t], SetPrecision(t, d) PROVE IndexInv'
    BY <1>3, <2>4 DEF SetPrecision, rewardVars
  <2>5. ASSUME NEW n \in Taken, WithdrawAssets(n) PROVE IndexInv'
    BY <1>3, <2>5 DEF WithdrawAssets, rewardVars
  <2> QED BY <1>8, <2>1, <2>2, <2>3, <2>4, <2>5 DEF OwnerStep
<1>9. CASE UNCHANGED vars
  BY <1>3, <1>9 DEF vars, rewardVars
<1> QED BY <1>5, <1>6, <1>7, <1>8, <1>9 DEF Next

LEMMA BehindNeverBlocks ==
  ASSUME IndexInv
  PROVE  HookNeverBlocks
<1> SUFFICES ASSUME index # 0, starts = 1, NEW u \in User
             PROVE  UserProgramIndex(u) <= NormalizedIncome
  BY DEF HookNeverBlocks
<1>1. NormalizedIncome \in Nat /\ NormalizedIncome >= index
  BY IncomeGrows DEF IndexInv
<1>2. /\ index \in Nat /\ index >= One /\ One \in Nat
      /\ userIndex[u] \in Nat /\ userIndex[u] <= index
  BY OneNat DEF IndexInv, Behind, ProgramTypeOK
<1> QED BY <1>1, <1>2 DEF UserProgramIndex

(* As long as its owner starts the program once, no deposit and no         *)
(* withdrawal is refused because the increase of the rewards underflows.   *)
THEOREM HookPasses == Spec => []HookNeverBlocks
<1>1. Init => IndexInv
  BY InitBehind
<1>2. IndexInv /\ [Next]_vars => IndexInv'
  BY NextBehind
<1>3. IndexInv => HookNeverBlocks
  BY BehindNeverBlocks
<1> QED BY <1>1, <1>2, <1>3, PTL DEF Spec

-----------------------------------------------------------------------------
(* What a user is due, as the operators compute it.                        *)

LEMMA ConvertToNat ==
  ASSUME PowersOfTen, NEW n \in Nat,
         price \in [Token -> Nat \ {0}], precision \in [Token -> Nat]
  PROVE  ConvertTo(n) \in Nat
<1> DEFINE d == precision["supplied"]
           e == precision["reward"]
           p == price["supplied"]
           q == price["reward"]
<1>1. d \in Nat /\ e \in Nat /\ p \in Nat \ {0} /\ q \in Nat \ {0} /\ n <= n
  BY DEF Token
<1> HIDE DEF d, e, p, q
<1>2. GetYFromX(n, d, e, p, q) \in Nat
  BY <1>1, GetYFromXMonotone
<1> QED BY <1>2 DEF ConvertTo, d, e, p, q

(* A running program's index is positive, and so is what a user's is read  *)
(* as.                                                                     *)
LEMMA UserIndexPositive ==
  ASSUME TypeOK, index # 0, NEW u \in User
  PROVE  NormalizedIncome \in Nat \ {0} /\ UserProgramIndex(u) \in Nat \ {0}
<1>1. NormalizedIncome \in Nat /\ NormalizedIncome >= index
  BY IncomeGrows DEF TypeOK
<1>2. index \in Nat /\ userIndex[u] \in Nat
  BY DEF TypeOK, ProgramTypeOK
<1> QED BY <1>1, <1>2, OneNat DEF UserProgramIndex

LEMMA IncreaseInt ==
  ASSUME PowersOfTen, TypeOK, index # 0, NEW u \in User
  PROVE  /\ ConvertTo(balance[u]) \in Nat /\ CumulatedBalance(u) \in Nat
         /\ BalanceIncrease(u) \in Int
<1>1. ConvertTo(balance[u]) \in Nat /\ precision["reward"] \in Nat
  BY ConvertToNat DEF TypeOK, Token
<1>2. Div(NormalizedIncome, UserProgramIndex(u)) \in Nat
  BY UserIndexPositive, DivFixedNat
<1>3. CumulatedBalance(u) \in Nat
  BY <1>1, <1>2, MulWithFactorNat DEF CumulatedBalance
<1> QED BY <1>1, <1>3 DEF BalanceIncrease

-----------------------------------------------------------------------------
(* The data maps hold unsigned integers: the increase that the hook adds   *)
(* is not negative, or the hook aborts.                                    *)

LEMMA HookType ==
  ASSUME PowersOfTen, TypeOK, NEW u \in User, ClaimRewardsPriv(u)
  PROVE  /\ ProgramTypeOK' /\ UNCHANGED settingVars
         /\ VaultRewardsAfter(u) \in Nat
<1>1. NormalizedIncome \in Nat
  BY IncomeGrows DEF TypeOK
<1>2. /\ index' = NormalizedIncome /\ updated' = height /\ rate' = rate
      /\ userIndex' = [userIndex EXCEPT ![u] = NormalizedIncome]
      /\ starts' = starts /\ height' = height /\ index # 0
      /\ UNCHANGED settingVars /\ BalanceIncrease(u) >= 0
  BY DEF ClaimRewardsPriv, SettledIndex
<1>3. ProgramTypeOK'
  BY <1>1, <1>2 DEF TypeOK, ProgramTypeOK
<1>4. BalanceIncrease(u) \in Nat /\ vaultRewards[u] \in Nat
  BY <1>2, IncreaseInt DEF TypeOK
<1> QED BY <1>2, <1>3, <1>4 DEF VaultRewardsAfter

LEMMA UserStepType ==
  ASSUME PowersOfTen, TypeOK, UserStep
  PROVE  TypeOK'
<1>1. ASSUME NEW u \in User, ClaimRewardsToVault(u), balance' \in [User -> Nat]
      PROVE  TypeOK'
  <2>1. /\ ProgramTypeOK' /\ UNCHANGED settingVars /\ VaultRewardsAfter(u) \in Nat
    BY <1>1, HookType DEF ClaimRewardsToVault
  <2>2. /\ vaultRewards' = [vaultRewards EXCEPT ![u] = VaultRewardsAfter(u)]
        /\ UNCHANGED <<received, fund>>
    BY <1>1 DEF ClaimRewardsToVault
  <2> QED BY <1>1, <2>1, <2>2 DEF TypeOK, settingVars
<1>2. ASSUME NEW u \in User, NEW n \in Amount, Supply(u, n) PROVE TypeOK'
  <2>1. balance' = [balance EXCEPT ![u] = @ + n] /\ n \in Nat /\ balance \in [User -> Nat]
    BY <1>2 DEF Supply, TypeOK
  <2>2. balance' \in [User -> Nat]
    BY <2>1
  <2> QED BY <1>1, <1>2, <2>2 DEF Supply
<1>3. ASSUME NEW u \in User, NEW n \in Amount, Withdraw(u, n) PROVE TypeOK'
  <2>1. /\ balance' = [balance EXCEPT ![u] = @ - n] /\ n \in Nat /\ n <= balance[u]
        /\ balance \in [User -> Nat]
    BY <1>3 DEF Withdraw, TypeOK
  <2>2. balance[u] - n \in Nat
    BY <2>1
  <2>3. balance' \in [User -> Nat]
    BY <2>1, <2>2
  <2> QED BY <1>1, <1>3, <2>3 DEF Withdraw
<1>4. ASSUME NEW u \in User, ClaimRewards(u) PROVE TypeOK'
  <2> DEFINE all == VaultRewardsAfter(u)
  <2>1. ProgramTypeOK' /\ UNCHANGED settingVars /\ all \in Nat
    BY <1>4, HookType DEF ClaimRewards
  <2>2. /\ vaultRewards' = [vaultRewards EXCEPT ![u] = 0]
        /\ received' = [received EXCEPT ![u] = @ + all]
        /\ fund' = fund - all /\ all <= fund /\ UNCHANGED balance
    BY <1>4 DEF ClaimRewards
  <2> HIDE DEF all
  <2>3. received \in [User -> Nat] /\ fund \in Nat /\ vaultRewards \in [User -> Nat]
    BY DEF TypeOK
  <2>4. received' \in [User -> Nat] /\ fund' \in Nat /\ vaultRewards' \in [User -> Nat]
    BY <2>1, <2>2, <2>3
  <2> QED BY <2>1, <2>2, <2>4 DEF TypeOK, settingVars
<1> QED BY <1>2, <1>3, <1>4 DEF UserStep

LEMMA LiquidationStepType ==
  ASSUME TypeOK, LiquidationStep
  PROVE  TypeOK'
<1>1. PICK l \in User, u \in User, n \in Amount, asZToken \in BOOLEAN :
        LiquidationCall(l, u, n, asZToken)
  BY DEF LiquidationStep
<1>2. /\ l # u /\ n <= balance[u] /\ n \in Nat
      /\ balance' = [balance EXCEPT ![u] = @ - n, ![l] = IF asZToken THEN @ + n ELSE @]
      /\ UNCHANGED <<programVars, settingVars, rewardVars, fund, starts, height>>
  BY <1>1 DEF LiquidationCall
<1>3. balance \in [User -> Nat]
  BY DEF TypeOK
<1>4. balance[u] - n \in Nat /\ balance[l] + n \in Nat /\ balance[l] \in Nat
  BY <1>2, <1>3
<1>5. balance' \in [User -> Nat]
  BY <1>2, <1>3, <1>4
<1> QED BY <1>2, <1>5 DEF TypeOK, ProgramTypeOK, programVars, settingVars, rewardVars

LEMMA OwnerStepType ==
  ASSUME TypeOK, OwnerStep
  PROVE  TypeOK'
<1>1. CASE InitializeRewardProgramData
  BY <1>1, OneNat DEF InitializeRewardProgramData, TypeOK, ProgramTypeOK, settingVars, rewardVars
<1>2. ASSUME NEW r \in Rate, SetLiquidityRate(r) PROVE TypeOK'
  BY <1>2 DEF SetLiquidityRate, TypeOK, ProgramTypeOK, settingVars, rewardVars
<1>3. ASSUME NEW t \in Token, NEW p \in Price[t], SetPrice(t, p) PROVE TypeOK'
  BY <1>3 DEF SetPrice, TypeOK, ProgramTypeOK, programVars, rewardVars
<1>4. ASSUME NEW t \in Token, NEW d \in Precision[t], SetPrecision(t, d) PROVE TypeOK'
  BY <1>4 DEF SetPrecision, TypeOK, ProgramTypeOK, programVars, rewardVars
<1>5. ASSUME NEW n \in Taken, WithdrawAssets(n) PROVE TypeOK'
  BY <1>5 DEF WithdrawAssets, TypeOK, ProgramTypeOK, programVars, settingVars, rewardVars
<1> QED BY <1>1, <1>2, <1>3, <1>4, <1>5 DEF OwnerStep

LEMMA NextType ==
  ASSUME PowersOfTen, TypeOK, [Next]_vars
  PROVE  TypeOK'
<1>1. CASE NextBlock
  <2>1. PICK g \in Growth :
          balance' = [u \in User |-> IF balance[u] = 0 \/ balance[u] + g > MaxBalance
                                     THEN balance[u] ELSE balance[u] + g]
    BY <1>1 DEF NextBlock
  <2>2. balance' \in [User -> Nat]
    BY <2>1 DEF TypeOK
  <2>3. /\ height < MaxHeight /\ height' = height + 1 /\ MaxHeight \in Nat
        /\ UNCHANGED <<programVars, settingVars, rewardVars, fund, starts>>
    BY <1>1, MathAssumption DEF NextBlock, MathAssumption
  <2> QED BY <2>2, <2>3 DEF TypeOK, ProgramTypeOK, programVars, settingVars, rewardVars
<1>2. CASE UNCHANGED vars
  BY <1>2 DEF vars, TypeOK, ProgramTypeOK, programVars, settingVars, rewardVars
<1> QED BY <1>1, <1>2, UserStepType, LiquidationStepType, OwnerStepType DEF Next

LEMMA InitType ==
  ASSUME Init
  PROVE  TypeOK
<1>1. /\ ProgramTypeOK /\ vaultRewards \in [User -> Nat] /\ received \in [User -> Nat]
      /\ fund \in Nat /\ balance \in [User -> Nat]
  BY MathAssumption DEF Init, ProgramTypeOK, MathAssumption
<1>2. price \in [Token -> Nat \ {0}]
  <2>1. price = [t \in Token |-> price[t]] /\ \A t \in Token : price[t] \in Price[t]
    BY DEF Init
  <2> QED BY <2>1
<1>3. precision \in [Token -> Nat]
  <2>1. precision = [t \in Token |-> precision[t]]
        /\ \A t \in Token : precision[t] \in Precision[t]
    BY DEF Init
  <2> QED BY <2>1
<1> QED BY <1>1, <1>2, <1>3 DEF TypeOK

(* No entry of the program's maps is ever anything but an unsigned         *)
(* integer: the hook, the claims and the owner's withdrawals subtract only *)
(* what is there.                                                          *)
THEOREM RewardsTyped == ASSUME PowersOfTen PROVE Spec => []TypeOK
<1>1. Init => TypeOK
  BY InitType
<1>2. TypeOK /\ [Next]_vars => TypeOK'
  BY NextType
<1> QED BY <1>1, <1>2, PTL DEF Spec

-----------------------------------------------------------------------------
(* Settling.  The hook stores the index the rewards were computed with, so *)
(* the index read after it in the same block is that one: the caller has   *)
(* nothing more to get, and everybody else what they had before.           *)

LEMMA HookSettles ==
  ASSUME PowersOfTen, TypeOK, TypeOK', NEW u \in User, ClaimRewardsPriv(u)
  PROVE  /\ index # 0 /\ index' # 0
         /\ BalanceIncrease(u) \in Int
         /\ BalanceIncrease(u)' = 0
         /\ \A v \in User \ {u} :
              balance'[v] = balance[v] => BalanceIncrease(v)' = BalanceIncrease(v)
<1>1. /\ index' = NormalizedIncome /\ updated' = height /\ rate' = rate
      /\ userIndex' = [userIndex EXCEPT ![u] = NormalizedIncome]
      /\ height' = height /\ index # 0 /\ price' = price /\ precision' = precision
  BY DEF ClaimRewardsPriv, SettledIndex, settingVars
<1>2. NormalizedIncome \in Nat \ {0}
  BY <1>1, UserIndexPositive
<1>3. NormalizedIncome' = NormalizedIncome
  <2>1. rate \in Nat /\ height \in Nat
    BY DEF TypeOK, ProgramTypeOK
  <2>2. NormalizedIncome'
          = Mul(CalculateLinearInterest(rate, height, height), NormalizedIncome)
    BY <1>1 DEF NormalizedIncome
  <2>3. CalculateLinearInterest(rate, height, height) = One
    BY <2>1, NoInterest
  <2> QED BY <1>2, <2>2, <2>3, MulOne
<1>4. BalanceIncrease(u)' = 0
  <2> DEFINE c == ConvertTo(balance[u])'
  <2>1. c \in Nat /\ precision \in [Token -> Nat] /\ precision["reward"] \in Nat
    <3>1. /\ precision \in [Token -> Nat] /\ price \in [Token -> Nat \ {0}]
          /\ balance'[u] \in Nat
      BY DEF TypeOK
    <3>2. c = ConvertTo(balance'[u])
      BY <1>1 DEF ConvertTo
    <3> QED BY <3>1, <3>2, ConvertToNat DEF Token
  <2>2. UserProgramIndex(u)' = NormalizedIncome
    <3>1. userIndex'[u] = NormalizedIncome
      BY <1>1 DEF TypeOK, ProgramTypeOK
    <3> QED BY <1>2, <3>1 DEF UserProgramIndex
  <2>3. CumulatedBalance(u)' = MulWithFactor(c, precision["reward"], One)
    <3>1. Div(NormalizedIncome, NormalizedIncome) = One
      BY <1>2, DivFixedSame
    <3> QED BY <1>1, <1>3, <2>2, <3>1 DEF CumulatedBalance
  <2>4. BalanceIncrease(u)' = CumulatedBalance(u)' - c
    BY DEF BalanceIncrease
  <2> HIDE DEF c
  <2>5. CumulatedBalance(u)' = c
    BY <2>1, <2>3, MulWithFactorOne
  <2> QED BY <2>1, <2>4, <2>5
<1>5. ASSUME NEW v \in User \ {u}, balance'[v] = balance[v]
      PROVE  BalanceIncrease(v)' = BalanceIncrease(v)
  <2>1. userIndex'[v] = userIndex[v]
    BY <1>1 DEF TypeOK, ProgramTypeOK
  <2>2. UserProgramIndex(v)' = UserProgramIndex(v)
    BY <1>3, <1>5, <2>1 DEF UserProgramIndex
  <2>3. ConvertTo(balance[v])' = ConvertTo(balance[v])
    BY <1>1, <1>5 DEF ConvertTo
  <2>4. CumulatedBalance(v)' = CumulatedBalance(v)
    BY <1>1, <1>3, <2>2, <2>3 DEF CumulatedBalance
  <2> QED BY <2>3, <2>4 DEF BalanceIncrease
<1> QED BY <1>1, <1>2, <1>4, <1>5, IncreaseInt

LEMMA UserStepSettles ==
  ASSUME PowersOfTen, TypeOK, TypeOK', UserStep, NEW v \in User
  PROVE  Entitlement(v)' = Entitlement(v)
<1>1. ASSUME NEW u \in User, ClaimRewardsToVault(u),
             \A w \in User \ {u} : balance'[w] = balance[w]
      PROVE  Entitlement(v)' = Entitlement(v)
  <2>1. /\ ClaimRewardsPriv(u) /\ received' = received
        /\ vaultRewards' = [vaultRewards EXCEPT ![u] = vaultRewards[u] + BalanceIncrease(u)]
    BY <1>1 DEF ClaimRewardsToVault, VaultRewardsAfter
  <2>2. /\ index # 0 /\ index' # 0
        /\ BalanceIncrease(u) \in Int /\ BalanceIncrease(u)' = 0
        /\ v # u => BalanceIncrease(v)' = BalanceIncrease(v)
    BY <1>1, <2>1, HookSettles
  <2>3. vaultRewards \in [User -> Nat] /\ received \in [User -> Nat]
    BY DEF TypeOK
  <2>4. CASE v = u
    <3>1. vaultRewards'[u] = vaultRewards[u] + BalanceIncrease(u)
      BY <2>1, <2>3
    <3>2. VaultRewardsAfter(u)' = vaultRewards'[u] + 0
      BY <2>2 DEF VaultRewardsAfter
    <3>3. vaultRewards[u] \in Int
      BY <2>3
    <3>4. VaultRewardsAfter(u)' = VaultRewardsAfter(u)
      BY <2>2, <3>1, <3>2, <3>3 DEF VaultRewardsAfter
    <3> QED BY <2>1, <2>2, <2>4, <3>4 DEF Entitlement
  <2>5. CASE v # u
    <3>1. vaultRewards'[v] = vaultRewards[v]
      BY <2>1, <2>3, <2>5
    <3>2. VaultRewardsAfter(v)' = VaultRewardsAfter(v)
      BY <2>2, <2>5, <3>1 DEF VaultRewardsAfter
    <3> QED BY <2>1, <2>2, <3>2 DEF Entitlement
  <2> QED BY <2>4, <2>5
<1>2. ASSUME NEW u \in User, NEW n \in Amount, Supply(u, n) \/ Withdraw(u, n)
      PROVE  Entitlement(v)' = Entitlement(v)
  <2>1. ClaimRewardsToVault(u) /\ balance \in [User -> Nat]
    BY <1>2 DEF Supply, Withdraw, TypeOK
  <2>2. \A w \in User \ {u} : balance'[w] = balance[w]
    BY <1>2, <2>1 DEF Supply, Withdraw
  <2> QED BY <1>1, <2>1, <2>2
<1>3. ASSUME NEW u \in User, ClaimRewards(u)
      PROVE  Entitlement(v)' = Entitlement(v)
  <2> DEFINE all == VaultRewardsAfter(u)
  <2>1. /\ ClaimRewardsPriv(u) /\ balance' = balance
        /\ vaultRewards' = [vaultRewards EXCEPT ![u] = 0]
        /\ received' = [received EXCEPT ![u] = @ + all]
    BY <1>3 DEF ClaimRewards
  <2>2. all \in Nat
    BY <2>1, HookType
  <2>3. /\ index # 0 /\ index' # 0 /\ BalanceIncrease(u)' = 0
        /\ v # u => BalanceIncrease(v)' = BalanceIncrease(v)
    BY <2>1, HookSettles
  <2>4. vaultRewards \in [User -> Nat] /\ received \in [User -> Nat]
    BY DEF TypeOK
  <2>5. CASE v = u
    <3>1. Entitlement(u) = received[u] + all
      BY <2>3 DEF Entitlement
    <3>2. VaultRewardsAfter(u)' = 0 + 0
      BY <2>1, <2>3, <2>4 DEF VaultRewardsAfter
    <3>3. Entitlement(u)' = received'[u] + (0 + 0)
      BY <2>3, <3>2 DEF Entitlement
    <3> HIDE DEF all
    <3>4. received'[u] = received[u] + all /\ received[u] \in Nat
      BY <2>1, <2>4
    <3> QED BY <2>2, <2>5, <3>1, <3>3, <3>4
  <2>6. CASE v # u
    <3>1. vaultRewards'[v] = vaultRewards[v] /\ received'[v] = received[v]
      BY <2>1, <2>4, <2>6
    <3>2. VaultRewardsAfter(v)' = VaultRewardsAfter(v)
      BY <2>3, <2>6, <3>1 DEF VaultRewardsAfter
    <3> QED BY <2>3, <3>1, <3>2 DEF Entitlement
  <2> QED BY <2>5, <2>6
<1> QED BY <1>2, <1>3 DEF UserStep

(* Deposits, withdrawals and claims leave what every user got or can get   *)
(* as it was, whatever the order, the prices, the rates and the decimals.  *)
THEOREM RewardsKept == ASSUME PowersOfTen PROVE Spec => RewardsSettled
<1>1. TypeOK /\ TypeOK' /\ [Next]_vars
        => [UserStep => \A u \in User : Entitlement(u)' = Entitlement(u)]_vars
  BY UserStepSettles
<1>2. Spec => []TypeOK
  BY RewardsTyped
<1> QED BY <1>1, <1>2, PTL DEF Spec, RewardsSettled

-----------------------------------------------------------------------------
(* Growth.  The increase is what a factor of at least one adds to a        *)
(* balance, and that grows with the balance and with the factor.           *)

(* The owner of the program has not started it again. *)
StartedOnce == starts <= 1

LEMMA EntitlementInt ==
  ASSUME PowersOfTen, TypeOK, NEW u \in User
  PROVE  Entitlement(u) \in Int
<1>1. received[u] \in Nat /\ vaultRewards[u] \in Nat
  BY DEF TypeOK
<1>2. CASE index = 0
  BY <1>1, <1>2 DEF Entitlement
<1>3. CASE index # 0
  <2>1. BalanceIncrease(u) \in Int
    BY <1>3, IncreaseInt
  <2> QED BY <1>1, <1>3, <2>1 DEF Entitlement, VaultRewardsAfter
<1> QED BY <1>2, <1>3

LEMMA IncreaseMonotone ==
  ASSUME PowersOfTen, TypeOK, NEW b \in Nat, NEW c \in Nat, b <= c,
         NEW f \in Nat, NEW g \in Nat, One <= f, f <= g
  PROVE  MulWithFactor(ConvertTo(b), precision["reward"], f) - ConvertTo(b)
           <= MulWithFactor(ConvertTo(c), precision["reward"], g) - ConvertTo(c)
<1> DEFINE d == precision["supplied"]
           e == precision["reward"]
           p == price["supplied"]
           q == price["reward"]
           x == ConvertTo(b)
           y == ConvertTo(c)
<1>1. d \in Nat /\ e \in Nat /\ p \in Nat \ {0} /\ q \in Nat \ {0}
  BY DEF TypeOK, Token
<1>2. x = GetYFromX(b, d, e, p, q) /\ y = GetYFromX(c, d, e, p, q)
  BY DEF ConvertTo
<1> HIDE DEF d, e, p, q, x, y
<1>3. x \in Nat /\ y \in Nat /\ x <= y
  BY <1>1, <1>2, GetYFromXMonotone
<1>4. MulWithFactor(x, e, f) - x <= MulWithFactor(y, e, g) - y
  BY <1>1, <1>3, MulWithFactorExcess
<1> QED BY <1>4 DEF e, x, y

(* The ratio of the program's index to the user's, in a state and in a     *)
(* later one that leaves the user's index alone.                           *)
LEMMA RatioGrows ==
  ASSUME TypeOK, TypeOK', Behind, StartedOnce, index # 0, NEW u \in User,
         index' = index, userIndex'[u] = userIndex[u],
         NormalizedIncome' >= NormalizedIncome, balance'[u] >= balance[u]
  PROVE  LET f == Div(NormalizedIncome, UserProgramIndex(u))
         IN f \in Nat /\ f' \in Nat /\ One <= f /\ f <= f'
<1> DEFINE N == NormalizedIncome
           U == UserProgramIndex(u)
           f == Div(N, U)
<1>1. starts = 1
  <2>1. starts \in Nat
    BY DEF TypeOK, ProgramTypeOK
  <2> QED BY <2>1 DEF StartedOnce, Behind
<1>2. N \in Nat \ {0} /\ U \in Nat \ {0} /\ N' \in Nat \ {0} /\ U' \in Nat \ {0}
  <2>1. N \in Nat \ {0} /\ U \in Nat \ {0}
    BY UserIndexPositive
  <2>2. N' \in Nat /\ N' >= index'
    <3>1. ProgramTypeOK'
      BY DEF TypeOK
    <3>2. N \in Nat /\ N >= index
      BY <2>1, IncomeGrows DEF TypeOK
    <3>3. height' \in 0 .. MaxHeight /\ updated' \in 0 .. height' /\ rate' \in Nat /\ index' \in Nat
      BY <3>1 DEF ProgramTypeOK
    <3>4. /\ CalculateLinearInterest(rate', updated', height') \in Nat
          /\ CalculateLinearInterest(rate', updated', height') >= One
      BY <3>3, InterestAtLeastOne
    <3>5. N' = Mul(CalculateLinearInterest(rate', updated', height'), index')
      BY DEF NormalizedIncome
    <3> QED BY <3>3, <3>4, <3>5, MulNat, MulGrows
  <2>3. N' \in Nat \ {0}
    BY <2>2 DEF TypeOK, ProgramTypeOK
  <2>4. U' = IF userIndex'[u] # 0 THEN userIndex'[u] ELSE IF balance'[u] > 0 THEN One ELSE N'
    BY DEF UserProgramIndex
  <2>5. userIndex'[u] \in Nat
    BY DEF TypeOK, ProgramTypeOK
  <2> QED BY <2>1, <2>3, <2>4, <2>5, OneNat
<1>3. One <= N /\ U <= N
  <2>1. U <= N
    BY <1>1, BehindNeverBlocks DEF HookNeverBlocks, IndexInv, TypeOK
  <2>2. N >= index /\ index >= One /\ index \in Nat
    BY <1>1, IncomeGrows DEF Behind, TypeOK, ProgramTypeOK
  <2> QED BY <1>2, <2>1, <2>2, OneNat
<1>4. U' = U \/ (U = N /\ (U' = N' \/ U' = One))
  <2>1. balance[u] \in Nat /\ balance'[u] \in Nat
    BY DEF TypeOK
  <2> QED BY <2>1 DEF UserProgramIndex
<1>5. f' = Div(N', U')
  OBVIOUS
<1> SUFFICES f \in Nat /\ f' \in Nat /\ One <= f /\ f <= f'
  OBVIOUS
<1>6. N <= N'
  BY <1>2
<1> HIDE DEF N, U
<1>7. f \in Nat /\ Div(N', U') \in Nat /\ One <= f
  BY <1>2, <1>3, DivFixedNat, DivFixedAtLeastOne
<1>8. CASE U' = U
  <2>1. Div(N, U) <= Div(N', U)
    BY <1>2, <1>6, DivFixedMonotone
  <2> QED BY <1>5, <1>7, <1>8, <2>1
<1>9. CASE U = N /\ (U' = N' \/ U' = One)
  <2>1. f = One
    BY <1>2, <1>9, DivFixedSame
  <2>2. U' <= N'
    BY <1>2, <1>3, <1>6, <1>9, OneNat
  <2>3. Div(N', U') >= One
    BY <1>2, <2>2, DivFixedAtLeastOne
  <2> QED BY <1>5, <1>7, <2>1, <2>3
<1> QED BY <1>4, <1>8, <1>9

LEMMA EntitlementGrows ==
  ASSUME PowersOfTen, TypeOK, TypeOK', Behind, StartedOnce, NEW u \in User,
         UNCHANGED <<index, price, precision>>,
         userIndex'[u] = userIndex[u], vaultRewards'[u] = vaultRewards[u],
         received'[u] = received[u],
         NormalizedIncome' >= NormalizedIncome, balance'[u] >= balance[u]
  PROVE  Entitlement(u)' >= Entitlement(u)
<1>1. received[u] \in Nat /\ vaultRewards[u] \in Nat
  BY DEF TypeOK
<1>2. CASE index = 0
  BY <1>1, <1>2 DEF Entitlement
<1>3. CASE index # 0
  <2> DEFINE f == Div(NormalizedIncome, UserProgramIndex(u))
             b == balance[u]
  <2>1. f \in Nat /\ f' \in Nat /\ One <= f /\ f <= f'
    BY <1>3, RatioGrows
  <2>2. b \in Nat /\ balance'[u] \in Nat /\ b <= balance'[u]
    BY DEF TypeOK
  <2>3. BalanceIncrease(u) = MulWithFactor(ConvertTo(b), precision["reward"], f) - ConvertTo(b)
    BY DEF BalanceIncrease, CumulatedBalance
  <2>4. BalanceIncrease(u)' = MulWithFactor(ConvertTo(balance'[u]), precision["reward"], f')
                                - ConvertTo(balance'[u])
    BY DEF BalanceIncrease, CumulatedBalance, ConvertTo
  <2> HIDE DEF f, b
  <2>5. BalanceIncrease(u) <= BalanceIncrease(u)'
    BY <2>1, <2>2, <2>3, <2>4, IncreaseMonotone
  <2>6. BalanceIncrease(u) \in Int /\ BalanceIncrease(u)' \in Int
    <3>1. BalanceIncrease(u) \in Int
      BY <1>3, IncreaseInt
    <3>2. precision \in [Token -> Nat] /\ price \in [Token -> Nat \ {0}]
      BY DEF TypeOK
    <3>3. ConvertTo(balance'[u]) \in Nat /\ precision["reward"] \in Nat
      BY <2>2, <3>2, ConvertToNat DEF Token
    <3>4. MulWithFactor(ConvertTo(balance'[u]), precision["reward"], f') \in Nat
      BY <2>1, <3>3, MulWithFactorNat
    <3> QED BY <2>4, <3>1, <3>3, <3>4
  <2>7. /\ Entitlement(u) = received[u] + (vaultRewards[u] + BalanceIncrease(u))
        /\ Entitlement(u)' = received[u] + (vaultRewards[u] + BalanceIncrease(u)')
    BY <1>3 DEF Entitlement, VaultRewardsAfter
  <2> QED BY <1>1, <2>5, <2>6, <2>7
<1> QED BY <1>2, <1>3

(* What RewardsOnlyGrow says of one user. *)
GrewOrSaidWhy(u) ==
  \/ Entitlement(u)' >= Entitlement(u)
  \/ balance[u]' < balance[u] /\ userIndex'[u] = userIndex[u]
  \/ rate' # rate \/ price' # price \/ precision' # precision
  \/ starts' # starts

LEMMA StillGrows ==
  ASSUME PowersOfTen, TypeOK, TypeOK', Behind, StartedOnce, NEW u \in User,
         UNCHANGED <<programVars, settingVars, rewardVars, height>>,
         balance'[u] >= balance[u]
  PROVE  Entitlement(u)' >= Entitlement(u)
<1>1. /\ UNCHANGED <<index, rate, updated, price, precision, height>>
      /\ UNCHANGED <<userIndex, vaultRewards, received>>
  BY DEF programVars, settingVars, rewardVars
<1>2. NormalizedIncome \in Nat /\ NormalizedIncome' = NormalizedIncome
  BY <1>1, IncomeGrows DEF TypeOK, NormalizedIncome
<1> QED BY <1>1, <1>2, EntitlementGrows

LEMMA LiquidationGrows ==
  ASSUME PowersOfTen, TypeOK, TypeOK', Behind, StartedOnce, LiquidationStep, NEW v \in User
  PROVE  GrewOrSaidWhy(v)
<1>1. PICK l \in User, u \in User, n \in Amount, asZToken \in BOOLEAN :
        LiquidationCall(l, u, n, asZToken)
  BY DEF LiquidationStep
<1>2. /\ l # u /\ n <= balance[u] /\ n \in Nat \ {0}
      /\ balance' = [balance EXCEPT ![u] = @ - n, ![l] = IF asZToken THEN @ + n ELSE @]
      /\ UNCHANGED <<programVars, settingVars, rewardVars, height>>
  BY <1>1 DEF LiquidationCall
<1>3. balance \in [User -> Nat]
  BY DEF TypeOK
<1>4. CASE v = u
  <2>1. balance'[u] = balance[u] - n /\ userIndex' = userIndex
    BY <1>2, <1>3 DEF rewardVars
  <2>2. balance'[u] < balance[u]
    BY <1>2, <1>3, <2>1
  <2> QED BY <1>4, <2>1, <2>2 DEF GrewOrSaidWhy
<1>5. CASE v # u
  <2>1. balance'[v] >= balance[v]
    BY <1>2, <1>3, <1>5
  <2> QED BY <1>2, <2>1, StillGrows DEF GrewOrSaidWhy
<1> QED BY <1>4, <1>5

LEMMA OwnerGrows ==
  ASSUME PowersOfTen, TypeOK, TypeOK', Behind, StartedOnce, OwnerStep, NEW v \in User
  PROVE  GrewOrSaidWhy(v)
<1>1. balance[v] \in Nat
  BY DEF TypeOK
<1>2. CASE InitializeRewardProgramData
  <2>1. starts' = starts + 1 /\ starts \in Nat
    BY <1>2 DEF InitializeRewardProgramData, TypeOK, ProgramTypeOK
  <2>2. starts' # starts
    BY <2>1
  <2> QED BY <2>2 DEF GrewOrSaidWhy
<1>3. ASSUME NEW r \in Rate, SetLiquidityRate(r) PROVE GrewOrSaidWhy(v)
  <2>1. CASE rate' # rate
    BY <2>1 DEF GrewOrSaidWhy
  <2>2. CASE rate' = rate
    <3>1. /\ UNCHANGED <<programVars, settingVars, rewardVars, height>>
          /\ balance'[v] >= balance[v]
      BY <1>1, <1>3, <2>2 DEF SetLiquidityRate, programVars
    <3> QED BY <3>1, StillGrows DEF GrewOrSaidWhy
  <2> QED BY <2>1, <2>2
<1>4. ASSUME NEW t \in Token, NEW p \in Price[t], SetPrice(t, p) PROVE GrewOrSaidWhy(v)
  <2>1. CASE price' # price
    BY <2>1 DEF GrewOrSaidWhy
  <2>2. CASE price' = price
    <3>1. /\ UNCHANGED <<programVars, settingVars, rewardVars, height>>
          /\ balance'[v] >= balance[v]
      BY <1>1, <1>4, <2>2 DEF SetPrice, settingVars
    <3> QED BY <3>1, StillGrows DEF GrewOrSaidWhy
  <2> QED BY <2>1, <2>2
<1>5. ASSUME NEW t \in Token, NEW d \in Precision[t], SetPrecision(t, d)
      PROVE  GrewOrSaidWhy(v)
  <2>1. CASE precision' # precision
    BY <2>1 DEF GrewOrSaidWhy
  <2>2. CASE precision' = precision
    <3>1. /\ UNCHANGED <<programVars, settingVars, rewardVars, height>>
          /\ balance'[v] >= balance[v]
      BY <1>1, <1>5, <2>2 DEF SetPrecision, settingVars
    <3> QED BY <3>1, StillGrows DEF GrewOrSaidWhy
  <2> QED BY <2>1, <2>2
<1>6. ASSUME NEW n \in Taken, WithdrawAssets(n) PROVE GrewOrSaidWhy(v)
  <2>1. /\ UNCHANGED <<programVars, settingVars, rewardVars, height>>
        /\ balance'[v] >= balance[v]
    BY <1>1, <1>6 DEF WithdrawAssets
  <2> QED BY <2>1, StillGrows DEF GrewOrSaidWhy
<1> QED BY <1>2, <1>3, <1>4, <1>5, <1>6 DEF OwnerStep

(* A block makes the program's index grow, and no balance shrink. *)
LEMMA BlockGrows ==
  ASSUME PowersOfTen, TypeOK, TypeOK', Behind, StartedOnce, NextBlock, NEW v \in User
  PROVE  GrewOrSaidWhy(v)
<1>1. PICK g \in Growth :
        balance' = [u \in User |-> IF balance[u] = 0 \/ balance[u] + g > MaxBalance
                                   THEN balance[u] ELSE balance[u] + g]
  BY DEF NextBlock
<1>2. balance'[v] >= balance[v]
  BY <1>1 DEF TypeOK
<1>3. /\ height' = height + 1 /\ height' \in 0 .. MaxHeight
      /\ UNCHANGED <<index, rate, updated, price, precision>>
      /\ UNCHANGED <<userIndex, vaultRewards, received>>
  BY DEF NextBlock, programVars, settingVars, rewardVars, TypeOK, ProgramTypeOK
<1>4. NormalizedIncome' >= NormalizedIncome
  <2> DEFINE e == height'
             f == CalculateLinearInterest(rate, updated, height)
             h == CalculateLinearInterest(rate, updated, e)
  <2>1. /\ e \in 0 .. MaxHeight /\ height \in 0 .. e /\ height \in 0 .. MaxHeight
        /\ updated \in 0 .. height /\ updated \in 0 .. e /\ rate \in Nat
        /\ index \in Nat /\ index <= index
    BY <1>3, MathAssumption DEF TypeOK, ProgramTypeOK, MathAssumption
  <2>2. NormalizedIncome = Mul(f, index) /\ NormalizedIncome' = Mul(h, index)
    BY <1>3 DEF NormalizedIncome
  <2> HIDE DEF e
  <2>3. f \in Nat /\ h \in Nat /\ f <= h
    BY <2>1, InterestAtLeastOne, InterestMonotone
  <2> HIDE DEF f, h
  <2>4. Mul(f, index) <= Mul(h, index) /\ Mul(f, index) \in Nat /\ Mul(h, index) \in Nat
    BY <2>1, <2>3, MulMonotoneBoth, MulNat
  <2> QED BY <2>2, <2>4
<1> QED BY <1>2, <1>3, <1>4, EntitlementGrows DEF GrewOrSaidWhy

LEMMA NextGrows ==
  ASSUME PowersOfTen, TypeOK, TypeOK', Behind, StartedOnce, [Next]_vars, NEW v \in User
  PROVE  GrewOrSaidWhy(v)
<1>1. CASE UserStep
  <2>1. Entitlement(v)' = Entitlement(v) /\ Entitlement(v) \in Int
    BY <1>1, UserStepSettles, EntitlementInt
  <2> QED BY <2>1 DEF GrewOrSaidWhy
<1>2. CASE UNCHANGED vars
  <2>1. UNCHANGED <<programVars, settingVars, rewardVars, height, balance>>
    BY <1>2 DEF vars
  <2>2. balance'[v] >= balance[v]
    BY <2>1 DEF TypeOK
  <2> QED BY <2>1, <2>2, StillGrows DEF GrewOrSaidWhy
<1> QED BY <1>1, <1>2, LiquidationGrows, OwnerGrows, BlockGrows DEF Next

(* While the program is started once, neither time nor another user takes  *)
(* a reward away, whatever the rounding of the index they bring up to      *)
(* date.  Started again, its index is behind those of its users: what they *)
(* are due is negative, and grows more so with their deposits.             *)
THEOREM RewardsNeverShrink ==
  ASSUME PowersOfTen PROVE Spec /\ []StartedOnce => RewardsOnlyGrow
<1> DEFINE Inv == TypeOK /\ Behind
<1>1. Init => Inv
  BY InitType, InitBehind DEF IndexInv
<1>2. Inv /\ [Next]_vars => Inv'
  BY NextType, NextBehind DEF IndexInv, TypeOK
<1>3. Inv /\ Inv' /\ StartedOnce /\ [Next]_vars
        => [\A u \in User : GrewOrSaidWhy(u)]_vars
  BY NextGrows
<1> HIDE DEF Inv
<1>4. Spec /\ []StartedOnce => [][\A u \in User : GrewOrSaidWhy(u)]_vars
  BY <1>1, <1>2, <1>3, PTL DEF Spec
<1>5. RewardsOnlyGrow <=> [][\A u \in User : GrewOrSaidWhy(u)]_vars
  <2>1. \A u \in User :
          GrewOrSaidWhy(u) <=>
            \/ Entitlement(u)' >= Entitlement(u)
            \/ balance[u]' < balance[u] /\ userIndex'[u] = userIndex[u]
            \/ rate' # rate \/ price' # price \/ precision' # precision
            \/ starts' # starts
    BY DEF GrewOrSaidWhy
  <2> QED BY <2>1, PTL DEF RewardsOnlyGrow, GrewOrSaidWhy
<1> QED BY <1>4, <1>5, PTL

-----------------------------------------------------------------------------
(* Paid once.  What a user was settled is no more than the growth of the   *)
(* index up to the user's own, on the worth of a MaxBalance, and a         *)
(* rounding for each settlement that brought anything: there is at most    *)
(* one in a block, as the user's index is the program's after it.          *)

SettledTotal(u) == received[u] + vaultRewards[u]

(* How many settlements can have brought u anything so far. *)
Settlements(u) ==
  IF updated = height /\ userIndex[u] = index THEN height ELSE height - 1

SettledWithinIndex(u) ==
  /\ userIndex[u] >= One
  /\ 2 * (SettledTotal(u) * One)
       <= 2 * (WorthOfMax * (userIndex[u] - One)) + Settlements(u) * (WorthOfMax + One)

(* Settings are those the owner may choose, and balances are bounded: what *)
(* a balance is worth is, too.                                             *)
WorthBounded ==
  /\ \A t \in Token : price[t] \in Price[t] /\ precision[t] \in Precision[t]
  /\ \A u \in User : balance[u] <= MaxBalance

PaidInv ==
  /\ WorthBounded
  /\ \A u \in User : userIndex[u] = 0 => SettledTotal(u) = 0
  /\ starts = 1 /\ height = 0 => index = One /\ \A u \in User : userIndex[u] \in {0, One}
  /\ starts = 1 => \A u \in User : userIndex[u] # 0 => SettledWithinIndex(u)

LEMMA Worth ==
  ASSUME PowersOfTen, TypeOK, WorthBounded, NEW u \in User
  PROVE  ConvertTo(balance[u]) \in Nat /\ ConvertTo(balance[u]) <= WorthOfMax
<1> DEFINE d == precision["supplied"]
           e == precision["reward"]
           p == price["supplied"]
           q == price["reward"]
<1>1. /\ d \in Nat /\ e \in Nat /\ p \in Nat \ {0} /\ q \in Nat \ {0}
      /\ balance[u] \in Nat /\ MaxBalance \in Nat /\ balance[u] <= MaxBalance
  BY DEF Token, TypeOK, WorthBounded
<1>2. GetYFromX(MaxBalance, d, e, p, q) <= WorthOfMax /\ WorthOfMax \in Nat
  BY WorthAssumption DEF WorthAssumption, WorthBounded, Token
<1>3. ConvertTo(balance[u]) = GetYFromX(balance[u], d, e, p, q)
  BY DEF ConvertTo
<1> HIDE DEF d, e, p, q
<1>4. /\ GetYFromX(balance[u], d, e, p, q) \in Nat /\ GetYFromX(MaxBalance, d, e, p, q) \in Nat
      /\ GetYFromX(balance[u], d, e, p, q) <= GetYFromX(MaxBalance, d, e, p, q)
  BY <1>1, GetYFromXMonotone
<1> QED BY <1>2, <1>3, <1>4

(* What a settlement adds: the growth of the index since the last one on   *)
(* what is held, half a unit of the index on it, and half a unit.          *)
LEMMA IncreaseBounded ==
  ASSUME PowersOfTen, TypeOK, WorthBounded, index # 0, NEW u \in User,
         One <= UserProgramIndex(u), UserProgramIndex(u) <= NormalizedIncome
  PROVE  /\ 2 * (BalanceIncrease(u) * One)
              <= 2 * (WorthOfMax * (NormalizedIncome - UserProgramIndex(u))) + (WorthOfMax + One)
         /\ UserProgramIndex(u) = NormalizedIncome => BalanceIncrease(u) = 0
<1> DEFINE N == NormalizedIncome
           U == UserProgramIndex(u)
           f == Div(N, U)
           c == ConvertTo(balance[u])
           m == MulWithFactor(c, precision["reward"], f)
<1>1. N \in Nat \ {0} /\ U \in Nat \ {0} /\ One <= U /\ U <= N
  BY UserIndexPositive
<1>2. c \in Nat /\ c <= WorthOfMax /\ precision["reward"] \in Nat /\ WorthOfMax \in Nat
  BY Worth, WorthAssumption DEF TypeOK, Token, WorthAssumption
<1>3. BalanceIncrease(u) = m - c
  BY DEF BalanceIncrease, CumulatedBalance
<1> HIDE DEF N, U, c
<1>4. f \in Nat /\ 2 * (f * U) <= 2 * (N * One) + U /\ One <= f
  BY <1>1, DivBounds, DivFixedAtLeastOne
<1>5. U = N => m = c
  BY <1>1, <1>2, DivFixedSame, MulWithFactorOne
<1> HIDE DEF f
<1>6. m \in Nat /\ 2 * (m * One) <= 2 * (c * f) + One
  BY <1>2, <1>4, MulWithFactorNat, MulWithFactorBounds
<1> HIDE DEF m
<1> DEFINE g == f - One
           a == N - U
<1>7. g \in Nat /\ a \in Nat /\ f = One + g /\ N = U + a
  BY <1>1, <1>4, OneNat
<1> HIDE DEF g, a
<1>8. 2 * g <= 2 * a + 1
  <2>1. (One + g) * U = One * U + g * U /\ (U + a) * One = U * One + a * One
    BY <1>1, <1>7, OneNat
  <2>2. a * One <= a * U
    BY <1>1, <1>7, OneNat
  <2>3. One * U = U * One /\ g * U \in Nat /\ a * U \in Nat /\ a * One \in Nat /\ U * One \in Nat
    BY <1>1, <1>7, OneNat
  <2>4. 2 * (g * U) <= 2 * (a * U) + U
    BY <1>1, <1>4, <1>7, <2>1, <2>2, <2>3
  <2>5. (2 * g) * U <= (2 * a + 1) * U
    <3>1. (2 * g) * U = 2 * (g * U) /\ (2 * a + 1) * U = 2 * (a * U) + U
      BY <1>1, <1>7
    <3> QED BY <2>4, <3>1
  <2> QED BY <1>1, <1>7, <2>5, Cancel
<1>9. 2 * ((m - c) * One) <= c * (2 * g) + One
  <2>1. (m - c) * One = m * One - c * One /\ c * f = c * One + c * g
    BY <1>2, <1>6, <1>7, OneNat
  <2>2. m * One \in Nat /\ c * One \in Nat /\ c * g \in Nat /\ c * (2 * g) = 2 * (c * g)
    BY <1>2, <1>6, <1>7, OneNat
  <2> QED BY <1>6, <2>1, <2>2, OneNat
<1>10. c * (2 * g) <= WorthOfMax * (2 * a + 1)
  <2>1. c * (2 * g) <= c * (2 * a + 1) /\ c * (2 * a + 1) <= WorthOfMax * (2 * a + 1)
    BY <1>2, <1>7, <1>8
  <2>2. c * (2 * g) \in Nat /\ c * (2 * a + 1) \in Nat /\ WorthOfMax * (2 * a + 1) \in Nat
    BY <1>2, <1>7
  <2> QED BY <2>1, <2>2
<1>11. WorthOfMax * (2 * a + 1) = 2 * (WorthOfMax * a) + WorthOfMax
  BY <1>2, <1>7
<1>12. WorthOfMax * a \in Nat /\ c * (2 * g) \in Nat /\ (m - c) * One \in Int
  BY <1>2, <1>6, <1>7, OneNat
<1>13. 2 * ((m - c) * One) <= 2 * (WorthOfMax * a) + (WorthOfMax + One)
  BY <1>2, <1>9, <1>10, <1>11, <1>12, OneNat
<1> QED BY <1>3, <1>5, <1>13, <1>2 DEF a, N, U

(* Of a user the program knows, or one it does not, all that was settled   *)
(* and what one more settlement would add.                                 *)
LEMMA EntitlementBounded ==
  ASSUME PowersOfTen, TypeOK, Behind, PaidInv, index # 0, starts = 1, NEW u \in User
  PROVE  /\ NormalizedIncome \in Nat /\ One <= NormalizedIncome /\ Entitlement(u) \in Int
         /\ 2 * (Entitlement(u) * One)
              <= 2 * (WorthOfMax * (NormalizedIncome - One)) + height * (WorthOfMax + One)
<1> DEFINE N == NormalizedIncome
           U == UserProgramIndex(u)
           S == SettledTotal(u)
           I == BalanceIncrease(u)
           W == WorthOfMax
<1>1. N \in Nat \ {0} /\ U \in Nat \ {0} /\ U <= N /\ index <= N
  BY UserIndexPositive, BehindNeverBlocks, IncomeGrows DEF HookNeverBlocks, IndexInv, TypeOK
<1>2. One <= N /\ One <= U
  <2>1. index \in Nat /\ One <= index /\ (userIndex[u] # 0 => One <= userIndex[u])
    BY DEF Behind, TypeOK, ProgramTypeOK, PaidInv, SettledWithinIndex
  <2> QED BY <1>1, <2>1, OneNat DEF UserProgramIndex
<1>3. W \in Nat /\ height \in Nat
  BY WorthAssumption DEF WorthAssumption, TypeOK, ProgramTypeOK
<1>4. S \in Nat /\ I \in Int /\ Entitlement(u) = S + I
  <2>1. received[u] \in Nat /\ vaultRewards[u] \in Nat /\ I \in Int
    BY IncreaseInt DEF TypeOK
  <2> QED BY <2>1 DEF Entitlement, VaultRewardsAfter, SettledTotal
<1>5. /\ 2 * (I * One) <= 2 * (W * (N - U)) + (W + One)
      /\ U = N => I = 0
  BY <1>1, <1>2, IncreaseBounded DEF PaidInv
(* in the block of the start, and right after a settlement, there is nothing new *)
<1>6. updated = height => N = index
  <2>1. ASSUME updated = height PROVE N = Mul(One, index)
    <3>1. rate \in Nat
      BY DEF TypeOK, ProgramTypeOK
    <3> QED BY <1>3, <2>1, <3>1, NoInterest DEF NormalizedIncome
  <2> QED BY <2>1, MulOne DEF TypeOK, ProgramTypeOK
<1>7. U < N => height >= 1
  <2>1. ASSUME height = 0 PROVE U = N
    <3>1. updated = height /\ index = One /\ userIndex[u] \in {0, One}
      BY <2>1 DEF TypeOK, ProgramTypeOK, PaidInv
    <3> QED BY <1>6, <3>1, OneNat DEF UserProgramIndex
  <2> QED BY <1>1, <1>3, <2>1
<1>8. userIndex[u] # 0 => /\ U = userIndex[u]
                          /\ 2 * (S * One) <= 2 * (W * (U - One)) + Settlements(u) * (W + One)
  BY DEF PaidInv, SettledWithinIndex, UserProgramIndex
<1>9. userIndex[u] # 0 /\ U < N => Settlements(u) = height - 1
  BY <1>1, <1>6, <1>8 DEF Settlements
<1>10. userIndex[u] = 0 => S = 0
  BY DEF PaidInv
<1>11. Settlements(u) \in Int /\ Settlements(u) <= height
  BY <1>3 DEF Settlements
<1> DEFINE k == Settlements(u)
           x == U - One
           y == N - U
           t == W + One
<1>12. /\ x \in Nat /\ y \in Nat /\ t \in Nat /\ N - One = x + y /\ W * (x + y) = W * x + W * y
       /\ W * x \in Nat /\ W * y \in Nat /\ (S + I) * One = S * One + I * One
       /\ S * One \in Nat /\ I * One \in Int /\ height * t \in Nat
  <2> HIDE DEF N, U, S, I, W
  <2>1. x \in Nat /\ y \in Nat /\ t \in Nat /\ N - One = x + y
    BY <1>1, <1>2, <1>3, OneNat
  <2> HIDE DEF x, y, t
  <2>2. /\ W * (x + y) = W * x + W * y /\ W * x \in Nat /\ W * y \in Nat /\ height * t \in Nat
    BY <1>3, <2>1
  <2>3. (S + I) * One = S * One + I * One /\ S * One \in Nat /\ I * One \in Int
    BY <1>4, OneNat
  <2> QED BY <2>1, <2>2, <2>3
<1>13. k \in Int /\ k * t <= height * t /\ (height - 1) * t = height * t - t /\ k * t \in Int
  BY <1>3, <1>11, <1>12
<1>14. (S = 0 => S * One = 0) /\ (I = 0 => I * One = 0)
  BY OneNat
<1>15. (height >= 1 => t <= height * t)
  BY <1>3, <1>12
<1>16. U = N \/ U < N
  BY <1>1
<1> HIDE DEF N, U, S, I, k, W
<1>17. 2 * (S * One + I * One) <= 2 * (W * x + W * y) + height * t
  <2>1. CASE U = N
    <3>1. I * One = 0
      BY <1>5, <1>14, <2>1
    <3>2. CASE userIndex[u] = 0
      BY <1>10, <1>12, <1>14, <3>1, <3>2
    <3>3. CASE userIndex[u] # 0
      <4>1. 2 * (S * One) <= 2 * (W * x) + k * t
        BY <1>8, <3>3 DEF k, W
      <4> QED BY <4>1, <1>12, <1>13, <3>1
    <3> QED BY <3>2, <3>3
  <2>2. CASE U < N
    <3>1. 2 * (I * One) <= 2 * (W * y) + t
      BY <1>5
    <3>2. CASE userIndex[u] = 0
      <4>1. S * One = 0 /\ t <= height * t
        BY <1>7, <1>10, <1>14, <1>15, <2>2, <3>2
      <4> QED BY <4>1, <1>12, <3>1
    <3>3. CASE userIndex[u] # 0
      <4>1. 2 * (S * One) <= 2 * (W * x) + (height * t - t)
        <5>1. 2 * (S * One) <= 2 * (W * x) + k * t
          BY <1>8, <3>3 DEF k, W
        <5>2. k = height - 1
          BY <1>9, <2>2, <3>3 DEF k
        <5> QED BY <5>1, <5>2, <1>13
      <4> QED BY <4>1, <1>12, <3>1
    <3> QED BY <3>2, <3>3
  <2> QED BY <2>1, <2>2, <1>16
<1> QED BY <1>1, <1>2, <1>4, <1>12, <1>17 DEF N, W

LEMMA WorthStaysBounded ==
  ASSUME TypeOK, WorthBounded, [Next]_vars
  PROVE  WorthBounded'
<1> DEFINE Settings == \A t \in Token : price[t] \in Price[t] /\ precision[t] \in Precision[t]
           Balances == \A u \in User : balance[u] <= MaxBalance
<1>1. balance \in [User -> Nat] /\ price \in [Token -> Nat \ {0}] /\ precision \in [Token -> Nat]
  BY DEF TypeOK
<1>2. Settings /\ Balances
  BY DEF WorthBounded
<1>3. SUFFICES Settings' /\ Balances'
  BY DEF WorthBounded
<1>4. ASSUME UNCHANGED settingVars PROVE Settings'
  BY <1>2, <1>4 DEF settingVars
<1>5. ASSUME UNCHANGED balance PROVE Balances'
  BY <1>2, <1>5
<1>6. ASSUME NEW u \in User, ClaimRewardsPriv(u) PROVE Settings'
  BY <1>4, <1>6 DEF ClaimRewardsPriv
<1>7. ASSUME NEW u \in User, NEW n \in Amount, Supply(u, n) PROVE Settings' /\ Balances'
  <2>1. balance' = [balance EXCEPT ![u] = @ + n] /\ balance[u] + n <= MaxBalance
    BY <1>7 DEF Supply
  <2> QED BY <1>1, <1>2, <1>6, <1>7, <2>1 DEF Supply, ClaimRewardsToVault
<1>8. ASSUME NEW u \in User, NEW n \in Amount, Withdraw(u, n) PROVE Settings' /\ Balances'
  <2>1. balance' = [balance EXCEPT ![u] = @ - n] /\ n \in Nat /\ MaxBalance \in Nat
    BY <1>8 DEF Withdraw
  <2>2. \A v \in User : balance'[v] <= balance[v] /\ balance'[v] \in Int
    BY <1>1, <2>1
  <2> QED BY <1>1, <1>2, <1>6, <1>8, <2>1, <2>2 DEF Withdraw, ClaimRewardsToVault
<1>9. ASSUME NEW u \in User, ClaimRewards(u) PROVE Settings' /\ Balances'
  BY <1>5, <1>6, <1>9 DEF ClaimRewards
<1>10. CASE UserStep
  BY <1>7, <1>8, <1>9, <1>10 DEF UserStep
<1>11. CASE LiquidationStep
  <2>1. PICK l \in User, u \in User, n \in Amount, asZToken \in BOOLEAN :
          LiquidationCall(l, u, n, asZToken)
    BY <1>11 DEF LiquidationStep
  <2>2. /\ l # u /\ n \in Nat /\ MaxBalance \in Nat /\ UNCHANGED settingVars
        /\ balance' = [balance EXCEPT ![u] = @ - n, ![l] = IF asZToken THEN @ + n ELSE @]
        /\ asZToken => balance[l] + n <= MaxBalance
    BY <2>1 DEF LiquidationCall
  <2>3. ASSUME NEW v \in User PROVE balance'[v] <= MaxBalance
    <3>1. CASE v = u
      BY <1>1, <1>2, <2>2, <3>1
    <3>2. CASE v = l
      BY <1>1, <1>2, <2>2, <3>2
    <3>3. CASE v # u /\ v # l
      BY <1>1, <1>2, <2>2, <3>3
    <3> QED BY <3>1, <3>2, <3>3
  <2> QED BY <1>4, <2>2, <2>3
<1>12. CASE OwnerStep
  <2>1. ASSUME NEW t \in Token, NEW p \in Price[t], SetPrice(t, p) PROVE Settings' /\ Balances'
    <3>1. price' = [price EXCEPT ![t] = p] /\ UNCHANGED <<precision, balance>>
      BY <2>1 DEF SetPrice
    <3> QED BY <1>1, <1>2, <1>5, <3>1
  <2>2. ASSUME NEW t \in Token, NEW d \in Precision[t], SetPrecision(t, d)
        PROVE  Settings' /\ Balances'
    <3>1. precision' = [precision EXCEPT ![t] = d] /\ UNCHANGED <<price, balance>>
      BY <2>2 DEF SetPrecision
    <3> QED BY <1>1, <1>2, <1>5, <3>1
  <2> QED BY <1>4, <1>5, <1>12, <2>1, <2>2
          DEF OwnerStep, InitializeRewardProgramData, SetLiquidityRate, WithdrawAssets
<1>13. CASE NextBlock
  <2>1. PICK g \in Growth :
          balance' = [u \in User |-> IF balance[u] = 0 \/ balance[u] + g > MaxBalance
                                     THEN balance[u] ELSE balance[u] + g]
    BY <1>13 DEF NextBlock
  <2>2. g \in Nat /\ MaxBalance \in Nat /\ UNCHANGED settingVars
    BY <1>13 DEF NextBlock
  <2> QED BY <1>1, <1>2, <1>4, <2>1, <2>2
<1>14. CASE UNCHANGED vars
  BY <1>4, <1>5, <1>14 DEF vars
<1> QED BY <1>10, <1>11, <1>12, <1>13, <1>14 DEF Next

(* What was settled stays within the index while none of it moves. *)
LEMMA FrameKeepsPaid ==
  ASSUME PaidInv, WorthBounded',
         UNCHANGED <<index, updated, starts, height, userIndex, vaultRewards, received>>
  PROVE  PaidInv'
<1>1. \A u \in User : SettledTotal(u)' = SettledTotal(u) /\ Settlements(u)' = Settlements(u)
  BY DEF SettledTotal, Settlements
<1> QED BY <1>1 DEF PaidInv, SettledWithinIndex

(* In the block of a settlement, the index of the program is the income.   *)
LEMMA NothingNewInBlock ==
  ASSUME TypeOK, updated = height
  PROVE  NormalizedIncome = index
<1>1. rate \in Nat /\ height \in Nat /\ index \in Nat
  BY DEF TypeOK, ProgramTypeOK
<1>2. NormalizedIncome = Mul(One, index)
  BY <1>1, NoInterest DEF NormalizedIncome
<1> QED BY <1>1, <1>2, MulOne

LEMMA HookKeepsPaid ==
  ASSUME PowersOfTen, TypeOK, Behind, PaidInv, WorthBounded', NEW u \in User,
         ClaimRewardsPriv(u),
         SettledTotal(u)' = SettledTotal(u) + BalanceIncrease(u),
         \A v \in User \ {u} : SettledTotal(v)' = SettledTotal(v)
  PROVE  PaidInv'
<1> DEFINE N == NormalizedIncome
           t == WorthOfMax + One
<1>1. /\ index # 0 /\ index' = N /\ updated' = height
      /\ userIndex' = [userIndex EXCEPT ![u] = N]
      /\ starts' = starts /\ height' = height
  BY DEF ClaimRewardsPriv, SettledIndex
<1>2. /\ N \in Nat \ {0} /\ userIndex \in [User -> Nat] /\ height \in Nat /\ index \in Nat
      /\ updated \in 0 .. height /\ WorthOfMax \in Nat /\ t \in Nat
  BY <1>1, UserIndexPositive, WorthAssumption, OneNat DEF TypeOK, ProgramTypeOK, WorthAssumption
<1>3. updated = height => N = index
  BY NothingNewInBlock
<1> HIDE DEF N
<1>4. /\ userIndex'[u] = N
      /\ \A v \in User \ {u} : userIndex'[v] = userIndex[v]
  BY <1>1, <1>2
<1>5. \A v \in User : userIndex'[v] = 0 => SettledTotal(v)' = 0
  BY <1>2, <1>4 DEF PaidInv
<1>6. starts' = 1 /\ height' = 0 => index' = One /\ \A v \in User : userIndex'[v] \in {0, One}
  <2>1. ASSUME starts = 1, height = 0
        PROVE  index' = One /\ \A v \in User : userIndex'[v] \in {0, One}
    <3>1. updated = height /\ index = One /\ \A v \in User : userIndex[v] \in {0, One}
      BY <1>2, <2>1 DEF PaidInv
    <3>2. N = One
      BY <1>3, <3>1
    <3> QED BY <1>1, <1>4, <3>1, <3>2
  <2> QED BY <1>1, <2>1
<1>7. ASSUME starts = 1 PROVE SettledWithinIndex(u)'
  <2>1. /\ One <= N /\ Entitlement(u) \in Int
        /\ 2 * (Entitlement(u) * One) <= 2 * (WorthOfMax * (N - One)) + height * t
    BY <1>1, <1>7, EntitlementBounded DEF N
  <2>2. Entitlement(u) = SettledTotal(u)'
    <3>1. received[u] \in Nat /\ vaultRewards[u] \in Nat /\ BalanceIncrease(u) \in Int
      BY <1>1, IncreaseInt DEF TypeOK
    <3>2. Entitlement(u) = received[u] + (vaultRewards[u] + BalanceIncrease(u))
      BY <1>1 DEF Entitlement, VaultRewardsAfter
    <3>3. SettledTotal(u)' = (received[u] + vaultRewards[u]) + BalanceIncrease(u)
      BY DEF SettledTotal
    <3> QED BY <3>1, <3>2, <3>3
  <2>3. Settlements(u)' = height
    BY <1>1, <1>4 DEF Settlements
  <2> QED BY <1>4, <2>1, <2>2, <2>3 DEF SettledWithinIndex
<1>8. ASSUME starts = 1, NEW v \in User \ {u}, userIndex[v] # 0 PROVE SettledWithinIndex(v)'
  <2>1. SettledWithinIndex(v)
    BY <1>8 DEF PaidInv
  <2>2. /\ Settlements(v) \in Int /\ Settlements(v)' \in Int
        /\ Settlements(v) <= Settlements(v)'
    <3>1. CASE updated = height /\ userIndex[v] = index
      <4>1. userIndex'[v] = index' /\ updated' = height'
        BY <1>1, <1>3, <1>4, <3>1
      <4> QED BY <1>1, <1>2, <3>1, <4>1 DEF Settlements
    <3>2. CASE ~(updated = height /\ userIndex[v] = index)
      BY <1>1, <1>2, <3>2 DEF Settlements
    <3> QED BY <3>1, <3>2
  <2> DEFINE k == Settlements(v)
             j == Settlements(v)'
             a == SettledTotal(v)
             x == userIndex[v] - One
  <2>3. 2 * (a * One) <= 2 * (WorthOfMax * x) + k * t /\ userIndex[v] >= One
    BY <2>1 DEF SettledWithinIndex
  <2>4. a \in Nat /\ x \in Nat
    <3>1. userIndex[v] \in Nat /\ received[v] \in Nat /\ vaultRewards[v] \in Nat
      BY DEF TypeOK, ProgramTypeOK
    <3> QED BY <2>3, <3>1, OneNat DEF SettledTotal
  <2> HIDE DEF k, j, a, x
  <2>5. k * t <= j * t /\ k * t \in Int /\ j * t \in Int
    BY <1>2, <2>2 DEF k, j
  <2>6. 2 * (a * One) <= 2 * (WorthOfMax * x) + j * t
    <3>1. a * One \in Nat /\ WorthOfMax * x \in Nat
      BY <1>2, <2>4, OneNat
    <3> QED BY <2>3, <2>5, <3>1
  <2>7. userIndex'[v] = userIndex[v] /\ SettledTotal(v)' = a
    BY <1>4 DEF a
  <2> QED BY <2>3, <2>6, <2>7 DEF SettledWithinIndex, j, a, x
<1>9. starts' = 1 => \A v \in User : userIndex'[v] # 0 => SettledWithinIndex(v)'
  BY <1>1, <1>4, <1>7, <1>8
<1> QED BY <1>5, <1>6, <1>9 DEF PaidInv

LEMMA UserStepKeepsPaid ==
  ASSUME PowersOfTen, TypeOK, Behind, PaidInv, WorthBounded', UserStep
  PROVE  PaidInv'
<1>1. vaultRewards \in [User -> Nat] /\ received \in [User -> Nat]
  BY DEF TypeOK
<1>2. ASSUME NEW u \in User, ClaimRewardsToVault(u) PROVE PaidInv'
  <2>1. /\ ClaimRewardsPriv(u) /\ received' = received
        /\ vaultRewards' = [vaultRewards EXCEPT ![u] = vaultRewards[u] + BalanceIncrease(u)]
    BY <1>2 DEF ClaimRewardsToVault, VaultRewardsAfter
  <2>2. BalanceIncrease(u) \in Int
    BY <2>1, IncreaseInt DEF ClaimRewardsPriv
  <2>3. SettledTotal(u)' = SettledTotal(u) + BalanceIncrease(u)
    BY <1>1, <2>1, <2>2 DEF SettledTotal
  <2>4. \A v \in User \ {u} : SettledTotal(v)' = SettledTotal(v)
    BY <1>1, <2>1 DEF SettledTotal
  <2> QED BY <2>1, <2>3, <2>4, HookKeepsPaid
<1>3. ASSUME NEW u \in User, ClaimRewards(u) PROVE PaidInv'
  <2>1. /\ ClaimRewardsPriv(u)
        /\ vaultRewards' = [vaultRewards EXCEPT ![u] = 0]
        /\ received' = [received EXCEPT ![u] = @ + (vaultRewards[u] + BalanceIncrease(u))]
    BY <1>3 DEF ClaimRewards, VaultRewardsAfter
  <2>2. BalanceIncrease(u) \in Int
    BY <2>1, IncreaseInt DEF ClaimRewardsPriv
  <2>3. SettledTotal(u)' = SettledTotal(u) + BalanceIncrease(u)
    BY <1>1, <2>1, <2>2 DEF SettledTotal
  <2>4. \A v \in User \ {u} : SettledTotal(v)' = SettledTotal(v)
    BY <1>1, <2>1 DEF SettledTotal
  <2> QED BY <2>1, <2>3, <2>4, HookKeepsPaid
<1> QED BY <1>2, <1>3 DEF UserStep, Supply, Withdraw

LEMMA BlockKeepsPaid ==
  ASSUME TypeOK, PaidInv, WorthBounded', NextBlock
  PROVE  PaidInv'
<1> DEFINE t == WorthOfMax + One
<1>1. /\ height' = height + 1 /\ height \in Nat /\ t \in Nat /\ WorthOfMax \in Nat
      /\ UNCHANGED <<index, updated, starts, userIndex, vaultRewards, received>>
  BY WorthAssumption, OneNat
     DEF NextBlock, programVars, rewardVars, TypeOK, ProgramTypeOK, WorthAssumption
<1>2. \A u \in User : SettledTotal(u)' = SettledTotal(u)
  BY <1>1 DEF SettledTotal
<1>3. height' # 0
  BY <1>1
<1>4. ASSUME NEW u \in User, SettledWithinIndex(u) PROVE SettledWithinIndex(u)'
  <2> DEFINE k == Settlements(u)
             j == Settlements(u)'
             a == SettledTotal(u)
             x == userIndex[u] - One
  <2>1. k \in Int /\ j \in Int /\ k <= j
    BY <1>1 DEF Settlements
  <2>2. 2 * (a * One) <= 2 * (WorthOfMax * x) + k * t /\ userIndex[u] >= One
    BY <1>4 DEF SettledWithinIndex
  <2>3. a \in Nat /\ x \in Nat
    <3>1. userIndex[u] \in Nat /\ received[u] \in Nat /\ vaultRewards[u] \in Nat
      BY DEF TypeOK, ProgramTypeOK
    <3> QED BY <2>2, <3>1, OneNat DEF SettledTotal
  <2> HIDE DEF k, j, a, x
  <2>4. k * t <= j * t /\ k * t \in Int /\ j * t \in Int
    BY <1>1, <2>1
  <2>5. a * One \in Nat /\ WorthOfMax * x \in Nat
    BY <1>1, <2>3, OneNat
  <2>6. 2 * (a * One) <= 2 * (WorthOfMax * x) + j * t
    BY <2>2, <2>4, <2>5
  <2>7. userIndex'[u] = userIndex[u] /\ SettledTotal(u)' = a
    BY <1>1, <1>2 DEF a
  <2> QED BY <2>2, <2>6, <2>7 DEF SettledWithinIndex, j, a, x
<1> QED BY <1>1, <1>2, <1>3, <1>4 DEF PaidInv

LEMMA OwnerStepKeepsPaid ==
  ASSUME TypeOK, Behind, PaidInv, WorthBounded', OwnerStep
  PROVE  PaidInv'
<1>1. CASE InitializeRewardProgramData
  <2>1. /\ index' = One /\ starts' = starts + 1 /\ starts \in Nat
        /\ UNCHANGED <<userIndex, vaultRewards, received, height>>
    BY <1>1 DEF InitializeRewardProgramData, rewardVars, TypeOK, ProgramTypeOK
  <2>2. \A u \in User : SettledTotal(u)' = SettledTotal(u)
    BY <2>1 DEF SettledTotal
  <2>3. starts' = 1 => \A u \in User : userIndex'[u] = 0
    BY <2>1 DEF Behind
  <2> QED BY <2>1, <2>2, <2>3 DEF PaidInv
<1>2. CASE ~InitializeRewardProgramData
  <2>1. UNCHANGED <<index, updated, starts, height, userIndex, vaultRewards, received>>
    BY <1>2 DEF OwnerStep, SetLiquidityRate, SetPrice, SetPrecision, WithdrawAssets,
                programVars, rewardVars
  <2> QED BY <2>1, FrameKeepsPaid
<1> QED BY <1>1, <1>2

LEMMA NextPaid ==
  ASSUME PowersOfTen, TypeOK, Behind, PaidInv, [Next]_vars
  PROVE  PaidInv'
<1>1. WorthBounded'
  BY WorthStaysBounded DEF PaidInv
<1>2. CASE LiquidationStep
  <2>1. UNCHANGED <<index, updated, starts, height, userIndex, vaultRewards, received>>
    BY <1>2 DEF LiquidationStep, LiquidationCall, programVars, rewardVars
  <2> QED BY <1>1, <2>1, FrameKeepsPaid
<1>3. CASE UNCHANGED vars
  <2>1. UNCHANGED <<index, updated, starts, height, userIndex, vaultRewards, received>>
    BY <1>3 DEF vars, programVars, rewardVars
  <2> QED BY <1>1, <2>1, FrameKeepsPaid
<1> QED BY <1>1, <1>2, <1>3, UserStepKeepsPaid, OwnerStepKeepsPaid, BlockKeepsPaid DEF Next

LEMMA InitPaid ==
  ASSUME Init
  PROVE  PaidInv
<1>1. WorthBounded
  BY WorthAssumption DEF Init, WorthBounded, WorthAssumption
<1>2. starts = 0 /\ \A u \in User : userIndex[u] = 0 /\ SettledTotal(u) = 0
  BY DEF Init, SettledTotal
<1> QED BY <1>1, <1>2 DEF PaidInv

LEMMA PaidWithinIndex ==
  ASSUME PowersOfTen, TypeOK, Behind, PaidInv
  PROVE  PaidOnce
<1> SUFFICES ASSUME index # 0, starts = 1, NEW u \in User
             PROVE  Entitlement(u) <= Mul(WorthOfMax, NormalizedIncome) - WorthOfMax
                                        + SettlementRounding(height)
  BY DEF PaidOnce
<1> DEFINE N == NormalizedIncome
           E == Entitlement(u)
           W == WorthOfMax
           m == Mul(W, N)
           z == height * (W + One)
           r == SettlementRounding(height)
<1>1. /\ N \in Nat /\ One <= N /\ E \in Int
      /\ 2 * (E * One) <= 2 * (W * (N - One)) + z
  BY EntitlementBounded
<1>2. W \in Nat /\ height \in Nat /\ z \in Nat
  BY WorthAssumption, OneNat DEF WorthAssumption, TypeOK, ProgramTypeOK
<1>3. m \in Nat /\ 2 * (W * N) <= 2 * (m * One) + One
  BY <1>1, <1>2, MulBounds
<1>4. r = (z + One) \div (2 * One)
  BY DEF SettlementRounding
<1> HIDE DEF N, E, W, m, z, r
<1>5. r \in Nat /\ z + One < r * (2 * One) + 2 * One
  BY <1>2, <1>4, OneNat
<1>6. W * (N - One) = W * N - W * One /\ W * N \in Nat /\ W * One \in Nat /\ m * One \in Nat
      /\ E * One \in Int /\ r * One \in Nat /\ r * (2 * One) = 2 * (r * One)
  BY <1>1, <1>2, <1>3, <1>5, OneNat
<1>7. E * One < m * One - W * One + r * One + One
  BY <1>1, <1>2, <1>3, <1>5, <1>6, OneNat
<1>8. (m - W + r + 1) * One = m * One - W * One + r * One + One
  BY <1>2, <1>3, <1>5, OneNat
<1>9. E < m - W + r + 1
  BY <1>1, <1>2, <1>3, <1>5, <1>7, <1>8, OneNat, Cancel
<1> QED BY <1>1, <1>2, <1>3, <1>5, <1>9 DEF E, m, W, N, r

(* Whatever the users, rates, prices and decimals, and in whatever order   *)
(* deposits, withdrawals, claims and liquidations come, nobody is paid the *)
(* same growth of the index twice.                                         *)
THEOREM NobodyPaidTwice == ASSUME PowersOfTen PROVE Spec => []PaidOnce
<1> DEFINE Inv == TypeOK /\ Behind /\ PaidInv
<1>1. Init => Inv
  BY InitType, InitBehind, InitPaid DEF IndexInv
<1>2. Inv /\ [Next]_vars => Inv'
  BY NextType, NextBehind, NextPaid DEF IndexInv, TypeOK
<1>3. Inv => PaidOnce
  BY PaidWithinIndex
<1> QED BY <1>1, <1>2, <1>3, PTL DEF Spec
=============================================================================
