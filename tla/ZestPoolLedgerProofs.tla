------------------------- MODULE ZestPoolLedgerProofs -------------------------
(***************************************************************************)
(* The lending pool implements the ledger of ZestLedger, for every number  *)
(* of users, assets and blocks, every rate and every amount: a transaction *)
(* changes no balance or debt but those it names, and by exactly what it   *)
(* names.  Two facts carry the proof: a position that a transaction does   *)
(* not touch is worth the same after it, because within a block the        *)
(* indices that value it stand still; and one that it does touch is stored *)
(* with the very index it is read with, and x * 1 is x.  From the ledger   *)
(* follow conservation within a block, what the count of the isolated debt *)
(* is, the cover of the deposits where no interest is due, the bound of a  *)
(* liquidation and that health is one's own.                               *)
(***************************************************************************)
EXTENDS ZestPoolLedger, ZestInterestProofs

Claim == [x \in Account |-> [a \in Asset |-> Balance(x, a)]]

Debt == [u \in User |-> [a \in Asset |-> Compounded(u, a)]]

(* What the proof needs of a state, an invariant of the pool. *)
Indexed == TypeOK /\ DebtLedger /\ IdleRates /\ DebtIndexed /\ DepositsIndexed

(* A step that is not a block. *)
InBlock == Indexed /\ TypeOK' /\ [Next]_vars /\ height' = height

LEMMA IndexedInvariant ==
  ASSUME NoBaseSupply
  PROVE  Spec => []Indexed
BY TypeCorrect, DebtLedgerKept, IdleRatesInvariant, DebtIndexedInvariant,
   DepositsIndexedInvariant, PTL DEF Indexed

(* Balances and debts are naturals. *)
LEMMA PositionsNat ==
  ASSUME TypeOK
  PROVE  /\ Claim \in [Account -> [Asset -> Nat]]
         /\ Debt \in [User -> [Asset -> Nat]]
<1>1. \A x \in Account, a \in Asset : Balance(x, a) \in Nat
  BY BalanceNat, Indices DEF TypeOK
<1>2. \A u \in User, a \in Asset : Compounded(u, a) \in Nat
  BY CompoundedNat DEF TypeOK
<1> QED BY <1>1, <1>2 DEF Claim, Debt

-----------------------------------------------------------------------------
(* Positions that a transaction leaves alone, and those it sets. *)

LEMMA BalanceKept ==
  ASSUME InBlock, NEW x \in Account, NEW a \in Asset,
         zBalance'[x][a] = zBalance[x][a], zIndex'[x][a] = zIndex[x][a]
  PROVE  Balance(x, a)' = Balance(x, a)
<1>1. CASE zBalance[x][a] = 0
  BY <1>1 DEF Balance, BalanceAt
<1>2. CASE zBalance[x][a] # 0
  <2>1. zBalance[x][a] \in Nat /\ zIndex[x][a] \in Nat
    BY DEF InBlock, Indexed, TypeOK, SupplyTypeOK
  <2>2. zIndex[x][a] # 0
    BY <1>2, <2>1 DEF InBlock, Indexed, DepositsIndexed
  <2>3. NormalizedIncome(a)' = NormalizedIncome(a)
    BY IncomeStill DEF InBlock, Indexed, TypeOK
  <2> QED BY <1>2, <2>2, <2>3 DEF Balance, BalanceAt
<1> QED BY <1>1, <1>2

LEMMA BalanceSet ==
  ASSUME InBlock, NEW x \in Account, NEW a \in Asset, NEW q \in Nat,
         zBalance'[x][a] = q, q > 0 => zIndex'[x][a] = NormalizedIncome(a)
  PROVE  Balance(x, a)' = q
<1>1. CASE q = 0
  BY <1>1 DEF Balance, BalanceAt
<1>2. CASE q > 0
  <2>1. NormalizedIncome(a)' = NormalizedIncome(a)
    BY IncomeStill DEF InBlock, Indexed, TypeOK
  <2>2. NormalizedIncome(a) \in Nat \ {0}
    BY Indices, IndicesPositive DEF InBlock, Indexed, TypeOK
  <2>3. Mul(q, Div(NormalizedIncome(a), NormalizedIncome(a))) = q
    BY <2>2, DivFixedSame, MulOne
  <2> QED BY <1>2, <2>1, <2>2, <2>3 DEF Balance, BalanceAt
<1> QED BY <1>1, <1>2

LEMMA ClaimsKept ==
  ASSUME InBlock, UNCHANGED zVars
  PROVE  Claim' = Claim
<1>1. \A x \in Account, a \in Asset : Balance(x, a)' = Balance(x, a)
  BY BalanceKept DEF zVars
<1> QED BY <1>1 DEF Claim

LEMMA OneClaimSet ==
  ASSUME InBlock, NEW x \in Account, NEW a \in Asset, NEW q \in Nat, NEW i,
         zBalance' = [zBalance EXCEPT ![x][a] = q],
         zIndex' = [zIndex EXCEPT ![x][a] = i],
         q > 0 => i = NormalizedIncome(a)
  PROVE  Claim' = [Claim EXCEPT ![x][a] = q]
<1>1. zBalance \in [Account -> [Asset -> Nat]] /\ zIndex \in [Account -> [Asset -> Nat]]
  BY DEF InBlock, Indexed, TypeOK, SupplyTypeOK
<1>2. Balance(x, a)' = q
  <2>1. zBalance'[x][a] = q /\ zIndex'[x][a] = i
    BY <1>1
  <2> QED BY <2>1, BalanceSet
<1>3. ASSUME NEW y \in Account, NEW b \in Asset, ~ (y = x /\ b = a)
      PROVE  Balance(y, b)' = Balance(y, b)
  <2>1. zBalance'[y][b] = zBalance[y][b] /\ zIndex'[y][b] = zIndex[y][b]
    BY <1>1, <1>3
  <2> QED BY <2>1, BalanceKept
<1> QED BY <1>2, <1>3 DEF Claim

LEMMA DueKept ==
  ASSUME InBlock, NEW u \in User, NEW a \in Asset, principal'[u][a] = principal[u][a],
         debtIndex'[u][a] = debtIndex[u][a], debtUpdated'[u][a] = debtUpdated[u][a]
  PROVE  Compounded(u, a)' = Compounded(u, a)
<1>1. CASE principal[u][a] = 0
  BY <1>1 DEF Compounded
<1>2. CASE principal[u][a] # 0
  <2>1. principal[u][a] \in Nat /\ debtIndex[u][a] \in Nat /\ totalBorrows[a] \in Nat
    BY DEF InBlock, Indexed, TypeOK, DebtTypeOK, ReserveTypeOK
  <2>2. debtIndex[u][a] # 0
    BY <1>2, <2>1 DEF InBlock, Indexed, DebtIndexed
  <2>3. totalBorrows[a] > 0
    BY <1>2, <2>1, PrincipalInTotal DEF InBlock, Indexed
  <2>4. NormalizedDebt(a)' = NormalizedDebt(a) /\ height' = height
    BY <2>3, DebtStill DEF InBlock, Indexed, TypeOK
  <2> QED BY <1>2, <2>2, <2>4 DEF Compounded
<1> QED BY <1>1, <1>2

LEMMA DebtsStill ==
  ASSUME InBlock, UNCHANGED debtVars
  PROVE  Debt' = Debt
<1>1. \A u \in User, a \in Asset : Compounded(u, a)' = Compounded(u, a)
  BY DueKept DEF debtVars
<1> QED BY <1>1 DEF Debt

LEMMA OneDebtSet ==
  ASSUME InBlock, NEW u \in User, NEW a \in Asset, NEW q \in Nat, SetsDebt(u, a, q)
  PROVE  Debt' = [Debt EXCEPT ![u][a] = q]
<1>1. /\ principal \in [User -> [Asset -> Nat]] /\ debtIndex \in [User -> [Asset -> Nat]]
      /\ debtUpdated \in [User -> [Asset -> Nat]]
  BY DEF InBlock, Indexed, TypeOK, DebtTypeOK
<1>2. Compounded(u, a)' = q
  <2>1. principal'[u][a] = q /\ debtUpdated'[u][a] = height
    BY <1>1 DEF SetsDebt
  <2>2. q > 0 => debtIndex'[u][a] = NextBorIndex(a)
    BY <1>1 DEF SetsDebt
  <2>3. NormalizedDebt(a)' = NextBorIndex(a) /\ height' = height
    BY UpdatedIndices DEF SetsDebt, InBlock, Indexed, TypeOK
  <2>4. NextBorIndex(a) \in Nat \ {0}
    BY Indices, IndicesPositive DEF InBlock, Indexed, TypeOK
  <2>5. Mul(q, Div(NextBorIndex(a), NextBorIndex(a))) = q
    BY <2>4, DivFixedSame, MulOne
  <2> QED BY <2>1, <2>2, <2>3, <2>4, <2>5 DEF Compounded
<1>3. ASSUME NEW v \in User, NEW b \in Asset, ~ (v = u /\ b = a)
      PROVE  Compounded(v, b)' = Compounded(v, b)
  <2>1. /\ principal'[v][b] = principal[v][b] /\ debtIndex'[v][b] = debtIndex[v][b]
        /\ debtUpdated'[v][b] = debtUpdated[v][b]
    BY <1>1, <1>3 DEF SetsDebt
  <2> QED BY <2>1, DueKept
<1> QED BY <1>2, <1>3 DEF Debt

-----------------------------------------------------------------------------
(* The transactions, one by one. *)

LEMMA SupplyPaysIn ==
  ASSUME InBlock, NEW u \in User, NEW a \in Asset, NEW n \in Amount, Supply(u, a, n)
  PROVE  Ledger!PayIn(u, a)
<1>1. /\ n > 0 /\ height' = height
      /\ zBalance' = [zBalance EXCEPT ![u][a] = Balance(u, a) + n]
      /\ zIndex' = [zIndex EXCEPT ![u][a] = NormalizedIncome(a)]
      /\ vault' = [vault EXCEPT ![a] = @ + n]
      /\ wallet' = [wallet EXCEPT ![u][a] = @ - n]
      /\ UNCHANGED debtVars
  BY DEF Supply, envVars
<1>2. vault \in [Asset -> Nat] /\ n \in Nat
  BY AmountNat DEF InBlock, Indexed, TypeOK, TokenTypeOK
<1>3. u \in Account /\ Balance(u, a) \in Nat
  BY BalanceNat, Indices DEF Account, InBlock, Indexed, TypeOK
<1>4. Claim' = [Claim EXCEPT ![u][a] = Balance(u, a) + n]
  <2> DEFINE q == Balance(u, a) + n
             i == NormalizedIncome(a)
  <2>1. /\ q \in Nat /\ zBalance' = [zBalance EXCEPT ![u][a] = q]
        /\ zIndex' = [zIndex EXCEPT ![u][a] = i] /\ i = NormalizedIncome(a)
    BY <1>1, <1>2, <1>3
  <2> HIDE DEF q, i
  <2>2. Claim' = [Claim EXCEPT ![u][a] = q]
    BY <1>3, <2>1, OneClaimSet
  <2> QED BY <2>2 DEF q
<1>5. Claim' = [Claim EXCEPT ![u][a] = @ + n]
  BY <1>3, <1>4 DEF Claim
<1>6. Debt' = Debt
  BY <1>1, DebtsStill
<1>7. vault'[a] - vault[a] = n
  BY <1>1, <1>2
<1> QED BY <1>1, <1>5, <1>6, <1>7 DEF Ledger!PayIn, Ledger!Received, Claim, Debt

LEMMA WithdrawRedeems ==
  ASSUME InBlock, NEW u \in User, NEW a \in Asset, NEW n \in Amount, Withdraw(u, a, n)
  PROVE  Ledger!Redeem(u, a)
<1> DEFINE have == Balance(u, a)
           out  == IF n = MaxValue THEN have ELSE n
           i    == IF out = have THEN 0 ELSE NormalizedIncome(a)
<1>1. /\ out > 0 /\ out <= have /\ height' = height
      /\ zBalance' = [zBalance EXCEPT ![u][a] = have - out]
      /\ zIndex' = [zIndex EXCEPT ![u][a] = i]
      /\ vault' = [vault EXCEPT ![a] = @ - out]
      /\ wallet' = [wallet EXCEPT ![u][a] = @ + out]
      /\ UNCHANGED debtVars
  BY DEF Withdraw, envVars
<1>2. /\ vault \in [Asset -> Nat] /\ u \in Account
      /\ have \in Nat /\ Claim[u][a] = have
  BY BalanceNat, Indices DEF Account, Claim, InBlock, Indexed, TypeOK, TokenTypeOK
<1>3. out \in Nat
  BY <1>2, AmountNat
<1> HIDE DEF have, out
<1>4. have - out \in Nat /\ (have - out > 0 => i = NormalizedIncome(a))
  BY <1>1, <1>2, <1>3
<1> HIDE DEF i
<1>5. Claim' = [Claim EXCEPT ![u][a] = have - out]
  <2> DEFINE q == have - out
  <2>1. /\ q \in Nat /\ zBalance' = [zBalance EXCEPT ![u][a] = q]
        /\ zIndex' = [zIndex EXCEPT ![u][a] = i] /\ (q > 0 => i = NormalizedIncome(a))
    BY <1>1, <1>4
  <2> HIDE DEF q
  <2>2. Claim' = [Claim EXCEPT ![u][a] = q]
    BY <1>2, <2>1, OneClaimSet
  <2> QED BY <2>2 DEF q
<1>6. Claim' = [Claim EXCEPT ![u][a] = @ - out]
  BY <1>2, <1>5 DEF Claim
<1>7. Debt' = Debt
  BY <1>1, DebtsStill
<1>8. vault[a] - vault'[a] = out
  BY <1>1, <1>2, <1>3
<1> QED BY <1>1, <1>2, <1>6, <1>7, <1>8 DEF Ledger!Redeem, Ledger!Paid, Claim, Debt

LEMMA BorrowLends ==
  ASSUME InBlock, NEW u \in User, NEW a \in Asset, NEW n \in Amount, Borrow(u, a, n)
  PROVE  Ledger!Lend(u, a)
<1>1. /\ n > 0 /\ height' = height
      /\ vault' = [vault EXCEPT ![a] = @ - n]
      /\ wallet' = [wallet EXCEPT ![u][a] = @ + n]
      /\ UNCHANGED zVars
  BY DEF Borrow, supplyVars, envVars
<1>2. vault \in [Asset -> Nat] /\ n \in Nat
  BY AmountNat DEF InBlock, Indexed, TypeOK, TokenTypeOK
<1>3. Compounded(u, a) \in Nat
  BY CompoundedNat DEF InBlock, Indexed, TypeOK
<1>4. SetsDebt(u, a, Compounded(u, a) + n)
  BY BorrowSets DEF InBlock, Indexed
<1>5. Debt' = [Debt EXCEPT ![u][a] = Compounded(u, a) + n]
  BY <1>2, <1>3, <1>4, OneDebtSet
<1>6. Debt' = [Debt EXCEPT ![u][a] = @ + n]
  BY <1>5 DEF Debt
<1>7. Claim' = Claim
  BY <1>1, ClaimsKept
<1>8. vault[a] - vault'[a] = n
  BY <1>1, <1>2
<1> QED BY <1>1, <1>6, <1>7, <1>8 DEF Ledger!Lend, Ledger!Paid, Claim, Debt

LEMMA RepayPaysBack ==
  ASSUME InBlock, NEW p \in User, NEW u \in User, NEW a \in Asset, NEW n \in Amount,
         Repay(p, u, a, n)
  PROVE  Ledger!PayBack(p, u, a)
<1>1. PICK paid \in Nat :
        /\ paid > 0 /\ paid <= Compounded(u, a)
        /\ SetsDebt(u, a, Compounded(u, a) - paid)
        /\ vault' = [vault EXCEPT ![a] = @ + paid]
        /\ wallet' = [wallet EXCEPT ![p][a] = @ - paid]
  BY RepaySets DEF InBlock, Indexed
<1>2. UNCHANGED zVars /\ height' = height
  BY DEF Repay, supplyVars, envVars
<1>3. vault \in [Asset -> Nat] /\ Compounded(u, a) \in Nat /\ Debt[u][a] = Compounded(u, a)
  BY CompoundedNat DEF Debt, InBlock, Indexed, TypeOK, TokenTypeOK
<1>4. Debt' = [Debt EXCEPT ![u][a] = Compounded(u, a) - paid]
  <2>1. Compounded(u, a) - paid \in Nat
    BY <1>1, <1>3
  <2> QED BY <1>1, <2>1, OneDebtSet
<1>5. Debt' = [Debt EXCEPT ![u][a] = @ - paid]
  BY <1>4 DEF Debt
<1>6. Claim' = Claim
  BY <1>2, ClaimsKept
<1>7. vault'[a] - vault[a] = paid
  BY <1>1, <1>3
<1> QED BY <1>1, <1>2, <1>3, <1>5, <1>6, <1>7
        DEF Ledger!PayBack, Ledger!Received, Claim, Debt

LEMMA MintCredits ==
  ASSUME InBlock, NEW a \in Asset, MintToTreasury(a)
  PROVE  Ledger!Credit(a)
<1> DEFINE minted == Mul(accrued[a], NormalizedIncome(a))
           have   == Balance(Treasury, a)
<1>1. /\ minted > 0 /\ height' = height
      /\ zBalance' = [zBalance EXCEPT ![Treasury][a] = have + minted]
      /\ zIndex' = [zIndex EXCEPT ![Treasury][a] = NormalizedIncome(a)]
      /\ UNCHANGED <<debtVars, tokenVars>>
  BY DEF MintToTreasury, envVars
<1>2. Treasury \in Account /\ have \in Nat /\ minted \in Nat
  BY BalanceNat, Indices, MulNat DEF Account, InBlock, Indexed, TypeOK, ReserveTypeOK
<1>3. Claim[Treasury][a] = have
  BY <1>2 DEF Claim
<1> HIDE DEF minted, have
<1>4. Claim' = [Claim EXCEPT ![Treasury][a] = have + minted]
  <2> DEFINE q == have + minted
             i == NormalizedIncome(a)
  <2>1. /\ q \in Nat /\ zBalance' = [zBalance EXCEPT ![Treasury][a] = q]
        /\ zIndex' = [zIndex EXCEPT ![Treasury][a] = i] /\ i = NormalizedIncome(a)
    BY <1>1, <1>2
  <2> HIDE DEF q, i
  <2>2. Claim' = [Claim EXCEPT ![Treasury][a] = q]
    BY <1>2, <2>1, OneClaimSet
  <2> QED BY <2>2 DEF q
<1>5. Claim'[Treasury][a] = have + minted
  BY <1>2, <1>4 DEF Claim
<1>6. Claim' = [Claim EXCEPT ![Treasury][a] = Claim'[Treasury][a]]
  BY <1>4, <1>5
<1>7. Claim'[Treasury][a] > Claim[Treasury][a]
  BY <1>1, <1>2, <1>3, <1>5
<1>8. Debt' = Debt
  BY <1>1, DebtsStill
<1> QED BY <1>1, <1>6, <1>7, <1>8 DEF Ledger!Credit, Claim, Debt, tokenVars

(* Giving n of asset b to y changes that entry and no other. *)
LEMMA GiveAt ==
  ASSUME NEW f \in [Account -> [Asset -> Int]],
         NEW y \in Account, NEW b \in Asset, NEW n \in Int,
         NEW g, g = [f EXCEPT ![y][b] = @ + n]
  PROVE  /\ g \in [Account -> [Asset -> Int]]
         /\ \A x \in Account, a \in Asset :
              g[x][a] = f[x][a] + (IF x = y /\ a = b THEN n ELSE 0)
<1>1. ASSUME NEW x \in Account, NEW a \in Asset
      PROVE  g[x][a] = f[x][a] + (IF x = y /\ a = b THEN n ELSE 0)
  <2>1. CASE x = y /\ a = b
    BY <2>1
  <2>2. CASE ~ (x = y /\ a = b)
    BY <2>2
  <2> QED BY <2>1, <2>2
<1> QED BY <1>1

(* What a liquidation does to the z-tokens: u loses the fee and what the   *)
(* liquidator gains, unless the liquidator is u and keeps the z-tokens; l  *)
(* gains it as z-tokens, or in tokens.                                     *)
LEMMA SeizedClaims ==
  ASSUME InBlock, NEW l \in User, NEW u \in User, NEW c \in Asset, NEW asZToken \in BOOLEAN,
         NEW gain \in Nat, NEW fee \in Nat,
         SeizedBalances(l, u, c, gain, fee, NormalizedIncome(c), asZToken)
  PROVE  LET taken == IF asZToken /\ l = u THEN 0 ELSE gain
         IN Claim' = Ledger!Give(Ledger!Give(Claim, u, c, - (fee + taken)),
                                 l, c, IF asZToken THEN taken ELSE 0)
<1> DEFINE income == NormalizedIncome(c)
           have   == Balance(u, c)
           mine   == Balance(l, c)
           taken  == IF asZToken /\ l = u THEN 0 ELSE gain
           kept   == have - fee - taken
           got    == asZToken /\ l # u
           more   == IF asZToken THEN taken ELSE 0
<1>1. /\ kept >= 0
      /\ zBalance' = [y \in Account |->
           IF y = u THEN [zBalance[u] EXCEPT ![c] = kept]
           ELSE IF y = l /\ got THEN [zBalance[l] EXCEPT ![c] = mine + gain]
           ELSE zBalance[y]]
      /\ zIndex' = [y \in Account |->
           IF y = u THEN [zIndex[u] EXCEPT ![c] = IF kept = 0 THEN 0 ELSE income]
           ELSE IF y = l /\ got THEN [zIndex[l] EXCEPT ![c] = income]
           ELSE zIndex[y]]
  BY DEF SeizedBalances, Kept, Balance
<1>2. zBalance \in [Account -> [Asset -> Nat]] /\ zIndex \in [Account -> [Asset -> Nat]]
  BY DEF InBlock, Indexed, TypeOK, SupplyTypeOK
<1>3. u \in Account /\ l \in Account /\ have \in Nat /\ mine \in Nat
  BY BalanceNat, Indices DEF Account, InBlock, Indexed, TypeOK
<1>4. taken \in Nat /\ (got => taken = gain) /\ (l = u => have = mine)
  OBVIOUS
<1>5. (got => more = taken) /\ (~ got => more = 0)
  OBVIOUS
<1> HIDE DEF have, mine, taken, more
<1>6. kept \in Nat /\ have - (fee + taken) = kept
  BY <1>1, <1>3, <1>4
<1> HIDE DEF kept
<1>7. Balance(u, c)' = kept
  <2>1. zBalance'[u][c] = kept /\ (kept > 0 => zIndex'[u][c] = income)
    BY <1>1, <1>2, <1>3, <1>6
  <2> QED BY <1>3, <1>6, <2>1, BalanceSet
<1>8. ASSUME got PROVE Balance(l, c)' = mine + taken
  <2> DEFINE q == mine + gain
  <2>1. zBalance'[l][c] = q /\ zIndex'[l][c] = income /\ q \in Nat /\ q = mine + taken
    BY <1>1, <1>2, <1>3, <1>4, <1>8
  <2> HIDE DEF q
  <2> QED BY <1>3, <2>1, BalanceSet
<1>9. ASSUME NEW y \in Account, NEW b \in Asset, ~ (b = c /\ (y = u \/ (y = l /\ got)))
      PROVE  Balance(y, b)' = Balance(y, b)
  <2>1. zBalance'[y][b] = zBalance[y][b] /\ zIndex'[y][b] = zIndex[y][b]
    <3>1. CASE y = u
      <4>1. /\ zBalance'[y] = [zBalance[y] EXCEPT ![c] = kept]
            /\ zIndex'[y] = [zIndex[y] EXCEPT ![c] = IF kept = 0 THEN 0 ELSE income]
        BY <1>1, <3>1
      <4>2. b # c
        BY <1>9, <3>1
      <4> QED BY <1>2, <4>1, <4>2
    <3>2. CASE y # u /\ y = l /\ got
      BY <1>1, <1>2, <1>3, <1>9, <3>2
    <3>3. CASE y # u /\ ~ (y = l /\ got)
      BY <1>1, <3>3
    <3> QED BY <3>1, <3>2, <3>3
  <2> QED BY <2>1, BalanceKept
<1>10. /\ Claim \in [Account -> [Asset -> Int]]
       /\ \A y \in Account, b \in Asset : Claim[y][b] = Balance(y, b)
  BY PositionsNat DEF Claim, InBlock, Indexed
<1> DEFINE loss  == - (fee + taken)
           less  == Ledger!Give(Claim, u, c, loss)
           after == Ledger!Give(less, l, c, more)
<1>11. /\ after \in [Account -> [Asset -> Int]]
       /\ \A y \in Account, b \in Asset :
            after[y][b] = Balance(y, b) + (IF y = u /\ b = c THEN loss ELSE 0)
                            + (IF y = l /\ b = c THEN more ELSE 0)
  <2>1. loss \in Int /\ more \in Int
    BY <1>4, <1>5
  <2> HIDE DEF loss
  <2>2. /\ less \in [Account -> [Asset -> Int]]
        /\ \A y \in Account, b \in Asset :
             less[y][b] = Claim[y][b] + (IF y = u /\ b = c THEN loss ELSE 0)
    <3>1. less = [Claim EXCEPT ![u][c] = @ + loss]
      BY DEF Ledger!Give
    <3> HIDE DEF less
    <3> QED BY <1>3, <1>10, <2>1, <3>1, GiveAt
  <2> HIDE DEF less
  <2>3. /\ after \in [Account -> [Asset -> Int]]
        /\ \A y \in Account, b \in Asset :
             after[y][b] = less[y][b] + (IF y = l /\ b = c THEN more ELSE 0)
    <3>1. after = [less EXCEPT ![l][c] = @ + more]
      BY DEF Ledger!Give
    <3> HIDE DEF after
    <3> QED BY <1>3, <2>1, <2>2, <3>1, GiveAt
  <2> QED BY <1>10, <2>2, <2>3
<1> HIDE DEF after
<1>12. ASSUME NEW y \in Account, NEW b \in Asset
       PROVE  after[y][b] = Balance(y, b)'
  <2>1. Balance(y, b) \in Int
    BY <1>10
  <2>2. CASE b = c /\ y = u
    <3>1. y = l => more = 0
      BY <1>5, <2>2
    <3>2. after[y][b] = have - (fee + taken)
      BY <1>3, <1>4, <1>11, <2>2, <3>1 DEF have
    <3> QED BY <1>6, <1>7, <2>2, <3>2
  <2>3. CASE b = c /\ y # u /\ y = l
    <3>1. after[y][b] = mine + more
      BY <1>3, <1>11, <2>3 DEF mine
    <3>2. CASE got
      BY <1>5, <1>8, <2>3, <3>1, <3>2
    <3>3. CASE ~ got
      BY <1>3, <1>5, <1>9, <2>3, <3>1, <3>3 DEF mine
    <3> QED BY <3>2, <3>3
  <2>4. CASE b # c \/ (y # u /\ y # l)
    <3>1. after[y][b] = Balance(y, b)
      BY <1>11, <2>1, <2>4
    <3> QED BY <1>9, <2>4, <3>1
  <2> QED BY <2>2, <2>3, <2>4
<1>13. Claim' = [y \in Account |-> [b \in Asset |-> Balance(y, b)']]
  BY DEF Claim
<1>14. Claim' = after
  BY <1>11, <1>12, <1>13
<1> QED BY <1>14 DEF after, taken, more

(* The amounts of a liquidation that tries n: what is bought, the fee of    *)
(* the protocol, and what the liquidator takes from the claims of the user. *)
Bought(u, c, d, n) ==
  LET most == Mul(Compounded(u, d), Param[d].closeFactor)
  IN Seizure(u, c, d, IF n > most THEN most ELSE n)

Fee(u, c, d, n) == (Param[c].originationFee * Bought(u, c, d, n).bonus) \div BasisPoints

Taken(l, u, c, d, n, asZToken) ==
  IF asZToken /\ l = u THEN 0 ELSE Bought(u, c, d, n).collateral - Fee(u, c, d, n)

(* What a liquidation does to the balances and the debts. *)
LEMMA LiquidationMoves ==
  ASSUME InBlock, NEW l \in User, NEW u \in User, NEW c \in Asset, NEW d \in Asset,
         NEW n \in Amount, NEW asZToken \in BOOLEAN, Liquidate(l, u, c, d, n, asZToken)
  PROVE  LET deal  == Bought(u, c, d, n)
             fee   == Fee(u, c, d, n)
             taken == Taken(l, u, c, d, n, asZToken)
         IN /\ deal.collateral \in Nat /\ deal.debt \in Nat \ {0}
            /\ fee \in Nat /\ fee <= deal.collateral
            /\ Claim' = Ledger!Give(Ledger!Give(Claim, u, c, - (fee + taken)),
                                    l, c, IF asZToken THEN taken ELSE 0)
            /\ Debt' = [Debt EXCEPT ![u][d] = @ - deal.debt]
            /\ Claim[u][c] - Claim'[u][c] = fee + taken
            /\ Debt[u][d] - Debt'[u][d] = deal.debt
<1> DEFINE due    == Compounded(u, d)
           most   == Mul(due, Param[d].closeFactor)
           tried  == IF n > most THEN most ELSE n
           seize  == Seizure(u, c, d, tried)
           paid   == seize.debt
           fee    == (Param[c].originationFee * seize.bonus) \div BasisPoints
           gain   == seize.collateral - fee
           income == IF asZToken /\ c # d THEN NormalizedIncome(c) ELSE NextLiqIndex(c)
           taken  == IF asZToken /\ l = u THEN 0 ELSE gain
<1>0. /\ Bought(u, c, d, n) = seize /\ Fee(u, c, d, n) = fee
      /\ Taken(l, u, c, d, n, asZToken) = taken
  BY DEF Bought, Fee, Taken
<1>1. /\ fee <= seize.collateral /\ paid > 0
      /\ principal' = [principal EXCEPT ![u][d] = due - paid]
      /\ SeizedBalances(l, u, c, gain, fee, income, asZToken)
  BY DEF Liquidate
<1>2. income = NormalizedIncome(c)
  BY IncomeRemembered DEF InBlock, Indexed
<1>3. due \in Nat /\ tried \in Nat
  <2>1. due \in Nat
    BY CompoundedNat DEF InBlock, Indexed, TypeOK
  <2>2. most \in Nat
    BY <2>1, ParamFacts, MulNat
  <2> QED BY <2>1, <2>2, AmountNat
<1> HIDE DEF tried, income
<1>4. seize.collateral \in Nat /\ paid \in Nat /\ seize.bonus \in Nat
  BY <1>3, SeizureNat DEF InBlock, Indexed, TypeOK
<1> HIDE DEF seize
<1>5. fee \in Nat
  <2>1. Param[c].originationFee * seize.bonus \in Nat
    BY <1>4, ParamFacts
  <2> QED BY <2>1, DivNat DEF BasisPoints
<1> HIDE DEF fee
<1>6. gain \in Nat
  BY <1>1, <1>4, <1>5
<1> HIDE DEF gain, paid, due
<1>7. taken \in Nat
  BY <1>6
<1>8. Claim' = Ledger!Give(Ledger!Give(Claim, u, c, - (fee + taken)),
                           l, c, IF asZToken THEN taken ELSE 0)
  BY <1>1, <1>2, <1>5, <1>6, SeizedClaims
<1> HIDE DEF taken
<1>9. Debt' = [Debt EXCEPT ![u][d] = due - paid]
  <2>1. PICK p \in Nat : p <= due /\ SetsDebt(u, d, due - p)
    BY LiquidateSets DEF InBlock, Indexed, due
  <2>2. due - p \in Nat /\ principal' = [principal EXCEPT ![u][d] = due - p]
    BY <1>3, <2>1 DEF SetsDebt
  <2>3. due - p = due - paid
    <3>1. principal'[u][d] = due - p /\ principal'[u][d] = due - paid
      BY <1>1, <2>2 DEF InBlock, Indexed, TypeOK, DebtTypeOK
    <3> QED BY <3>1
  <2> QED BY <2>1, <2>2, <2>3, OneDebtSet
(* What the ledger reads off the step are the amounts of the liquidation.  *)
<1>10. Debt[u][d] - Debt'[u][d] = paid
  <2>1. Debt[u][d] = due
    BY DEF Debt, due
  <2>2. Debt'[u][d] = due - paid
    BY <1>9 DEF Debt
  <2> QED BY <1>3, <1>4, <2>1, <2>2
<1>11. Claim[u][c] - Claim'[u][c] = fee + taken
  <2> DEFINE loss == - (fee + taken)
             more == IF asZToken THEN taken ELSE 0
             less == [Claim EXCEPT ![u][c] = @ + loss]
  <2>1. loss \in Int /\ more \in Int /\ (l = u => more = 0)
    BY <1>5, <1>7 DEF taken
  <2>2. Claim \in [Account -> [Asset -> Int]] /\ u \in Account /\ l \in Account
    BY PositionsNat DEF InBlock, Indexed, Account
  <2>3. Claim' = [less EXCEPT ![l][c] = @ + more]
    BY <1>8 DEF Ledger!Give
  <2> HIDE DEF more
  <2>4. less \in [Account -> [Asset -> Int]] /\ less[u][c] = Claim[u][c] + loss
    <3> HIDE DEF loss
    <3> QED BY <2>1, <2>2
  <2> HIDE DEF less
  <2>5. Claim'[u][c] = less[u][c]
    <3>1. Claim'[u][c] = less[u][c] + (IF u = l /\ c = c THEN more ELSE 0)
      BY <2>1, <2>2, <2>3, <2>4, GiveAt
    <3>2. less[u][c] \in Int
      BY <2>2, <2>4
    <3> QED BY <2>1, <3>1, <3>2
  <2>6. Claim[u][c] \in Int
    BY <2>2
  <2> QED BY <1>5, <1>7, <2>4, <2>5, <2>6
<1>12. Debt' = [Debt EXCEPT ![u][d] = @ - paid]
  BY <1>9 DEF Debt, due
<1>13. paid # 0
  BY <1>1
<1> QED BY <1>0, <1>1, <1>4, <1>5, <1>8, <1>10, <1>11, <1>12, <1>13 DEF paid

LEMMA LiquidateSeizes ==
  ASSUME InBlock, NEW l \in User, NEW u \in User, NEW c \in Asset, NEW d \in Asset,
         NEW n \in Amount, NEW asZToken \in BOOLEAN, Liquidate(l, u, c, d, n, asZToken)
  PROVE  Ledger!Seize(l, u, c, d, asZToken)
<1> DEFINE paid  == Bought(u, c, d, n).debt
           fee   == Fee(u, c, d, n)
           gain  == Bought(u, c, d, n).collateral - fee
           cash  == IF asZToken THEN 0 ELSE gain
           taken == Taken(l, u, c, d, n, asZToken)
<1>1. /\ vault' = [x \in Asset |->
           vault[x] + (IF x = d THEN paid ELSE 0) - (IF x = c THEN cash + fee ELSE 0)]
      /\ wallet' = [x \in Account |-> [a \in Asset |->
           wallet[x][a] + (IF x = l /\ a = c THEN cash ELSE 0)
                        - (IF x = l /\ a = d THEN paid ELSE 0)
                        + (IF x = Treasury /\ a = c THEN fee ELSE 0)]]
      /\ height' = height
  BY DEF Liquidate, envVars, Bought, Fee
<1>4. paid \in Nat /\ paid > 0
  BY LiquidationMoves
<1>5. fee \in Nat
  BY LiquidationMoves
<1>7. /\ taken \in Nat /\ (asZToken => cash = 0) /\ (~ asZToken => cash = taken)
      /\ cash \in Nat
  <2>1. gain \in Nat
    BY LiquidationMoves
  <2> HIDE DEF fee
  <2>2. taken = IF asZToken /\ l = u THEN 0 ELSE gain
    BY DEF Taken, fee
  <2> QED BY <2>1, <2>2
<1>8. Claim' = Ledger!Give(Ledger!Give(Claim, u, c, - (fee + taken)),
                           l, c, IF asZToken THEN taken ELSE 0)
  BY LiquidationMoves
<1>9. Debt' = [Debt EXCEPT ![u][d] = @ - paid]
  BY LiquidationMoves
<1>10. Debt[u][d] - Debt'[u][d] = paid
  BY LiquidationMoves
<1>11. Claim[u][c] - Claim'[u][c] = fee + taken
  BY LiquidationMoves
<1> HIDE DEF paid, fee, gain, cash, taken
<1>12. wallet \in [Account -> [Asset -> Nat]] /\ vault \in [Asset -> Nat]
  BY DEF InBlock, Indexed, TypeOK, TokenTypeOK
<1>13. Treasury \in Account /\ l \in Account /\ Treasury # l
  BY PoolAssumption DEF PoolAssumption, Account
<1>14. wallet'[Treasury][c] - wallet[Treasury][c] = fee
  BY <1>1, <1>5, <1>12, <1>13
<1>15. (IF asZToken THEN 0 ELSE taken) = cash
  BY <1>7
<1>16. wallet' = Ledger!Give(Ledger!Give(Ledger!Give(wallet, l, d, - paid), l, c, cash),
                             Treasury, c, fee)
  <2> DEFINE debit == - paid
             w1    == [wallet EXCEPT ![l][d] = @ + debit]
             w2    == [w1 EXCEPT ![l][c] = @ + cash]
             w3    == [w2 EXCEPT ![Treasury][c] = @ + fee]
  <2>1. debit \in Int /\ cash \in Int /\ fee \in Int
    BY <1>4, <1>5, <1>7
  <2>2. wallet \in [Account -> [Asset -> Int]]
    BY <1>12
  <2>3. /\ w1 \in [Account -> [Asset -> Int]]
        /\ \A x \in Account, a \in Asset :
             w1[x][a] = wallet[x][a] + (IF x = l /\ a = d THEN debit ELSE 0)
    <3> HIDE DEF debit
    <3>1. w1 = [wallet EXCEPT ![l][d] = @ + debit]
      OBVIOUS
    <3> HIDE DEF w1
    <3> QED BY <1>13, <2>1, <2>2, <3>1, GiveAt
  <2> HIDE DEF w1
  <2>4. /\ w2 \in [Account -> [Asset -> Int]]
        /\ \A x \in Account, a \in Asset :
             w2[x][a] = w1[x][a] + (IF x = l /\ a = c THEN cash ELSE 0)
    <3>1. w2 = [w1 EXCEPT ![l][c] = @ + cash]
      OBVIOUS
    <3> HIDE DEF w2
    <3> QED BY <1>13, <2>1, <2>3, <3>1, GiveAt
  <2> HIDE DEF w2
  <2>5. /\ w3 \in [Account -> [Asset -> Int]]
        /\ \A x \in Account, a \in Asset :
             w3[x][a] = w2[x][a] + (IF x = Treasury /\ a = c THEN fee ELSE 0)
    <3>1. w3 = [w2 EXCEPT ![Treasury][c] = @ + fee]
      OBVIOUS
    <3> HIDE DEF w3
    <3> QED BY <1>13, <2>1, <2>4, <3>1, GiveAt
  <2> HIDE DEF w3
  <2>6. ASSUME NEW x \in Account, NEW a \in Asset
        PROVE  w3[x][a] = wallet[x][a] + (IF x = l /\ a = c THEN cash ELSE 0)
                            - (IF x = l /\ a = d THEN paid ELSE 0)
                            + (IF x = Treasury /\ a = c THEN fee ELSE 0)
    <3> DEFINE p1 == IF x = l /\ a = c THEN cash ELSE 0
               p2 == IF x = l /\ a = d THEN paid ELSE 0
               p3 == IF x = Treasury /\ a = c THEN fee ELSE 0
    <3>1. p1 \in Int /\ p2 \in Int /\ p3 \in Int /\ wallet[x][a] \in Int
      BY <1>4, <2>1, <2>2
    <3>2. w1[x][a] = wallet[x][a] - p2
      BY <1>4, <2>2, <2>3
    <3>3. w2[x][a] = w1[x][a] + p1 /\ w3[x][a] = w2[x][a] + p3
      BY <2>4, <2>5
    <3> HIDE DEF p1, p2, p3
    <3>4. w3[x][a] = wallet[x][a] + p1 - p2 + p3
      BY <3>1, <3>2, <3>3
    <3> QED BY <3>4 DEF p1, p2, p3
  <2>7. wallet' = w3
    BY <1>1, <2>5, <2>6
  <2> QED BY <2>7 DEF Ledger!Give, w1, w2, w3
<1> DEFINE seized == Claim[u][c] - Claim'[u][c]
           taxed  == wallet'[Treasury][c] - wallet[Treasury][c]
           out    == IF asZToken THEN 0 ELSE seized - taxed
           pays   == Debt[u][d] - Debt'[u][d]
<1>18. seized = fee + taken /\ taxed = fee /\ seized - taxed = taken /\ out = cash /\ pays = paid
  <2>1. seized = fee + taken /\ taxed = fee /\ pays = paid
    BY <1>10, <1>11, <1>14
  <2> HIDE DEF seized, taxed, pays
  <2>2. seized - taxed = taken
    BY <1>5, <1>7, <2>1
  <2>3. out = cash
    BY <1>7, <2>2
  <2> QED BY <2>1, <2>2, <2>3
<1>19. pays > 0 /\ taxed >= 0 /\ seized - taxed >= 0
  BY <1>4, <1>5, <1>7, <1>18
<1>20. Debt' = [Debt EXCEPT ![u][d] = @ - pays]
  BY <1>9, <1>18
<1>21. Claim' = Ledger!Give(Ledger!Give(Claim, u, c, - seized),
                            l, c, IF asZToken THEN seized - taxed ELSE 0)
  BY <1>8, <1>18
<1>22. wallet' = Ledger!Give(Ledger!Give(Ledger!Give(wallet, l, d, - pays), l, c, out),
                             Treasury, c, taxed)
  BY <1>16, <1>18
<1>23. vault' = [x \in Asset |->
         vault[x] + (IF x = d THEN pays ELSE 0) - (IF x = c THEN out + taxed ELSE 0)]
  BY <1>1, <1>18
<1> QED BY <1>1, <1>19, <1>20, <1>21, <1>22, <1>23 DEF Ledger!Seize, Claim, Debt

-----------------------------------------------------------------------------
(* A block adds interest to both sides, and takes nothing from either. *)

LEMMA BlockAddsToClaims ==
  ASSUME Indexed, NextBlock, NEW x \in Account, NEW a \in Asset
  PROVE  Balance(x, a)' >= Balance(x, a)
<1>1. /\ zBalance'[x][a] = zBalance[x][a] /\ zIndex'[x][a] = zIndex[x][a]
      /\ zBalance[x][a] \in Nat /\ zIndex[x][a] \in Nat
  BY BlockLater DEF Indexed, zVars, TypeOK, SupplyTypeOK
<1>2. CASE zBalance[x][a] = 0
  BY <1>1, <1>2 DEF Balance, BalanceAt
<1>3. CASE zBalance[x][a] # 0
  <2>1. zIndex[x][a] \in Nat \ {0}
    BY <1>1, <1>3 DEF Indexed, DepositsIndexed
  <2>2. /\ NormalizedIncome(a) \in Nat /\ NormalizedIncome(a)' \in Nat
        /\ NormalizedIncome(a) <= NormalizedIncome(a)'
    <3>1. ReservesKept /\ height' \in 0 .. MaxHeight /\ height' >= height
      BY BlockLater DEF Indexed, TypeOK, EnvTypeOK
    <3>2. NormalizedIncome(a) \in Nat
      BY Indices DEF Indexed, TypeOK
    <3> QED BY <3>1, <3>2, LaterIndices DEF Indexed
  <2> DEFINE before == Div(NormalizedIncome(a), zIndex[x][a])
             after  == Div(NormalizedIncome(a)', zIndex[x][a])
  <2>3. before \in Nat /\ after \in Nat /\ before <= after
    BY <2>1, <2>2, DivFixedNat, DivFixedMonotone
  <2>4. /\ Balance(x, a) = Mul(zBalance[x][a], before)
        /\ Balance(x, a)' = Mul(zBalance[x][a], after)
    BY <1>1, <1>3, <2>1 DEF Balance, BalanceAt
  <2> HIDE DEF before, after
  <2>5. /\ Mul(zBalance[x][a], before) <= Mul(zBalance[x][a], after)
        /\ Mul(zBalance[x][a], before) \in Nat /\ Mul(zBalance[x][a], after) \in Nat
    BY <1>1, <2>3, MulNat, MulMonotone
  <2> QED BY <2>4, <2>5
<1> QED BY <1>2, <1>3

(* The unit that is due as soon as a block has passed stays due: a debt    *)
(* was last brought up to date no later than now.                          *)
LEMMA BlockAddsToDebts ==
  ASSUME Indexed, NextBlock, NEW u \in User, NEW a \in Asset
  PROVE  Compounded(u, a)' \in Nat /\ Compounded(u, a)' >= Compounded(u, a)
<1>1. /\ principal'[u][a] = principal[u][a] /\ debtIndex'[u][a] = debtIndex[u][a]
      /\ debtUpdated'[u][a] = debtUpdated[u][a]
      /\ principal[u][a] \in Nat /\ debtIndex[u][a] \in Nat /\ debtUpdated[u][a] \in Nat
      /\ height \in Nat /\ height' = height + 1
  BY BlockLater DEF Indexed, debtVars, TypeOK, DebtTypeOK, EnvTypeOK
<1>2. CASE principal[u][a] = 0
  BY <1>1, <1>2 DEF Compounded
<1>3. CASE principal[u][a] # 0
  <2>1. debtIndex[u][a] \in Nat \ {0} /\ debtUpdated[u][a] <= height
    BY <1>1, <1>3 DEF Indexed, DebtIndexed
  <2>2. /\ NormalizedDebt(a) \in Nat /\ NormalizedDebt(a)' \in Nat
        /\ NormalizedDebt(a) <= NormalizedDebt(a)'
    <3>1. ReservesKept /\ height' \in 0 .. MaxHeight /\ height' >= height
      BY BlockLater DEF Indexed, TypeOK, EnvTypeOK
    <3>2. NormalizedDebt(a) \in Nat
      BY Indices DEF Indexed, TypeOK
    <3> QED BY <3>1, <3>2, LaterIndices DEF Indexed
  <2> DEFINE owed   == principal[u][a]
             before == Mul(owed, Div(NormalizedDebt(a), debtIndex[u][a]))
             after  == Mul(owed, Div(NormalizedDebt(a)', debtIndex[u][a]))
  <2>3. before \in Nat /\ after \in Nat /\ before <= after
    <3> DEFINE r == Div(NormalizedDebt(a), debtIndex[u][a])
               t == Div(NormalizedDebt(a)', debtIndex[u][a])
    <3>1. r \in Nat /\ t \in Nat /\ r <= t
      BY <2>1, <2>2, DivFixedNat, DivFixedMonotone
    <3> HIDE DEF r, t
    <3>2. Mul(owed, r) \in Nat /\ Mul(owed, t) \in Nat /\ Mul(owed, r) <= Mul(owed, t)
      BY <1>1, <3>1, MulNat, MulMonotone
    <3> QED BY <3>2 DEF r, t
  <2>4. owed <= before
    <3> DEFINE r == Div(NormalizedDebt(a), debtIndex[u][a])
    <3>0. debtIndex[u][a] <= NormalizedDebt(a)
      BY <1>1, <1>3 DEF Indexed, DebtIndexed
    <3>1. r \in Nat /\ r >= One
      BY <2>1, <2>2, <3>0, DivFixedNat, DivFixedAtLeastOne
    <3> HIDE DEF r
    <3>2. Mul(owed, r) >= owed
      BY <1>1, <3>1, MulGrows
    <3> QED BY <3>2 DEF r
  <2>5. Compounded(u, a) = IF before = owed /\ debtUpdated[u][a] # height
                           THEN before + 1 ELSE before
    BY <1>3, <2>1 DEF Compounded
  <2>6. Compounded(u, a)' = IF after = owed /\ debtUpdated[u][a] # height'
                            THEN after + 1 ELSE after
    BY <1>1, <1>3, <2>1 DEF Compounded
  <2>7. debtUpdated[u][a] # height'
    BY <1>1, <2>1
  <2> HIDE DEF before, after
  <2> QED BY <1>1, <2>3, <2>4, <2>5, <2>6, <2>7
<1> QED BY <1>2, <1>3

LEMMA BlockAccrues ==
  ASSUME Indexed, NextBlock
  PROVE  Ledger!Accrue
<1>1. height' > height /\ UNCHANGED tokenVars
  BY BlockLater DEF Indexed, TypeOK, EnvTypeOK
<1>2. \A a \in Asset : \A x \in Account : Claim'[x][a] >= Claim[x][a]
  BY BlockAddsToClaims DEF Claim
<1>3. \A a \in Asset : \A u \in User : Debt'[u][a] >= Debt[u][a]
  BY BlockAddsToDebts DEF Debt
<1>4. Account = User \cup {Treasury}
  BY DEF Account
<1> QED BY <1>1, <1>2, <1>3, <1>4 DEF Ledger!Accrue, Claim, Debt, tokenVars

-----------------------------------------------------------------------------
(* The pool starts as the ledger does, and each step is one of its steps   *)
(* or changes nothing it can see.                                          *)

LEMMA StartsAsLedger == Init => Ledger!Init
<1> SUFFICES ASSUME Init PROVE Ledger!Init
  OBVIOUS
<1>1. \A x \in Account, a \in Asset : Balance(x, a) = 0
  BY DEF Init, Zero, Balance, BalanceAt
<1>2. \A u \in User, a \in Asset : Compounded(u, a) = 0
  BY DEF Init, UserZero, Compounded
<1>3. vault = [a \in Asset |-> 0] /\ Account = User \cup {Treasury}
  BY DEF Init, Account
<1> QED BY <1>1, <1>2, <1>3 DEF Ledger!Init

LEMMA Unseen ==
  ASSUME InBlock, UNCHANGED <<zVars, debtVars, tokenVars>>
  PROVE  UNCHANGED Ledger!vars
<1>1. Claim' = Claim /\ Debt' = Debt /\ height' = height
  BY ClaimsKept, DebtsStill DEF InBlock
<1> QED BY <1>1 DEF Ledger!vars, Claim, Debt, tokenVars

LEMMA UserStepsLedger ==
  ASSUME InBlock, UserStep
  PROVE  [Ledger!Next]_(Ledger!vars)
<1> DEFINE Moves == [Ledger!Next]_(Ledger!vars)
<1>1. \A u \in Caller.supply \cup Caller.withdraw \cup Caller.borrow \cup Caller.repay
                 \cup Caller.liquidate \cup Caller.mode \cup Caller.use : u \in User
  BY PoolAssumption DEF PoolAssumption
<1>2. ASSUME NEW u \in User, NEW a \in Asset, NEW n \in Amount,
             Supply(u, a, n) \/ Withdraw(u, a, n) \/ Borrow(u, a, n)
      PROVE  Moves
  BY <1>2, SupplyPaysIn, WithdrawRedeems, BorrowLends DEF Ledger!Next
<1>3. ASSUME NEW p \in User, NEW u \in User, NEW a \in Asset, NEW n \in Amount,
             Repay(p, u, a, n)
      PROVE  Moves
  BY <1>3, RepayPaysBack DEF Ledger!Next
<1>4. ASSUME NEW l \in User, NEW u \in User, NEW c \in Asset, NEW d \in Asset,
             NEW n \in Amount, NEW asZToken \in BOOLEAN, Liquidate(l, u, c, d, n, asZToken)
      PROVE  Moves
  BY <1>4, LiquidateSeizes DEF Ledger!Next
<1>5. ASSUME NEW u \in User, NEW m \in EMode \cup {NoMode}, SetEMode(u, m)
      PROVE  Moves
  BY <1>5, Unseen DEF SetEMode, supplyVars
<1>6. ASSUME NEW u \in User, NEW a \in Asset, NEW on \in BOOLEAN, SetUseAsCollateral(u, a, on)
      PROVE  Moves
  BY <1>6, Unseen DEF SetUseAsCollateral
<1> HIDE DEF Moves
<1> QED BY <1>1, <1>2, <1>3, <1>4, <1>5, <1>6 DEF UserStep, Moves

LEMMA StepsAsLedger ==
  ASSUME Indexed, TypeOK', [Next]_vars
  PROVE  [Ledger!Next]_(Ledger!vars)
<1>1. CASE NextBlock
  BY <1>1, BlockAccrues DEF Ledger!Next
<1>2. CASE height' = height
  <2>1. InBlock
    BY <1>2 DEF InBlock
  <2>2. CASE UserStep
    BY <2>1, <2>2, UserStepsLedger
  <2>3. CASE ConfigStep
    <3>1. ASSUME NEW a \in Asset, MintToTreasury(a)
          PROVE  Ledger!Next
      BY <2>1, <3>1, MintCredits DEF Ledger!Next
    <3>2. CASE UNCHANGED stateButConfig
      BY <2>1, <3>2, Unseen DEF stateButConfig, supplyVars
    <3> QED BY <2>3, <3>1, <3>2
            DEF ConfigStep, SetStatus, SetBorrowingEnabled, SetUsageAsCollateralEnabled,
                AddIsolatedAsset, RemoveIsolatedAsset, SetBorrowableIsolated,
                SetFreezeEndBlock, SetGracePeriodEnabled, SetEModeEnabled, SetAssetEMode
  <2>4. CASE NextBurnBlock \/ \E a \in Asset : \E p \in Price[a] : ReportPrice(a, p)
    BY <2>1, <2>4, Unseen DEF NextBurnBlock, ReportPrice, stateButEnv, supplyVars
  <2>5. CASE UNCHANGED vars
    BY <2>1, <2>5, Unseen DEF vars, supplyVars
  <2> QED BY <1>1, <2>2, <2>3, <2>4, <2>5 DEF Next, EnvStep
<1> QED BY <1>1, <1>2, HeightSteps

(* The contracts keep the promise of ZestLedger: no transaction of anyone  *)
(* changes a balance or a debt it does not name, loses or makes a unit by  *)
(* rounding, or brings interest, and no block takes any.                   *)
THEOREM LedgerImplemented ==
  ASSUME NoBaseSupply
  PROVE  Spec => ImplementsLedger
<1>1. Init => Ledger!Init
  BY StartsAsLedger
<1>2. Indexed /\ TypeOK' /\ [Next]_vars => [Ledger!Next]_(Ledger!vars)
  BY StepsAsLedger
<1> QED BY <1>1, <1>2, IndexedInvariant, TypeCorrect, PTL
        DEF Spec, ImplementsLedger, Ledger!Spec

-----------------------------------------------------------------------------
(* Sums of the positions.  Every step of the ledger but a block is made of *)
(* gifts of an amount to one account in one asset, and such a gift raises  *)
(* the sum of that asset by the amount.                                    *)

Total(F, b) == SumFunction([x \in DOMAIN F |-> F[x][b]])

Positions ==
  /\ Claim \in [Account -> [Asset -> Nat]]
  /\ Debt \in [User -> [Asset -> Nat]]

LEMMA PositionsInvariant == Spec => []Positions
<1>1. TypeOK => Positions
  BY PositionsNat DEF Positions
<1> QED BY <1>1, TypeCorrect, PTL

(* F with n more of asset a for x. *)
Given(F, x, a, n) == [F EXCEPT ![x] = [F[x] EXCEPT ![a] = F[x][a] + n]]

LEMMA GiftAdds ==
  ASSUME NEW S, IsFiniteSet(S), NEW F \in [S -> [Asset -> Int]],
         NEW x \in S, NEW a \in Asset, NEW n \in Int, NEW G, G = Given(F, x, a, n),
         NEW b \in Asset
  PROVE  /\ G \in [S -> [Asset -> Int]]
         /\ Total(F, b) \in Int
         /\ Total(G, b) = Total(F, b) + (IF b = a THEN n ELSE 0)
<1>1. G \in [S -> [Asset -> Int]]
  BY DEF Given
<1> DEFINE f == [y \in S |-> F[y][b]]
           g == [y \in S |-> G[y][b]]
<1>2. Total(F, b) = SumFunction(f) /\ Total(G, b) = SumFunction(g)
  BY <1>1 DEF Total
<1>3. /\ f \in [S -> Int] /\ g \in [S -> Int]
      /\ \A y \in S \ {x} : g[y] = f[y]
      /\ g[x] = f[x] + (IF b = a THEN n ELSE 0)
  BY <1>1 DEF Given
<1>4. f[x] \in Int
  BY <1>3
<1> HIDE DEF f, g
<1>5. /\ SumFunction(f) \in Int
      /\ SumFunction(g) = SumFunction(f) + g[x] - f[x]
  BY <1>3, SumChange
<1> QED BY <1>1, <1>2, <1>3, <1>4, <1>5

LEMMA AccountFinite == IsFiniteSet(Account) /\ IsFiniteSet(User)
BY PoolAssumption, FS_AddElement DEF PoolAssumption, Account

LEMMA ClaimGift ==
  ASSUME NEW F \in [Account -> [Asset -> Int]], NEW x \in Account, NEW a \in Asset,
         NEW n \in Int, NEW G, G = Given(F, x, a, n), NEW b \in Asset
  PROVE  /\ G \in [Account -> [Asset -> Int]]
         /\ Total(G, b) = Total(F, b) + (IF b = a THEN n ELSE 0)
<1>1. IsFiniteSet(Account)
  BY AccountFinite
<1> QED BY <1>1, GiftAdds

LEMMA DebtGift ==
  ASSUME NEW F \in [User -> [Asset -> Int]], NEW u \in User, NEW a \in Asset,
         NEW n \in Int, NEW G, G = Given(F, u, a, n), NEW b \in Asset
  PROVE  Total(G, b) = Total(F, b) + (IF b = a THEN n ELSE 0)
<1>1. IsFiniteSet(User)
  BY AccountFinite
<1> QED BY <1>1, GiftAdds

(* A step of the ledger within a block. *)
LEMMA TotalsMove ==
  ASSUME Positions, Positions', TokenTypeOK, TokenTypeOK',
         height \in Nat, [Ledger!Next]_(Ledger!vars), height' = height, NEW b \in Asset
  PROVE  Total(Claim', b) - Total(Debt', b) - vault'[b]
           = Total(Claim, b) - Total(Debt, b) - vault[b]
               + Claim'[Treasury][b] - Claim[Treasury][b]
<1> DEFINE Moved == Total(Claim', b) - Total(Debt', b) - vault'[b]
                      = Total(Claim, b) - Total(Debt, b) - vault[b]
                          + Claim'[Treasury][b] - Claim[Treasury][b]
<1>1. /\ Claim \in [Account -> [Asset -> Int]] /\ Claim' \in [Account -> [Asset -> Int]]
      /\ Debt \in [User -> [Asset -> Int]] /\ Debt' \in [User -> [Asset -> Int]]
      /\ vault \in [Asset -> Int] /\ vault' \in [Asset -> Int]
  BY DEF Positions, TokenTypeOK
<1>2. Treasury \in Account /\ Treasury \notin User /\ User \subseteq Account
  BY PoolAssumption DEF PoolAssumption, Account
<1>3. Total(Claim, b) \in Int /\ Total(Debt, b) \in Int
  <2> DEFINE f == [x \in Account |-> Claim[x][b]]
             g == [u \in User |-> Debt[u][b]]
  <2>1. /\ f \in [Account -> Int] /\ g \in [User -> Int]
        /\ Total(Claim, b) = SumFunction(f) /\ Total(Debt, b) = SumFunction(g)
    BY <1>1 DEF Total
  <2> HIDE DEF f, g
  <2> QED BY <2>1, AccountFinite, SumInt
<1>4. \A x \in Account : Claim[x][b] \in Int /\ Claim'[x][b] \in Int
  BY <1>1
<1> HIDE DEF Claim, Debt
<1>5. ASSUME NEW u \in User, NEW a \in Asset, NEW n \in Int,
             Claim' = Given(Claim, u, a, n), Debt' = Debt,
             vault'[b] = vault[b] + (IF b = a THEN n ELSE 0)
      PROVE  Moved
  <2>1. Total(Claim', b) = Total(Claim, b) + (IF b = a THEN n ELSE 0)
    <3>1. u \in Account /\ Claim \in [Account -> [Asset -> Int]]
      BY <1>1, <1>2
    <3>2. Claim' = Given(Claim, u, a, n)
      BY <1>5
    <3> QED BY <3>1, <3>2, ClaimGift
  <2>2. Claim'[Treasury][b] = Claim[Treasury][b]
    <3>1. Claim' = [Claim EXCEPT ![u] = [Claim[u] EXCEPT ![a] = Claim[u][a] + n]]
      BY <1>5 DEF Given
    <3>2. u # Treasury
      BY <1>2
    <3> QED BY <1>1, <1>2, <3>1, <3>2
  <2> QED BY <1>1, <1>2, <1>3, <1>4, <1>5, <2>1, <2>2
<1>6. ASSUME NEW u \in User, NEW a \in Asset, NEW n \in Int,
             Debt' = Given(Debt, u, a, n), Claim' = Claim,
             vault'[b] = vault[b] - (IF b = a THEN n ELSE 0)
      PROVE  Moved
  <2>1. Total(Debt', b) = Total(Debt, b) + (IF b = a THEN n ELSE 0)
    <3>1. Debt \in [User -> [Asset -> Int]]
      BY <1>1
    <3>2. Debt' = Given(Debt, u, a, n)
      BY <1>6
    <3> QED BY <3>1, <3>2, DebtGift
  <2> QED BY <1>1, <1>2, <1>3, <1>4, <1>6, <2>1
<1> HIDE DEF Moved
<1>7. ASSUME NEW u \in User, NEW a \in Asset, Ledger!PayIn(u, a)
      PROVE  Moved
  <2> DEFINE n == vault'[a] - vault[a]
  <2>1. n \in Int /\ Claim' = Given(Claim, u, a, n) /\ Debt' = Debt
    BY <1>1, <1>7 DEF Ledger!PayIn, Ledger!Received, Given, Claim, Debt
  <2>2. vault'[b] = vault[b] + (IF b = a THEN n ELSE 0)
    BY <1>1, <1>7 DEF Ledger!PayIn, Ledger!Received
  <2> QED BY <1>5, <2>1, <2>2
<1>8. ASSUME NEW u \in User, NEW a \in Asset, Ledger!Redeem(u, a)
      PROVE  Moved
  <2> DEFINE n == vault'[a] - vault[a]
  <2>1. /\ Claim' = [Claim EXCEPT ![u][a] = @ - (vault[a] - vault'[a])]
        /\ Debt' = Debt
    BY <1>8 DEF Ledger!Redeem, Ledger!Paid, Claim, Debt
  <2>2. n \in Int /\ Claim[u][a] - (vault[a] - vault'[a]) = Claim[u][a] + n
    BY <1>1, <1>2
  <2>3. Claim' = Given(Claim, u, a, n)
    BY <1>1, <1>2, <2>1, <2>2 DEF Given
  <2>4. vault'[b] = vault[b] + (IF b = a THEN n ELSE 0)
    BY <1>1, <1>8 DEF Ledger!Redeem, Ledger!Paid
  <2> QED BY <1>5, <2>1, <2>2, <2>3, <2>4
<1>9. ASSUME NEW u \in User, NEW a \in Asset, Ledger!Lend(u, a)
      PROVE  Moved
  <2> DEFINE n == vault[a] - vault'[a]
  <2>1. n \in Int /\ Debt' = Given(Debt, u, a, n) /\ Claim' = Claim
    BY <1>1, <1>9 DEF Ledger!Lend, Ledger!Paid, Given, Claim, Debt
  <2>2. vault'[b] = vault[b] - (IF b = a THEN n ELSE 0)
    BY <1>1, <1>9 DEF Ledger!Lend, Ledger!Paid
  <2> QED BY <1>6, <2>1, <2>2
<1>10. ASSUME NEW p \in User, NEW u \in User, NEW a \in Asset, Ledger!PayBack(p, u, a)
       PROVE  Moved
  <2> DEFINE n == vault[a] - vault'[a]
  <2>1. /\ Debt' = [Debt EXCEPT ![u][a] = @ - (vault'[a] - vault[a])]
        /\ Claim' = Claim
    BY <1>10 DEF Ledger!PayBack, Ledger!Received, Claim, Debt
  <2>2. n \in Int /\ Debt[u][a] - (vault'[a] - vault[a]) = Debt[u][a] + n
    BY <1>1
  <2>3. Debt' = Given(Debt, u, a, n)
    BY <1>1, <2>1, <2>2 DEF Given
  <2>4. vault'[b] = vault[b] - (IF b = a THEN n ELSE 0)
    BY <1>1, <1>10 DEF Ledger!PayBack, Ledger!Received
  <2> QED BY <1>6, <2>1, <2>2, <2>3, <2>4
<1>11. ASSUME NEW l \in User, NEW u \in User, NEW c \in Asset, NEW d \in Asset,
              NEW asClaim \in BOOLEAN, Ledger!Seize(l, u, c, d, asClaim)
       PROVE  Moved
  <2> DEFINE paid   == Debt[u][d] - Debt'[u][d]
             seized == Claim[u][c] - Claim'[u][c]
             fee    == wallet'[Treasury][c] - wallet[Treasury][c]
             gain   == seized - fee
             mine   == IF asClaim THEN gain ELSE 0
             out    == IF asClaim THEN 0 ELSE gain
             less   == - seized
             off    == - paid
             mid    == Given(Claim, u, c, less)
  <2>1. /\ fee >= 0 /\ gain >= 0
        /\ Debt' = [Debt EXCEPT ![u][d] = @ - paid]
        /\ vault' = [a \in Asset |-> vault[a] + (IF a = d THEN paid ELSE 0)
                                              - (IF a = c THEN out + fee ELSE 0)]
    BY <1>11 DEF Ledger!Seize, Claim, Debt
  <2>2. Claim' = Ledger!Give(Ledger!Give(Claim, u, c, less), l, c, mine)
    BY <1>11 DEF Ledger!Seize, Claim, Debt
  <2>3. paid \in Int /\ seized \in Int /\ less \in Int /\ off \in Int /\ fee \in Int
    <3>1. paid \in Int /\ seized \in Int
      BY <1>1, <1>2
    <3>2. fee \in Int
      BY <1>2 DEF TokenTypeOK
    <3> QED BY <3>1, <3>2
  <2>4. Debt' = Given(Debt, u, d, off)
    <3>1. Debt[u][d] - paid = Debt[u][d] + off
      BY <1>1, <2>3
    <3> QED BY <1>1, <2>1, <3>1 DEF Given
  <2>5. Claim' = Given(mid, l, c, mine)
    BY <1>1, <1>2, <2>2 DEF Ledger!Give, Given
  <2>6. mid = Given(Claim, u, c, less)
    OBVIOUS
  <2> HIDE DEF paid, seized, fee, mid, less, off
  <2>7. /\ Total(Debt', b) = Total(Debt, b) + (IF b = d THEN off ELSE 0)
        /\ off = - paid /\ less = - seized
    BY <1>1, <2>3, <2>4, DebtGift DEF off, less
  <2>8. Total(Claim', b) = Total(Claim, b) + (IF b = c THEN mine - seized ELSE 0)
    <3>1. mine \in Int /\ u \in Account /\ l \in Account
      BY <1>2, <2>3
    <3> HIDE DEF mine
    <3>2. /\ mid \in [Account -> [Asset -> Int]]
          /\ Total(mid, b) = Total(Claim, b) + (IF b = c THEN less ELSE 0)
      <4>1. Claim \in [Account -> [Asset -> Int]] /\ less \in Int /\ u \in Account
        BY <1>1, <2>3, <3>1
      <4>2. mid \in [Account -> [Asset -> Int]]
        BY <2>6, <4>1 DEF Given
      <4>3. Total(mid, b) = Total(Claim, b) + (IF b = c THEN less ELSE 0)
        BY <2>6, <4>1, ClaimGift
      <4> QED BY <4>2, <4>3
    <3>3. Total(Claim', b) = Total(mid, b) + (IF b = c THEN mine ELSE 0)
      BY <2>5, <3>1, <3>2, ClaimGift
    <3>4. Total(mid, b) = Total(Claim, b) + (IF b = c THEN - seized ELSE 0)
      BY <2>7, <3>2
    <3>5. mine \in Int /\ seized \in Int /\ Total(Claim, b) \in Int
      BY <1>3, <2>3, <3>1
    <3>6. CASE b = c
      BY <3>3, <3>4, <3>5, <3>6
    <3>7. CASE b # c
      BY <3>3, <3>4, <3>5, <3>7
    <3> QED BY <3>6, <3>7
  <2>9. Claim'[Treasury][b] = Claim[Treasury][b]
    BY <1>1, <1>2, <2>5, <2>6 DEF Given
  <2>10. vault'[b] = vault[b] + (IF b = d THEN paid ELSE 0) - (IF b = c THEN out + fee ELSE 0)
    BY <2>1
  <2>11. vault[b] \in Int /\ Claim[Treasury][b] \in Int
    BY <1>1, <1>2
  <2>12. mine - seized = - (out + fee) /\ mine \in Int /\ out \in Int
    BY <2>3
  <2> HIDE DEF mine, out
  <2> QED BY <1>3, <2>3, <2>7, <2>8, <2>9, <2>10, <2>11, <2>12 DEF Moved
<1>12. ASSUME NEW a \in Asset, Ledger!Credit(a)
       PROVE  Moved
  <2> DEFINE n == Claim'[Treasury][a] - Claim[Treasury][a]
  <2>0. /\ Claim' = [Claim EXCEPT ![Treasury][a] = Claim'[Treasury][a]]
        /\ n \in Int /\ Claim'[Treasury][a] = Claim[Treasury][a] + n
    BY <1>1, <1>2, <1>12 DEF Ledger!Credit, Claim
  <2>1. n \in Int /\ Claim' = Given(Claim, Treasury, a, n)
    BY <1>1, <1>2, <2>0 DEF Given
  <2>2. Debt' = Debt /\ vault' = vault
    BY <1>12 DEF Ledger!Credit, Debt
  <2>3. Total(Claim', b) = Total(Claim, b) + (IF b = a THEN n ELSE 0)
    BY <1>1, <1>2, <2>1, ClaimGift
  <2>4. Claim'[Treasury][b] = Claim[Treasury][b] + (IF b = a THEN n ELSE 0)
    BY <1>1, <1>2, <2>1 DEF Given
  <2>5. vault[b] \in Int /\ Claim[Treasury][b] \in Int
    BY <1>1, <1>2
  <2> HIDE DEF n
  <2> QED BY <1>3, <2>1, <2>2, <2>3, <2>4, <2>5 DEF Moved
<1>13. ~ Ledger!Accrue
  BY DEF Ledger!Accrue
<1>14. CASE UNCHANGED Ledger!vars
  <2>1. Claim' = Claim /\ Debt' = Debt /\ vault' = vault
    BY <1>14 DEF Ledger!vars, Claim, Debt
  <2>2. vault[b] \in Int /\ Claim[Treasury][b] \in Int
    BY <1>1, <1>2
  <2> QED BY <1>3, <2>1, <2>2 DEF Moved
<1>15. Ledger!Next => Moved
  BY <1>7, <1>8, <1>9, <1>10, <1>11, <1>12, <1>13 DEF Ledger!Next
<1> QED BY <1>14, <1>15 DEF Moved

(* Within a block, whatever is supplied, withdrawn, lent, repaid and       *)
(* seized, by any number of users, at any rates, prices and fees, the sums *)
(* of deposits and debts move with the tokens of the vault, to the unit.   *)
THEOREM NoUnitMadeOrLost ==
  ASSUME NoBaseSupply
  PROVE  Spec => NothingMadeOrLost
<1> DEFINE Even == \A a \in Asset : height' = height =>
                     Deposits(a)' - Debts(a)' - vault[a]'
                       = Deposits(a) - Debts(a) - vault[a]
                           + Balance(Treasury, a)' - Balance(Treasury, a)
<1>1. Indexed /\ TypeOK' /\ Positions /\ Positions' /\ [Next]_vars => [Even]_vars
  <2> SUFFICES ASSUME Indexed, TypeOK', Positions, Positions', [Next]_vars,
                      NEW a \in Asset, height' = height
               PROVE  Deposits(a)' - Debts(a)' - vault[a]'
                        = Deposits(a) - Debts(a) - vault[a]
                            + Balance(Treasury, a)' - Balance(Treasury, a)
    OBVIOUS
  <2>1. [Ledger!Next]_(Ledger!vars)
    BY StepsAsLedger
  <2>2. TokenTypeOK /\ TokenTypeOK' /\ height \in Nat
    BY DEF Indexed, TypeOK, EnvTypeOK
  <2>3. Total(Claim', a) - Total(Debt', a) - vault'[a]
          = Total(Claim, a) - Total(Debt, a) - vault[a]
              + Claim'[Treasury][a] - Claim[Treasury][a]
    BY <2>1, <2>2, TotalsMove
  <2>4. /\ Total(Claim, a) = Deposits(a) /\ Total(Claim', a) = Deposits(a)'
        /\ Total(Debt, a) = Debts(a) /\ Total(Debt', a) = Debts(a)'
    BY DEF Total, Claim, Debt, Deposits, Debts
  <2>5. Claim[Treasury][a] = Balance(Treasury, a) /\ Claim'[Treasury][a] = Balance(Treasury, a)'
    BY DEF Claim, Account
  <2> QED BY <2>3, <2>4, <2>5
<1> QED BY <1>1, IndexedInvariant, TypeCorrect, PositionsInvariant, PTL
        DEF Spec, NothingMadeOrLost

-----------------------------------------------------------------------------
(* The isolated debt.  borrow counts what it hands out, repay and a        *)
(* liquidation take off what is paid; each does so for the isolation mode  *)
(* the user is in after it, and a repayment no further than to zero.       *)

AtLeastZero(n) == IF n < 0 THEN 0 ELSE n

(* The debt of u in d grows by n, and so does the count of the isolation   *)
(* mode that u is left in, but not below zero.                             *)
CountsDebt(u, d, n) ==
  /\ Debt' = [Debt EXCEPT ![u][d] = @ + n]
  /\ \A i, b \in Asset :
       isoDebt'[i][b]
         = AtLeastZero(isoDebt[i][b] + (IF i = IsolationOfUser(u)' /\ b = d THEN n ELSE 0))

LEMMA SameIsolation ==
  ASSUME UNCHANGED <<supplied, collateral, isolated>>, NEW u \in User
  PROVE  IsolationOfUser(u)' = IsolationOfUser(u)
BY DEF IsolationOfUser, IsolatedAsset, Enabled

LEMMA BorrowCounts ==
  ASSUME InBlock, NEW u \in User, NEW a \in Asset, NEW n \in Amount, Borrow(u, a, n)
  PROVE  n \in Int /\ CountsDebt(u, a, n)
<1> DEFINE i == IsolationOfUser(u)
<1>1. n \in Nat /\ isoDebt \in [Asset -> [Asset -> Nat]] /\ Compounded(u, a) \in Nat
  BY AmountNat, CompoundedNat DEF InBlock, Indexed, TypeOK, ModeTypeOK
<1>2. UNCHANGED <<supplied, collateral, isolated>>
  BY DEF Borrow, supplyVars, zVars, configVars
<1>3. IsolationOfUser(u)' = i
  BY <1>2, SameIsolation
<1>4. i \in Asset \cup {NoAsset}
  BY IsolationOfUserType DEF InBlock, Indexed, TypeOK
<1>5. isoDebt' = IF i = NoAsset THEN isoDebt ELSE [isoDebt EXCEPT ![i][a] = @ + n]
  BY DEF Borrow
<1>6. Debt' = [Debt EXCEPT ![u][a] = @ + n]
  <2>1. SetsDebt(u, a, Compounded(u, a) + n)
    BY BorrowSets DEF InBlock, Indexed
  <2>2. Debt' = [Debt EXCEPT ![u][a] = Compounded(u, a) + n]
    BY <1>1, <2>1, OneDebtSet
  <2> QED BY <2>2 DEF Debt
<1> HIDE DEF i
<1>7. \A j, b \in Asset :
        isoDebt'[j][b] = AtLeastZero(isoDebt[j][b] + (IF j = i /\ b = a THEN n ELSE 0))
  BY <1>1, <1>4, <1>5, PoolAssumption DEF PoolAssumption, AtLeastZero
<1> QED BY <1>1, <1>3, <1>6, <1>7 DEF CountsDebt

LEMMA ReducedCount ==
  ASSUME TypeOK, NEW i \in Asset \cup {NoAsset}, NEW a \in Asset, NEW n \in Nat,
         isoDebt' = ReduceIsolatedDebt(i, a, n)
  PROVE  \A j, b \in Asset :
           isoDebt'[j][b] = AtLeastZero(isoDebt[j][b] + (IF j = i /\ b = a THEN - n ELSE 0))
BY PoolAssumption DEF PoolAssumption, TypeOK, ModeTypeOK, ReduceIsolatedDebt, AtLeastZero

LEMMA RepayCounts ==
  ASSUME InBlock, NEW p \in User, NEW u \in User, NEW a \in Asset, NEW n \in Amount,
         Repay(p, u, a, n)
  PROVE  \E m \in Int : CountsDebt(u, a, m)
<1> DEFINE due  == Compounded(u, a)
           paid == IF n = MaxValue \/ n > due THEN due ELSE n
<1>1. due \in Nat /\ n \in Nat
  BY CompoundedNat, AmountNat DEF InBlock, Indexed, TypeOK
<1>2. UNCHANGED <<supplied, collateral, isolated>>
  BY DEF Repay, supplyVars, zVars, configVars
<1>3. principal' = [principal EXCEPT ![u][a] = due - paid]
  BY DEF Repay
<1>4. isoDebt' = ReduceIsolatedDebt(IsolationOfUser(u)', a, paid)
  <2>1. isoDebt' = ReduceIsolatedDebt(IsolationOfUser(u), a, paid)
    BY DEF Repay
  <2> QED BY <1>2, <2>1, SameIsolation
<1>5. paid \in Nat
  BY <1>1
<1>6. Debt' = [Debt EXCEPT ![u][a] = @ + (- paid)]
  <2>1. PICK m \in Nat : m <= due /\ SetsDebt(u, a, due - m)
    BY RepaySets DEF InBlock, Indexed
  <2>2. due - m = due - paid /\ due - m \in Nat
    <3>1. principal'[u][a] = due - m /\ principal'[u][a] = due - paid
      BY <1>3, <2>1 DEF SetsDebt, InBlock, Indexed, TypeOK, DebtTypeOK
    <3> QED BY <1>1, <2>1, <3>1
  <2>3. Debt' = [Debt EXCEPT ![u][a] = due - paid]
    BY <2>1, <2>2, OneDebtSet
  <2>4. due - paid = due + (- paid) /\ Debt[u][a] = due
    BY <1>1, <1>5 DEF Debt
  <2> QED BY <2>3, <2>4 DEF Debt
<1> HIDE DEF paid
<1>7. IsolationOfUser(u)' \in Asset \cup {NoAsset}
  BY <1>2, SameIsolation, IsolationOfUserType DEF InBlock, Indexed, TypeOK
<1>8. \A i, b \in Asset :
        isoDebt'[i][b]
          = AtLeastZero(isoDebt[i][b] + (IF i = IsolationOfUser(u)' /\ b = a THEN - paid ELSE 0))
  BY <1>4, <1>5, <1>7, ReducedCount DEF InBlock, Indexed
<1>9. CountsDebt(u, a, - paid)
  BY <1>6, <1>8 DEF CountsDebt
<1>10. - paid \in Int
  BY <1>5
<1> QED BY <1>9, <1>10

LEMMA LiquidateCounts ==
  ASSUME InBlock, NEW l \in User, NEW u \in User, NEW c \in Asset, NEW d \in Asset,
         NEW n \in Amount, NEW asZToken \in BOOLEAN, Liquidate(l, u, c, d, n, asZToken)
  PROVE  \E m \in Int : CountsDebt(u, d, m)
<1> DEFINE paid  == Bought(u, c, d, n).debt
           after == IsolatedAsset(supplied'[u], collateral'[u])
<1>1. isoDebt' = ReduceIsolatedDebt(after, d, paid) /\ isolated' = isolated
  BY DEF Liquidate, configVars, Bought
<1>2. paid \in Nat /\ Debt' = [Debt EXCEPT ![u][d] = @ - paid]
  BY LiquidationMoves
<1>3. IsolationOfUser(u)' = after
  BY <1>1 DEF IsolationOfUser, IsolatedAsset, Enabled
<1>4. after \in Asset \cup {NoAsset}
  <2>1. supplied'[u] \in SUBSET Asset
    BY DEF InBlock, TypeOK, SupplyTypeOK, Account
  <2> QED BY <2>1, IsolatedAssetType
<1> HIDE DEF paid, after
<1>5. Debt' = [Debt EXCEPT ![u][d] = @ + (- paid)] /\ - paid \in Int
  <2>1. Debt[u][d] \in Nat
    BY PositionsNat DEF InBlock, Indexed, TypeOK
  <2>2. Debt[u][d] - paid = Debt[u][d] + (- paid) /\ - paid \in Int
    BY <1>2, <2>1
  <2> QED BY <1>2, <2>2 DEF Debt
<1>6. \A i, b \in Asset :
        isoDebt'[i][b]
          = AtLeastZero(isoDebt[i][b] + (IF i = IsolationOfUser(u)' /\ b = d THEN - paid ELSE 0))
  BY <1>1, <1>2, <1>3, <1>4, ReducedCount DEF InBlock, Indexed
<1>7. CountsDebt(u, d, - paid)
  BY <1>5, <1>6 DEF CountsDebt
<1> QED BY <1>5, <1>7

KeepsCount == UNCHANGED <<Debt, isoDebt>>

LEMMA StepCounts ==
  ASSUME InBlock
  PROVE  KeepsCount \/ \E u \in User, d \in Asset, n \in Int : CountsDebt(u, d, n)
<1>1. \A u \in Caller.supply \cup Caller.withdraw \cup Caller.borrow \cup Caller.repay
                 \cup Caller.liquidate \cup Caller.mode \cup Caller.use : u \in User
  BY PoolAssumption DEF PoolAssumption
<1>2. UNCHANGED debtVars /\ UNCHANGED isoDebt => KeepsCount
  BY DebtsStill DEF KeepsCount
<1>3. ASSUME NEW u \in User, NEW a \in Asset, NEW n \in Amount,
             Supply(u, a, n) \/ Withdraw(u, a, n)
      PROVE  KeepsCount
  BY <1>2, <1>3 DEF Supply, Withdraw
<1>4. ASSUME NEW u \in User, NEW m \in EMode \cup {NoMode}, SetEMode(u, m)
      PROVE  KeepsCount
  BY <1>2, <1>4 DEF SetEMode
<1>5. ASSUME NEW u \in User, NEW a \in Asset, NEW on \in BOOLEAN, SetUseAsCollateral(u, a, on)
      PROVE  KeepsCount
  BY <1>2, <1>5 DEF SetUseAsCollateral
<1>6. CASE UserStep
  BY <1>1, <1>3, <1>4, <1>5, <1>6, BorrowCounts, RepayCounts, LiquidateCounts DEF UserStep
<1>7. CASE ConfigStep
  BY <1>2, <1>7 DEF ConfigStep, MintToTreasury, SetStatus, SetBorrowingEnabled,
              SetUsageAsCollateralEnabled, AddIsolatedAsset, RemoveIsolatedAsset,
              SetBorrowableIsolated, SetFreezeEndBlock, SetGracePeriodEnabled, SetEModeEnabled,
              SetAssetEMode, stateButConfig
<1>8. CASE EnvStep
  BY <1>2, <1>8 DEF EnvStep, NextBlock, NextBurnBlock, ReportPrice, stateButEnv
<1>9. CASE UNCHANGED vars
  BY <1>2, <1>9 DEF vars
<1> QED BY <1>6, <1>7, <1>8, <1>9 DEF InBlock, Next

(* By how much what u owes in d moves, if u is left in the mode of i.      *)
MovedIn(i, d) ==
  [u \in User |-> IF IsolationOfUser(u)' = i THEN Compounded(u, d)' - Compounded(u, d) ELSE 0]

(* The count of the isolated debt follows what those in the mode owe, for  *)
(* any number of borrowers that enter with a debt, leave with one, pay for *)
(* each other and are liquidated, at any rates, up to a count of zero.     *)
THEOREM IsolatedDebtsTracked ==
  ASSUME NoBaseSupply
  PROVE  Spec => IsolatedDebtTracked
<1> DEFINE Tracked == \A i \in Asset, d \in Asset : height' = height =>
             isoDebt'[i][d] = AtLeastZero(isoDebt[i][d] + SumFunction(MovedIn(i, d)))
<1>1. Indexed /\ TypeOK' /\ Positions /\ Positions' /\ [Next]_vars => Tracked
  <2> SUFFICES ASSUME Indexed, TypeOK', Positions, Positions', [Next]_vars, NEW i \in Asset, NEW d \in Asset,
                      height' = height
               PROVE  isoDebt'[i][d] = AtLeastZero(isoDebt[i][d] + SumFunction(MovedIn(i, d)))
    OBVIOUS
  <2> DEFINE f == MovedIn(i, d)
             z == [u \in User |-> 0]
  <2>1. InBlock
    BY DEF InBlock
  <2>2. /\ Debt \in [User -> [Asset -> Nat]] /\ Debt' \in [User -> [Asset -> Nat]]
        /\ isoDebt[i][d] \in Nat
    BY DEF Positions, Indexed, TypeOK, ModeTypeOK
  <2>3. /\ f \in [User -> Int] /\ z \in [User -> Int]
        /\ \A u \in User : f[u] = IF IsolationOfUser(u)' = i THEN Debt'[u][d] - Debt[u][d] ELSE 0
    <3>1. \A u \in User : Compounded(u, d)' = Debt'[u][d] /\ Compounded(u, d) = Debt[u][d]
      BY DEF Debt
    <3> HIDE DEF Debt
    <3> QED BY <2>2, <3>1 DEF MovedIn
  <2>4. SumFunction(z) = 0 /\ IsFiniteSet(User)
    BY AccountFinite, SumZero
  <2> HIDE DEF f
  <2>5. CASE KeepsCount
    <3>1. \A u \in User : f[u] = 0
      BY <2>2, <2>3, <2>5 DEF KeepsCount
    <3>2. f = z
      BY <2>3, <3>1
    <3>3. SumFunction(f) = 0
      BY <2>4, <3>2
    <3> QED BY <2>2, <2>5, <3>3 DEF KeepsCount, AtLeastZero, f
  <2>6. ASSUME NEW u \in User, NEW b \in Asset, NEW n \in Int, CountsDebt(u, b, n)
        PROVE  isoDebt'[i][d] = AtLeastZero(isoDebt[i][d] + SumFunction(MovedIn(i, d)))
    <3> HIDE DEF Debt
    <3>1. Debt' = [Debt EXCEPT ![u][b] = @ + n]
      BY <2>6 DEF CountsDebt
    <3>2. \A v \in User \ {u} : f[v] = z[v]
      BY <2>2, <2>3, <3>1
    <3>3. f[u] = IF i = IsolationOfUser(u)' /\ d = b THEN n ELSE 0
      BY <2>2, <2>3, <3>1
    <3> HIDE DEF z
    <3>4. SumFunction(f) = SumFunction(z) + f[u] - z[u]
      BY <2>3, <2>4, <3>2, SumChange
    <3>5. SumFunction(f) = f[u]
      BY <2>3, <2>4, <3>4 DEF z
    <3> QED BY <2>6, <3>3, <3>5 DEF CountsDebt, f
  <2> QED BY <2>1, <2>5, <2>6, StepCounts
<1>2. Tracked =>
        \A i \in Asset, d \in Asset : height' = height =>
          LET moved == SumFunction([u \in User |->
                IF IsolationOfUser(u)' = i THEN Compounded(u, d)' - Compounded(u, d) ELSE 0])
          IN isoDebt'[i][d] = IF isoDebt[i][d] + moved < 0 THEN 0 ELSE isoDebt[i][d] + moved
  BY DEF MovedIn, AtLeastZero
<1> QED BY <1>1, <1>2, IndexedInvariant, TypeCorrect, PositionsInvariant, PTL
        DEF Spec, IsolatedDebtTracked

-----------------------------------------------------------------------------
(* What covers the deposits: the tokens of the vault and those lent out.   *)

Cover(a) == vault[a] + totalBorrows[a]

(* A transaction raises what is recorded as borrowed by no less than what  *)
(* is owed: it stores interest with a debt, but adds none to it.           *)
LEMMA DebtsRecorded ==
  ASSUME InBlock, Positions, Positions', NEW a \in Asset
  PROVE  /\ Debts(a) \in Int /\ Debts(a)' \in Int
         /\ Debts(a)' - Debts(a) <= totalBorrows'[a] - totalBorrows[a]
<1> DEFINE f == [u \in User |-> Compounded(u, a)]
           g == [u \in User |-> Compounded(u, a)']
           p == [u \in User |-> principal[u][a]]
           q == [u \in User |-> principal'[u][a]]
<1>1. TypeOK /\ TypeOK' /\ DebtLedger /\ DebtIndexed /\ [Next]_vars
  BY DEF InBlock, Indexed
<1>2. DebtLedger'
  BY <1>1, LedgerStep
<1>3. /\ Debts(a) = SumFunction(f) /\ Debts(a)' = SumFunction(g)
      /\ totalBorrows[a] = SumFunction(p) /\ totalBorrows'[a] = SumFunction(q)
  BY <1>1, <1>2 DEF Debts, DebtLedger
<1>4. Debt \in [User -> [Asset -> Nat]] /\ Debt' \in [User -> [Asset -> Nat]]
  BY DEF Positions
<1>5. /\ \A u \in User : f[u] = Debt[u][a] /\ g[u] = Debt'[u][a]
      /\ f \in [User -> Int] /\ g \in [User -> Int]
  BY <1>4 DEF Debt
<1>6. /\ p \in [User -> Int] /\ q \in [User -> Int]
      /\ totalBorrows[a] \in Int /\ totalBorrows'[a] \in Int
  BY <1>1 DEF TypeOK, DebtTypeOK, ReserveTypeOK
<1>7. SumFunction(f) \in Int /\ SumFunction(g) \in Int
  BY <1>5, AccountFinite, SumInt
<1>8. CASE DebtsKept
  <2>1. g = f
    BY <1>8, DueKept DEF DebtsKept
  <2>2. q = p
    BY <1>8 DEF DebtsKept
  <2> HIDE DEF f, g, p, q
  <2> QED BY <1>3, <1>6, <1>7, <2>1, <2>2
<1>9. ASSUME NEW v \in User, NEW b \in Asset, NEW n \in Nat, SetsDebt(v, b, n)
      PROVE  Debts(a)' - Debts(a) <= totalBorrows'[a] - totalBorrows[a]
  <2>1. Debt' = [Debt EXCEPT ![v][b] = n]
    BY <1>9, OneDebtSet
  <2>2. principal' = [principal EXCEPT ![v][b] = n] /\ principal \in [User -> [Asset -> Nat]]
    BY <1>1, <1>9 DEF SetsDebt, TypeOK, DebtTypeOK
  <2>3. /\ \A u \in User \ {v} : g[u] = f[u] /\ q[u] = p[u]
        /\ b # a => g[v] = f[v] /\ q[v] = p[v]
        /\ b = a => g[v] = n /\ q[v] = n
    <3> HIDE DEF Debt
    <3> QED BY <1>4, <1>5, <2>1, <2>2
  <2>4. p[v] <= f[v] /\ p[v] \in Int /\ f[v] \in Int
    <3>1. Compounded(v, a) >= principal[v][a]
      BY <1>1, DueCoversPrincipal
    <3>2. Compounded(v, a) \in Int /\ principal[v][a] \in Int
      BY <1>5, <1>6
    <3> QED BY <3>1, <3>2
  <2> HIDE DEF f, g, p, q
  <2>5. /\ SumFunction(g) = SumFunction(f) + g[v] - f[v]
        /\ SumFunction(q) = SumFunction(p) + q[v] - p[v]
    BY <1>5, <1>6, <2>3, AccountFinite, SumChange
  <2>6. g[v] - f[v] <= q[v] - p[v] /\ g[v] \in Int /\ q[v] \in Int
    BY <1>5, <1>6, <2>3, <2>4
  <2> QED BY <1>3, <1>6, <1>7, <2>4, <2>5, <2>6
<1> HIDE DEF f, g, p, q
<1> QED BY <1>1, <1>3, <1>7, <1>8, <1>9, DebtSteps

LEMMA DepositsInt ==
  ASSUME Positions, Positions', NEW a \in Asset
  PROVE  Deposits(a) \in Int /\ Deposits(a)' \in Int
<1> DEFINE f == [x \in Account |-> Balance(x, a)]
           g == [x \in Account |-> Balance(x, a)']
<1>1. f \in [Account -> Int] /\ g \in [Account -> Int]
  <2>1. \A x \in Account : Balance(x, a) = Claim[x][a] /\ Balance(x, a)' = Claim'[x][a]
    BY DEF Claim
  <2> HIDE DEF Claim
  <2> QED BY <2>1 DEF Positions
<1>2. Deposits(a) = SumFunction(f) /\ Deposits(a)' = SumFunction(g)
  BY DEF Deposits
<1> HIDE DEF f, g
<1> QED BY <1>1, <1>2, AccountFinite, SumInt

(* Within a block deposits outgrow their cover by no more than is credited *)
(* to the treasury, however high the rates are.                            *)
LEMMA CoverKept ==
  ASSUME InBlock, Positions, Positions', NEW a \in Asset
  PROVE  /\ Deposits(a) \in Int /\ Deposits(a)' \in Int
         /\ Deposits(a)' - Cover(a)'
              <= Deposits(a) - Cover(a) + Balance(Treasury, a)' - Balance(Treasury, a)
<1>1. TypeOK /\ TypeOK' /\ [Next]_vars /\ Indexed /\ height' = height
  BY DEF InBlock, Indexed
<1>2. [Ledger!Next]_(Ledger!vars)
  BY <1>1, StepsAsLedger
<1>3. Total(Claim', a) - Total(Debt', a) - vault'[a]
        = Total(Claim, a) - Total(Debt, a) - vault[a]
            + Claim'[Treasury][a] - Claim[Treasury][a]
  BY <1>1, <1>2, TotalsMove DEF TypeOK, EnvTypeOK
<1>4. /\ Total(Claim, a) = Deposits(a) /\ Total(Claim', a) = Deposits(a)'
      /\ Total(Debt, a) = Debts(a) /\ Total(Debt', a) = Debts(a)'
      /\ Claim[Treasury][a] = Balance(Treasury, a)
      /\ Claim'[Treasury][a] = Balance(Treasury, a)'
  BY DEF Total, Claim, Debt, Deposits, Debts, Account
<1>5. Deposits(a) \in Int /\ Deposits(a)' \in Int
  BY DepositsInt
<1>6. /\ Balance(Treasury, a) \in Int /\ Balance(Treasury, a)' \in Int
      /\ vault[a] \in Int /\ vault'[a] \in Int
      /\ totalBorrows[a] \in Int /\ totalBorrows'[a] \in Int
  <2>1. Claim[Treasury][a] \in Nat /\ Claim'[Treasury][a] \in Nat
    BY DEF Positions, Account
  <2>2. /\ vault \in [Asset -> Nat] /\ vault' \in [Asset -> Nat]
        /\ totalBorrows \in [Asset -> Nat] /\ totalBorrows' \in [Asset -> Nat]
    BY <1>1 DEF TypeOK, TokenTypeOK, ReserveTypeOK
  <2> QED BY <1>4, <2>1, <2>2
<1>7. /\ Debts(a) \in Int /\ Debts(a)' \in Int
      /\ Debts(a)' - Debts(a) <= totalBorrows'[a] - totalBorrows[a]
  BY DebtsRecorded
<1>8. Deposits(a)' - Debts(a)' - vault'[a]
        = Deposits(a) - Debts(a) - vault[a] + Balance(Treasury, a)' - Balance(Treasury, a)
  BY <1>3, <1>4
<1>9. Cover(a) = vault[a] + totalBorrows[a] /\ Cover(a)' = vault'[a] + totalBorrows'[a]
  BY DEF Cover
<1> QED BY <1>5, <1>6, <1>7, <1>8, <1>9

(* No interest is due: a reserve was updated in this block, or its rates   *)
(* are zero.                                                               *)
NothingDue ==
  \A a \in Asset : updated[a] = height \/ (liqRate[a] = 0 /\ borRate[a] = 0)

NothingAccrued == \A a \in Asset : accrued[a] = 0

LEMMA NothingDueIndices ==
  ASSUME TypeOK, NothingDue, NEW a \in Asset
  PROVE  /\ NormalizedIncome(a) = liqIndex[a] /\ NextBorIndex(a) = borIndex[a]
         /\ NextLiqIndex(a) \in Nat \ {0}
<1>1. /\ liqRate[a] \in Nat /\ borRate[a] \in Nat /\ updated[a] \in 0 .. height
      /\ height \in 0 .. MaxHeight /\ liqIndex[a] \in Nat \ {0} /\ borIndex[a] \in Nat \ {0}
  BY IndicesPositive DEF TypeOK, ReserveTypeOK, EnvTypeOK
<1>2. /\ CalculateLinearInterest(liqRate[a], updated[a], height) = One
      /\ CalculateCompoundedInterest(borRate[a], updated[a], height) = One
  BY <1>1, NoInterest DEF NothingDue
<1>3. NormalizedIncome(a) = liqIndex[a] /\ NormalizedDebt(a) = borIndex[a]
  BY <1>1, <1>2, MulOne DEF NormalizedIncome, NormalizedDebt
<1> QED BY <1>1, <1>3 DEF NextBorIndex, NextLiqIndex

LEMMA NoShare ==
  ASSUME TypeOK, NothingDue, NEW a \in Asset, NEW total \in Nat
  PROVE  TreasuryShare(a, total) = 0
<1>1. borIndex[a] \in Nat /\ NextBorIndex(a) = borIndex[a] /\ NextLiqIndex(a) \in Nat \ {0}
  BY NothingDueIndices DEF TypeOK, ReserveTypeOK
<1>2. Mul(total, borIndex[a]) \in Nat
  BY <1>1, MulNat
<1>3. Div(Param[a].reserveFactor, NextLiqIndex(a)) \in Nat
  BY <1>1, ParamFacts, DivFixedNat
<1>4. Mul(total, NextBorIndex(a)) - Mul(total, borIndex[a]) = 0
  BY <1>1, <1>2
<1> QED BY <1>3, <1>4, MulZero DEF TreasuryShare

(* Nothing is then accrued to the treasury, nor minted. *)
LEMMA AccruesNothing ==
  ASSUME TypeOK, NothingDue, NothingAccrued, [Next]_vars
  PROVE  NothingAccrued'
<1>1. \A u \in Caller.supply \cup Caller.withdraw \cup Caller.borrow \cup Caller.repay
                 \cup Caller.liquidate \cup Caller.mode \cup Caller.use : u \in User
  BY PoolAssumption DEF PoolAssumption
<1>2. \A a \in Asset : totalBorrows[a] \in Nat
  BY DEF TypeOK, ReserveTypeOK
<1>3. ASSUME NEW a \in Asset, NEW total, NEW cash, UpdateReserve(a, total, cash)
      PROVE  NothingAccrued'
  <2>1. TreasuryShare(a, totalBorrows[a]) = 0
    BY <1>2, NoShare
  <2> QED BY <1>3, <2>1 DEF UpdateReserve, UpdateReserves, NothingAccrued
<1>4. ASSUME NEW u \in User, NEW a \in Asset, NEW n \in Amount,
             Supply(u, a, n) \/ Withdraw(u, a, n)
      PROVE  NothingAccrued'
  BY <1>3, <1>4 DEF Supply, Withdraw
<1>5. ASSUME NEW u \in User, NEW a \in Asset, NEW n \in Amount, Borrow(u, a, n)
      PROVE  NothingAccrued'
  BY <1>5 DEF Borrow, UpdateReserves, NothingAccrued
<1>6. ASSUME NEW p \in User, NEW u \in User, NEW a \in Asset, NEW n \in Amount,
             Repay(p, u, a, n)
      PROVE  NothingAccrued'
  BY <1>3, <1>6 DEF Repay
<1>7. ASSUME NEW l \in User, NEW u \in User, NEW c \in Asset, NEW d \in Asset,
             NEW n \in Amount, NEW asZToken \in BOOLEAN, Liquidate(l, u, c, d, n, asZToken)
      PROVE  NothingAccrued'
  <2>1. PICK total, paid, taken : total >= 0 /\ LiquidatedReserves(c, d, total, paid, taken, asZToken)
                                  /\ total \in Nat
    <3> DEFINE due  == Compounded(u, d)
               most == Mul(due, Param[d].closeFactor)
               deal == Seizure(u, c, d, IF n > most THEN most ELSE n)
               rest == TotalAfter(u, d, due, deal.debt)
    <3>1. rest >= 0 /\ LiquidatedReserves(c, d, rest, deal.debt, deal.collateral, asZToken)
      BY <1>7 DEF Liquidate
    <3>2. due \in Nat /\ totalBorrows[d] \in Nat /\ principal[u][d] \in Nat
      BY CompoundedNat DEF TypeOK, DebtTypeOK, ReserveTypeOK
    <3>3. deal.debt \in Nat
      <4>1. most \in Nat
        BY <3>2, ParamFacts, MulNat
      <4>2. (IF n > most THEN most ELSE n) \in Nat
        BY <4>1, AmountNat
      <4> HIDE DEF most
      <4> QED BY <4>2, SeizureNat DEF TypeOK
    <3> HIDE DEF due, deal
    <3>4. rest \in Nat
      BY <3>1, <3>2, <3>3 DEF TotalAfter
    <3> QED BY <3>1, <3>4
  <2>2. TreasuryShare(d, total) = 0 /\ TreasuryShare(c, totalBorrows[c]) = 0
    BY <1>2, <2>1, NoShare
  <2> QED BY <2>1, <2>2 DEF LiquidatedReserves, UpdateReserves, NothingAccrued
<1>8. CASE UNCHANGED accrued
  BY <1>8 DEF NothingAccrued
<1>9. ASSUME NEW u \in User, NEW m \in EMode \cup {NoMode}, SetEMode(u, m)
      PROVE  NothingAccrued'
  BY <1>8, <1>9 DEF SetEMode, reserveVars
<1>10. ASSUME NEW u \in User, NEW a \in Asset, NEW on \in BOOLEAN, SetUseAsCollateral(u, a, on)
       PROVE  NothingAccrued'
  BY <1>8, <1>10 DEF SetUseAsCollateral, reserveVars
<1>11. CASE UserStep
  BY <1>1, <1>4, <1>5, <1>6, <1>7, <1>9, <1>10, <1>11 DEF UserStep
<1>12. CASE ConfigStep
  <2>1. ASSUME NEW a \in Asset, MintToTreasury(a)
        PROVE  NothingAccrued'
    BY <2>1 DEF MintToTreasury, NothingAccrued
  <2>2. CASE UNCHANGED stateButConfig
    BY <1>8, <2>2 DEF stateButConfig, reserveVars
  <2> QED BY <1>12, <2>1, <2>2
          DEF ConfigStep, SetStatus, SetBorrowingEnabled, SetUsageAsCollateralEnabled,
              AddIsolatedAsset, RemoveIsolatedAsset, SetBorrowableIsolated,
              SetFreezeEndBlock, SetGracePeriodEnabled, SetEModeEnabled, SetAssetEMode
<1>13. CASE EnvStep
  BY <1>8, <1>13 DEF EnvStep, NextBlock, NextBurnBlock, ReportPrice, stateButEnv, reserveVars
<1>14. CASE UNCHANGED vars
  BY <1>8, <1>14 DEF vars, reserveVars
<1> QED BY <1>11, <1>12, <1>13, <1>14 DEF Next

(* No other transaction touches the z-tokens of the treasury. *)
LEMMA TreasuryStill ==
  ASSUME InBlock, NothingAccrued, NEW a \in Asset
  PROVE  Balance(Treasury, a)' = Balance(Treasury, a)
<1> DEFINE Still == zBalance'[Treasury][a] = zBalance[Treasury][a]
                    /\ zIndex'[Treasury][a] = zIndex[Treasury][a]
<1>1. /\ zBalance \in [Account -> [Asset -> Nat]] /\ zIndex \in [Account -> [Asset -> Nat]]
      /\ TypeOK /\ [Next]_vars
  BY DEF InBlock, Indexed, TypeOK, SupplyTypeOK
<1>2. Treasury \in Account /\ Treasury \notin User /\ User \subseteq Account
  BY PoolAssumption DEF PoolAssumption, Account
<1>3. \A u \in Caller.supply \cup Caller.withdraw \cup Caller.borrow \cup Caller.repay
                 \cup Caller.liquidate \cup Caller.mode \cup Caller.use : u \in User
  BY PoolAssumption DEF PoolAssumption
<1>4. ASSUME UNCHANGED zVars PROVE Still
  BY <1>4 DEF zVars
<1>5. ASSUME NEW u \in User, NEW b \in Asset, NEW n \in Amount,
             Supply(u, b, n) \/ Withdraw(u, b, n)
      PROVE  Still
  <2>1. u # Treasury
    BY <1>2
  <2>2. /\ \E q : zBalance' = [zBalance EXCEPT ![u][b] = q]
        /\ \E i : zIndex' = [zIndex EXCEPT ![u][b] = i]
    BY <1>5, Zenon DEF Supply, Withdraw
  <2> QED BY <1>1, <1>2, <2>1, <2>2
<1>6. ASSUME NEW u \in User, NEW b \in Asset, NEW n \in Amount,
             Borrow(u, b, n) \/ \E p \in User : Repay(p, u, b, n)
      PROVE  Still
  BY <1>4, <1>6 DEF Borrow, Repay, supplyVars
<1>7. ASSUME NEW l \in User, NEW u \in User, NEW c \in Asset, NEW d \in Asset,
             NEW n \in Amount, NEW asZToken \in BOOLEAN, Liquidate(l, u, c, d, n, asZToken)
      PROVE  Still
  <2>1. PICK gain, fee, income : SeizedBalances(l, u, c, gain, fee, income, asZToken)
    BY <1>7, Zenon DEF Liquidate
  <2>2. u # Treasury /\ l # Treasury
    BY <1>2
  <2> QED BY <1>1, <1>2, <2>1, <2>2 DEF SeizedBalances
<1>8. ASSUME NEW u \in User, NEW m \in EMode \cup {NoMode}, SetEMode(u, m)
      PROVE  Still
  BY <1>4, <1>8 DEF SetEMode, supplyVars
<1>9. ASSUME NEW u \in User, NEW b \in Asset, NEW on \in BOOLEAN, SetUseAsCollateral(u, b, on)
      PROVE  Still
  BY <1>4, <1>9 DEF SetUseAsCollateral
<1> HIDE DEF Still
<1>10. UserStep => Still
  BY <1>3, <1>5, <1>6, <1>7, <1>8, <1>9 DEF UserStep
<1>11. ASSUME ConfigStep PROVE Still
  <2>1. ASSUME NEW b \in Asset PROVE ~ MintToTreasury(b)
    <3>1. NormalizedIncome(b) \in Nat
      BY <1>1, Indices DEF TypeOK
    <3>2. Mul(accrued[b], NormalizedIncome(b)) = 0
      BY <3>1, MulZero DEF NothingAccrued
    <3> QED BY <3>2 DEF MintToTreasury
  <2>2. ASSUME UNCHANGED stateButConfig PROVE Still
    BY <1>4, <2>2 DEF stateButConfig, supplyVars
  <2> QED BY <1>11, <2>1, <2>2
          DEF ConfigStep, SetStatus, SetBorrowingEnabled, SetUsageAsCollateralEnabled,
              AddIsolatedAsset, RemoveIsolatedAsset, SetBorrowableIsolated,
              SetFreezeEndBlock, SetGracePeriodEnabled, SetEModeEnabled, SetAssetEMode
<1>12. ASSUME EnvStep PROVE Still
  BY <1>4, <1>12 DEF EnvStep, NextBlock, NextBurnBlock, ReportPrice, stateButEnv, supplyVars
<1>13. ASSUME UNCHANGED vars PROVE Still
  BY <1>4, <1>13 DEF vars, supplyVars
<1>14. Still
  BY <1>1, <1>10, <1>11, <1>12, <1>13 DEF Next
<1> QED BY <1>2, <1>14, BalanceKept DEF Still

IncomeStored == \A a \in Asset : NormalizedIncome(a) = liqIndex[a]

(* A block in which nothing is due leaves all balances as they are. *)
LEMMA NothingDueBlock ==
  ASSUME IncomeStored, IncomeStored', NextBlock, NEW a \in Asset
  PROVE  Deposits(a)' = Deposits(a) /\ Cover(a)' = Cover(a)
<1>1. UNCHANGED <<liqIndex, totalBorrows, vault, zBalance, zIndex>>
  BY DEF NextBlock, stateButEnv, reserveVars, supplyVars, zVars, tokenVars
<1>2. NormalizedIncome(a)' = NormalizedIncome(a)
  BY <1>1 DEF IncomeStored
<1>3. \A x \in Account : Balance(x, a)' = Balance(x, a)
  BY <1>1, <1>2 DEF Balance, BalanceAt
<1> QED BY <1>1, <1>3 DEF Deposits, Cover

(* Each step keeps the deposits covered. *)
LEMMA CoveredStep ==
  ASSUME Indexed, TypeOK', [Next]_vars, Positions, Positions', IncomeStored, IncomeStored',
         NothingAccrued, NEW a \in Asset, NEW m \in Int, Deposits(a) <= Cover(a) + m
  PROVE  Deposits(a)' <= Cover(a)' + m
<1>1. CASE height' = height
  <2>1. InBlock
    BY <1>1 DEF InBlock
  <2>2. Deposits(a)' - Cover(a)'
          <= Deposits(a) - Cover(a) + Balance(Treasury, a)' - Balance(Treasury, a)
        /\ Deposits(a) \in Int /\ Deposits(a)' \in Int
    BY <2>1, CoverKept
  <2>3. Balance(Treasury, a)' = Balance(Treasury, a) /\ Balance(Treasury, a) \in Int
    <3>1. Balance(Treasury, a) \in Nat
      BY BalanceNat, Indices DEF Indexed, TypeOK, Account
    <3> QED BY <2>1, <3>1, TreasuryStill
  <2>4. Cover(a) \in Int /\ Cover(a)' \in Int
    <3>1. vault[a] + totalBorrows[a] \in Int
      BY DEF Indexed, TypeOK, TokenTypeOK, ReserveTypeOK
    <3>2. vault'[a] + totalBorrows'[a] \in Int
      BY DEF TypeOK, TokenTypeOK, ReserveTypeOK
    <3> QED BY <3>1, <3>2 DEF Cover
  <2> QED BY <2>2, <2>3, <2>4
<1>2. CASE NextBlock
  BY <1>2, NothingDueBlock
<1> QED BY <1>1, <1>2, HeightSteps

DepositsCovered == \A a \in Asset : Deposits(a) <= vault[a] + totalBorrows[a]

LEMMA CoveredInit ==
  ASSUME Init
  PROVE  DepositsCovered /\ NothingAccrued
<1>1. ASSUME NEW a \in Asset PROVE Deposits(a) = 0
  <2>1. [x \in Account |-> Balance(x, a)] = [x \in Account |-> 0]
    BY DEF Init, Zero, Balance, BalanceAt
  <2> QED BY <2>1, AccountFinite, SumZero DEF Deposits
<1>2. \A a \in Asset : vault[a] = 0 /\ totalBorrows[a] = 0 /\ accrued[a] = 0
  BY DEF Init
<1> QED BY <1>1, <1>2 DEF DepositsCovered, NothingAccrued

(* Where no interest is due, the tokens of the vault and those lent out    *)
(* cover all deposits, whatever users, liquidators, prices and the         *)
(* configurator do: no fee, bonus or rounding is paid by the depositors.   *)
THEOREM FreeDepositsCovered ==
  ASSUME NoBaseSupply
  PROVE  Spec /\ []NothingDue => []DepositsCovered
<1>1. Init => DepositsCovered /\ NothingAccrued
  BY CoveredInit
<1>2. TypeOK /\ NothingDue => Positions /\ IncomeStored
  BY PositionsNat, NothingDueIndices DEF Positions, IncomeStored
<1>3. /\ Indexed /\ TypeOK' /\ NothingDue /\ [Next]_vars
      /\ Positions /\ Positions' /\ IncomeStored /\ IncomeStored'
      /\ DepositsCovered /\ NothingAccrued
      => DepositsCovered' /\ NothingAccrued'
  <2> SUFFICES ASSUME Indexed, TypeOK', NothingDue, [Next]_vars,
                      Positions, Positions', IncomeStored, IncomeStored',
                      DepositsCovered, NothingAccrued
               PROVE  DepositsCovered' /\ NothingAccrued'
    OBVIOUS
  <2>1. NothingAccrued'
    BY AccruesNothing DEF Indexed
  <2>2. ASSUME NEW a \in Asset PROVE Deposits(a)' <= vault'[a] + totalBorrows'[a]
    <3>1. Deposits(a) <= Cover(a) + 0
      <4>1. Cover(a) + 0 = vault[a] + totalBorrows[a]
        <5>1. vault[a] + totalBorrows[a] \in Int
          BY DEF Indexed, TypeOK, TokenTypeOK, ReserveTypeOK
        <5> QED BY <5>1 DEF Cover
      <4> QED BY <4>1 DEF DepositsCovered
    <3>2. Deposits(a)' <= Cover(a)' + 0
      BY <3>1, CoveredStep
    <3>3. Cover(a)' + 0 = vault'[a] + totalBorrows'[a]
      <4>1. vault'[a] + totalBorrows'[a] \in Int
        BY DEF TypeOK, TokenTypeOK, ReserveTypeOK
      <4> QED BY <4>1 DEF Cover
    <3> QED BY <3>2, <3>3
  <2> QED BY <2>1, <2>2 DEF DepositsCovered
<1> QED BY <1>1, <1>2, <1>3, IndexedInvariant, TypeCorrect, PTL DEF Spec

-----------------------------------------------------------------------------
(* What a liquidation takes. *)

(* A part of the collateral that is bought with a debt is worth no more    *)
(* than the debt with the bonus, and what it costs no more than what was   *)
(* to be paid, up to the halves of the roundings.                          *)
LEMMA SeizureWorth ==
  ASSUME TypeOK, NEW u \in User, NEW c \in Asset, NEW d \in Asset, NEW n \in Nat,
         NEW part \in Nat, part <= Seizure(u, c, d, n).collateral
  PROVE  LET rate  == One + Bonus(u, c)
             taken == Value(c, part)
             paid  == Value(d, Seizure(u, c, d, n).debt)
         IN /\ 2 * (taken * (One * One))
                  <= 2 * (Mul(paid, rate) * (One * One)) + 2 * (One * One)
                       + Slack(rate, price[c], price[d], taken)
            /\ 2 * (paid * (One * One))
                  <= 2 * (Value(d, n) * (One * One)) + 2 * (One * One)
                       + Slack(rate, price[c], price[d], Value(d, n))
<1> DEFINE O     == One * One
           p     == price[c]
           q     == price[d]
           have  == Balance(u, c)
           rate  == One + Bonus(u, c)
           most  == Mul(Div(Mul(n, q), p), rate)
           seize == Seizure(u, c, d, n)
           all   == Mul(seize.collateral, p)
           taken == Mul(part, p)
           paid  == Mul(seize.debt, q)
           tried == Mul(n, q)
<1>1. p \in Nat \ {0} /\ q \in Nat \ {0} /\ have \in Nat /\ O \in Nat \ {0}
  <2>1. p \in Nat \ {0} /\ q \in Nat \ {0}
    BY DEF TypeOK, EnvTypeOK
  <2>2. u \in Account
    BY DEF Account
  <2>3. NormalizedIncome(c) \in Nat
    BY Indices DEF TypeOK
  <2>4. have \in Nat
    BY <2>2, <2>3, BalanceNat DEF TypeOK
  <2>5. O \in Nat \ {0}
    BY OneNat
  <2> QED BY <2>1, <2>4, <2>5
<1>2. rate \in Nat \ {0} /\ One <= rate
  <2>1. Bonus(u, c) \in Nat
    BY ParamFacts, BonusNat DEF TypeOK
  <2> QED BY <2>1, OneNat
<1>3. /\ seize.collateral = IF most > have THEN have ELSE most
      /\ seize.debt = IF most > have THEN Mul(Div(Mul(have, p), q), Div(One, rate)) ELSE n
  BY DEF Seizure
<1>4. seize.collateral \in Nat /\ seize.debt \in Nat
  BY SeizureNat DEF TypeOK
<1> HIDE DEF seize, p, q, have, rate, O
<1>5. /\ all \in Nat /\ taken \in Nat /\ paid \in Nat /\ tried \in Nat /\ taken <= all
      /\ Mul(paid, rate) \in Nat
  <2>1. part <= seize.collateral /\ p \in Nat /\ p <= p
    BY <1>1 DEF seize
  <2>2. all \in Nat /\ taken \in Nat /\ paid \in Nat /\ tried \in Nat
    BY <1>1, <1>4, MulNat
  <2>3. taken <= all
    BY <1>4, <2>1, MulMonotoneBoth
  <2>4. Mul(paid, rate) \in Nat
    BY <1>2, <2>2, MulNat
  <2> QED BY <2>2, <2>3, <2>4
<1>6. 2 * (taken * O) <= 2 * (Mul(paid, rate) * O) + 2 * O + Slack(rate, p, q, taken)
  <2>1. 2 * (all * O) <= 2 * (Mul(paid, rate) * O) + 2 * O + Slack(rate, p, q, all)
    <3>1. CASE most > have
      <4>1. all = Mul(have, p) /\ paid = Mul(Mul(Div(all, q), Div(One, rate)), q)
        BY <1>3, <3>1
      <4>2. 2 * (all * O) <= 2 * (Mul(paid, rate) * O) + 2 * O
                               + rate * (One + all) + q * (One + rate)
        BY <1>1, <1>2, <1>5, <4>1, SoldWorth DEF O
      <4> DEFINE a == rate * (One + all)
                 b == q * (One + rate)
                 e == p * (One + rate)
                 m == Mul(paid, rate) * O
      <4>3. Slack(rate, p, q, all) = a + e + b
        BY <1>1, <1>2, <1>5, OneNat DEF Slack
      <4>4. /\ a \in Nat /\ b \in Nat /\ e \in Nat /\ m \in Nat /\ 2 * (all * O) \in Nat
        BY <1>1, <1>2, <1>5, OneNat
      <4>5. 2 * (all * O) <= 2 * m + 2 * O + a + b
        BY <4>2
      <4> HIDE DEF a, b, e, m
      <4>6. 2 * (all * O) <= 2 * m + 2 * O + (a + e + b)
        BY <1>1, <4>4, <4>5
      <4> QED BY <4>3, <4>6 DEF m
    <3>2. CASE ~ (most > have)
      <4>1. all = Mul(most, p) /\ paid = tried
        BY <1>3, <3>2
      <4>2. 2 * (all * O) <= 2 * (Mul(paid, rate) * O) + 2 * O + p * (One + rate)
        BY <1>1, <1>2, <1>5, <4>1, BoughtWorth DEF O
      <4> DEFINE a == rate * (One + all)
                 b == q * (One + rate)
                 e == p * (One + rate)
                 m == Mul(paid, rate) * O
      <4>3. Slack(rate, p, q, all) = a + e + b
        BY <1>1, <1>2, <1>5, OneNat DEF Slack
      <4>4. /\ a \in Nat /\ b \in Nat /\ e \in Nat /\ m \in Nat /\ 2 * (all * O) \in Nat
        BY <1>1, <1>2, <1>5, OneNat
      <4>5. 2 * (all * O) <= 2 * m + 2 * O + e
        BY <4>2
      <4> HIDE DEF a, b, e, m
      <4>6. 2 * (all * O) <= 2 * m + 2 * O + (a + e + b)
        BY <1>1, <4>4, <4>5
      <4> QED BY <4>3, <4>6 DEF m
    <3> QED BY <3>1, <3>2
  <2> QED BY <1>1, <1>2, <1>5, <2>1, PartWorth DEF O
<1>7. 2 * (paid * O) <= 2 * (tried * O) + 2 * O + Slack(rate, p, q, tried)
  <2>1. CASE most > have
    <3>1. have < most /\ paid = Mul(Mul(Div(Mul(have, p), q), Div(One, rate)), q)
      BY <1>3, <2>1
    <3> QED BY <1>1, <1>2, <1>5, <3>1, AllowedWorth DEF O
  <2>2. CASE ~ (most > have)
    <3>1. paid = tried
      BY <1>3, <2>2
    <3>2. Slack(rate, p, q, tried) \in Nat
      <4>1. tried <= tried
        BY <1>5
      <4> QED BY <1>1, <1>2, <1>5, <4>1, SlackNat
    <3>3. tried * O \in Nat
      BY <1>1, <1>5
    <3> QED BY <1>1, <3>1, <3>2, <3>3
  <2> QED BY <2>1, <2>2
<1> QED BY <1>6, <1>7 DEF Value, O, p, q, rate, seize

(* Nothing else takes from a balance and a debt of a user in one step. *)
LEMMA BothFall ==
  ASSUME Indexed, TypeOK', [Next]_vars, NEW u \in User, NEW c \in Asset, NEW d \in Asset,
         Balance(u, c)' < Balance(u, c), Compounded(u, d)' < Compounded(u, d)
  PROVE  InBlock /\ \E l \in User, n \in Amount, asZToken \in BOOLEAN :
                      Liquidate(l, u, c, d, n, asZToken)
<1> DEFINE Liquidated == \E l \in User, n \in Amount, asZToken \in BOOLEAN :
                           Liquidate(l, u, c, d, n, asZToken)
<1>1. /\ u \in Account
      /\ Claim \in [Account -> [Asset -> Nat]] /\ Debt \in [User -> [Asset -> Nat]]
      /\ Claim[u][c] = Balance(u, c) /\ Debt[u][d] = Compounded(u, d)
      /\ Claim'[u][c] = Balance(u, c)' /\ Debt'[u][d] = Compounded(u, d)'
  BY PositionsNat DEF Claim, Debt, Account, Indexed
<1>2. Claim'[u][c] < Claim[u][c] /\ Debt'[u][d] < Debt[u][d]
  BY <1>1
<1>3. Claim[u][c] \in Nat /\ Debt[u][d] \in Nat
  BY <1>1
<1>4. Claim' # Claim /\ Debt' # Debt
  BY <1>2, <1>3
<1>5. ~ NextBlock
  <2> SUFFICES ASSUME NextBlock PROVE FALSE
    OBVIOUS
  <2>1. Compounded(u, d)' \in Nat /\ Compounded(u, d)' >= Compounded(u, d)
    BY BlockAddsToDebts
  <2> QED BY <1>1, <1>2, <1>3, <2>1
<1>6. InBlock
  BY <1>5, HeightSteps DEF InBlock
<1>7. ASSUME NEW v \in User, NEW a \in Asset, NEW n \in Amount,
             Supply(v, a, n) \/ Withdraw(v, a, n) \/ Borrow(v, a, n)
      PROVE  FALSE
  <2>1. Claim' = Claim \/ Debt' = Debt
    BY <1>6, <1>7, SupplyPaysIn, WithdrawRedeems, BorrowLends
       DEF Ledger!PayIn, Ledger!Redeem, Ledger!Lend, Claim, Debt
  <2> QED BY <1>4, <2>1
<1>8. ASSUME NEW v \in User, NEW w \in User, NEW a \in Asset, NEW n \in Amount, Repay(v, w, a, n)
      PROVE  FALSE
  <2>1. Claim' = Claim
    BY <1>6, <1>8, RepayPaysBack DEF Ledger!PayBack, Claim
  <2> QED BY <1>4, <2>1
<1>9. ASSUME NEW a \in Asset, MintToTreasury(a)
      PROVE  FALSE
  <2>1. Debt' = Debt
    BY <1>6, <1>9, MintCredits DEF Ledger!Credit, Debt
  <2> QED BY <1>4, <2>1
<1>10. ASSUME UNCHANGED <<zVars, debtVars>>
       PROVE  FALSE
  BY <1>4, <1>6, <1>10, ClaimsKept
<1>11. ASSUME NEW l \in User, NEW v \in User, NEW e \in Asset, NEW b \in Asset,
              NEW n \in Amount, NEW asZToken \in BOOLEAN, Liquidate(l, v, e, b, n, asZToken)
       PROVE  Liquidated
  <2> DEFINE deal  == Bought(v, e, b, n)
             fee   == Fee(v, e, b, n)
             taken == Taken(l, v, e, b, n, asZToken)
             more  == IF asZToken THEN taken ELSE 0
             less  == [Claim EXCEPT ![v][e] = @ + (- (fee + taken))]
  <2>1. /\ deal.collateral \in Nat /\ deal.debt \in Nat /\ fee \in Nat /\ fee <= deal.collateral
        /\ Claim' = [less EXCEPT ![l][e] = @ + more]
        /\ Debt' = [Debt EXCEPT ![v][b] = @ - deal.debt]
    BY <1>6, <1>11, LiquidationMoves DEF Ledger!Give
  <2>2. u = v /\ d = b
    BY <1>1, <1>2, <2>1
  <2>3. taken \in Nat
    BY <2>1 DEF Taken
  <2>4. (u = v /\ c = e) \/ (Claim'[u][c] \in Nat /\ Claim'[u][c] >= Claim[u][c])
    <3> DEFINE loss == - (fee + taken)
    <3>1. loss \in Int /\ more \in Nat
      BY <2>1, <2>3
    <3>2. v \in Account /\ l \in Account /\ Claim \in [Account -> [Asset -> Int]]
      BY <1>1 DEF Account
    <3>3. less = [Claim EXCEPT ![v][e] = @ + loss]
      OBVIOUS
    <3> HIDE DEF less, loss, more
    <3>4. /\ less \in [Account -> [Asset -> Int]]
          /\ \A x \in Account, a \in Asset :
               less[x][a] = Claim[x][a] + (IF x = v /\ a = e THEN loss ELSE 0)
      BY <3>1, <3>2, <3>3, GiveAt
    <3>5. Claim'[u][c] = less[u][c] + (IF u = l /\ c = e THEN more ELSE 0)
      BY <1>1, <2>1, <3>1, <3>2, <3>4, GiveAt
    <3>6. CASE ~ (u = v /\ c = e)
      <4>1. less[u][c] = Claim[u][c]
        BY <1>1, <1>3, <3>4, <3>6
      <4> QED BY <1>3, <3>1, <3>5, <4>1
    <3> QED BY <3>6
  <2>5. c = e
    BY <1>1, <1>2, <1>3, <2>4
  <2> QED BY <1>11, <2>2, <2>5
<1> HIDE DEF Liquidated
<1>12. Liquidated
  <2>1. \A v \in Caller.supply \cup Caller.withdraw \cup Caller.borrow \cup Caller.repay
                 \cup Caller.liquidate \cup Caller.mode \cup Caller.use : v \in User
    BY PoolAssumption DEF PoolAssumption
  <2>2. CASE UserStep
    <3>1. ASSUME NEW v \in User, NEW m \in EMode \cup {NoMode}, SetEMode(v, m)
          PROVE  FALSE
      BY <1>10, <3>1 DEF SetEMode, supplyVars
    <3>2. ASSUME NEW v \in User, NEW a \in Asset, NEW on \in BOOLEAN, SetUseAsCollateral(v, a, on)
          PROVE  FALSE
      BY <1>10, <3>2 DEF SetUseAsCollateral
    <3> QED BY <1>7, <1>8, <1>11, <2>1, <2>2, <3>1, <3>2 DEF UserStep
  <2>3. CASE ConfigStep
    <3>1. CASE UNCHANGED stateButConfig
      BY <1>10, <3>1 DEF stateButConfig, supplyVars
    <3> QED BY <1>9, <2>3, <3>1
            DEF ConfigStep, SetStatus, SetBorrowingEnabled, SetUsageAsCollateralEnabled,
                AddIsolatedAsset, RemoveIsolatedAsset, SetBorrowableIsolated,
                SetFreezeEndBlock, SetGracePeriodEnabled, SetEModeEnabled, SetAssetEMode
  <2>4. CASE NextBurnBlock \/ \E a \in Asset : \E x \in Price[a] : ReportPrice(a, x)
    BY <1>10, <2>4 DEF NextBurnBlock, ReportPrice, stateButEnv, supplyVars
  <2>5. CASE UNCHANGED vars
    BY <1>10, <2>5 DEF vars, supplyVars
  <2> QED BY <1>5, <2>2, <2>3, <2>4, <2>5 DEF Next, EnvStep
<1> QED BY <1>6, <1>12 DEF Liquidated

(* The inequalities of SeizureWorth in units, as SeizureRounding counts them. *)
LEMMA WorthInUnits ==
  ASSUME TypeOK, NEW u \in User, NEW c \in Asset, NEW d \in Asset,
         NEW v \in Nat, NEW m \in Nat, NEW w \in Nat,
         2 * (v * (One * One)) <= 2 * (m * (One * One)) + 2 * (One * One)
                                   + Slack(One + Bonus(u, c), price[c], price[d], w)
  PROVE  v <= m + SeizureRounding(u, c, d, w)
<1> DEFINE k == 2 * (One * One)
           s == Slack(One + Bonus(u, c), price[c], price[d], w)
<1>1. /\ One + Bonus(u, c) \in Nat /\ price[c] \in Nat /\ price[d] \in Nat
      /\ k \in Nat \ {0} /\ w <= w
  <2>1. Bonus(u, c) \in Nat
    BY ParamFacts, BonusNat DEF TypeOK
  <2> QED BY <2>1, OneNat DEF TypeOK, EnvTypeOK
<1>2. s \in Nat
  BY <1>1, SlackNat
<1>3. v * k <= m * k + k + s
  <2>1. v * k = 2 * (v * (One * One)) /\ m * k = 2 * (m * (One * One)) /\ k = 2 * (One * One)
    BY OneNat
  <2> HIDE DEF k
  <2> QED BY <2>1
<1>4. SeizureRounding(u, c, d, w) = 1 + s \div k
  <2>1. 2 * One * One = k
    BY OneNat
  <2> QED BY <2>1 DEF SeizureRounding, Slack
<1> HIDE DEF k, s
<1> QED BY <1>1, <1>2, <1>3, <1>4, RoundedDown

(* No liquidation, whoever sends it and however much it asks for, takes    *)
(* collateral worth more than the debt it pays with the bonus, or pays     *)
(* debt worth more than the close factor allows: SeizureRounding is all    *)
(* that the five roundings of Seizure and the two of the values can add    *)
(* up to, at every price, bonus and close factor.                          *)
THEOREM SeizuresBounded ==
  ASSUME NoBaseSupply
  PROVE  Spec => LiquidationBounded
<1> DEFINE Bounded ==
      \A u \in User, c \in Asset, d \in Asset :
        LET taken   == Value(c, Balance(u, c) - Balance(u, c)')
            paid    == Value(d, Compounded(u, d) - Compounded(u, d)')
            allowed == Value(d, Mul(Compounded(u, d), Param[d].closeFactor))
        IN Balance(u, c)' < Balance(u, c) /\ Compounded(u, d)' < Compounded(u, d) =>
             /\ taken <= Mul(paid, One + Bonus(u, c)) + SeizureRounding(u, c, d, taken)
             /\ paid <= allowed + SeizureRounding(u, c, d, allowed)
<1>1. Indexed /\ TypeOK' /\ [Next]_vars => [Bounded]_vars
  <2> SUFFICES ASSUME Indexed, TypeOK', [Next]_vars, NEW u \in User, NEW c \in Asset, NEW d \in Asset,
                      Balance(u, c)' < Balance(u, c), Compounded(u, d)' < Compounded(u, d)
               PROVE  LET taken   == Value(c, Balance(u, c) - Balance(u, c)')
                          paid    == Value(d, Compounded(u, d) - Compounded(u, d)')
                          allowed == Value(d, Mul(Compounded(u, d), Param[d].closeFactor))
                      IN /\ taken <= Mul(paid, One + Bonus(u, c)) + SeizureRounding(u, c, d, taken)
                         /\ paid <= allowed + SeizureRounding(u, c, d, allowed)
    OBVIOUS
  <2>1. PICK l \in User, n \in Amount, asZToken \in BOOLEAN :
          InBlock /\ Liquidate(l, u, c, d, n, asZToken)
    BY BothFall
  <2> DEFINE most  == Mul(Compounded(u, d), Param[d].closeFactor)
             tried == IF n > most THEN most ELSE n
             deal  == Seizure(u, c, d, tried)
             part  == Balance(u, c) - Balance(u, c)'
             gone  == Compounded(u, d) - Compounded(u, d)'
             rate  == One + Bonus(u, c)
  <2>2. /\ rate \in Nat /\ price[c] \in Nat /\ price[d] \in Nat /\ n \in Nat
        /\ most \in Nat /\ tried \in Nat /\ tried <= most
    <3>1. Bonus(u, c) \in Nat /\ Param[d].closeFactor \in Nat
      BY ParamFacts, BonusNat DEF Indexed, TypeOK
    <3>2. most \in Nat
      BY <3>1, CompoundedNat, MulNat DEF Indexed, TypeOK
    <3> QED BY <3>1, <3>2, OneNat, AmountNat DEF Indexed, TypeOK, EnvTypeOK
  <2>3. /\ deal.collateral \in Nat /\ deal.debt \in Nat /\ gone = deal.debt
        /\ part \in Nat /\ part <= deal.collateral
    <3> DEFINE fee   == Fee(u, c, d, n)
               taken == Taken(l, u, c, d, n, asZToken)
    <3>1. Bought(u, c, d, n) = deal
      BY DEF Bought
    <3>2. /\ deal.collateral \in Nat /\ deal.debt \in Nat /\ fee \in Nat /\ fee <= deal.collateral
          /\ Claim[u][c] - Claim'[u][c] = fee + taken /\ Debt[u][d] - Debt'[u][d] = deal.debt
      BY <2>1, <3>1, LiquidationMoves
    <3>3. taken \in Nat /\ fee + taken <= deal.collateral
      BY <3>1, <3>2 DEF Taken
    <3>4. part = Claim[u][c] - Claim'[u][c] /\ gone = Debt[u][d] - Debt'[u][d]
      BY DEF Claim, Debt, Account
    <3> HIDE DEF fee, taken, part, gone, deal
    <3> QED BY <3>2, <3>3, <3>4
  <2> DEFINE taken   == Mul(part, price[c])
             paid    == Mul(deal.debt, price[d])
             asked   == Mul(tried, price[d])
             allowed == Mul(most, price[d])
             O       == One * One
  <2> HIDE DEF part, gone, tried, most
  <2>4. /\ 2 * (taken * O) <= 2 * (Mul(paid, rate) * O) + 2 * O + Slack(rate, price[c], price[d], taken)
        /\ 2 * (paid * O) <= 2 * (asked * O) + 2 * O + Slack(rate, price[c], price[d], asked)
    BY <2>2, <2>3, SeizureWorth DEF Indexed, Value
  <2> HIDE DEF deal
  <2>5. /\ taken \in Nat /\ paid \in Nat /\ asked \in Nat /\ allowed \in Nat /\ asked <= allowed
        /\ Mul(paid, rate) \in Nat
    <3>1. taken \in Nat /\ paid \in Nat /\ asked \in Nat /\ allowed \in Nat
      BY <2>2, <2>3, MulNat
    <3>2. asked <= allowed
      <4>1. price[d] <= price[d]
        BY <2>2
      <4> QED BY <2>2, <4>1, MulMonotoneBoth
    <3>3. Mul(paid, rate) \in Nat
      BY <2>2, <3>1, MulNat
    <3> QED BY <3>1, <3>2, <3>3
  <2> HIDE DEF taken, paid, asked, allowed, rate
  <2>6. 2 * (paid * O) <= 2 * (allowed * O) + 2 * O + Slack(rate, price[c], price[d], allowed)
    <3>1. asked * O <= allowed * O /\ asked * O \in Nat /\ allowed * O \in Nat
      BY <2>5, OneNat
    <3>2. Slack(rate, price[c], price[d], asked) <= Slack(rate, price[c], price[d], allowed)
      BY <2>2, <2>5, SlackNat
    <3>3. /\ Slack(rate, price[c], price[d], asked) \in Nat
          /\ Slack(rate, price[c], price[d], allowed) \in Nat
      <4>1. asked <= asked /\ allowed <= allowed
        BY <2>5
      <4> QED BY <2>2, <2>5, <4>1, SlackNat
    <3>4. paid * O \in Nat /\ O \in Nat
      BY <2>5, OneNat
    <3> HIDE DEF O
    <3> QED BY <2>4, <3>1, <3>2, <3>3, <3>4
  <2>7. taken <= Mul(paid, rate) + SeizureRounding(u, c, d, taken)
    BY <2>4, <2>5, WorthInUnits DEF Indexed, rate
  <2>8. paid <= allowed + SeizureRounding(u, c, d, allowed)
    BY <2>5, <2>6, WorthInUnits DEF Indexed, rate
  <2> QED BY <2>3, <2>7, <2>8 DEF Value, taken, paid, allowed, rate, part, gone, most
<1> QED BY <1>1, IndexedInvariant, TypeCorrect, PTL DEF Spec, LiquidationBounded

-----------------------------------------------------------------------------
(* Health.  A position is a matter of its user, of who pays or seizes it,  *)
(* and of those who set prices and parameters.                             *)

OwnEntries(u) ==
  <<zBalance[u], zIndex[u], collateral[u], principal[u], debtIndex[u], debtUpdated[u], eMode[u]>>

(* The transactions that name user u. *)
Names(u) ==
  \/ \E a \in Asset, n \in Amount :
       \/ Supply(u, a, n) \/ Withdraw(u, a, n) \/ Borrow(u, a, n)
       \/ \E p \in User : Repay(p, u, a, n)
       \/ \E v \in User, d \in Asset, asZToken \in BOOLEAN :
            Liquidate(v, u, a, d, n, asZToken) \/ Liquidate(u, v, a, d, n, asZToken)
  \/ \E m \in EMode \cup {NoMode} : SetEMode(u, m)
  \/ \E a \in Asset, on \in BOOLEAN : SetUseAsCollateral(u, a, on)

LEMMA HealthOfEntries ==
  ASSUME InBlock, UNCHANGED <<configVars, price>>, NEW u \in User, UNCHANGED OwnEntries(u)
  PROVE  Liquidatable(u)' <=> Liquidatable(u)
<1>1. /\ zBalance'[u] = zBalance[u] /\ zIndex'[u] = zIndex[u] /\ collateral'[u] = collateral[u]
      /\ principal'[u] = principal[u] /\ debtIndex'[u] = debtIndex[u]
      /\ debtUpdated'[u] = debtUpdated[u] /\ eMode'[u] = eMode[u]
      /\ collateralOn' = collateralOn /\ risk' = risk /\ assetEMode' = assetEMode
      /\ price' = price
  BY DEF OwnEntries, configVars
<1>2. \A a \in Asset : Compounded(u, a)' = Compounded(u, a)
  BY <1>1, DueKept
<1>3. \A a \in Asset : Balance(u, a)' = Balance(u, a)
  BY <1>1, BalanceKept DEF Account
<1>4. \A a \in Asset : CollateralIn(u, a)' = CollateralIn(u, a)
  BY <1>1, <1>3 DEF CollateralIn, Value
<1>5. [a \in Asset |-> CollateralIn(u, a)]' = [a \in Asset |-> CollateralIn(u, a)]
  BY <1>4
<1>6. [a \in Asset |-> Value(a, Compounded(u, a))]' = [a \in Asset |-> Value(a, Compounded(u, a))]
  BY <1>1, <1>2 DEF Value
<1>7. CollateralValue(u)' = CollateralValue(u) /\ DebtValue(u)' = DebtValue(u)
  BY <1>5, <1>6 DEF CollateralValue, DebtValue
<1>8. \A a \in Asset : Threshold(eMode[u], a)' = Threshold(eMode[u], a)
  BY <1>1 DEF Threshold, InEMode
<1>9. [a \in Asset |-> Mul(CollateralIn(u, a), Threshold(eMode[u], a))]'
        = [a \in Asset |-> Mul(CollateralIn(u, a), Threshold(eMode[u], a))]
  BY <1>4, <1>8
<1>10. CurrentThreshold(u, eMode[u])' = CurrentThreshold(u, eMode[u])
  BY <1>7, <1>9 DEF CurrentThreshold, Weighted
<1> QED BY <1>7, <1>10 DEF Liquidatable, HealthBelow

LEMMA OthersEntries ==
  ASSUME TypeOK, [Next]_vars, NEW u \in User, ~ Names(u)
  PROVE  UNCHANGED OwnEntries(u)
<1>1. /\ zBalance \in [Account -> [Asset -> Nat]] /\ zIndex \in [Account -> [Asset -> Nat]]
      /\ collateral \in [User -> [Asset -> BOOLEAN]]
      /\ principal \in [User -> [Asset -> Nat]] /\ debtIndex \in [User -> [Asset -> Nat]]
      /\ debtUpdated \in [User -> [Asset -> Nat]] /\ eMode \in [User -> EMode \cup {NoMode}]
  BY DEF TypeOK, SupplyTypeOK, DebtTypeOK, ModeTypeOK
<1>2. u \in Account /\ u # Treasury
  BY PoolAssumption DEF Account, PoolAssumption
<1>3. \A v \in Caller.supply \cup Caller.withdraw \cup Caller.borrow \cup Caller.repay
                 \cup Caller.liquidate \cup Caller.mode \cup Caller.use : v \in User
  BY PoolAssumption DEF PoolAssumption
<1>4. CASE UserStep
  <2>1. ASSUME NEW v \in User, NEW a \in Asset, NEW n \in Amount, Supply(v, a, n)
        PROVE  UNCHANGED OwnEntries(u)
    <3>1. v # u
      BY <2>1 DEF Names
    <3> QED BY <1>1, <1>2, <2>1, <3>1 DEF Supply, OwnEntries, debtVars
  <2>2. ASSUME NEW v \in User, NEW a \in Asset, NEW n \in Amount, Withdraw(v, a, n)
        PROVE  UNCHANGED OwnEntries(u)
    <3>1. v # u
      BY <2>2 DEF Names
    <3> QED BY <1>1, <1>2, <2>2, <3>1 DEF Withdraw, OwnEntries, CollateralAfter, debtVars
  <2>3. ASSUME NEW v \in User, NEW a \in Asset, NEW n \in Amount, Borrow(v, a, n)
        PROVE  UNCHANGED OwnEntries(u)
    <3>1. v # u
      BY <2>3 DEF Names
    <3> QED BY <1>1, <1>2, <2>3, <3>1 DEF Borrow, OwnEntries, supplyVars, zVars
  <2>4. ASSUME NEW p \in User, NEW v \in User, NEW a \in Asset, NEW n \in Amount,
               Repay(p, v, a, n)
        PROVE  UNCHANGED OwnEntries(u)
    <3>1. v # u
      BY <2>4 DEF Names
    <3> QED BY <1>1, <1>2, <2>4, <3>1 DEF Repay, OwnEntries, supplyVars, zVars
  <2>5. ASSUME NEW l \in User, NEW v \in User, NEW c \in Asset, NEW d \in Asset,
               NEW n \in Amount, NEW asZToken \in BOOLEAN, Liquidate(l, v, c, d, n, asZToken)
        PROVE  UNCHANGED OwnEntries(u)
    <3>1. v # u /\ l # u
      BY <2>5 DEF Names
    <3>2. PICK gain, fee, income : SeizedBalances(l, v, c, gain, fee, income, asZToken)
      BY <2>5, Zenon DEF Liquidate
    <3>3. /\ zBalance'[u] = zBalance[u] /\ zIndex'[u] = zIndex[u]
          /\ collateral'[u] = collateral[u]
      BY <1>1, <1>2, <3>1, <3>2 DEF SeizedBalances, CollateralAfter
    <3>4. /\ \E q : principal' = [principal EXCEPT ![v][d] = q]
          /\ \E q : debtIndex' = [debtIndex EXCEPT ![v][d] = q]
          /\ debtUpdated' = [debtUpdated EXCEPT ![v][d] = height]
          /\ eMode' = eMode
      BY <2>5, Zenon DEF Liquidate
    <3>5. /\ principal'[u] = principal[u] /\ debtIndex'[u] = debtIndex[u]
          /\ debtUpdated'[u] = debtUpdated[u]
      BY <1>1, <3>1, <3>4
    <3> QED BY <3>3, <3>4, <3>5 DEF OwnEntries
  <2>6. ASSUME NEW v \in User, NEW m \in EMode \cup {NoMode}, SetEMode(v, m)
        PROVE  UNCHANGED OwnEntries(u)
    <3>1. v # u
      BY <2>6 DEF Names
    <3> QED BY <1>1, <2>6, <3>1 DEF SetEMode, OwnEntries, supplyVars, zVars, debtVars
  <2>7. ASSUME NEW v \in User, NEW a \in Asset, NEW on \in BOOLEAN, SetUseAsCollateral(v, a, on)
        PROVE  UNCHANGED OwnEntries(u)
    <3>1. v # u
      BY <2>7 DEF Names
    <3> QED BY <1>1, <2>7, <3>1 DEF SetUseAsCollateral, OwnEntries, zVars, debtVars
  <2> QED BY <1>3, <1>4, <2>1, <2>2, <2>3, <2>4, <2>5, <2>6, <2>7 DEF UserStep
<1>5. CASE ConfigStep
  <2>1. ASSUME NEW a \in Asset, MintToTreasury(a)
        PROVE  UNCHANGED OwnEntries(u)
    BY <1>1, <1>2, <2>1 DEF MintToTreasury, OwnEntries, debtVars
  <2>2. CASE UNCHANGED stateButConfig
    BY <2>2 DEF stateButConfig, supplyVars, zVars, debtVars, OwnEntries
  <2> QED BY <1>5, <2>1, <2>2
          DEF ConfigStep, SetStatus, SetBorrowingEnabled, SetUsageAsCollateralEnabled,
              AddIsolatedAsset, RemoveIsolatedAsset, SetBorrowableIsolated,
              SetFreezeEndBlock, SetGracePeriodEnabled, SetEModeEnabled, SetAssetEMode
<1>6. CASE EnvStep \/ UNCHANGED vars
  BY <1>6 DEF EnvStep, NextBlock, NextBurnBlock, ReportPrice, stateButEnv, vars,
              supplyVars, zVars, debtVars, OwnEntries
<1> QED BY <1>4, <1>5, <1>6 DEF Next

(* Within a block, and while prices and parameters stay what they are, no  *)
(* transaction that does not name a user, however it moves the indices,    *)
(* rates and totals of the reserves the user is in, makes the position     *)
(* liquidatable or saves it.                                               *)
HealthIsOnesOwn ==
  [][UNCHANGED <<configVars, price, height>> =>
       \A u \in User : Names(u) \/ (Liquidatable(u)' <=> Liquidatable(u))]_vars

(* The indices of every reserve stand still within a block, so what a user *)
(* has and owes depends on the entries of the user alone.                  *)
THEOREM OthersKeepHealth ==
  ASSUME NoBaseSupply
  PROVE  Spec => HealthIsOnesOwn
<1> DEFINE Own == UNCHANGED <<configVars, price, height>> =>
                    \A u \in User : Names(u) \/ (Liquidatable(u)' <=> Liquidatable(u))
<1>1. Indexed /\ TypeOK' /\ [Next]_vars => [Own]_vars
  <2> SUFFICES ASSUME Indexed, TypeOK', [Next]_vars, UNCHANGED <<configVars, price, height>>,
                      NEW u \in User, ~ Names(u)
               PROVE  Liquidatable(u)' <=> Liquidatable(u)
    OBVIOUS
  <2>1. InBlock
    BY DEF InBlock
  <2>2. UNCHANGED OwnEntries(u)
    BY OthersEntries DEF Indexed
  <2> QED BY <2>1, <2>2, HealthOfEntries
<1> QED BY <1>1, IndexedInvariant, TypeCorrect, PTL DEF Spec, HealthIsOnesOwn
=============================================================================
