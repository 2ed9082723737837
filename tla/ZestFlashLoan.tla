----------------------------- MODULE ZestFlashLoan -----------------------------
(***************************************************************************)
(* Flash loans of the pool: flashloan-liquidation-step-1 and -2 of         *)
(* pool/pool-borrow.clar, update-state-on-flash-loan of the reserve, and   *)
(* flashloan-liquidate of the wrapper, which calls the first step, a       *)
(* liquidation, a script of the borrower and the second step in one        *)
(* transaction.                                                            *)
(*                                                                         *)
(* The steps are actions of their own, for the pool they are calls of      *)
(* their own; nothing else runs while a loan is out.  When the wrapper     *)
(* cannot go on, the chain undoes the whole transaction: the states with a *)
(* loan from which no second step follows are not states of the chain, and *)
(* the properties say nothing that only such a state could refute.         *)
(***************************************************************************)
EXTENDS ZestPool

CONSTANTS
  FlashParam,   \* per asset: whether flash loans are enabled, and their fees
  FlashCaller,  \* approved senders, who liquidate; a sender receives the
                \* loan itself, as it is asked to transfer the tokens back
  FlashAmount,  \* the amounts they borrow
  Proceeds,     \* what the script of a borrower may earn of the asset
  MaxLoans,     \* bound on the number of flash loans
  NoLoan

ASSUME FlashAssumption ==
  /\ FlashParam \in [Asset -> [enabled: BOOLEAN, total: Nat, protocol: Nat]]
  /\ FlashCaller \subseteq Caller.liquidate
  /\ FlashAmount \subseteq Nat /\ Proceeds \subseteq Nat /\ MaxLoans \in Nat
  /\ NoLoan \notin [by: FlashCaller, asset: Asset, amount: Nat, before: Nat,
                    liquidated: BOOLEAN]

VARIABLES
  loan,   \* the flash loan of the transaction that is running
  loans   \* how many there have been

flashVars == <<vars, loan, loans>>

-----------------------------------------------------------------------------
(* amount-fee, and the share of it that is the protocol's. *)
AmountFee(a, n) == (n * FlashParam[a].total) \div BasisPoints
ProtocolFee(a, n) == (AmountFee(a, n) * FlashParam[a].protocol) \div BasisPoints

Income(a, n) == AmountFee(a, n) - ProtocolFee(a, n)

(* What both steps check. *)
MayLend(a, n) ==
  /\ vault[a] >= n
  /\ AmountFee(a, n) > 0 /\ ProtocolFee(a, n) > 0
  /\ FlashParam[a].enabled /\ active[a] /\ Open(a)

(* flashloan-liquidation-step-1 *)
StepOne(b, a, n) ==
  /\ loan = NoLoan /\ loans < MaxLoans
  /\ MayLend(a, n)
  /\ vault' = [vault EXCEPT ![a] = @ - n]
  /\ wallet' = [wallet EXCEPT ![b][a] = @ + n]
  /\ loan' = [by |-> b, asset |-> a, amount |-> n, before |-> wallet[b][a],
              liquidated |-> FALSE]
  /\ loans' = loans + 1
  /\ UNCHANGED <<reserveVars, debtVars, supplyVars, eMode, isoDebt, registered,
                 configVars, envVars>>

(* liquidation-call, as the wrapper makes it *)
LiquidateBetween(u, c, d, n, asZToken) ==
  /\ loan # NoLoan /\ ~ loan.liquidated
  /\ Liquidate(loan.by, u, c, d, n, asZToken)
  /\ loan' = [loan EXCEPT !.liquidated = TRUE]
  /\ UNCHANGED loans

IndexWithWholeFee(a, n, income) ==
  Mul(One + (AmountFee(a, n) * One) \div (vault[a] + totalBorrows[a]), NextLiqIndex(a))

(* cumulate-to-liquidity-index.  The liquidity is what the pool finds at   *)
(* the second step, when the loan has not been transferred back.           *)
IndexWithIncome(a, n, income) ==
  Mul(One + (income * One) \div (vault[a] + totalBorrows[a]), NextLiqIndex(a))

(* update-state-on-flash-loan.  The rates are those of a vault to which    *)
(* the income is added once more: it holds the loan and its fee by then.   *)
UpdateStateOnFlashLoan(a, n) ==
  LET cash == vault[a] + n + AmountFee(a, n) + Income(a, n)
      util == Utilization(totalBorrows[a], cash)
  IN /\ liqIndex' = [liqIndex EXCEPT ![a] = IndexWithIncome(a, n, Income(a, n))]
     /\ borIndex' = [borIndex EXCEPT ![a] = NextBorIndex(a)]
     /\ accrued' = [accrued EXCEPT ![a] = @ + TreasuryShare(a, totalBorrows[a])]
     /\ liqRate' = [liqRate EXCEPT ![a] = LiquidityRate(a, util)]
     /\ borRate' = [borRate EXCEPT ![a] = BorrowRate(a, util)]
     /\ updated' = [updated EXCEPT ![a] = height]
     /\ UNCHANGED totalBorrows

(* The script, which earns p, and flashloan-liquidation-step-2.  The       *)
(* wrapper asks for the loan and the fee; the share of the protocol is     *)
(* transferred from the borrower on top of them.                           *)
StepTwo(p) ==
  LET b == loan.by  a == loan.asset  n == loan.amount
      held == wallet[b][a] + p
      back == n + AmountFee(a, n)
  IN /\ loan # NoLoan /\ loan.liquidated
     /\ MayLend(a, n) /\ Income(a, n) >= 0
     /\ vault[a] + totalBorrows[a] > 0
     /\ held >= loan.before + back /\ held >= back + ProtocolFee(a, n)
     /\ UpdateStateOnFlashLoan(a, n)
     /\ vault' = [vault EXCEPT ![a] = @ + back]
     /\ wallet' = [wallet EXCEPT ![b][a] = held - back - ProtocolFee(a, n),
                                 ![Treasury][a] = @ + ProtocolFee(a, n)]
     /\ loan' = NoLoan /\ UNCHANGED loans
     /\ UNCHANGED <<debtVars, supplyVars, eMode, isoDebt, registered, configVars, envVars>>

FlashInit == Init /\ loan = NoLoan /\ loans = 0

FlashNext ==
  \/ loan = NoLoan /\ Next /\ UNCHANGED <<loan, loans>>
  \/ \E b \in FlashCaller, a \in Asset, n \in FlashAmount : StepOne(b, a, n)
  \/ \E u \in User, c, d \in Asset, n \in Amount, asZToken \in BOOLEAN :
       LiquidateBetween(u, c, d, n, asZToken)
  \/ \E p \in Proceeds : StepTwo(p)

(* No transaction is ever certain to be sent: no fairness.                 *)
FlashSpec == FlashInit /\ [][FlashNext]_flashVars

-----------------------------------------------------------------------------
(* Properties. *)

(* Without interest, the tokens in the vault, those of borrowers and the   *)
(* flash loan cover all z-tokens, through every transaction: liquidations  *)
(* with their fees, and flash loans with their income, whose half at most  *)
(* is the depositors'.                                                     *)
Backed ==
  \A a \in Asset :
    Deposits(a) <= vault[a] + totalBorrows[a]
                     + (IF loan # NoLoan /\ loan.asset = a THEN loan.amount ELSE 0)

(* A flash loan raises the deposits by its income and no more, but for one *)
(* unit of rounding in the index and one in each balance.                  *)
IncomeIsShared ==
  [][\A a \in Asset : loan # NoLoan /\ loan' = NoLoan /\ loan.asset = a =>
       Deposits(a)' <= Deposits(a) + Income(a, loan.amount) + Cardinality(Account) + 1]_flashVars

=============================================================================
