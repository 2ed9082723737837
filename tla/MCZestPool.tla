----------------------------- MODULE MCZestPool -----------------------------
(***************************************************************************)
(* ZestPool on small instances.  Two users and two assets: `stx`, used as  *)
(* collateral, and `usd`, borrowed; each run switches on the part of the   *)
(* protocol it is about.  A fixed-point number has two decimals.           *)
(***************************************************************************)
EXTENDS ZestPoolLedger

CONSTANTS alice, bob, treasury, stx, usd, stable

(* The block times grow, so that no two intervals are alike.               *)
Clock == [h \in 0 .. MaxHeight |-> 10 * h * h]

(* Risk parameters in hundredths: collateral counts for 70%, liquidation   *)
(* below 80%, a bonus of 10%, half of a debt at a time, a fee of half of   *)
(* the bonus; rates with a kink at 80%.                                    *)
Standard ==
  [ltv |-> 70, threshold |-> 80, bonus |-> 10, eModeBonus |-> 5,
   supplyCap |-> 10000, borrowCap |-> 10000, debtCeiling |-> 60,
   reserveFactor |-> 20, optimal |-> 80,
   baseBorrow |-> 10, slope1 |-> 20, slope2 |-> 100, baseSupply |-> 0,
   closeFactor |-> 50, originationFee |-> 5000, gracePeriod |-> 1]

StandardParam == [a \in Asset |-> Standard]

(* No interest. *)
FreeParam ==
  [a \in Asset |-> [Standard EXCEPT !.baseBorrow = 0, !.slope1 = 0, !.slope2 = 0]]

(* Nor can stx be borrowed, so that its use as collateral is what a switch *)
(* of its usage changes.                                                   *)
CollateralParam == [FreeParam EXCEPT ![stx].borrowCap = 0]

(* The risk parameters of the start, or those of an asset on its way out.  *)
PhasedOut ==
  {[ltv |-> 70, threshold |-> 80, bonus |-> 10], [ltv |-> 0, threshold |-> 50, bonus |-> 20]}

StableEMode == [m \in EMode |-> [ltv |-> 90, threshold |-> 95]]

Steady == [a \in Asset |-> IF a = stx THEN {200} ELSE {100}]

(* The collateral may lose almost half of its price. *)
Falling == [a \in Asset |-> IF a = stx THEN {200, 110} ELSE {100}]

(* The collateral may lose most of its price. *)
Collapsing == [a \in Asset |-> IF a = stx THEN {200, 110, 60} ELSE {100}]

(* alice holds the collateral, bob the rest and some collateral. *)
Endowment ==
  [x \in Account |-> [a \in Asset |->
     CASE x = alice /\ a = stx -> 50
       [] x = bob /\ a = usd -> 100
       [] x = alice /\ a = stable -> 50
       [] OTHER -> 0]]

(* The same, with just enough for bob to lend once and to liquidate.       *)
LeanEndowment == [Endowment EXCEPT ![bob][usd] = 78]

(* Who sends what: everyone everything; alice the borrower and bob the     *)
(* lender and liquidator; or the same without liquidations.                *)
Everyone ==
  [t \in {"supply", "withdraw", "borrow", "repay", "liquidate", "mode", "use"} |-> User]

Lending == [Everyone EXCEPT !.mode = {}, !.liquidate = {}]

Liquidating ==
  [Everyone EXCEPT !.withdraw = {alice}, !.borrow = {alice}, !.repay = {alice},
                   !.liquidate = {bob}, !.mode = {}, !.use = {alice}]

(* The same, with alice in and out of modes. *)
LiquidatingModes == [Liquidating EXCEPT !.mode = {alice}]

(* alice borrows, in and out of modes; bob only lends and pays debts.      *)
Switching ==
  [Everyone EXCEPT !.withdraw = {alice}, !.borrow = {alice}, !.liquidate = {},
                   !.mode = {alice}, !.use = {alice}]

NoEMode0 == [a \in Asset |-> NoMode]

(* stx and stable are of the e-mode type. *)
StableEMode0 == [a \in Asset |-> IF a = usd THEN NoMode ELSE CHOOSE m \in EMode : TRUE]
=============================================================================
