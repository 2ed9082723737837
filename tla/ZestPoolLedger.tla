---------------------------- MODULE ZestPoolLedger ----------------------------
(***************************************************************************)
(* The lending pool of ZestPool implements the ledger of ZestLedger: an    *)
(* account is owed the balance its z-tokens have grown to, and owes what   *)
(* its debt has compounded to.                                             *)
(***************************************************************************)
EXTENDS ZestPool

Ledger == INSTANCE ZestLedger WITH
  cash   <- vault,
  tokens <- wallet,
  claim  <- [x \in Account |-> [a \in Asset |-> Balance(x, a)]],
  debt   <- [u \in User |-> [a \in Asset |-> Compounded(u, a)]],
  block  <- height

(* Every transaction of the pool moves exactly the amounts it names: a     *)
(* supply, withdrawal, borrow, repayment or liquidation changes the        *)
(* balances and debts of no one else, makes and loses no unit by rounding  *)
(* an index, and adds no interest; only a block does.                      *)
ImplementsLedger == Ledger!Spec
=============================================================================
