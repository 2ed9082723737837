---------------------------- MODULE MCZestFlashLoan ----------------------------
(* The instances of MCZestPool with flash loans: a fee of 40%, of which the   *)
(* protocol takes a half, or the 30% that the tests of the contracts set.     *)
EXTENDS MCZestPool, ZestFlashLoan

FlashFees(share) == [a \in Asset |-> [enabled |-> TRUE, total |-> 4000, protocol |-> share]]

HalfToProtocol == FlashFees(5000)

AsTested == FlashFees(3000)
=============================================================================
