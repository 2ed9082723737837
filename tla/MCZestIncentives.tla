--------------------------- MODULE MCZestIncentives ---------------------------
(***************************************************************************)
(* ZestIncentives on a small instance: two users, one of whom holds        *)
(* z-tokens since before the program, with fixed-point numbers of three    *)
(* decimals, z-tokens of two and reward tokens of three.                   *)
(***************************************************************************)
EXTENDS ZestIncentives

CONSTANTS alice, bob

(* The block times grow, so that no two intervals are alike.               *)
Clock == [h \in 0 .. MaxHeight |-> 10 * h * h]

EarlyHolder == [u \in User |-> IF u = alice THEN 10 ELSE 0]

Prices == [t \in Token |-> IF t = "supplied" THEN {1000, 2000} ELSE {1000}]

Decimals == [t \in Token |-> IF t = "supplied" THEN {2} ELSE {3}]
=============================================================================
