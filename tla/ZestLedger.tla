------------------------------ MODULE ZestLedger ------------------------------
(***************************************************************************)
(* What a lending pool promises, without indices, rates and lists: tokens  *)
(* in the vault and with the accounts, what the pool owes each account and *)
(* what each user owes the pool.  A transaction moves one amount between   *)
(* them and nothing else; interest comes with blocks, never with a         *)
(* transaction, and only ever adds.  ZestPoolLedger shows that the         *)
(* contracts keep this promise.                                            *)
(***************************************************************************)
EXTENDS Integers

CONSTANTS User, Treasury, Asset

VARIABLES
  cash,    \* tokens of the pool
  tokens,  \* tokens of the accounts
  claim,   \* what the pool owes an account, with interest
  debt,    \* what a user owes the pool, with interest
  block    \* the block of the chain

vars == <<cash, tokens, claim, debt, block>>

Init ==
  /\ cash = [a \in Asset |-> 0]
  /\ claim = [x \in User \cup {Treasury} |-> [a \in Asset |-> 0]]
  /\ debt = [u \in User |-> [a \in Asset |-> 0]]

(* The tokens of asset a that enter, or leave, the pool in a step. *)
Received(a) == cash'[a] - cash[a]

Paid(a) == cash[a] - cash'[a]

(* The amounts f, with n more of asset a for x. *)
Give(f, x, a, n) == [f EXCEPT ![x][a] = @ + n]

PayIn(u, a) ==
  LET n == Received(a)
  IN /\ n > 0
     /\ cash' = [cash EXCEPT ![a] = @ + n]
     /\ tokens' = [tokens EXCEPT ![u][a] = @ - n]
     /\ claim' = [claim EXCEPT ![u][a] = @ + n]
     /\ UNCHANGED <<debt, block>>

Redeem(u, a) ==
  LET n == Paid(a)
  IN /\ n > 0 /\ n <= claim[u][a]
     /\ cash' = [cash EXCEPT ![a] = @ - n]
     /\ tokens' = [tokens EXCEPT ![u][a] = @ + n]
     /\ claim' = [claim EXCEPT ![u][a] = @ - n]
     /\ UNCHANGED <<debt, block>>

Lend(u, a) ==
  LET n == Paid(a)
  IN /\ n > 0
     /\ cash' = [cash EXCEPT ![a] = @ - n]
     /\ tokens' = [tokens EXCEPT ![u][a] = @ + n]
     /\ debt' = [debt EXCEPT ![u][a] = @ + n]
     /\ UNCHANGED <<claim, block>>

(* p pays for u *)
PayBack(p, u, a) ==
  LET n == Received(a)
  IN /\ n > 0 /\ n <= debt[u][a]
     /\ cash' = [cash EXCEPT ![a] = @ + n]
     /\ tokens' = [tokens EXCEPT ![p][a] = @ - n]
     /\ debt' = [debt EXCEPT ![u][a] = @ - n]
     /\ UNCHANGED <<claim, block>>

(* l pays a debt of u in d, for a part of what the pool owes u in c: a fee *)
(* of it to the treasury, the rest to l, in tokens or as l's own claim.    *)
Seize(l, u, c, d, asClaim) ==
  LET paid   == debt[u][d] - debt'[u][d]
      seized == claim[u][c] - claim'[u][c]
      fee    == tokens'[Treasury][c] - tokens[Treasury][c]
      gain   == seized - fee
      out    == IF asClaim THEN 0 ELSE gain
  IN /\ paid > 0 /\ fee >= 0 /\ gain >= 0
     /\ debt' = [debt EXCEPT ![u][d] = @ - paid]
     /\ claim' = Give(Give(claim, u, c, - seized), l, c, IF asClaim THEN gain ELSE 0)
     /\ tokens' = Give(Give(Give(tokens, l, d, - paid), l, c, out), Treasury, c, fee)
     /\ cash' = [a \in Asset |->
          cash[a] + (IF a = d THEN paid ELSE 0) - (IF a = c THEN out + fee ELSE 0)]
     /\ UNCHANGED block

(* The treasury is credited its share of the interest. *)
Credit(a) ==
  /\ claim'[Treasury][a] > claim[Treasury][a]
  /\ claim' = [claim EXCEPT ![Treasury][a] = claim'[Treasury][a]]
  /\ UNCHANGED <<cash, tokens, debt, block>>

(* A block, with the interest of both sides. *)
Accrue ==
  /\ block' > block
  /\ \A a \in Asset :
       /\ \A x \in User \cup {Treasury} : claim'[x][a] >= claim[x][a]
       /\ \A u \in User : debt'[u][a] >= debt[u][a]
  /\ UNCHANGED <<cash, tokens>>

Next ==
  \/ \E u \in User, a \in Asset : PayIn(u, a) \/ Redeem(u, a) \/ Lend(u, a)
  \/ \E p, u \in User, a \in Asset : PayBack(p, u, a)
  \/ \E l, u \in User, c, d \in Asset, asClaim \in BOOLEAN : Seize(l, u, c, d, asClaim)
  \/ \E a \in Asset : Credit(a)
  \/ Accrue

Spec == Init /\ [][Next]_vars
=============================================================================
