------------------------------ MODULE ZestQuorum ------------------------------
(***************************************************************************)
(* What the governance contract comes to: a team that is appointed once,   *)
(* and a switch that its members throw together.  No counters, no heights, *)
(* no proposals that are executed later: a proposal is a question that     *)
(* members assent to, each at most once and for ever.                      *)
(***************************************************************************)
EXTENDS Naturals, FiniteSets

CONSTANTS Member, Question

VARIABLES
  appointed, \* has the team been appointed
  team,      \* those who may assent
  needed,    \* how many must assent
  assent,    \* per question: the members who have
  switch     \* the switch

vars == <<appointed, team, needed, assent, switch>>

Init ==
  /\ ~ appointed /\ team = {} /\ needed = 1
  /\ assent = [q \in Question |-> {}]
  /\ switch = FALSE

Appoint ==
  /\ ~ appointed /\ appointed'
  /\ team' \subseteq Member
  /\ UNCHANGED <<assent, switch>>

(* A call of a member for q throws the switch when enough members, the     *)
(* caller included, have assented to q, and only then.                     *)
Assent(m, q) ==
  /\ m \in team
  /\ assent' = [assent EXCEPT ![q] = @ \cup {m}]
  /\ switch' = IF Cardinality(assent'[q]) >= needed THEN ~ switch ELSE switch
  /\ UNCHANGED <<appointed, team, needed>>

Next == Appoint \/ \E m \in Member, q \in Question : Assent(m, q)

Spec == Init /\ [][Next]_vars
=============================================================================
