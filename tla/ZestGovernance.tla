--------------------------- MODULE ZestGovernance ---------------------------
(***************************************************************************)
(* governance/zest-governance.clar: an executive team that switches the    *)
(* emergency shutdown, a signer team that is to execute proposals, and the *)
(* bootstrap that installs both.                                           *)
(*                                                                         *)
(* A proposal is a contract; what its execute function does is data: the   *)
(* settings it makes through the DAO functions.  The DAO functions check   *)
(* that the sender of the transaction is the governance contract itself,   *)
(* so a call of one by anybody else fails and is no step.                  *)
(***************************************************************************)
EXTENDS Integers, FiniteSets

CONSTANTS
  Member,      \* principals that may serve in a team
  Deployer,    \* the principal that deploys the contract
  Governance,  \* the governance contract as a principal
  Proposal,    \* proposal contracts
  Effect,      \* per proposal: what its execute sets
  Schedule,    \* per proposal: its start and end, once it is added
  CoolDown,    \* proposal-cool-down-period
  Sunset0,     \* the sunset height of both teams at deployment
  MaxBurn      \* bound on the Bitcoin block height

EffectType ==
  [executives: SUBSET Member, executiveRequired: Nat, executiveSunset: Nat,
   signers: SUBSET Member, signerRequired: Nat, signerSunset: Nat,
   adds: SUBSET Proposal]

ASSUME GovernanceAssumption ==
  /\ IsFiniteSet(Member)
  /\ Deployer # Governance /\ Governance \notin Member
  /\ Effect \in [Proposal -> EffectType]
  /\ Schedule \in [Proposal -> [start: Nat, end: Nat]]
  /\ CoolDown \in Nat /\ Sunset0 \in Nat /\ MaxBurn \in Nat

VARIABLES
  shutdown,           \* emergency-shutdown
  executive,          \* who may construct
  executives,         \* executive-team
  executiveRequired,  \* executive-signals-required
  executiveSunset,    \* executive-team-sunset-height
  executiveSignals,   \* executive-action-signals: proposal to team members
  executiveCount,     \* executive-action-signal-count
  signers,            \* signer-team
  signerRequired,     \* signer-signals-required
  signerSunset,       \* signer-team-sunset-height
  signerSignals,      \* signer-action-signals
  signerCount,        \* signer-action-signal-count
  added,              \* the keys of proposals
  executed,           \* the keys of executed-proposals
  burnHeight          \* burn-block-height

teamVars   == <<executives, executiveRequired, executiveSunset,
                signers, signerRequired, signerSunset>>
signalVars == <<executiveSignals, executiveCount, signerSignals, signerCount>>
vars       == <<shutdown, executive, teamVars, signalVars, added, executed, burnHeight>>

-----------------------------------------------------------------------------
IsDaoUnchecked(sender) == TRUE

(* is-dao, in a transaction of this sender. *)
IsDao(sender) == sender = Governance

(* What p's own execute does, with the DAO functions at its disposal. *)
RunProposal(p) ==
  LET e == Effect[p]
  IN /\ e.executiveSunset > burnHeight /\ e.signerSunset > burnHeight
     /\ e.adds \cap (added \cup executed \cup {p}) = {}
     /\ executives' = executives \cup e.executives
     /\ executiveRequired' = e.executiveRequired
     /\ executiveSunset' = e.executiveSunset
     /\ signers' = signers \cup e.signers
     /\ signerRequired' = e.signerRequired
     /\ signerSunset' = e.signerSunset
     /\ added' = added \cup e.adds

(* execute: at most once per proposal, and only for the DAO. *)
Execute(sender, p) ==
  /\ IsDao(sender)
  /\ p \notin executed
  /\ executed' = executed \cup {p}
  /\ RunProposal(p)

(* construct: the deployer hands the contract to itself. *)
Construct(sender, p) ==
  /\ sender = executive
  /\ executive' = Governance
  /\ Execute(Governance, p)
  /\ UNCHANGED <<shutdown, signalVars, burnHeight>>

TallyEveryCall(c, count, signals) == count + 1

TallyRetracted(c, count, signals) == IF c \in signals THEN count - 1 ELSE count + 1

(* The count after c has signalled, which a repeated signal leaves alone. *)
Tally(c, count, signals) == IF c \in signals THEN count ELSE count + 1

(* executive-action: every call that finds enough signals toggles. *)
ExecutiveAction(c, p) ==
  LET count == Tally(c, executiveCount[p], executiveSignals[p])
  IN /\ c \in executives
     /\ burnHeight < executiveSunset
     /\ shutdown' = IF count >= executiveRequired THEN ~ shutdown ELSE shutdown
     /\ executiveSignals' = [executiveSignals EXCEPT ![p] = @ \cup {c}]
     /\ executiveCount' = [executiveCount EXCEPT ![p] = count]
     /\ UNCHANGED <<executive, teamVars, signerSignals, signerCount, added, executed,
                    burnHeight>>

(* The checks of signer-action on the time; the cool-down is subtracted    *)
(* from the end of the proposal.                                           *)
SignerMayAct(p) ==
  /\ burnHeight >= Schedule[p].start
  /\ Schedule[p].end >= CoolDown /\ Schedule[p].end - CoolDown < burnHeight
  /\ burnHeight >= Schedule[p].end
  /\ burnHeight < signerSunset

(* signer-action: the call that finds enough signals executes, in the name *)
(* of the signer who sent it.                                              *)
SignerAction(c, p) ==
  LET count == Tally(c, signerCount[p], signerSignals[p])
  IN /\ p \in added
     /\ c \in signers
     /\ SignerMayAct(p)
     /\ IF count >= signerRequired
        THEN Execute(c, p)
        ELSE UNCHANGED <<teamVars, added, executed>>
     /\ signerSignals' = [signerSignals EXCEPT ![p] = @ \cup {c}]
     /\ signerCount' = [signerCount EXCEPT ![p] = count]
     /\ UNCHANGED <<shutdown, executive, executiveSignals, executiveCount, burnHeight>>

NextBurnBlock ==
  /\ burnHeight < MaxBurn
  /\ burnHeight' = burnHeight + 1
  /\ UNCHANGED <<shutdown, executive, teamVars, signalVars, added, executed>>

-----------------------------------------------------------------------------
(* The contract as deployed: nobody in a team, one signal enough. *)
Init ==
  /\ shutdown = FALSE /\ executive = Deployer
  /\ executives = {} /\ executiveRequired = 1 /\ executiveSunset = Sunset0
  /\ signers = {} /\ signerRequired = 1 /\ signerSunset = Sunset0
  /\ executiveSignals = [p \in Proposal |-> {}] /\ executiveCount = [p \in Proposal |-> 0]
  /\ signerSignals = [p \in Proposal |-> {}] /\ signerCount = [p \in Proposal |-> 0]
  /\ added = {} /\ executed = {}
  /\ burnHeight = 0

Next ==
  \/ \E p \in Proposal :
       \/ \E sender \in Member \cup {Deployer} : Construct(sender, p)
       \/ \E c \in Member : ExecutiveAction(c, p) \/ SignerAction(c, p)
  \/ NextBurnBlock

Spec == Init /\ [][Next]_vars

(* Blocks keep coming, and every signer keeps asking for what they may. *)
FairSpec ==
  /\ Spec
  /\ WF_vars(NextBurnBlock)
  /\ \A p \in Proposal, c \in Member : WF_vars(SignerAction(c, p))

-----------------------------------------------------------------------------
(* Properties. *)

(* The variables stay in the ranges of the contract's maps. *)
TypeOK ==
  /\ shutdown \in BOOLEAN /\ executive \in {Deployer, Governance}
  /\ executives \subseteq Member /\ signers \subseteq Member
  /\ executiveRequired \in Nat /\ signerRequired \in Nat
  /\ executiveSunset \in Nat /\ signerSunset \in Nat
  /\ executiveSignals \in [Proposal -> SUBSET Member]
  /\ signerSignals \in [Proposal -> SUBSET Member]
  /\ executiveCount \in [Proposal -> Nat] /\ signerCount \in [Proposal -> Nat]
  /\ added \subseteq Proposal /\ executed \subseteq Proposal
  /\ burnHeight \in Nat

(* Both counters are the numbers of distinct team members who signalled,   *)
(* however often each of them calls.                                       *)
SignalsCounted ==
  \A p \in Proposal :
    /\ executiveCount[p] = Cardinality(executiveSignals[p])
    /\ signerCount[p] = Cardinality(signerSignals[p])

(* The shutdown is switched only with as many distinct executives behind   *)
(* one proposal as are required, and before the team's sunset.             *)
ShutdownNeedsQuorum ==
  [][shutdown' # shutdown =>
       /\ burnHeight < executiveSunset
       /\ \E p \in Proposal : Cardinality(executiveSignals'[p]) >= executiveRequired]_vars

(* The proposal of the deployer is the only one that is ever executed: a   *)
(* signer's call carries the signer as its sender, which is-dao rejects.   *)
OnlyConstructExecutes ==
  /\ executive = Deployer => executed = {}
  /\ \A p, q \in executed : p = q

(* What the guide says of the signer team: what enough signers ask for,    *)
(* after its end, is executed.                                             *)
SignersExecute ==
  \A p \in Proposal : p \in added ~> p \in executed

=============================================================================
