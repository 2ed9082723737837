------------------------ MODULE ZestGovernanceProofs ------------------------
(***************************************************************************)
(* What ZestGovernance keeps for every team, proposal and schedule.        *)
(***************************************************************************)
EXTENDS ZestGovernanceQuorum, FiniteSetTheorems, TLAPS

USE GovernanceAssumption DEF EffectType

-----------------------------------------------------------------------------
(* The steps of the contract, with the names the proofs below use. *)

(* A signer is never the governance contract, so a signer's call that      *)
(* finds enough signals fails as a whole: one that succeeds executes       *)
(* nothing and leaves the teams as they are.                               *)
LEMMA SignersCannotExecute ==
  ASSUME NEW c \in Member, NEW p \in Proposal, SignerAction(c, p)
  PROVE  UNCHANGED <<executed, added, teamVars>>
BY DEF SignerAction, Execute, IsDao

(* Only the deployer can construct, and only once. *)
LEMMA OnlyDeployerConstructs ==
  ASSUME NEW sender \in Member \cup {Deployer}, NEW p \in Proposal,
         TypeOK, Construct(sender, p)
  PROVE  executive = Deployer
BY DEF Construct, TypeOK

-----------------------------------------------------------------------------
(* Types. *)

LEMMA ConstructType ==
  ASSUME NEW sender, NEW p \in Proposal, TypeOK, Construct(sender, p)
  PROVE  TypeOK'
<1>1. Effect[p] \in EffectType
  OBVIOUS
<1>2. /\ executives' \subseteq Member /\ signers' \subseteq Member
      /\ executiveRequired' \in Nat /\ signerRequired' \in Nat
      /\ executiveSunset' \in Nat /\ signerSunset' \in Nat
      /\ added' \subseteq Proposal /\ executed' \subseteq Proposal
  BY <1>1 DEF TypeOK, Construct, Execute, RunProposal
<1> QED
  BY <1>2 DEF TypeOK, Construct, signalVars

LEMMA TallyType ==
  ASSUME NEW c, NEW count \in Nat, NEW signals
  PROVE  Tally(c, count, signals) \in Nat
BY DEF Tally

LEMMA ExecutiveActionType ==
  ASSUME NEW c \in Member, NEW p \in Proposal, TypeOK, ExecutiveAction(c, p)
  PROVE  TypeOK'
<1>1. Tally(c, executiveCount[p], executiveSignals[p]) \in Nat
  BY TallyType DEF TypeOK
<1>2. /\ executiveSignals' \in [Proposal -> SUBSET Member]
      /\ executiveCount' \in [Proposal -> Nat]
  BY <1>1 DEF TypeOK, ExecutiveAction
<1>3. shutdown' \in BOOLEAN
  BY DEF TypeOK, ExecutiveAction
<1> QED
  BY <1>2, <1>3 DEF TypeOK, ExecutiveAction, teamVars

LEMMA SignerActionType ==
  ASSUME NEW c \in Member, NEW p \in Proposal, TypeOK, SignerAction(c, p)
  PROVE  TypeOK'
<1>1. Tally(c, signerCount[p], signerSignals[p]) \in Nat
  BY TallyType DEF TypeOK
<1>2. /\ signerSignals' \in [Proposal -> SUBSET Member]
      /\ signerCount' \in [Proposal -> Nat]
  BY <1>1 DEF TypeOK, SignerAction
<1> QED
  BY <1>2, SignersCannotExecute DEF TypeOK, SignerAction, teamVars

LEMMA StepType == TypeOK /\ [Next]_vars => TypeOK'
<1> SUFFICES ASSUME TypeOK, [Next]_vars PROVE TypeOK'
  OBVIOUS
<1>1. ASSUME NEW p \in Proposal, NEW sender \in Member \cup {Deployer}, Construct(sender, p)
      PROVE  TypeOK'
  BY <1>1, ConstructType
<1>2. ASSUME NEW p \in Proposal, NEW c \in Member, ExecutiveAction(c, p)
      PROVE  TypeOK'
  BY <1>2, ExecutiveActionType
<1>3. ASSUME NEW p \in Proposal, NEW c \in Member, SignerAction(c, p)
      PROVE  TypeOK'
  BY <1>3, SignerActionType
<1>4. CASE NextBurnBlock
  BY <1>4 DEF TypeOK, NextBurnBlock, teamVars, signalVars
<1>5. CASE UNCHANGED vars
  BY <1>5 DEF TypeOK, vars, teamVars, signalVars
<1> QED
  BY <1>1, <1>2, <1>3, <1>4, <1>5 DEF Next

(* The variables of the governance contract keep their types. *)
THEOREM GovernanceTypeCorrect == Spec => []TypeOK
<1>1. Init => TypeOK
  <2> SUFFICES ASSUME Init PROVE TypeOK
    OBVIOUS
  <2>1. shutdown \in BOOLEAN /\ executive \in {Deployer, Governance}
    BY DEF Init
  <2>2. /\ executiveSignals \in [Proposal -> SUBSET Member]
        /\ signerSignals \in [Proposal -> SUBSET Member]
        /\ executiveCount \in [Proposal -> Nat] /\ signerCount \in [Proposal -> Nat]
    BY DEF Init
  <2>3. /\ executiveRequired \in Nat /\ signerRequired \in Nat
        /\ executiveSunset \in Nat /\ signerSunset \in Nat /\ burnHeight \in Nat
    BY DEF Init
  <2> QED
    BY <2>1, <2>2, <2>3 DEF Init, TypeOK
<1> QED
  BY <1>1, StepType, PTL DEF Spec

-----------------------------------------------------------------------------
(* Execution. *)

(* The proposal the deployer constructs with is the only one the contract  *)
(* ever executes, whatever the signers do: signer-action calls execute     *)
(* with the signer as sender, and is-dao wants the contract.               *)
THEOREM NothingElseExecutes == Spec => []OnlyConstructExecutes
<1>1. Init => OnlyConstructExecutes
  BY DEF Init, OnlyConstructExecutes
<1>2. TypeOK /\ OnlyConstructExecutes /\ [Next]_vars => OnlyConstructExecutes'
  <2> SUFFICES ASSUME TypeOK, OnlyConstructExecutes, [Next]_vars
               PROVE  OnlyConstructExecutes'
    OBVIOUS
  <2>1. ASSUME NEW p \in Proposal, NEW sender \in Member \cup {Deployer},
               Construct(sender, p)
        PROVE  OnlyConstructExecutes'
    <3>1. executed = {}
      BY <2>1, OnlyDeployerConstructs DEF OnlyConstructExecutes
    <3>2. executed' = {p} /\ executive' = Governance
      BY <2>1, <3>1 DEF Construct, Execute
    <3> QED
      BY <3>2 DEF OnlyConstructExecutes
  <2>2. ASSUME NEW p \in Proposal, NEW c \in Member, ExecutiveAction(c, p)
        PROVE  OnlyConstructExecutes'
    BY <2>2 DEF ExecutiveAction, OnlyConstructExecutes
  <2>3. ASSUME NEW p \in Proposal, NEW c \in Member, SignerAction(c, p)
        PROVE  OnlyConstructExecutes'
    <3>1. executed' = executed
      BY <2>3, SignersCannotExecute
    <3> QED
      BY <2>3, <3>1 DEF SignerAction, OnlyConstructExecutes
  <2>4. CASE NextBurnBlock
    BY <2>4 DEF NextBurnBlock, OnlyConstructExecutes
  <2>5. CASE UNCHANGED vars
    BY <2>5 DEF vars, OnlyConstructExecutes
  <2> QED
    BY <2>1, <2>2, <2>3, <2>4, <2>5 DEF Next
<1> QED
  BY <1>1, <1>2, GovernanceTypeCorrect, PTL DEF Spec

-----------------------------------------------------------------------------
(* Signals. *)

(* Counting one more caller gives the number of distinct callers. *)
LEMMA TallyCounts ==
  ASSUME NEW c \in Member, NEW S \in SUBSET Member
  PROVE  Tally(c, Cardinality(S), S) = Cardinality(S \cup {c})
<1>1. IsFiniteSet(S)
  BY FS_Subset
<1>2. CASE c \in S
  <2>1. S \cup {c} = S
    BY <1>2
  <2> QED
    BY <1>2, <2>1 DEF Tally
<1>3. CASE c \notin S
  BY <1>1, <1>3, FS_AddElement DEF Tally
<1> QED
  BY <1>2, <1>3

LEMMA StepCounted == TypeOK /\ SignalsCounted /\ [Next]_vars => SignalsCounted'
<1> SUFFICES ASSUME TypeOK, SignalsCounted, [Next]_vars PROVE SignalsCounted'
  OBVIOUS
<1>1. ASSUME NEW p \in Proposal, NEW sender \in Member \cup {Deployer}, Construct(sender, p)
      PROVE  SignalsCounted'
  BY <1>1 DEF SignalsCounted, Construct, signalVars
<1>2. ASSUME NEW p \in Proposal, NEW c \in Member, ExecutiveAction(c, p)
      PROVE  SignalsCounted'
  <2>1. executiveSignals'[p] = executiveSignals[p] \cup {c}
    BY <1>2 DEF ExecutiveAction, TypeOK
  <2>2. executiveCount'[p] = Tally(c, executiveCount[p], executiveSignals[p])
    BY <1>2 DEF ExecutiveAction, TypeOK
  <2>3. executiveCount'[p] = Cardinality(executiveSignals'[p])
    <3>1. executiveSignals[p] \in SUBSET Member
      BY DEF TypeOK
    <3>2. executiveCount[p] = Cardinality(executiveSignals[p])
      BY DEF SignalsCounted
    <3> QED
      BY <2>1, <2>2, <3>1, <3>2, TallyCounts
  <2>4. ASSUME NEW q \in Proposal, q # p
        PROVE  executiveCount'[q] = Cardinality(executiveSignals'[q])
    BY <1>2, <2>4 DEF ExecutiveAction, SignalsCounted, TypeOK
  <2> QED
    BY <1>2, <2>3, <2>4 DEF ExecutiveAction, SignalsCounted
<1>3. ASSUME NEW p \in Proposal, NEW c \in Member, SignerAction(c, p)
      PROVE  SignalsCounted'
  <2>1. signerSignals'[p] = signerSignals[p] \cup {c}
    BY <1>3 DEF SignerAction, TypeOK
  <2>2. signerCount'[p] = Tally(c, signerCount[p], signerSignals[p])
    BY <1>3 DEF SignerAction, TypeOK
  <2>3. signerCount'[p] = Cardinality(signerSignals'[p])
    <3>1. signerSignals[p] \in SUBSET Member
      BY DEF TypeOK
    <3>2. signerCount[p] = Cardinality(signerSignals[p])
      BY DEF SignalsCounted
    <3> QED
      BY <2>1, <2>2, <3>1, <3>2, TallyCounts
  <2>4. ASSUME NEW q \in Proposal, q # p
        PROVE  signerCount'[q] = Cardinality(signerSignals'[q])
    BY <1>3, <2>4 DEF SignerAction, SignalsCounted, TypeOK
  <2> QED
    BY <1>3, <2>3, <2>4 DEF SignerAction, SignalsCounted
<1>4. CASE NextBurnBlock
  BY <1>4 DEF SignalsCounted, NextBurnBlock, signalVars
<1>5. CASE UNCHANGED vars
  BY <1>5 DEF SignalsCounted, vars, signalVars
<1> QED
  BY <1>1, <1>2, <1>3, <1>4, <1>5 DEF Next

(* The counters that decide on a quorum count distinct members. *)
THEOREM CountersExact == Spec => []SignalsCounted
<1>1. Init => SignalsCounted
  BY FS_EmptySet DEF Init, SignalsCounted
<1> QED
  BY <1>1, StepCounted, GovernanceTypeCorrect, PTL DEF Spec

(* A step that switches the shutdown is an executive's call before the     *)
(* sunset, for a proposal that enough distinct members have signalled.     *)
LEMMA StepQuorum ==
  ASSUME TypeOK, SignalsCounted, SignalsCounted', [Next]_vars, shutdown' # shutdown
  PROVE  /\ burnHeight < executiveSunset
         /\ \E p \in Proposal :
              Cardinality(executiveSignals'[p]) >= executiveRequired
<1>1. PICK p \in Proposal, c \in Member : ExecutiveAction(c, p)
  BY DEF Next, vars, Construct, SignerAction, NextBurnBlock
<1>2. executiveCount'[p] >= executiveRequired
  BY <1>1 DEF ExecutiveAction, TypeOK
<1>3. Cardinality(executiveSignals'[p]) >= executiveRequired
  BY <1>2 DEF SignalsCounted
<1> QED
  BY <1>1, <1>3 DEF ExecutiveAction

(* The emergency shutdown changes only with a quorum of distinct members.  *)
THEOREM ShutdownByQuorum == Spec => ShutdownNeedsQuorum
<1>1. TypeOK /\ SignalsCounted /\ SignalsCounted' /\ [Next]_vars =>
        [shutdown' # shutdown =>
           /\ burnHeight < executiveSunset
           /\ \E p \in Proposal :
                Cardinality(executiveSignals'[p]) >= executiveRequired]_vars
  BY StepQuorum
<1> QED
  BY <1>1, GovernanceTypeCorrect, CountersExact, PTL DEF Spec, ShutdownNeedsQuorum

-----------------------------------------------------------------------------
(* The quorum. *)

(* A call of the deployer is the appointment of the team. *)
LEMMA ConstructAppoints ==
  ASSUME NEW sender \in Member \cup {Deployer}, NEW p \in Proposal,
         TypeOK, Construct(sender, p)
  PROVE  Quorum!Appoint
<1>1. executive = Deployer
  BY OnlyDeployerConstructs
<1>2. executive' = Governance /\ UNCHANGED <<executiveSignals, shutdown>>
  BY DEF Construct, signalVars
<1>3. executives' \subseteq Member
  BY ConstructType DEF TypeOK
<1> QED
  BY <1>1, <1>2, <1>3 DEF Quorum!Appoint

(* The two modules count alike. *)
LEMMA SameCardinality ==
  ASSUME NEW S
  PROVE  Quorum!Cardinality(S) = Cardinality(S)
BY DEF Cardinality, Quorum!Cardinality

(* A call of an executive is an assent: the counter that decides is the    *)
(* number of distinct members behind the proposal.                         *)
LEMMA ExecutiveAssents ==
  ASSUME NEW c \in Member, NEW p \in Proposal,
         TypeOK, SignalsCounted, ExecutiveAction(c, p)
  PROVE  Quorum!Assent(c, p)
<1>1. executiveSignals[p] \in SUBSET Member
  BY DEF TypeOK
<1>2. executiveCount[p] = Cardinality(executiveSignals[p])
  BY DEF SignalsCounted
<1>3. executiveSignals'[p] = executiveSignals[p] \cup {c}
  BY DEF ExecutiveAction, TypeOK
<1>4. Tally(c, executiveCount[p], executiveSignals[p]) = Cardinality(executiveSignals'[p])
  BY <1>1, <1>2, <1>3, TallyCounts
<1>5. shutdown' = IF Cardinality(executiveSignals'[p]) >= executiveRequired
                  THEN ~ shutdown ELSE shutdown
  BY <1>4 DEF ExecutiveAction
<1> QED
  BY <1>5, SameCardinality DEF ExecutiveAction, teamVars, Quorum!Assent

LEMMA StepImplementsQuorum ==
  ASSUME TypeOK, SignalsCounted, [Next]_vars
  PROVE  [Quorum!Next]_(Quorum!vars)
<1>1. ASSUME NEW p \in Proposal, NEW sender \in Member \cup {Deployer}, Construct(sender, p)
      PROVE  Quorum!Next
  BY <1>1, ConstructAppoints DEF Quorum!Next
<1>2. ASSUME NEW p \in Proposal, NEW c \in Member, ExecutiveAction(c, p)
      PROVE  Quorum!Next
  BY <1>2, ExecutiveAssents DEF Quorum!Next
<1>3. ASSUME NEW p \in Proposal, NEW c \in Member, SignerAction(c, p)
      PROVE  UNCHANGED Quorum!vars
  <2>1. UNCHANGED <<executives, executiveRequired>>
    BY <1>3, SignersCannotExecute DEF teamVars
  <2> QED
    BY <1>3, <2>1 DEF SignerAction, Quorum!vars
<1>4. CASE NextBurnBlock
  BY <1>4 DEF NextBurnBlock, teamVars, signalVars, Quorum!vars
<1>5. CASE UNCHANGED vars
  BY <1>5 DEF vars, teamVars, signalVars, Quorum!vars
<1> QED
  BY <1>1, <1>2, <1>3, <1>4, <1>5 DEF Next

(* Every behaviour of the contract is one of the quorum. *)
THEOREM GovernanceIsQuorum == Spec => ImplementsQuorum
<1>1. Init => Quorum!Init
  BY DEF Init, Quorum!Init
<1>2. TypeOK /\ SignalsCounted /\ [Next]_vars => [Quorum!Next]_(Quorum!vars)
  BY StepImplementsQuorum
<1> QED
  BY <1>1, <1>2, GovernanceTypeCorrect, CountersExact, PTL
  DEF Spec, ImplementsQuorum, Quorum!Spec
=============================================================================
