------------------------- MODULE ZestGovernanceQuorum -------------------------
(***************************************************************************)
(* The executive team of ZestGovernance as the quorum of ZestQuorum.       *)
(***************************************************************************)
EXTENDS ZestGovernance

Quorum == INSTANCE ZestQuorum WITH
  Question  <- Proposal,
  appointed <- (executive = Governance),
  team      <- executives,
  needed    <- executiveRequired,
  assent    <- executiveSignals,
  switch    <- shutdown

(* The contract implements the quorum: its counters count distinct         *)
(* members, the deployer appoints the team once, and neither a signer's    *)
(* call nor a proposal changes the team or the switch afterwards.          *)
ImplementsQuorum == Quorum!Spec
=============================================================================
