-------------------------- MODULE MCZestGovernance --------------------------
(***************************************************************************)
(* ZestGovernance with two members, a bootstrap proposal that installs     *)
(* both as executives and signers, two signals required, and adds another. *)
(***************************************************************************)
EXTENDS ZestGovernanceQuorum

CONSTANTS ann, ben, boot, upgrade

(* The upgrade would leave ann as the only one whose signal is required. *)
Effects ==
  [p \in Proposal |->
     IF p = boot
     THEN [executives |-> {ann, ben}, executiveRequired |-> 2, executiveSunset |-> 6,
           signers |-> {ann, ben}, signerRequired |-> 2, signerSunset |-> 8,
           adds |-> {upgrade}]
     ELSE [executives |-> {ann}, executiveRequired |-> 1, executiveSunset |-> 8,
           signers |-> {ann}, signerRequired |-> 1, signerSunset |-> 8,
           adds |-> {}]]

(* Open from the first block to the fourth; the cool-down lasts two. *)
Schedules == [p \in Proposal |-> [start |-> 1, end |-> 4]]
=============================================================================
