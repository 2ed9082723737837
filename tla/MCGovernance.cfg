SPECIFICATION Spec
CONSTANTS
  ann = ann
  ben = ben
  boot = boot
  upgrade = upgrade
  Member = {ann, ben}
  Deployer = deployer
  Governance = governance
  Proposal = {boot, upgrade}
  Effect <- Effects
  Schedule <- Schedules
  CoolDown = 2
  Sunset0 = 2
  MaxBurn = 7
INVARIANTS
  TypeOK
  SignalsCounted
  OnlyConstructExecutes
PROPERTIES
  ImplementsQuorum
  ShutdownNeedsQuorum
CHECK_DEADLOCK FALSE
