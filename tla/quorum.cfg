SPECIFICATION Spec
CONSTANTS
  m1 = m1
  Managers = {m1}
  Threshold = 2
  Origins <- AllOrigins
  Voters <- AllVoters
  Prompts <- AllPrompts
  Decisions <- AllDecisions
  Data <- AllDecisions
  Nodes <- Mesh
INVARIANTS
  TypeOK
  QuorumSafety
  VerifiedByQuorum
  AgreementSettles
  DenialsProven
  DeniedAreForkers
