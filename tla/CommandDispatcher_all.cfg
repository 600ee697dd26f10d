SPECIFICATION FairSpec
CONSTANTS
  Directives = {nop, idle}
  NOP = nop
  Faults = {"run", "write"}
INVARIANTS
  EndsWithNop
PROPERTIES
  ContractSpec
  CommandReachesFile
  RunningModuleTerminates
