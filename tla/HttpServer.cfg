SPECIFICATION Spec
CONSTANTS
  Urls <- MC_Urls
  Bodies <- MC_Bodies
  MaxRequests = 2
INVARIANTS InStep Answered RejectsOnlyBad
