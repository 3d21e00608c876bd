SPECIFICATION FairSpec
CONSTANTS
  Calls = {c1, c2}
  Legacy = {l1}
  Servers = {s1}
  Nobody = Nobody
  Answers = {"mined", "technical", "funds", "unauthorized", "revert"}
  MaxAttempts = 2
  EarlyCalls = {c1}
  FaultKinds = {"answer", "read", "finalize", "orphan", "trace", "evidence", "slow", "crash"}
  MaxFaults = 2
INVARIANTS
  
  HashesAreTraced
  AttestationsAreOnRecord
PROPERTIES
  TerminalIsFinal
  FillsGetHashed
