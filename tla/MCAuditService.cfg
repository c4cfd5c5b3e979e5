SPECIFICATION FairSpec
CONSTANTS
  Callers = {r1, r2}
  AuditWorkers = 1
  Budget = 2
  Deadline = 1
  Names = {n1, n2}
INVARIANTS
  AdmissionCoversRunningWork
  NoSlotLeaks
  BudgetIsExact
  AtMostOneLateQuery
PROPERTIES
  EveryCallIsAnswered
  ServiceRecovers
