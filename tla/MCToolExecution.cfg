CONSTANTS
  Executions = {e1}
  MaxRetries = 3
  Requests <- MCRequests
  MaxFaults = 2
SPECIFICATION FairSpec
INVARIANT TypeOK
INVARIANT OnlyTimedOutHandlersOutlive
INVARIANT RetriesAreJustified
INVARIANT AuditTellsTheTruth
PROPERTY CallerIsAnswered
PROPERTY ImplementsContract
CHECK_DEADLOCK FALSE
