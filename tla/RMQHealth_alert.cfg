\* The consumer may write the status before the checker's tick does.
SPECIFICATION Spec
CONSTANT MaxFailures = 2
INVARIANT MissingQueueAlerts
