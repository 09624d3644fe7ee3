SPECIFICATION FairSpec
CONSTANT Jobs <- MCJobs
INVARIANT TypeOK
INVARIANT LeftOpenOnlyBeforeUse
INVARIANT SuccessMeansLetIn
INVARIANT HandsOver
PROPERTY PasswordAnswersPrompt
PROPERTY JobEnds
\* The job ends.
CHECK_DEADLOCK FALSE
