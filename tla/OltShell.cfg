SPECIFICATION FairSpec
CONSTANTS
    N = 4
    Interactive <- ShowOnuInteractive
    Greedy = {}
    Required <- ShowOnuRequired
    MaxAsks = 2
INVARIANT TypeOK
INVARIANT HistoryIsTrueUntilTrouble
INVARIANT RepliesAreOnlyLate
PROPERTY AnswersMeetQuestions
PROPERTY RunsTheFlow
PROPERTY FlowEnds
\* The flow ends.
CHECK_DEADLOCK FALSE
