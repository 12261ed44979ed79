SPECIFICATION FairSpec
CONSTANTS
    None = None
    c1 = c1
    c2 = c2
    tr1 = tr1
    tr2 = tr2
    Calls = {c1, c2}
    Traces = {tr1, tr2}
    TraceOf <- OwnTraces
    Cap = 1
    MaxAnswers = 2
INVARIANTS
    TypeOK
    AnswerIsOwn
    NoAnswerPassedBy
PROPERTIES
    EveryCallReturns
    ReaderGoesOn
    NoEntryLeaks
CHECK_DEADLOCK FALSE
