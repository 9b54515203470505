\* Fourteen shapes of statements, every kind of request metadata, two calls and a third
\* that carries none.
SPECIFICATION MCSpec
CONSTANTS
    None = None
    Protected = {"orders"}
    Catalogs = {"columns"}
    Statements <- MCStatements
    Kinds <- MCKinds
    Settings <- MCSettings
    Hidden = "orders"
    AnyRows = {0, 1, 3}
    MaxRows = 2
    MaxRounds = 3
    MaxBadRounds = 2
    MaxCalls = 3
    TableRows = 1
    BlockBudget = 3
    TraceSteps = 1
CONSTRAINT
    Bounded
INVARIANTS
    RowsAreScoped
    AnswerIsCurrent
    CountIsOfTheLastRun
    LossesAreTold
    GivesUpWhenStuck
    CleanTraceOfCleanRun
