SPECIFICATION FairSpec
CONSTANTS
    MaxInitialTriesToConnect = 3
    MaxRetriesToConnect = 10
    ConfiguredRetries = Unset
    Unset = Unset
INVARIANTS
    TypeOK
    GivesUpOnlyWhenExhausted
    ReexecutedOnlyAfterLoss
    OutcomeMatchesEffect
PROPERTIES
    NothingAfterDefinitiveReply
    EveryRequestReturns
    ImplementsContract
