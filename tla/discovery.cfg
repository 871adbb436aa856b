SPECIFICATION FairSpec
CONSTANTS
    Callers = {c1, c2}
    Workers = {w1, w2, w3}
    NoWorker = NoWorker
    Disciplines <- SomeDisciplines
INVARIANTS
    TypeOK
    ThreadIsGuarded
    RulesProtect
PROPERTIES
    StoppedMeansStopped
    DiscoveryEnds
    StopDiscoveryReturns
CHECK_DEADLOCK FALSE
