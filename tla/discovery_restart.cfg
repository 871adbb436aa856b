SPECIFICATION Spec
CONSTANTS
    Callers = {c1}
    Workers = {w1, w2}
    NoWorker = NoWorker
    Disciplines <- NoStopToRestart
INVARIANTS
    StartSurvives
