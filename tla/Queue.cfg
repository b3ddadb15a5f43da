\* With races on, a sleeping server may be left with nobody to wake it.
CHECK_DEADLOCK FALSE
CONSTANTS
    Main = Main
    Http = {h1, h2, h3}
    IdleSleep = TRUE
    MayTerminate = TRUE
    EarlySignal = TRUE
    SignalOnMain = TRUE
SPECIFICATION QueueFairSpec
INVARIANTS
    ModelForTasks
    NeverSleepsBusy
    NoLostWakeup
PROPERTIES
    LoopEnds
    TaskProcessed
    WaiterReturns
