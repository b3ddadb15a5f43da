CONSTANTS
    Main = Main
    Http = {h1, h2}
    IdleSleep = TRUE
    MayTerminate = FALSE
    EarlySignal = FALSE
    SignalOnMain = FALSE
SPECIFICATION QueueSpec
INVARIANTS
    NoUseUnloaded
