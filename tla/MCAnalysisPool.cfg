CONSTANTS
    Streams = {"a", "b"}
    Inputs <- MCInputs
    MaxWorkers = 2
    CheckEvery = 2

SPECIFICATION Spec

INVARIANTS
    ReadyIndexIsWhole
    DumpsAreStreams
    OutcomeIsTrue
    QuietWhenOver
