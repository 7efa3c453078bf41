CONSTANTS
    Text <- FiveTexts
    Near <- NearTexts
    Record <- Records
    TTL = 2
    Cap = 2
    MaxTime = 3
    MaxCases = 4
    MaxReceived = 5
    Chunk = 2
    Repeats = 3
    Letter = {"a", "b", " "}
    Blank = " "
    MaxText = 9
SPECIFICATION PipelineSpec
CHECK_DEADLOCK FALSE
INVARIANTS CriticalIsEscalated
