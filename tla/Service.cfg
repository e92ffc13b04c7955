CONSTANTS
    p1 = p1 p2 = p2
    Processes = {p1, p2}
    Pid <- TwoPids
    Window = 4
    Unsigned = 64
    Operations <- SomeOperations
    MaxCalls <- FourCalls
    MaxAbandoned = 2
    MaxParts = 2
    MaxAnswers = 2
    RequestRoom = 1
    ResponseRoom = 1
    RingSize = 3
    MaxSignals = 2
    MaxStarts = 1
SPECIFICATION Spec
INVARIANTS TypeOK OwnAnswer AnswerWanted AtMostOnce TablesQuiescent
PROPERTIES CallsReturn SignalEnds
CHECK_DEADLOCK FALSE
