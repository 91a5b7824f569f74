CONSTANTS
    Requests <- MCRequests
    IntMax = 15
    LongMax = 63
    Megabyte = 4
    Second = 4
    LeastMemory = 8
    NoText = 1000
    Languages = {101, 102}
    Javac = {102}
SPECIFICATION Spec
INVARIANTS EveryChildLimited CpuCoversWall LimitsNotRaised LimitsAsAsked AnswersNameTheirRequest
