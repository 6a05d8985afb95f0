SPECIFICATION Spec
CONSTANTS
    Calls = {c1}
    Names = {"api", "cdn"}
    Addresses = {"203", "127.0.0.1", "10"}
    Class <- MCClass
    NoHost = "none"
    URLs <- LoopURLs
    Policy <- Strict
    MaxRedirects = 3
    MaxBytes = 2
    SizeBound = 1
    c1 = c1  c2 = c2
INVARIANTS TooManyIsTrue
CHECK_DEADLOCK FALSE
