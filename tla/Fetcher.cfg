SPECIFICATION FairSpec
CONSTANTS
    Calls = {c1, c2}
    Names = {"api", "cdn"}
    Addresses = {"203", "127.0.0.1", "10"}
    Class <- MCClass
    NoHost = "none"
    URLs <- RedirectURLs
    Policy <- Local
    MaxRedirects = 3
    MaxBytes = 0
    SizeBound = 2
    c1 = c1  c2 = c2
INVARIANTS TypeOK OnlyAllowedAddresses OnlyCheckedURLs WholeBody NothingHeld
PROPERTIES DoReturns
CHECK_DEADLOCK FALSE
