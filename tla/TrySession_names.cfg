SPECIFICATION SessionSpec
CONSTANTS
    Pipelines = {p1, p2}
    Saves = {k1, k2}
    Reads = {}
    Drafts <- SessionDrafts
    Fields = {"price"}
    Malformed = {}
    Refused = {}
    Users = {u1}
    NilId = nil
    Tenants = {t1}
    Names = {"mine", "api-0", "api-1"}
    BlankNames = {}
    LongNames = {"long"}
    Lower <- MCLower
    MaxConns = 20
    Deletable = {}
    PipelineOf <- MCPipelineOf
    NoName = noname
    Hosts = {"api"}
    DefaultName <- MCDefaultName
    ClockBound = 1
    k1 = k1  k2 = k2  p1 = p1  p2 = p2  u1 = u1  t1 = t1
INVARIANTS MadeUpNamesAreNew
CHECK_DEADLOCK FALSE
