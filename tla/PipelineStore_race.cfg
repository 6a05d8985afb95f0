SPECIFICATION Spec
CONSTANTS
    Pipelines = {p1, p2}
    Saves = {s1, s2, s3}
    Reads = {}
    Drafts <- RaceDrafts
    Names = {"api", "feed"}
    MaxConns = 2
    Deletable = {}
    Fields <- MCFields
    Malformed = {"9lives"}
    Refused = {"huge"}
    Users = {u1}
    NilId = nil
    Tenants = {t1}
    BlankNames = {""}
    LongNames = {"long"}
    Lower <- MCLower
    s1 = s1  s2 = s2  s3 = s3  r1 = r1  r2 = r2  p1 = p1  p2 = p2  u1 = u1  t1 = t1
SYMMETRY RaceSymmetry
INVARIANTS TypeOK VersionsContiguous VersionsWhole ListingAgrees SavedIsDurable NamedErrorSavesNothing
CHECK_DEADLOCK FALSE
