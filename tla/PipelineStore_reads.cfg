SPECIFICATION FairSpec
CONSTANTS
    Pipelines = {p1}
    Saves = {s1, s2}
    Reads = {r1, r2}
    Drafts <- ReadDrafts
    Names = {"api"}
    MaxConns = 1
    Deletable = {p1}
    Fields <- MCFields
    Malformed = {"9lives"}
    Refused = {"huge"}
    Users = {u1}
    NilId = nil
    Tenants = {t1}
    BlankNames = {""}
    LongNames = {"long"}
    Lower <- MCLower
    s1 = s1  s2 = s2  s3 = s3  r1 = r1  r2 = r2  p1 = p1  p2 = p2  u1 = u1  t1 = t1
INVARIANTS ReadIsWhole NumberNeverReused ConflictHasWinner
PROPERTIES SavedIsFound ImplementsVersionLog SaveReturns
CHECK_DEADLOCK FALSE
