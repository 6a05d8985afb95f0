SPECIFICATION Spec
CONSTANTS
    Drafts = {d1, d2}
    d1 = d1  d2 = d2
    NoCommand = none
    none = none
    Commands <- MCCommands
    Stored <- MCStored
    ParamSets <- MCParamSets
    Names = {"", "id", "sku"}
    MaxDynamics = 2
    Lower <- MCLower
    Upper <- MCUpper
    Braced <- MCBraced
    HoldsPlaceholder <- MCHolds
    Decode <- MCDecode
    PathTexts <- MCPathTexts
    Base64 <- MCBase64
    Reads <- MCReads
    JSONNumber <- MCJSONNumber
    Length <- MCLength
    Matches <- MCMatches
    Rank <- MCRank
    Normalized <- MCNormalized
    HasText <- MCHasText
    Escaped <- MCEscaped
    Joined <- MCJoined
    Formatted <- MCFormatted
INVARIANTS ExampleIsConcrete
CHECK_DEADLOCK FALSE
