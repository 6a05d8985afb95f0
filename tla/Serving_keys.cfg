SPECIFICATION Spec
CONSTANTS
    Requests = {r1}
    Recipes <- MCRecipes
    Answers <- MCAnswers
    ParamSets <- MCParamSets
    MaxVersions = 1
    Keys <- MCKeys
    Item = item
    MaxDepth = 5
    MaxArraySamples = 2
    OutputNames = {"price", "title", "stock"}
    Resolve <- MCResolve
    Builds <- BuildsWith
    NeedsSecret <- RefersToSecret
    Unselected <- WithoutSelection
    ReadAs <- MCReadAs
    Unreadable = unreadable
    NilSet = nilset
    NilOutput = null
    NoOutput <- NoRendering
    NoRecipe = none
    NoAnswer = none
    r1 = r1  r2 = r2
    name = name  price = price  stock = stock  id = id  top = top  net = net
    lists = lists  deep = deep  empty = empty  ids = ids  nulls = nulls  mixed = mixed
    leading = leading  nested = nested  twice = twice  once = once  back = back
INVARIANTS SelectedIsRendered
CHECK_DEADLOCK FALSE
