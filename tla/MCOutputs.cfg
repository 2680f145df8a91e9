SPECIFICATION MCSpec
CONSTANTS
    Files <- FilesDef
    Contracts <- ContractsDef
    Stem <- StemDef
    Jobs <- JobsDef
    Primary <- PrimaryDef
    LowerCase <- LowerCaseDef
    MaxDepth = 3
    MaxBuilds = 3
    MaxChanged = 1
    UnitOrder <- UnitOrderDef
    Selections <- SelectionsDef
    Emits <- EmitsDef
    PathOrder <- PathOrderDef
    Outside = {"Lib.sol"}
    JobLists <- JobListsDef
    OlderJobs <- OlderJobsDef
    Infos <- InfosDef
    NotNames = {}
    Codes = {2018}
    Ignored = {}
    DotTSol = {"My.t.sol"}
    IsTest <- IsTestDef
    NothingFound = NothingFound
    MaxAsks = 3
    WrittenElements <- WrittenDef
    MaxElements = 3
    DepthLimit = 4
    Compiled <- CompiledDef
    Prefix <- PrefixDef
    Colons = {"npm:c.sol"}
    Addresses = {"x", "y"}
    MaxListed = 2
    MaxLinks = 3
INVARIANTS PathsApart ArtifactsSurvive ExtrasCurrent Accounted VerdictExplained ParsedIsMap LinkedIsPlaced
PROPERTIES PathsStay
CHECK_DEADLOCK FALSE
