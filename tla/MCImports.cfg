\* Project trees and import graphs.
SPECIFICATION MCImportsSpec
CONSTANTS
    Trees <- MixedTrees
    Order <- OrderDef
    SolFiles = {"c.sol"}
    Hidden = {".git"}
    Project <- ProjectDef
    MayReload = TRUE
    a = a  b = b  c = c  x = x
    Files = {a, b, c}
    Absent = {x}
    InputLists <- GraphInputs
    ImportLists <- GraphImports
INVARIANTS NoEndlessWalk ImportsResolve IndexIsPlace GraphIsComplete
PROPERTY WalkEnds
CHECK_DEADLOCK FALSE
