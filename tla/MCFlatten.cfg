\* Every way three files refer to each other's contracts, and every path of
\* kinds through an AST.
CONSTANTS
    Paths <- MCPaths
    Target = "t"
    Programs <- AllPrograms
    None = None
SPECIFICATION MCFlattenSpec
CHECK_DEADLOCK FALSE
INVARIANTS RewritesItems NamesResolve BasesFirst BothAgree ReferencesCollectedElsewhere
