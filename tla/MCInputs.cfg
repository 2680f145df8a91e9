SPECIFICATION MCInputsSpec
CONSTANTS
    SourceFiles <- InputFiles
    ImportsOf <- InputImports
    LanguageOf <- InputLanguages
    Libraries <- InputLibraries
    Interfaces <- InputInterfaces
    Outsiders <- InputOutsiders
    Configs <- InputConfigs
    Patterns <- InputPatterns
    SolidityTools = {"solc", "resolc"}
    VersionOf <- InputVersions
    Since <- InputSince
    EvmSince <- InputEvmSince
    ResolcKnows <- InputResolcKnows
    VyperLacks <- InputVyperLacks
    MaxConfigures = 2
    MaxEdits = 1
    Rules <- InputRules
    RestrictedSettings <- InputRestricted
    MaxRules = 3
    Inputs <- SelectionInputs
    Imported = {"d"}
    Languages = {"Solidity", "Yul"}
    Versions = {1, 2, 3}
    Profiles <- SelectionProfiles
    Projects <- SelectionProjects
    None = None
    Layouts <- DirtyLayouts
    Texts <- DirtyTexts
    MaxChanges = 2
    MaxBuilds = 2
INVARIANTS AskedExactly InputAccepted OneConfiguration MergeIsConjunction OneVersionIfPossible UnitsFit UnitsAreClosed TestsAreCurrent
CHECK_DEADLOCK FALSE
