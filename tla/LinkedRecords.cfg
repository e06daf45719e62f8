SPECIFICATION Spec
CONSTANTS
    Configs <- MCConfigs
    Groups <- MCGroups
    NoGroup <- MCNoGroup
    OptionValues <- MCOptionValues
INVARIANTS
    TypeOK
    OneRecordPerRow
    NoRecordTwice
    NoRecordWasted
    MadeFromAllOptions
    ConflictsRefused
    MissingOptionsRefused
