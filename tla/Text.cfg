SPECIFICATION MCSpec
CONSTANTS
    MaxTokens = 3
    Inputs <- MCInputs
    Env <- MCEnv
    Profiles = {"novar", "vars", "env", "getvar"}
    Databases <- MCDatabases
    Keys <- MCKeys
    MaxOut = 12
    Queries = 2
    Files <- MCFiles
    Variables <- MCVariables
    BadUrls = {"bad"}
    Regexps = {"re"}
    Addresses <- MCAddresses
    OctetBits = 2
    Numbers <- MCNumbers
    Modes <- MCModes
    IntBits = 4
    LongBits = 5
    LongMax = 64
    Tables <- MCTables
    ArgLists <- MCArgLists
    Urls = {"u1", "u2"}
    Lines <- MCLines
    CmdLines <- MCCmdLines
    MaxRc = 3
    MaxInput = 3
INVARIANTS
    WordsAsDocumented
    TemplateIsOneWord
    JoinEndsInList
    TransformAsDocumented
    
    OptionsTakeEffect
    ConnectedAsNamed
CHECK_DEADLOCK FALSE
