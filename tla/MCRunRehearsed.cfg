SPECIFICATION Spec
CONSTANTS
    d1 = d1
    d2 = d2
    plain = plain
    unicode = unicode
    punycode = punycode
    artifact = artifact
    late = late
    none = none
    NoCert = NoCert
    Garbled = Garbled
    Unconvertible = none
    FractionNum = 1
    FractionDen = 3
    RenewBefore = 1
    Lifetime = 9
    Name <- Names
    ToASCII <- Spelling
    Domain <- Alone
    Lists <- Twice
    Excludes <- Exclusions
    StartAliases <- Aliases
    StartSettings <- Found
    AnswerSets <- Answering
    Unsteady = {}
    LateAliases <- OneLate
    LateDisable = {}
INVARIANT RehearsedBeforeOrdered
