SPECIFICATION Spec
CONSTANTS
    d1 = d1
    d2 = d2
    plain = plain
    unicode = unicode
    punycode = punycode
    artifact = artifact
    none = none
    NoCert = NoCert
    Garbled = Garbled
    Unconvertible = none
    FractionNum = 1
    FractionDen = 3
    RenewBefore = 1
    Name <- Names
    ToASCII <- Spelling
    Domain <- Domains
    Lists <- Pair
    Excludes <- Exclusions
    StartAliases <- Aliases
    StartSettings <- Found
    AnswerSets <- Answering
    Unsteady = {d1, punycode}
INVARIANTS
    TypeOK
    ZeroVouchesForAll
    PredictsTheRun
