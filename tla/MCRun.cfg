SPECIFICATION FairSpec
CONSTANTS
    d1 = d1
    d2 = d2
    plain = plain
    unicode = unicode
    punycode = punycode
    artifact = artifact
    late = late
    none = none
    NoCert = NoCert
    Garbled = Garbled
    Unconvertible = none
    FractionNum = 1
    FractionDen = 3
    RenewBefore = 1
    Lifetime = 9
    Name <- Names
    ToASCII <- Spelling
    Domain <- Domains
    Lists <- PairOrTwice
    Excludes <- Exclusions
    StartAliases <- Aliases
    StartSettings <- Found
    AnswerSets <- Answering
    Unsteady = {punycode}
    LateAliases <- OneLate
    LateDisable = {d2}
INVARIANTS
    TypeOK
    TallyConserved
    ZeroMeansAllSettled
    SuccessSettles
    RenewsAsPredicted
    OrdersOnlyRehearsed
    ExcludedStaysOut
PROPERTIES
    StagingTouchesNothing
    DisabledStaysDisabled
    BlameNeedsSignal
    RunEnds
    RunAdvances
    ImplementsBatch
