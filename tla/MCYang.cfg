CONSTANTS
    nodes <- MCNodes
    roots <- MCRoots
    identities <- MCIdentities
    Requests <- MCRequests
    Invocations <- MCInvocations
    Answers <- MCAnswers
    BITS32 = 6
    BITS64 = 8
    None = None
    Cases = {}
    ModuleNames <- MCModuleNames
    BuildArgs <- MCBuildArgs
    SchemaCases = {}
SPECIFICATION MCYangSpec
INVARIANTS
    ReEncodes
    Understood
    ContinueIsConservative
    AnswersValidate
    FetchesAreBare
    AnswersAreShown
    LegalSourcesBuild
    NamesAreQualified
    TypesAreLexical
    LeafrefsFollowTheData
    IdentityValuesDerive
    ConfigIsInherited
    SidsFindTheirNodes
    UsedModulesAreListed
    CompleteSourcesExport
    LossesAreNoticed
CHECK_DEADLOCK FALSE
