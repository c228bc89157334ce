\* Every part of MCStudy on its small instance, one at a time.
SPECIFICATION StudySpec
CONSTANTS
    Logins = {l1, l2}
    Logouts = {o1}
    ExpiresIn = 2
    MaxInterval = 3
    NoSession = NoSession
    Unreadable = Unreadable
    Missing = Missing
    Odd = Odd
    Undecodable = Undecodable
    StoryLists <- DoctorStoryLists
    Contents <- DoctorContents
    OtherContents <- DoctorOtherContents
    MaxFaults = 1
    Events <- StudyEvents
    SubjectFacts <- StudyFacts
    NoFact = NoFact
    SubjectNumbers = {1, 2}
    HALF_LIFE_DAYS = 2
    REVIEW_BACKLOG = 3
    REVIEW_BATCH_SIZE = 2
    STORY_RECENCY = 2
    MaxDay = 4
    MaxEntries = 3
    Instances <- StudyInstances
    Schemas <- StudySchemas
    SIBLINGS <- StudySiblings
    Parts <- StudyParts
    Depth <- StudyDepth
    Height <- StudyHeight
    Subjects <- ExportSubjects
    Registries <- ExportRegistries
    Listings <- ExportListings
    Dev = {"dev1"}
    Nameless = Nameless
    NotAStory = NotAStory
    NoFile = NoFile
    Torn = Torn
    MaxExports = 2
    MaxChanges = 1
    MaxCuts = 1
    Producers <- GateProducers
    Kind <- GateKind
    Checks <- GateChecks
    SkipListed <- GateSkipListed
    FallbackChecks <- GateFallback
    Harness <- GateHarness
INVARIANTS
    StudyTypeOK
    OnlyFullSessionsStored
    TimedOutMeansUnconfirmed
    SessionsInReach
    HealthyMeansConformant
    NoCheckSkipped
    ReviewsComeFirst
    MaintenanceMeansDone
    GuardedSchemasMeanWhatTheySay
    MissingSubjectsAreHarmless
    StoriesFollowTheListing
    FilesAgreeUnlessChanged
    GreenMeansRunUnlessLost
PROPERTIES
    LoginEnds
    StreaksAreCounters
    MeanMovesTowards
    QueueMovesAlone
CHECK_DEADLOCK FALSE
