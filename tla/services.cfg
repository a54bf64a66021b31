SPECIFICATION Spec
CONSTANTS
    one = one
    two = two
    ann = ann
    bob = bob
    solo = solo
    east = east
    west = west
    Worker = {east, west}
    MaxTime = 3
    MaxOutages = 1
    MaxLinks = 2
    LoginSlot = {}
    MaxSessions = 1
    MaxKept = 1
    ForgotSlot = {solo}
    ResetSlot = {one, two}
    Person = {ann, bob}
    Workspaces = 2
    MaxTasks = 1
    MaxMoves = 1
    TaskSlot = {one, two}
    Key = {solo}
    MetaSlot = {one, two}
    MaxSigned = 3
    MaxEdits = 3
    EntryLife = 1
    DecisionTtl = 2
    Patience = 1
    Failures = 2
    Asked <- MCAsked
    Holdings = {{"viewer"}, {"super-admin"}}
    MaxQueries = 3
    QuerySlot = {one, two}
    HitMax = 2
    HitWindow = 2
    MaxHits = 4
    MaxDeaths = 1
    Socket = {one, two}
    news = news
    note = note
    Event = {news, note}
    Personal = {note}
    MaxUnheard = 1
    Second = 2
    TokenSeconds = 2
    MaxAccess = 2
    Door = {one, two}
CONSTRAINT Scenario
SYMMETRY Symmetry
INVARIANTS
    TypeOK LinkSafety ChangedByInsider ToldWherePlaced
    AnsweredEditsKept AlarmsExplained OneTimeUse
    PolicyKept EngineFollowsEvaluator RateKept HeardOnce RevokedStaysOut
CHECK_DEADLOCK FALSE
