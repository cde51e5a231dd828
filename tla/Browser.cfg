\* Each page, proxy or ledger by itself; the bounds are those of its own module.
SPECIFICATION BrowserSpec
CONSTANTS
  Visits = {"v1"}
  PointerTtl = 3
  MissingTtl = 1
  MinReread = 1
  Wait = 1
  MaxBuilds = 2
  MaxNow = 5
  Hosts = {"h1","h2"}
  TokenTtl = 1
  SeenEvery = 2
  MaxTracked = 1
  MaxClock = 3
  People = {"ann","bob"}
  MaxAttempts = 1
  MaxManagings = 2
  MaxForms = 2
  MaxSecurityChanges = 2
  MaxLinkRefreshes = 1
  MaxFixAttempts = 1
  MaxLoads = 1
  MaxChannel = 1
  MaxErrors = 1
  MaxBuildTurns = 1
  Statuses = {401,404,502}
  MaxRetries = 1
  MaxSessions = 1
  Files = {"a"}
  MaxContents = 3
  MaxOutside = 1
  MaxRevisions = 5
  Selections = {"s"}
  MaxExchanges = 1
  MaxDeletes = 1
  Writings = {"lesson","check","word"}
  Repeatable = {"check"}
  Words = {"word"}
  MaxRequests = 3
  Ideas = {"a","b"}
  NoIdea = "none"
  Options = {"x"}
  MultiSelect = {1}
  MaxQuestions = 1
  MaxInterviews = 2
  MaxCreations = 1
  Owned = {}
  Edited = {"q"}
  Copies = {"c"}
  Names = {"n","m"}
  MaxChanges = 2
  Guests = {"g"}
  GuestRoles = {"EDITOR","VIEWER"}
  MaxAsks = 2
  MaxVersions = 1
  MaxEdits = 1
  Slugs = {"","reserved"}
  TopPlan = 1
  MaxProviderChanges = 2
  MaxSyncs = 1
  SubSeconds = 1
  DearestPlan = 2
  MaxTruths = 4
  DayLimit = 3
  BuildMinimum = 2
  UnitsPerBuild = 1
  PageSize = 1
  MaxMade = 2
  TurnPaths = {"a","b"}
  MaxBlocks = 3
  MaxBody = 1
  MaxChecklistSteps = 2
  RevealLength = 3
  MaxRestarts = 1
  Roles = {"guest","viewer"}
  Kinds = {"long"}
  MaxMessages = 2
  MaxPresses = 1
  StepFiles = {"f"}
  AnswerOptions = {"x"}
  MaxLines = 2
  MaxThoughts = 2
  Texts = {"ab","abc"}
  Short = {"a"}
  MaxTyped = 5
  PageRoles = {"EDITOR","VIEWER"}
  GuideLength = 2
  MaxVisits = 3
  HeaderRoles = {"EDITOR","VIEWER"}
  ProjectNames = {"n","m"}
  CodeLength = 1
  MaxSubmits = 3
CHECK_DEADLOCK FALSE
INVARIANT BrowserTypeOK
INVARIANT ServedAsPublished
 
INVARIANT HeldIsTheirs
INVARIANT NothingWithdrawn
INVARIANT StopStands
 
INVARIANT AnswersAreForTheQuestion
 
INVARIANT NoHalfReading
INVARIANT NothingTwice
PROPERTY ReadingGoesForward
PROPERTY TurnReadsAsWritten
