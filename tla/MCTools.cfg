SPECIFICATION ToolsSpec
CONSTANTS
    fixture = fixture  copy = copy  other = other
    Paths = {fixture, copy, other}  Fixture = fixture  Temp = copy
    Texts <- MCTexts  Scenario <- MCScenario  Prompts <- MCPrompts
    Processes = {1, 2}  MaxRequests = 2  MaxBatches = 1  MaxDiskFaults = 1  ContextLines = 1
    Files <- MCFiles  Contents <- MCContents  Checks <- MCChecks
    OwnExcludes = {"tools"}  IgnoreRules <- MCIgnoreRules
    MaxSaves = 1  MaxReviews = 1  MaxReviewFaults = 1
    MaxWorks = 2  MaxPeerPushes = 1  MaxGitFaults = 1
    AgentFiles = {1, 2}  Updates <- MCUpdates
    MaxAgentEdits = 1  MaxReadmeEdits = 1  MaxScriptFaults = 1  MaxScriptRuns = 2
INVARIANTS ToolsTypeOK ReportsExplain SmokeMeansWorking StrictMeansReviewed DoneMeansDone
CHECK_DEADLOCK FALSE
