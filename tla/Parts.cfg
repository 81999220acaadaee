SPECIFICATION Spec
CONSTANTS
    Messages <- McMessages
    MaxSchemaRetries = 3
    Presets <- McPresets
    Window = 2
    Ips = {"ip"}
    MaxClock = 7
    PanelRepos = {"a/a", "b/b"}
    Floors = {70, 90}
    MaxPanelSteps = 9
    Tabs = {"tab1", "tab2"}
    Pats = {"pat1", "pat2"}
    MaxScheduleSteps = 6
    Tokens = {"token1", "token2"}
    MaxTokenSteps = 7
    FormRepos = {"own", "foreign", "foreign2", "barred"}
    Verdict <- McVerdict
    Hosts = {"registry", "cdn", "mirror"}
    Tier1Hosts = {"registry"}
    SavedHosts <- McSavedHosts
    MaxHosts = 2
    MaxFormSteps = 6
    call1 = call1  call2 = call2
    Calls = {call1, call2}
    Asked = {"running"}
    PageSize = 1
    MaxScans = 2
    Issues = 1
    MaxPolls = 2
    MaxChanges = 2
    RankedFiles <- McRankedFiles
    FileKind <- McFileKind
    IssueBudget = 14
    FileEstimate = 3
    BlocksCost = 1
    Lines <- McLines
    MaxLines <- McMaxLines
    Repos <- McRepos
    Questions <- McQuestions
INVARIANTS
    BudgetsHold
    SettingsAreMeant
    
    PatchesAreExact
    AnswersAreWhole
    VerdictsAreEarned
    ListsAreRead
    ChangesAreExact
    RecordsAreShown
SYMMETRY CallsAreAlike
CHECK_DEADLOCK FALSE
