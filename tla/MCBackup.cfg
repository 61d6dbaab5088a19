SPECIFICATION BackupSpec
CONSTANTS
    Loops <- MCLoops
    AgentOf <- MCAgentOf
    RunScenarios <- RunPlans
    MaxRuns = 3
    Daily = 1
    Weekly = 0
    Monthly = 0
    Sundays = {}
    Firsts = {}
    WeekDays = 3
    DayTicks = 2
    MinInterval = 1
    MaxInterval = 4
    MaxTimes = 2
    AgendaScenarios <- AgendaPlans
    Objects = {"x", "y"}
    Users = {1, 2}
    Overlap = 2
    Workers = 2
    RetainUserZip = 1
    MaxTime = 4
    MaxWrites = 2
    CopyScenarios <- CopyPlans
    InstanceOwner = "owner"
    DownloadScenarios <- AskPlans
    MaxDownloadsPerAdmin = 1
    MaxConcurrentArtifacts = 1
    Backends = {"b1", "b2"}
    RestoreScenarios <- RestorePlans
    SlugAttempts = 2
    MaxEntries = 4
    TicketScenarios <- TicketPlans
    MaxTickets = 2
    MaxActive = 2
INVARIANTS RunsSound AgendaSound CopiesSound RestoreSound BytesBudget TicketsSound
PROPERTIES VerdictsReached AgendaServed SlotsReturn RestoreFollowsArchive
CHECK_DEADLOCK FALSE
