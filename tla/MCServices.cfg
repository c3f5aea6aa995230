SPECIFICATION ServicesSpec
CONSTANTS
    Workers = {w1, w2}
    Texts = {a, b}
    Others = {c}
    MaxVersions = 3
    Callers = {w1, w2}
    MaxRequests = 3
    MaxNotices = 2
    Servers = {w1, w2}
    Tools <- Words
    Allowed = {a, b}
    MaxClients = 2
    Providers = 3
    Retries = 1
    Frames = 3
    Tasks = 2
    MaxSteps = 2
    Artifacts <- Words
    Processes = {w1, w2}
    Events <- Words
    TermOf <- WordTerm
    Split = {a}
    Important <- SomeImportant
    HeadKept = 1
    TailKept = 2
    OutcomesKept = 2
    MaxEvents = 9
    Descendants <- Words
INVARIANTS
    ServicesTypeOK
    McpIsSound AnswerIsOneAttempts VerdictIsEvaluators
    CurrentIsNewest EvidenceHolds IndexCovers OutcomesRemembered TreeIsStopped
CHECK_DEADLOCK FALSE
