SPECIFICATION FairSpec
CONSTANTS
    claude = claude
    other = other
    Auths = {claude, other}
    ModelsOf <- MCModelsOf
    Refreshable = {claude, other}
    ClaudeOAuth = {claude}
    RequestRetry <- MCRequestRetry
    RetryCredentials = {0, 1}
    MaxWait = 1
    Cooldowns = {0, 2}
    Jitter = 1
    MaxChunks = 3
CHECK_DEADLOCK FALSE
INVARIANTS
    ChargedOnce
    ClientSeesTruth
PROPERTIES
    RequestReturns
    UpstreamDrained
