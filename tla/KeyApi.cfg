CONSTANTS
    Keys = {"short", "longer"}
    Encoded <- MCEncoded
    NameLimit = 3
    FragmentSize = 2
    Callers = {c1}
    Values = {2}
    Size <- MCSize
    MaxSize = 2
    Operations = {"get", "set", "delete", "keys"}
    Prefixes = {{"short", "longer"}, {"longer"}}
    Conns <- MCConns
    Timeouts = FALSE
    Faults = {"create", "write", "sync"}
    MaxCalls = 3
    MaxCrashes = 1
    ProgramDsns <- MCProgramDsns
    ApiDsns <- MCApiDsns
    Drivers = {"fscache", "memcache"}
    EnvKey = 0
    DefaultTimeout = 300
    InitFails = TRUE
SPECIFICATION ApiSpec
INVARIANT ReadsLastWrite
INVARIANT KeysListed
INVARIANT StatusTruthful
INVARIANT SealedOnDisk
