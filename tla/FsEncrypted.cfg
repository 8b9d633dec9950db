CONSTANTS
    Keys = {"long", "longer"}
    Encoded <- MCEncoded
    NameLimit = 3
    FragmentSize = 2
    Callers = {c1}
    Values = {2}
    Size <- MCSize
    MaxSize = 2
    Operations = {"get", "set", "delete", "keys"}
    Prefixes = {{"longer"}}
    Conns <- MCEncryptedConns
    Timeouts = TRUE
    Faults = {"write"}
    MaxCalls = 3
    MaxCrashes = 1
SPECIFICATION Spec
INVARIANT TypeOK
INVARIANT IntactReads
INVARIANT NoGoroutineStuck
