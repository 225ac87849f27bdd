CONSTANTS
    c1 = c1
    Server = Server
    Clients = {c1}
    ShortMax = 32767
    MaxRequests = 7
    VarLists <- MCInternals
    CmdLists <- MCCmdLists
    Dsp <- MCDsp
    Numbers <- MCNumbers
SPECIFICATION MemorySpec
INVARIANTS
    InternalsAreReached
