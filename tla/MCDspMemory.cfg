CONSTANTS
    c1 = c1
    c2 = c2
    Server = Server
    Clients = {c1, c2}
    ShortMax = 32767
    MaxRequests = 7
    VarLists <- MCVarLists
    CmdLists <- MCCmdLists
    Dsp <- MCDsp
    Numbers <- MCNumbers
SPECIFICATION MemorySpec
INVARIANTS
    VariablesDisjoint
    WrittenIsRead
    RunsWhatWasSent
SYMMETRY MCDspMemoryClients
