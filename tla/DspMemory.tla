----------------------------- MODULE DspMemory -----------------------------
(***************************************************************************)
(* zdsp1d: where the variables of the clients lie in the user workspace of *)
(* the DSP, and the program that uses them.                                *)
(*                                                                         *)
(* A client sends the list of its variables (MEMORY:VARLIST), its command  *)
(* lists, cyclic and for interrupts, and MEMORY:SET.  The SET of one client*)
(* compiles the command lists of all clients, and this gives the variables *)
(* of all clients new addresses: local variables from the start of the     *)
(* workspace upwards, aligned ones from the start of the aligned segment   *)
(* upwards, global ones from there downwards.  Clients share the global    *)
(* variables by name.                                                      *)
(*                                                                         *)
(* Addresses also change what a client reads and writes.  Who goes leaves  *)
(* the addresses of the others alone until somebody compiles again.        *)
(***************************************************************************)
EXTENDS DspVarGroup, FiniteSets

CONSTANTS
    Clients,
    VarLists,      \* lists a client may send: sequences of variables
    CmdLists,      \* command lists of each kind: sequences of commands
    MaxRequests    \* bound: lists sent, SETs and boots

ASSUME MemoryAssumption == Dsp.user \in Nat \ {0} /\ MaxRequests \in Nat

\* The workspace of the users: its start, the start of its aligned segment and
\* the first address behind it.
UserStart == DspVars["UWSPACE"].at
AlignedStart == Dsp.aligned
UserEnd == DspVars["UWSPACE"].at + DspVars["UWSPACE"].size

VARIABLES
    m_clientsChonological,
    m_userMemSection,   \* variables of each client: the last list it sent
    m_varHash,          \* variables its names mean
    actualized,         \* does m_varHash point into m_userMemSection?
    m_sCmdListDef,      \* command lists of each client
    m_DspCmdList,       \* what they were compiled to last
    m_globalVariables,  \* global variables by name
    program,            \* lists in the DSP
    loaded,             \* history: what the last SET that succeeded was about
    requests            \* how many lists, SETs and boots there were

clientVars == <<m_clientsChonological, m_userMemSection, m_varHash, actualized,
                m_sCmdListDef, m_DspCmdList>>
dspVars == <<program, loaded>>
memoryVars == <<clientVars, m_globalVariables, dspVars, requests>>

Segments == {"internal", "local", "global", "aligned"}
Lists == {"cyclic", "interrupt"}
NoLists == [l \in Lists |-> <<>>]

\* A variable just parsed has no address yet.
Parsed(v) == v @@ [at |-> 0, offset |-> 0]

Names == UNION {{list[i].name : i \in 1 .. Len(list)} : list \in VarLists}
            \cup DOMAIN DspVars

MemoryInit ==
    /\ m_clientsChonological = <<>>
    /\ m_userMemSection = [c \in Clients |-> <<>>]
    /\ m_varHash = [c \in Clients |-> <<>>]
    /\ actualized = [c \in Clients |-> TRUE]
    /\ m_sCmdListDef = [c \in Clients |-> NoLists]
    /\ m_DspCmdList = [c \in Clients |-> NoLists]
    /\ m_globalVariables = <<>>
    /\ program = NoLists
    /\ loaded = [uses |-> {}, fits |-> TRUE, leftover |-> FALSE, changed |-> Clients]
    /\ requests = 0

-----------------------------------------------------------------------------
(* Variable lists.                                                          *)

\* setVarList takes the entries before the first it refuses.
Refused(c, v) ==
    \/ /\ v.segment = "global"
       /\ v.name \in DOMAIN m_globalVariables
       /\ m_globalVariables[v.name].size # v.size
    \/ /\ v.segment = "internal"
       /\ \/ ~IsKnown(m_varHash[c], v.name)
          \/ GetDspVar(m_varHash[c], v.name).size # v.size
          \/ GetDspVar(m_varHash[c], v.name).type # v.type

RefusedAt(c, list) == {i \in 1 .. Len(list) : Refused(c, list[i])}

Taken(c, list) ==
    LET firstRefused == CHOOSE i \in RefusedAt(c, list) :
                            \A j \in RefusedAt(c, list) : i <= j
    IN  IF RefusedAt(c, list) = {} THEN list ELSE SubSeq(list, 1, firstRefused - 1)

-----------------------------------------------------------------------------
(* Addresses: absolute ones, and offsets to the client's first local one.    *)

Placed(lay, v, address) == [v EXCEPT !.at = address, !.offset = address - lay.base]

PlaceLocal(lay, v) ==
    [lay EXCEPT !.section = Append(@, Placed(lay, v, lay.local)),
                !.local = @ + v.size]

PlaceAligned(lay, v) ==
    [lay EXCEPT !.section = Append(@, Placed(lay, v, lay.aligned)),
                !.aligned = @ + v.size]

NewGlobal(lay, v) ==
    LET placed == Placed(lay, v, lay.global)
    IN  [lay EXCEPT !.section = Append(@, placed),
                    !.global = @ - v.size,
                    !.globals = [n \in DOMAIN @ \cup {v.name} |->
                                    IF n = v.name THEN placed ELSE @[n]]]

\* Mutant: the pointer counts up like the others.
PlaceGlobal_CountsUp(lay, v) ==
    IF v.name \in DOMAIN lay.globals
    THEN [lay EXCEPT !.section = Append(@, Placed(lay, v, lay.globals[v.name].at))]
    ELSE [NewGlobal(lay, v) EXCEPT !.global = lay.global + v.size]

\* The first client that has the variable places it: from the pointer upwards,
\* and then the pointer moves downwards.
PlaceGlobal(lay, v) ==
    IF v.name \in DOMAIN lay.globals
    THEN [lay EXCEPT !.section = Append(@, Placed(lay, v, lay.globals[v.name].at))]
    ELSE NewGlobal(lay, v)

CalcVarAddress(lay, v) ==
    CASE v.segment = "local"    -> PlaceLocal(lay, v)
      [] v.segment = "aligned"  -> PlaceAligned(lay, v)
      [] v.segment = "global"   -> PlaceGlobal(lay, v)
      [] v.segment = "internal" -> [lay EXCEPT !.section = Append(@, v)]

-----------------------------------------------------------------------------
(* What the service reports about memory.                                   *)

GetMemSize(section, segment) ==
    SizeOf(SelectSeq(section, LAMBDA v : v.segment = segment))

VarMemAvailable == AlignedStart - UserStart
VarMemAlignedAvailable == UserEnd - AlignedStart

VarMemOccupied(list, sections, globals, segment) ==
    IF segment = "global"
    THEN SizeOf([i \in 1 .. Cardinality(DOMAIN globals) |->
                    globals[SetToSeq(DOMAIN globals)[i]]])
    ELSE FoldLeft(LAMBDA sum, c : sum + GetMemSize(sections[c], segment), 0, list)

\* By the report, there is room for all variables.
VarsFit(list, sections, globals) ==
    LET occupied(segment) == VarMemOccupied(list, sections, globals, segment)
    IN  /\ occupied("local") + occupied("global") <= VarMemAvailable
        /\ occupied("aligned") <= VarMemAlignedAvailable

-----------------------------------------------------------------------------
(* Compilation.                                                             *)

\* An empty list is not compiled: what it was compiled to before stays, and goes
\* into the program again.
Recompile(hash, c, l) ==
    IF m_sCmdListDef[c][l] = <<>> THEN m_DspCmdList[c][l]
    ELSE CompileCmds(hash, c, m_sCmdListDef[c][l])

TextsOf(c) ==
    {m_sCmdListDef[c][l][n].params[i].text :
        <<l, n, i>> \in {t \in Lists \X (1 .. 3) \X (1 .. 3) :
            /\ t[2] <= Len(m_sCmdListDef[c][t[1]])
            /\ t[3] <= Len(m_sCmdListDef[c][t[1]][t[2]].params)}}

Uses(hash, c) ==
    {[client |-> c, var |-> GetDspVar(hash, n)] :
        n \in {m \in TextsOf(c) : IsKnown(hash, m)}}

\* Commands with variables need the base of the client in front.
StartOf(lay, c, l) ==
    IF m_sCmdListDef[c][l] = <<>> THEN <<>> ELSE <<UserMemOffset(lay.base)>>

CalcVarAdressesAndSizes(lay, c) ==
    FoldLeft(CalcVarAddress, [lay EXCEPT !.section = <<>>, !.base = lay.local],
             m_userMemSection[c])

\* The list for interrupts is compiled when the cyclic one was.
WithInterruptList(hash, c, cyclic) ==
    [l \in Lists |->
        CASE l = "cyclic" -> cyclic
          [] l = "interrupt" /\ Compiles(cyclic) -> Recompile(hash, c, l)
          [] OTHER -> m_DspCmdList[c][l]]

CompileCmdLists(hash, c) == WithInterruptList(hash, c, Recompile(hash, c, "cyclic"))

AddLists(lay, c, hash, lists, fresh) ==
    [lay EXCEPT
        !.ok = \A l \in fresh : Compiles(lists[l]),
        !.sections = [@ EXCEPT ![c] = lay.section],
        !.hashes = [@ EXCEPT ![c] = hash],
        !.compiled = [@ EXCEPT ![c] = lists],
        !.program = [l \in Lists |-> @[l] \o StartOf(lay, c, l) \o lists[l]],
        !.uses = @ \cup Uses(hash, c),
        !.leftover = @ \/ \E l \in Lists \ fresh : lists[l] # <<>>]

CompileWith(lay, c, hash) ==
    AddLists(lay, c, hash, CompileCmdLists(hash, c),
             {l \in Lists : m_sCmdListDef[c][l] # <<>>})

CompilePlaced(lay, c) ==
    CompileWith(lay, c, IF actualized[c] THEN lay.section ELSE m_varHash[c])

\* What the loop does for the next client.
CompileClient(lay, c) ==
    IF lay.ok THEN CompilePlaced(CalcVarAdressesAndSizes(lay, c), c) ELSE lay

NoLayout(list) ==
    [local |-> UserStart, aligned |-> AlignedStart, global |-> AlignedStart - 1,
     base |-> UserStart, globals |-> <<>>, section |-> <<>>, ok |-> TRUE,
     sections |-> m_userMemSection, hashes |-> m_varHash, compiled |-> m_DspCmdList,
     program |-> [NoLists EXCEPT !["cyclic"] =
                    IF list = <<>> THEN <<>> ELSE <<DspMemOffset>>],
     uses |-> {}, leftover |-> FALSE]

\* The first client that does not compile ends it.  Behind the last one come the
\* sending of the interrupts and the end of the list.
CompileAll(list) ==
    LET post(l) == IF l = "cyclic" /\ list # <<>> THEN <<DspIntPost>> ELSE <<>>
    IN  [FoldLeft(CompileClient, NoLayout(list), list) EXCEPT
            !.program = [l \in Lists |-> @[l] \o post(l) \o <<Invalid>>]]

-----------------------------------------------------------------------------
(* Operations.                                                              *)

\* A client that is gone, or not there yet, has no data.
AddClient(c) ==
    /\ ~Contains(m_clientsChonological, c)
    /\ m_clientsChonological' = Append(m_clientsChonological, c)
    /\ UNCHANGED <<m_userMemSection, m_varHash, actualized, m_sCmdListDef,
                   m_DspCmdList, m_globalVariables, dspVars>>

\* These clients are left of those with the given sections and names; the last
\* one to go resets the global variables.
LeaveOnly(list, sections, hashes, compiled, globals) ==
    LET left(f, none) == [c \in Clients |-> IF Contains(list, c) THEN f[c] ELSE none]
    IN  /\ m_clientsChonological' = list
        /\ m_userMemSection' = left(sections, <<>>)
        /\ m_varHash' = left(hashes, <<>>)
        /\ actualized' = left(actualized, TRUE)
        /\ m_sCmdListDef' = left(m_sCmdListDef, NoLists)
        /\ m_DspCmdList' = left(compiled, NoLists)
        /\ m_globalVariables' = IF list = <<>> THEN <<>> ELSE globals

\* What these clients say now is not what runs any more.
Changed(cs) == loaded' = [loaded EXCEPT !.changed = @ \cup cs]

Without(c) == SelectSeq(m_clientsChonological, LAMBDA d : d # c)

\* Mutant: the variables of the others move up at once.
RemoveClient_MovesUp(c) ==
    /\ Contains(m_clientsChonological, c)
    /\ \E lay \in {CompileAll(Without(c))} :
        LeaveOnly(Without(c), lay.sections, lay.hashes, lay.compiled, lay.globals)
    /\ Changed({c})
    /\ UNCHANGED program

\* RELEASE, or the peer has closed: nobody compiles.
RemoveClient(c) ==
    /\ Contains(m_clientsChonological, c)
    /\ LeaveOnly(Without(c), m_userMemSection, m_varHash, m_DspCmdList,
                 m_globalVariables)
    /\ Changed({c})
    /\ UNCHANGED program

\* MEMORY:VARLIST: a list that is refused leaves the names as they were.
SetVarList(c, list) ==
    /\ Contains(m_clientsChonological, c)
    /\ LET section == [i \in 1 .. Len(Taken(c, list)) |-> Parsed(list[i])]
       IN  /\ m_userMemSection' = [m_userMemSection EXCEPT ![c] = section]
           /\ m_varHash' = [m_varHash EXCEPT ![c] =
                                IF RefusedAt(c, list) = {} THEN section ELSE @]
           /\ actualized' = [actualized EXCEPT ![c] = RefusedAt(c, list) = {}]
    /\ Changed({c})
    /\ UNCHANGED <<m_clientsChonological, m_sCmdListDef, m_DspCmdList,
                   m_globalVariables, program>>

\* MEMORY:CYCLIST, MEMORY:INTLIST.
SetCmdListDef(c, l, cmds) ==
    /\ Contains(m_clientsChonological, c)
    /\ m_sCmdListDef' = [m_sCmdListDef EXCEPT ![c][l] = cmds]
    /\ Changed({c})
    /\ UNCHANGED <<m_clientsChonological, m_userMemSection, m_varHash, actualized,
                   m_DspCmdList, m_globalVariables, program>>

\* MEMORY:SET compiles for all; when this or the write to the device fails, the
\* client that sent it is deleted.
LoadCmdList(c, written) ==
    /\ Contains(m_clientsChonological, c)
    /\ \E lay \in {CompileAll(m_clientsChonological)} :
           IF lay.ok /\ written
           THEN /\ LeaveOnly(m_clientsChonological, lay.sections, lay.hashes,
                             lay.compiled, lay.globals)
                /\ program' = lay.program
                /\ loaded' = [uses |-> lay.uses, leftover |-> lay.leftover,
                              fits |-> VarsFit(m_clientsChonological, lay.sections,
                                               lay.globals),
                              changed |-> {}]
           ELSE /\ LeaveOnly(Without(c), lay.sections, lay.hashes, lay.compiled,
                             lay.globals)
                /\ Changed(Clients)
                /\ UNCHANGED program

\* MEMORY:CLALL.
UnloadCmdListAllClients(written) ==
    /\ LeaveOnly(<<>>, m_userMemSection, m_varHash, m_DspCmdList, m_globalVariables)
    /\ IF written
       THEN /\ program' = CompileAll(<<>>).program
            /\ loaded' = [loaded EXCEPT !.uses = {}, !.changed = Clients]
       ELSE Changed(Clients) /\ UNCHANGED program

\* SYSTEM:DSP:TEST boots the DSP, which knows no program then.
RunDspTest ==
    /\ program' = NoLists
    /\ loaded' = [loaded EXCEPT !.uses = {}, !.changed = Clients]
    /\ UNCHANGED <<clientVars, m_globalVariables>>

-----------------------------------------------------------------------------
Request(c) ==
    \/ \E list \in VarLists :
        /\ RefusedAt(c, list) = {} \/ m_sCmdListDef[c] = NoLists
        /\ SetVarList(c, list)
    \/ \E l \in Lists : \E cmds \in CmdLists[l] : actualized[c] /\ SetCmdListDef(c, l, cmds)
    \/ \E written \in BOOLEAN : LoadCmdList(c, written)

\* A client whose list was refused sends no program, and a client that has sent
\* a program sends no list that is refused.
MemoryNext ==
    \/ /\ \/ \E c \in Clients : AddClient(c) \/ RemoveClient(c)
          \/ \E written \in BOOLEAN : UnloadCmdListAllClients(written)
       /\ UNCHANGED requests
    \/ /\ requests < MaxRequests
       /\ requests' = requests + 1
       /\ (\E c \in Clients : Request(c)) \/ RunDspTest

MemorySpec == MemoryInit /\ [][MemoryNext]_memoryVars

-----------------------------------------------------------------------------
(* Properties.                                                              *)

Area(v) == v.at .. v.at + v.size - 1

Common(v, w) == Area(v) \cap Area(w)

\* The room of a global variable is set aside below its address, and its words
\* lie above: all but the first one run into the aligned segment, or into global
\* variables that were placed before it.
Overruns(v, w) ==
    /\ v.segment = "global"
    /\ w.segment = "aligned" \/ (w.segment = "global" /\ w.name # v.name)
    /\ Common(v, w) # {} /\ Common(v, w) \subseteq v.at + 1 .. v.at + v.size - 1

\* Two variables that the program in the DSP uses lie apart, unless they are the
\* same one of one client or a global variable that clients share, whenever the
\* service reports that it has memory enough.  Global variables of several words
\* do not keep to this; nothing else shares a word: they never run into a
\* local variable, and their first words are always their own.
VariablesDisjoint ==
    loaded.fits =>
        \A e, f \in loaded.uses :
            \/ Common(e.var, f.var) = {}
            \/ e = f
            \/ Overruns(e.var, f.var) \/ Overruns(f.var, e.var)
            \/ e.var.name = f.var.name /\ e.var.segment = f.var.segment
                /\ e.var.segment \in {"global", "internal"}

\* Clients whose lists are those that the DSP has.
Settled == ToSet(m_clientsChonological) \ loaded.changed

\* Values that are all different.
ValuesOf(c) ==
    [i \in 1 .. Len(m_userMemSection[c]) |->
        [k \in 1 .. m_userMemSection[c][i].size |-> <<c, i, k>>]]

\* What d has in its i-th variable after c wrote all of its own: what c wrote when
\* it is c, or when both list the variable as a global one.
SeenBy(d, c, i) ==
    LET v == m_userMemSection[d][i]
        same == {j \in 1 .. Len(m_userMemSection[c]) :
                    /\ m_userMemSection[c][j].name = v.name
                    /\ c = d \/ {v.segment, m_userMemSection[c][j].segment} = {"global"}}
    IN  IF same = {} THEN NoData(m_userMemSection[d])[i]
        ELSE ValuesOf(c)[CHOOSE j \in same : TRUE]

\* With a limit the words behind it stay as they were.
UpTo(limit, group, values) ==
    [i \in 1 .. Len(group) |-> [k \in 1 .. group[i].size |->
        IF limit = 0 \/ SizeBefore(group, i) + k <= limit THEN values[i][k] ELSE Zero]]

\* The variables of d that no global variable of c overruns, and that overrun none
\* of c's.
LeftAlone(c, d) ==
    {i \in 1 .. Len(m_userMemSection[d]) :
        \A j \in 1 .. Len(m_userMemSection[c]) :
            /\ ~Overruns(m_userMemSection[d][i], m_userMemSection[c][j])
            /\ ~Overruns(m_userMemSection[c][j], m_userMemSection[d][i])}

\* A module that writes its variables reads them back, another one that shares
\* global variables reads these, and its other variables are left alone: whatever
\* others have loaded, unless the memory is too small for all.  Left out are what
\* global variables of several words overrun, and lists that were refused.
WrittenIsRead ==
    loaded.fits =>
        \A c, d \in {e \in Settled : actualized[e]}, limit \in 0 .. 2 :
            LET group == m_userMemSection[d]
                write == DspMemoryWrite(m_varHash[c], m_userMemSection[c], ValuesOf(c), <<>>)
            IN  /\ write.ok
                /\ \A i \in LeftAlone(c, d) :
                    DspMemoryRead(m_varHash[d], group, limit, write.mem, NoData(group))[i]
                        = UpTo(limit, group, [k \in 1 .. Len(group) |-> SeenBy(d, c, k)])[i]

IsOfDsp(c, p) == GetDspVar(m_varHash[c], p.text).segment = "internal"

\* A command's parameter is one that the DSP adds a base to: it names a variable of
\* a workspace, is not mistaken for a number and not replaced by the id.
NamesVariable(c, cmd, i) ==
    LET p == cmd.params[i] IN
    /\ IsKnown(m_varHash[c], p.text)
    /\ IsOfDsp(c, p) => p.text \in DspWorkspaceNames
    /\ ~(Widths[cmd.class][i] = "fi32" /\ p.text \in DOMAIN Numbers)
    /\ ~(cmd.modify /\ i = Len(cmd.params) - 1)

IsRunAs(c, cmd, list, j) ==
    /\ list[j].op = cmd.class
    /\ cmd.modify => list[j].irq = c
    /\ \A i \in 1 .. Len(cmd.params) : NamesVariable(c, cmd, i) =>
        LET base == IF IsOfDsp(c, cmd.params[i]) THEN DspBaseAt(list, j)
                    ELSE UserBaseAt(list, j)
        IN  base + list[j].args[i] = GetVarAddress(m_varHash[c], cmd.params[i])

\* The DSP runs all commands of a client, in their order, on the words that the
\* client reads and writes under the same names, until the client sends other
\* lists or a SET fails.
RunsWhatWasSent ==
    \A c \in Settled, l \in Lists :
        ~loaded.leftover =>
            LET list == Executed(program[l])
                ofC  == {j \in 1 .. Len(list) : list[j].of[1] = c}
            IN  \E first \in 0 .. Len(list) :
                    /\ ofC = {first + n : n \in 1 .. Len(m_sCmdListDef[c][l])}
                    /\ \A n \in 1 .. Len(m_sCmdListDef[c][l]) :
                        IsRunAs(c, m_sCmdListDef[c][l][n], list, first + n)

\* A variable of the DSP that a client lists is reached at its address.
InternalsAreReached ==
    \A c \in Clients, n \in DOMAIN DspVars :
        GetDspVar(m_varHash[c], n).segment = "internal"
            => GetDspVar(m_varHash[c], n).at = DspVars[n].at

=============================================================================
