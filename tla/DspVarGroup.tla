---------------------------- MODULE DspVarGroup ----------------------------
(***************************************************************************)
(* How values get from a module into the memory of the DSP and back: the   *)
(* module's group of variables (DspVarGroupClientInterface) makes the texts*)
(* of MEMORY:WRITE and MEMORY:READ and takes the answer apart, the service *)
(* (DspVarDeviceNodeInOut) resolves the names and writes or reads words.   *)
(*                                                                         *)
(* A text is the sequence of its entries.  A word keeps the type it was    *)
(* written as: read as the other type its bits mean something else.  What  *)
(* has not been written is 0 in both.                                      *)
(***************************************************************************)
EXTENDS DspCompiler

Zero == <<>>
Word(type, value) == [as |-> type, value |-> value]
Untouched == Word("any", Zero)
Garbled == <<"garbled">>

WordAt(mem, a) == IF a \in DOMAIN mem THEN mem[a] ELSE Untouched
ReadAs(type, word) == IF word.as \in {type, "any"} THEN word.value ELSE Garbled

-----------------------------------------------------------------------------
(* The group of the module: variables, and the values it has of them.       *)

NoData(group) == [i \in 1 .. Len(group) |-> [k \in 1 .. group[i].size |-> Zero]]

WriteCommand(group, data) ==
    [i \in 1 .. Len(group) |-> [name |-> group[i].name, values |-> data[i]]]

\* Mutant: the limit is taken for each variable.
VarListShort_LimitEach(group, limit) ==
    [i \in 1 .. Len(group) |->
        [name |-> group[i].name,
         count |-> IF limit = 0 \/ group[i].size < limit THEN group[i].size ELSE limit]]

\* With a limit (0 is none) the first words of the group only.
VarListShort(group, limit) ==
    LET left(i) == limit - SizeBefore(group, i)
        count(i) == IF limit = 0 \/ group[i].size < left(i) THEN group[i].size ELSE left(i)
        requested == {i \in 1 .. Len(group) : limit = 0 \/ left(i) > 0}
    IN  [i \in requested |-> [name |-> group[i].name, count |-> count(i)]]

\* The first variable of the name; the answer's other entries are skipped.
FindVar(group, n) ==
    {i \in 1 .. Len(group) :
        group[i].name = n /\ \A j \in 1 .. i - 1 : group[j].name # n}

SetVarData(group, answer, data) ==
    [i \in 1 .. Len(group) |->
        LET forIt == {e \in 1 .. Len(answer) : i \in FindVar(group, answer[e].name)}
            words(e) == 1 .. Len(answer[e].values)
        IN  [k \in DOMAIN data[i] |->
                LET given == {e \in forIt : k \in words(e)}
                IN  IF given = {} THEN data[i][k]
                    ELSE answer[CHOOSE e \in given : \A f \in given : f <= e].values[k]]]

-----------------------------------------------------------------------------
(* The service.                                                             *)

\* How many values an entry has is not compared with the size of the variable.
WriteDspVar(hash, w, entry) ==
    LET v == GetDspVar(hash, entry.name)
        area == v.at .. v.at + Len(entry.values) - 1
    IN  IF ~w.ok \/ entry.values = <<>> \/ ~IsKnown(hash, entry.name)
        THEN [w EXCEPT !.ok = FALSE]
        ELSE [w EXCEPT !.mem = [a \in DOMAIN @ \cup area |->
                IF a \in area THEN Word(v.type, entry.values[a - v.at + 1]) ELSE @[a]]]

\* The first bad entry ends it; those before are written.
WriteDspVars(hash, entries, mem) ==
    FoldLeft(LAMBDA w, entry : WriteDspVar(hash, w, entry), [ok |-> TRUE, mem |-> mem],
             entries)

ReadOneDspVar(hash, entry, mem) ==
    LET v == GetDspVar(hash, entry.name)
    IN  [name |-> v.name,
         values |-> [k \in 1 .. entry.count |-> ReadAs(v.type, WordAt(mem, v.at + k - 1))]]

\* With one bad entry the answer is an error, which has no entries.
ReadDspVarList(hash, entries, mem) ==
    IF \E i \in 1 .. Len(entries) :
        entries[i].count < 1 \/ ~IsKnown(hash, entries[i].name)
    THEN <<>>
    ELSE [i \in 1 .. Len(entries) |-> ReadOneDspVar(hash, entries[i], mem)]

\* dspMemoryWrite and dspMemoryRead of a module whose names mean hash.
DspMemoryWrite(hash, group, data, mem) == WriteDspVars(hash, WriteCommand(group, data), mem)

DspMemoryRead(hash, group, limit, mem, data) ==
    SetVarData(group, ReadDspVarList(hash, VarListShort(group, limit), mem), data)

=============================================================================
