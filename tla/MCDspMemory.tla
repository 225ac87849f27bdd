---------------------------- MODULE MCDspMemory ----------------------------
(***************************************************************************)
(* Instances of DspMemory: variable lists with local, aligned, global and  *)
(* DSP variables, which not always have room together.  Of the global ones *)
(* G has two words: the client that places it first lets it run into the   *)
(* aligned B, the other one into H.  Commands with names, offsets, numbers,*)
(* a name that is a number, too, and a variable of the DSP.                *)
(***************************************************************************)
EXTENDS DspMemory, TLC

MCVar(name, segment, size) ==
    [name |-> name, segment |-> segment, size |-> size,
     type |-> IF name \in {"A", "H", "SUBDC"} THEN "int" ELSE "float"]

MCVarLists == {
    <<MCVar("A", "local", 2), MCVar("F", "local", 1), MCVar("G", "global", 2)>>,
    <<MCVar("H", "global", 1), MCVar("G", "global", 2), MCVar("B", "aligned", 2)>>,
    <<MCVar("A", "local", 1), MCVar("NOTOFTHEDSP", "internal", 1)>>}

MCInternals == {<<MCVar("A", "local", 1), MCVar("SUBDC", "internal", 1)>>}

MCParam(text, plus) == [text |-> text, plus |-> plus]
MCCmd(class, modify, params) == [class |-> class, modify |-> modify, params |-> params]

MCCmdLists == [
    cyclic |-> {
        <<>>,
        <<MCCmd("CMD3i16", FALSE, <<MCParam("A", 1), MCParam("10", 0), MCParam("G", 0)>>),
          MCCmd("CMD1i161fi32", FALSE, <<MCParam("F", 0), MCParam("F", 0)>>)>>,
        <<MCCmd("CMD3i16", FALSE, <<MCParam("B", 0), MCParam("H", 0), MCParam("SUBDC", 0)>>)>>},
    interrupt |-> {
        <<>>,
        <<MCCmd("CMD3i16", TRUE, <<MCParam("G", 0), MCParam("0", 0), MCParam("10", 0)>>)>>}]

\* The real sections, behind a small workspace of the users.
MCDsp == [Dsp21362 EXCEPT !.user = 4, !.aligned = 10, !.uwSpaceSize = 9]

MCNumbers == ("0" :> 0) @@ ("10" :> 10) @@ ("F" :> 15)

MCDspMemoryClients == Permutations(Clients)

=============================================================================
