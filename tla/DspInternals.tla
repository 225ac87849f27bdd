---------------------------- MODULE DspInternals ----------------------------
(***************************************************************************)
(* zdsp1d: the memory of the DSP and the variables it has itself.          *)
(*                                                                         *)
(* The variables lie one behind the other in sections, each with a start   *)
(* address that depends on the type of the DSP.  Offsets count from the    *)
(* start of the section, those of the dialog workspace from the start of   *)
(* the DSP workspace: that is the base the DSP adds for COPYDU and COPYUD. *)
(* The workspace of the users is one large variable.                       *)
(***************************************************************************)
EXTENDS Integers, Sequences, SequencesExt

IntVar(name, size) == [name |-> name, size |-> size, type |-> "int"]
FloatVar(name, size) == [name |-> name, size |-> size, type |-> "float"]

DspWorkspaceVar ==
    <<FloatVar("FREQENCY", 1), FloatVar("FREQUENCYVALUE", 4),
      FloatVar("MAXIMUMSAMPLE", 32), FloatVar("FREQUENCYVALUEFILTER", 4),
      FloatVar("FREQUENCYSCALE", 4), FloatVar("KREISFREQKOEFF", 1),
      IntVar("ETHERRORS", 1), IntVar("ETHSYNCLOSTCOUNT", 1), IntVar("ETHDATACOUNT", 2),
      IntVar("NCHANNELS", 1), IntVar("NSMEAS", 1), IntVar("NSPERIOD", 1),
      FloatVar("_NSPERIOD", 1), IntVar("SYNCASDU", 1), FloatVar("TMCH0", 1)>>

DialogWorkSpaceVar ==
    <<IntVar("DSPCMDPAR", 10), IntVar("DSPACK", 1), IntVar("CTRLCMDPAR", 20),
      IntVar("CTRLACK", 1), FloatVar("FREQUENCYNORM", 4), FloatVar("GAINCORRECTION", 32),
      FloatVar("PHASECORRECTION", 32), FloatVar("OFFSETCORRECTION", 32),
      FloatVar("BUSYMAX", 1), FloatVar("BUSY", 1), FloatVar("VNR", 1),
      FloatVar("GAINCORRECTION2", 32), FloatVar("PHASECORRECTION2", 32),
      FloatVar("OFFSETCORRECTION2", 32), IntVar("ETHDESTSOURCEADRESS", 3),
      IntVar("ETHPRIORITYTAGGED", 1), IntVar("ETHTYPEAPPID", 1),
      IntVar("ETHROUTINGTAB", 16), IntVar("INTERRUPTERROR", 1),
      FloatVar("POWVALS4FOUT", 48), IntVar("SUBDC", 1)>>

UserWorkSpaceVar(dsp) == <<FloatVar("UWSPACE", dsp.uwSpaceSize)>>

\* The two banks of command lists.
CmdListVar(dsp) ==
    <<IntVar("INTCMDLIST", dsp.IntCmdListLen), IntVar("CMDLIST", dsp.CmdListLen),
      IntVar("ALTINTCMDLIST", dsp.IntCmdListLen), IntVar("ALTCMDLIST", dsp.CmdListLen)>>

\* Names for the numbers of the channels: an address they have not.
ChannelNr == [i \in 1 .. 32 |-> IntVar("CH" \o ToString(i - 1), 1)]

Dsp21262 == [workspace |-> \H82800, dialog |-> \H83800, user |-> \H84800,
             aligned |-> \H87000, cmdList |-> \H84000, uwSpaceSize |-> 14335,
             CmdListLen |-> 896, IntCmdListLen |-> 128]
Dsp21362 == [workspace |-> \HE0800, dialog |-> \HE1800, user |-> \H98180,
             aligned |-> \H9F000, cmdList |-> \HE2000, uwSpaceSize |-> 32383,
             CmdListLen |-> 3584, IntCmdListLen |-> 512]

Sections(dsp) ==
    <<[start |-> dsp.workspace, vars |-> DspWorkspaceVar],
      [start |-> dsp.dialog, vars |-> DialogWorkSpaceVar],
      [start |-> dsp.user, vars |-> UserWorkSpaceVar(dsp)],
      [start |-> dsp.cmdList, vars |-> CmdListVar(dsp)],
      [start |-> 0, vars |-> ChannelNr]>>

\* Names that commands reach from the base of the DSP workspace.
NamesOf(vars) == {vars[i].name : i \in 1 .. Len(vars)}
DspWorkspaceNames == NamesOf(DspWorkspaceVar) \cup NamesOf(DialogWorkSpaceVar)

SizeOf(vars) == FoldLeft(LAMBDA sum, v : sum + v.size, 0, vars)
SizeBefore(vars, i) == SizeOf(SubSeq(vars, 1, i - 1))

\* The variables of a section by name.
InitDspInternalMemsection(section, shift) ==
    [n \in NamesOf(section.vars) |->
        LET i == CHOOSE k \in 1 .. Len(section.vars) : section.vars[k].name = n
        IN  section.vars[i] @@ [segment |-> "internal",
                                at |-> section.start + SizeBefore(section.vars, i),
                                offset |-> SizeBefore(section.vars, i) + shift]]

ShiftOf(dsp, section) ==
    IF section.start = dsp.dialog THEN dsp.dialog - dsp.workspace ELSE 0

\* All of them.
VarHash(dsp) ==
    FoldLeft(LAMBDA hash, s : InitDspInternalMemsection(s, ShiftOf(dsp, s)) @@ hash,
             <<>>, Sections(dsp))

-----------------------------------------------------------------------------
(* What the tables have to be for the rest to work.                         *)

EndOf(section) == section.start + SizeOf(section.vars)

Apart(s, t) == EndOf(s) <= t.start \/ EndOf(t) <= s.start

\* The sections with memory lie apart, the aligned segment lies inside the user
\* workspace, and the offset of each word of a workspace fits into 16 bits.
LayoutWorks(dsp, shortMax) ==
    /\ \A i, j \in 1 .. 4 : i # j => Apart(Sections(dsp)[i], Sections(dsp)[j])
    /\ dsp.user < dsp.aligned /\ dsp.aligned < dsp.user + dsp.uwSpaceSize
    /\ \E hash \in {VarHash(dsp)} :
          \A n \in DOMAIN hash : hash[n].offset + hash[n].size - 1 <= shortMax

ASSUME DspLayouts == \A dsp \in {Dsp21262, Dsp21362} : LayoutWorks(dsp, 32767)

=============================================================================
