---------------------------- MODULE DspCompiler ----------------------------
(***************************************************************************)
(* zdsp1d: what names mean, and how commands become words of the DSP's     *)
(* program.                                                                *)
(*                                                                         *)
(* A command of the DSP has up to three parameters of 16 bits, or one of   *)
(* 32 bits.  A parameter is the name of a variable, perhaps with an offset *)
(* ("NAME+5"), or a number.  A variable stands for its offset to the first *)
(* local variable of its client: the DSP adds the base that USERMEMOFFSET  *)
(* has set.  A text that is no name is taken for a number, decimal or else *)
(* hexadecimal; where the command wants 32 bits it is the other way round. *)
(*                                                                         *)
(* Only the class of a command is looked at, never what it does.           *)
(***************************************************************************)
EXTENDS DspInternals

CONSTANTS
    Dsp,       \* where the sections of the DSP's memory start, and their sizes
    Numbers,   \* what a text means that is a number: [text -> Int]
    ShortMax,  \* largest 16 bit integer, 32767 in the code
    Server     \* stands for the client of what the service puts in itself

ASSUME CompilerAssumption ==
    /\ LayoutWorks(Dsp, ShortMax)
    /\ ShortMax \in Nat
    /\ \A t \in DOMAIN Numbers : Numbers[t] \in Int

-----------------------------------------------------------------------------
(* Names.                                                                   *)

Error == -1

\* Variables of the DSP itself.
DspVars == VarHash(Dsp)

OwnVars(hash, n) == {i \in 1 .. Len(hash) : hash[i].name = n}

IsKnown(hash, n) == OwnVars(hash, n) # {} \/ n \in DOMAIN DspVars

\* A name means the client's last variable of this name, or else the DSP's.
LastOf(hash, own, n) ==
    IF own = {} THEN DspVars[n] ELSE hash[CHOOSE i \in own : \A j \in own : j <= i]

GetDspVar(hash, n) == LastOf(hash, OwnVars(hash, n), n)

\* calcOffset: numbers are not negative.
CalcOffset(text) ==
    IF text \in DOMAIN Numbers /\ Numbers[text] >= 0 THEN Numbers[text] ELSE Error

GetVarOffset(hash, p) ==
    CASE IsKnown(hash, p.text) -> GetDspVar(hash, p.text).offset + p.plus
      [] ~IsKnown(hash, p.text) /\ p.plus = 0 -> CalcOffset(p.text)
      [] OTHER -> Error

GetVarAddress(hash, p) ==
    IF IsKnown(hash, p.text) THEN GetDspVar(hash, p.text).at + p.plus ELSE Error

-----------------------------------------------------------------------------
(* Commands.                                                                *)

\* The parameters of each class of commands.
Widths == [CMD |-> <<>>, CMD1i16 |-> <<"i16">>, CMD2i16 |-> <<"i16", "i16">>,
           CMD3i16 |-> <<"i16", "i16", "i16">>, CMD1i32 |-> <<"i32">>,
           CMD1i161fi32 |-> <<"i16", "fi32">>]

\* What is stored in a short: offsets that do not fit lose their upper bits.
Short(n) ==
    LET low == n % (2 * (ShortMax + 1))
    IN  IF low > ShortMax THEN low - 2 * (ShortMax + 1) ELSE low

ParamValue(hash, width, p) ==
    CASE width = "i16" -> Short(GetVarOffset(hash, p))
      [] width = "i32" -> GetVarOffset(hash, p)
      [] width = "fi32" -> IF p.text \in DOMAIN Numbers THEN Numbers[p.text]
                           ELSE GetVarOffset(hash, p)

\* A literal of 32 bits may be negative.
IsBad(width, p, value) == value < 0 /\ ~(width = "fi32" /\ p.text \in DOMAIN Numbers)

\* Code 0 ends a list; it is also what a command that does not compile leaves.
Invalid == [op |-> "INVALID", args |-> <<>>, of |-> <<Server, 0>>, irq |-> Server]

\* The n-th command of a client.  The number of its parameters must be that of its
\* class.  A command that raises interrupts gets the client's interrupt id in place
\* of its last parameter but one.
Compiled(c, n, cmd, args) ==
    IF \A i \in 1 .. Len(args) : ~IsBad(Widths[cmd.class][i], cmd.params[i], args[i])
    THEN [op |-> cmd.class, args |-> args, of |-> <<c, n>>,
          irq |-> IF cmd.modify THEN c ELSE Server]
    ELSE Invalid

CompileOneCmdLine(hash, c, n, cmd) ==
    IF Len(cmd.params) # Len(Widths[cmd.class]) THEN Invalid
    ELSE Compiled(c, n, cmd, [i \in 1 .. Len(cmd.params) |->
                                ParamValue(hash, Widths[cmd.class][i], cmd.params[i])])

\* The positions of code 0, and what comes before the first one.
Ends(list) == {i \in 1 .. Len(list) : list[i] = Invalid}
Before(list, ends) ==
    IF ends = {} THEN list
    ELSE SubSeq(list, 1, (CHOOSE i \in ends : \A j \in ends : i <= j) - 1)

\* The list ends with the first command that does not compile.
UpToInvalid(list) ==
    Before(list, Ends(list)) \o (IF Ends(list) = {} THEN <<>> ELSE <<Invalid>>)

CompileCmds(hash, c, cmds) ==
    UpToInvalid([n \in 1 .. Len(cmds) |-> CompileOneCmdLine(hash, c, n, cmds[n])])

Compiles(list) == ~Contains(list, Invalid)

UserMemOffset(base) == [Invalid EXCEPT !.op = "USERMEMOFFSET", !.args = <<base>>]
DspMemOffset == [Invalid EXCEPT !.op = "DSPMEMOFFSET", !.args = <<Dsp.workspace>>]
DspIntPost == [Invalid EXCEPT !.op = "DSPINTPOST"]

-----------------------------------------------------------------------------
(* What the DSP makes of a list: it works it off up to the first code 0, and *)
(* adds the base set last to each offset: that of the user, or its own.      *)

Executed(list) == Before(list, Ends(list))

ArgOf(list, set) ==
    IF set = {} THEN 0 ELSE list[CHOOSE j \in set : \A k \in set : k <= j].args[1]

LastSet(list, i, op) == ArgOf(list, {j \in 1 .. i : list[j].op = op})

UserBaseAt(list, i) == LastSet(list, i, "USERMEMOFFSET")
DspBaseAt(list, i) == LastSet(list, i, "DSPMEMOFFSET")

=============================================================================
