------------------------------ MODULE MCSense ------------------------------
(***************************************************************************)
(* Two channels, one with a plug.  The ranges of the clamp have the code   *)
(* of the internal range "2V": that codes repeat in this way is as in      *)
(* clamp.cpp.                                                              *)
(***************************************************************************)
EXTENDS Sense, TLC

MC_Channels == {"u", "i"}
MC_Clients == {"display", "module"}
MC_MtRanges == <<"5A", "2V">>
MC_ComRanges == <<"240V", "120V", "R0V", "R10V">>
MC_ClampTypes == {"CL300A"}
MC_RangesOf == [CL300A |-> <<"C300mA", "C150mA">>]
MC_ClampChannels == {"i"}
MC_SelCode ==
    [r \in {"5A", "240V", "R0V"} |-> 1]
        @@ [r \in {"2V", "C300mA", "C150mA", "120V", "R10V"} |-> 2]
MC_AvailableIn ==
    [r \in {"240V", "120V", "C300mA", "C150mA"} |-> {"AC"}]
        @@ [r \in {"R0V", "R10V"} |-> {"REF"}]
        @@ [r \in {"5A"} |-> {"AC", "ADJ"}] @@ [r \in {"2V"} |-> {"ADJ"}]
MC_Wanted == {<<"display", RangeName("i")>>, <<"display", RangeCat("i")>>,
              <<"module", Authorization>>}
=============================================================================
