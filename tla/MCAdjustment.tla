---------------------------- MODULE MCAdjustment ----------------------------
(***************************************************************************)
(* A device with one range, an a.c. clamp type with one range and a d.c.   *)
(* type with that range and one more, and two sockets.                     *)
(***************************************************************************)
EXTENDS Adjustment, TLC

CONSTANTS m3, m4, ac, dc, own, foreign

R1 == "250V"
MC_Ranges == {R1}
MC_Serials == {own, foreign}
MC_Values == {0, 1}
MC_ClampTypes == {ac, dc}
MC_RangesOf == (undefined :> {}) @@ (ac :> {"C5A"}) @@ (dc :> {"C5A", "C1000V"})
MC_OffsetAlways == {dc}

Good == [node |-> 1, coefficient |-> 1, adjusted |-> Kinds]
Other == [node |-> 0, coefficient |-> 1, adjusted |-> {}]

MC_FirstImages ==
    {[stamp |-> 0, serial |-> n, just |-> [r \in MC_Ranges |-> Good],
      owner |-> [r \in MC_Ranges |-> n]] :
        n \in {own, foreign, OtherDevice}}

\* For the device and for the other one, with a range that we do not have,
\* and one with an error at its end.
MC_Documents ==
    {[serial |-> n, complete |-> TRUE, just |-> (R1 :> Good) @@ ("8V" :> Other)] :
        n \in {own, foreign}}
    \cup {[serial |-> own, complete |-> FALSE, just |-> (R1 :> Other)]}

MC_ClampDocuments ==
    {[type |-> ac, serial |-> "C1", complete |-> TRUE, just |-> ("C5A" :> Good)],
     [type |-> dc, serial |-> "C2", complete |-> TRUE,
         just |-> ("C5A" :> Good) @@ ("C1000V" :> Other)],
     [type |-> ac, serial |-> "C1", complete |-> FALSE, just |-> ("C5A" :> Other)]}
\* No socket is special.
SocketsAreAlike == Permutations(Sockets)
=============================================================================
