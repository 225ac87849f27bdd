------------------------------- MODULE Lists -------------------------------
(***************************************************************************)
(* Taking entries out of the services' lists.  The code walks a list and   *)
(* removes what does not belong there; the result is stated by the         *)
(* positions that stay, which the proofs can reason about.                 *)
(***************************************************************************)
EXTENDS Naturals, Sequences

\* The entries of a sequence at the positions in S, in their order.
Kept(seq, S) ==
    {[j \in DOMAIN index |-> seq[index[j]]] :
        index \in {index \in UNION {[1 .. n -> S] : n \in 0 .. Len(seq)} :
                    /\ \A i, j \in DOMAIN index : i < j => index[i] < index[j]
                    /\ \A k \in S : \E j \in DOMAIN index : index[j] = k}}

\* One list for each key in D, taken from Choices(key): a step that changes several.
OneOfEach(D, Choices(_)) ==
    {f \in [D -> UNION {Choices(key) : key \in D}] : \A key \in D : f[key] \in Choices(key)}

=============================================================================
