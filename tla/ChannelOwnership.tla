-------------------------- MODULE ChannelOwnership --------------------------
(***************************************************************************)
(* What sec1000d promises about its error calculator channels: each one    *)
(* has at most one owner, a channel goes to a new owner only from being    *)
(* free, and a client's channels come back all at once.                    *)
(***************************************************************************)
CONSTANTS Channels, Clients, Nobody

VARIABLE owner

TypeOK == owner \in [Channels -> Clients \cup {Nobody}]

Init == owner = [ch \in Channels |-> Nobody]

OwnedBy(cs) == {ch \in Channels : owner[ch] \in cs}

\* A client that owns nothing gets a set of channels nobody owns.
Grant(c, chs) ==
    /\ OwnedBy({c}) = {}
    /\ chs \subseteq {ch \in Channels : owner[ch] = Nobody}
    /\ owner' = [ch \in Channels |-> IF ch \in chs THEN c ELSE owner[ch]]

\* All channels of some clients come back: of one that frees them, or of all
\* clients of a connection that closes.
TakeBack(cs) ==
    owner' = [ch \in Channels |-> IF owner[ch] \in cs THEN Nobody ELSE owner[ch]]

Next ==
    \/ \E c \in Clients, chs \in SUBSET Channels : Grant(c, chs)
    \/ \E cs \in SUBSET Clients : TakeBack(cs)

Spec == Init /\ [][Next]_owner

=============================================================================
