------------------------------ MODULE MCLabels ------------------------------
(* Two episodes that touched one entity and one that touched none; an outcome that is posted twice and one that
   contradicts it. *)
EXTENDS Labels

CONSTANTS c1, c2, none

Ep(id, start, end, keys) ==
    [id |-> id, start |-> start, end |-> end, keys |-> keys, group |-> "g"]
Out(id, value, occurred, observed) ==
    [id |-> id, key |-> "k", kind |-> "status", value |-> value, occurred |-> occurred,
     observed |-> observed]

MCEpisodes == {Ep(1, 0, 0, {"k"}), Ep(2, 1, 1, {"k"}), Ep(3, 0, 1, {})}
MCPosted == {Out(1, "solved", 0, 0), Out(1, "solved", 0, 2), Out(2, "reopened", 1, 1)}
Reward(value, reward) == [kind |-> "status", value |-> value, reward |-> reward]
MCVersions == <<"10", "9">>
MCRules == [v \in {"10", "9"} |->
    IF v = "10" THEN <<Reward("reopened", 0), Reward("solved", 1)>>
    ELSE <<Reward("solved", 0), Reward("reopened", 1)>>]
Sym == Permutations({c1, c2})
=============================================================================
