---- MODULE MCCommands ----
EXTENDS Commands, TLC

CONSTANTS call1, call2, id1, id2

MCCalls == {call1, call2}
MCIds == {id1, id2}
Symmetry == Permutations(MCCalls) \cup Permutations(MCIds)

(* Three options, one of which has two of its own, with any of them        *)
(* required; and a command without a name.                                 *)
Options == [p \in {"command", "a", "b", "c", "d", "e"} |->
    CASE p = "command" -> <<"a", "b", "c">> [] p = "b" -> <<"d", "e">> [] OTHER -> <<>>]

MCCommands ==
    {[named |-> TRUE, required |-> required, options |-> Options] :
        required \in {{}, {"a", "d"}, {"b", "e"}, {"c"}, {"a", "c", "d", "e"}}}
    \cup {[named |-> FALSE, required |-> {}, options |-> Options]}

(* Up to three choices for one of up to two options.                       *)
MCReplies ==
    {reply \in [options : UNION {[1..n -> {"number", "string", "other"}] : n \in 1..2},
                focused : 1..2, choices : 0..3] :
        /\ reply.focused \in DOMAIN reply.options
        /\ reply.options[reply.focused] # "other"}
====
