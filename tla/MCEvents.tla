---- MODULE MCEvents ----
EXTENDS Events, TLC

CONSTANTS id1, id2, id3

MCIds == {id1, id2, id3}
Symmetry == Permutations(MCIds)

MCChannelParts == {{}, {<<"topic">>, <<"icon">>}}

MCMessageParts ==
    {{<<"user">>, <<"member">>, <<"referenced_message">>, <<"interaction">>,
      <<"interaction", "member">>, <<"interaction", "member", "user">>,
      <<"component">>},
     {<<"user">>, <<"mention_channel">>}}

(* A command with options, a button that was pressed on a message of       *)
(* somebody, and a modal.                                                  *)
MCInteractionParts ==
    {{<<"data">>, <<"data", "option">>, <<"data", "option", "number_option">>,
      <<"member">>, <<"member", "user">>},
     {<<"data">>, <<"data", "value">>, <<"user">>, <<"member">>, <<"message">>,
      <<"message", "user">>, <<"message", "component">>,
      <<"message", "component", "component">>,
      <<"message", "referenced_message">>},
     {<<"user">>, <<"data">>, <<"data", "component">>,
      <<"data", "component", "select_option">>}}
====
