---- MODULE Structures ----
(***************************************************************************)
(* The memory of channels, messages and interactions: how they are made    *)
(* from JSON, copied and destroyed (discord/channel.c, message.c, user.c,  *)
(* interaction.c, component.c).                                            *)
(*                                                                         *)
(* A pointer is the path that leads to it from the structure: <<>> is the  *)
(* structure itself, <<"member", "user">> the user of its member. A path   *)
(* stands for the structure it leads to together with all that is copied   *)
(* and freed along with it (names, contents, timestamps, arrays of         *)
(* pointers, attachments, ...); an array has one element or none. A        *)
(* structure in memory is a function from its pointers that are not NULL   *)
(* to blocks. A block is named by the object and by the pointer it was     *)
(* allocated for.                                                          *)
(***************************************************************************)
EXTENDS Integers, Sequences, SequencesExt

NoStructure == [p \in {} |-> <<0, p>>]

Blocks(s) == {s[p] : p \in DOMAIN s}

-----------------------------------------------------------------------------
(* The structures a structure points to. Each field is named for the kind  *)
(* of structure it leads to: a field that leads to an array for one of its *)
(* elements.                                                               *)

MessageFields ==
    {"user", "member", "mention_channel", "referenced_message",
     "interaction", "component"}
InteractionFields == {"data", "member", "user", "message"}
DataFields == {"option", "number_option", "value", "component"}
OptionFields == {"option", "number_option"}
ComponentFields == {"body", "component", "select_option"}
Fields == MessageFields \cup InteractionFields \cup DataFields \cup OptionFields
            \cup ComponentFields

KindOf(field) ==
    CASE field = "referenced_message" -> "message"
      [] field = "number_option"      -> "option"
      [] OTHER                        -> field

(* A table says for each kind of structure which fields it holds for: all  *)
(* fields on the way to p are in it.                                       *)
Along(Table(_), kind, p) ==
    \A i \in DOMAIN p : p[i] \in Table(IF i = 1 THEN kind ELSE KindOf(p[i - 1]))

(* The field next to the last one of p.                                    *)
Beside(p, field) == Append(Front(p), field)

-----------------------------------------------------------------------------
(* Definitions that end in an underscore and a word are variants of the    *)
(* one that follows them, with a mistake in it.                            *)

(* What the JSON may contain, by kind.                                     *)
json_to_message == MessageFields
json_to_interaction == InteractionFields
json_to_interaction_data == DataFields
json_to_interaction_data_option == OptionFields

MadeOf(kind) ==
    CASE kind = "message"     -> json_to_message
      [] kind = "interaction" -> json_to_interaction
      [] kind = "data"        -> json_to_interaction_data
      [] kind = "option"      -> json_to_interaction_data_option
      [] kind = "component"   -> ComponentFields \ {"body"}
      [] kind = "member"      -> {"user"}
      [] OTHER                -> {}

(* Every component gets the structure of its type.                         *)
json_to_component(parts) ==
    {Append(p, "body") : p \in {q \in parts : Last(q) = "component"}}

(* A member is given the user that is beside it, and parses its own only   *)
(* if there is none.                                                       *)
GivenUser(parts, p) ==
    /\ Len(p) > 1 /\ Last(p) = "user" /\ Last(Front(p)) = "member"
    /\ Beside(Front(p), "user") \in parts
json_to_member(parts) ==
    {Append(p, "user") :
        p \in {q \in parts : Last(q) = "member" /\ Beside(q, "user") \in parts}}

(* The block that is allocated for a pointer: the user that a member is    *)
(* given belongs to the structure the member is in.                        *)
Block(o, parts, p) ==
    <<o, IF GivenUser(parts, p) THEN Beside(Front(p), "user") ELSE p>>

(* A message or an interaction made from JSON with these parts.            *)
FromParts(o, parts) ==
    LET all == {<<>>} \cup parts \cup json_to_component(parts) \cup json_to_member(parts)
    IN [p \in all |-> Block(o, all, p)]

json_to_channel(o, parts) == [p \in {<<>>} \cup parts |-> <<o, p>>]

-----------------------------------------------------------------------------
(* What is allocated anew for a copy, by kind; what is not keeps pointing  *)
(* to the block of the source.                                             *)
copy_message_shallow == MessageFields \ {"member"}
copy_message == MessageFields
copy_interaction == InteractionFields
copy_interaction_data == DataFields
copy_interaction_data_option == OptionFields
copy_component == ComponentFields

CopiedOf(kind) ==
    CASE kind = "message"     -> copy_message
      [] kind = "interaction" -> copy_interaction
      [] kind = "data"        -> copy_interaction_data
      [] kind = "option"      -> copy_interaction_data_option
      [] kind = "component"   -> copy_component
      [] kind = "member"      -> {"user"}
      [] OTHER                -> {}

(* The copy of a member is given the copy of the user beside it, or none.  *)
copy_member(parts) ==
    {p \in parts : Len(p) > 1 /\ Last(p) = "user" /\ Last(Front(p)) = "member"
                     => GivenUser(parts, p)}

CopyParts(o, kind, src) ==
    [p \in copy_member(DOMAIN src) |->
        IF Along(CopiedOf, kind, p) THEN Block(o, DOMAIN src, p) ELSE src[p]]

(* The copy of the icon goes into topic, over the copy of the topic; icon  *)
(* keeps the pointer of the source.                                        *)
copy_channel(o, src) ==
    IF <<"icon">> \notin DOMAIN src THEN [p \in DOMAIN src |-> <<o, p>>]
    ELSE [p \in DOMAIN src \cup {<<"topic">>} |->
            CASE p = <<"icon">>  -> src[p]
              [] p = <<"topic">> -> <<o, <<"icon">>>>
              [] OTHER           -> <<o, p>>]

-----------------------------------------------------------------------------
(* What is freed, by kind: not the message a message refers to, and not    *)
(* the structure of a component's type.                                    *)
destroy_message == MessageFields \ {"referenced_message"}
destroy_interaction == InteractionFields
destroy_interaction_data == DataFields
destroy_interaction_data_option == OptionFields
destroy_component == ComponentFields \ {"body"}
destroy_member_only == {}
destroy_member == {"user"}

DestroyedOf(kind) ==
    CASE kind = "message"     -> destroy_message
      [] kind = "interaction" -> destroy_interaction
      [] kind = "data"        -> destroy_interaction_data
      [] kind = "option"      -> destroy_interaction_data_option
      [] kind = "component"   -> destroy_component
      [] kind = "member"      -> destroy_member
      [] OTHER                -> {}

(* A user beside a member is freed with the member, and on its own         *)
(* otherwise.                                                              *)
LeftToMember_not(parts, p) == FALSE
LeftToMember(parts, p) ==
    \E i \in DOMAIN p :
        p[i] = "user" /\ Append(SubSeq(p, 1, i - 1), "member") \in parts

FreedParts(kind, parts) ==
    {p \in parts : Along(DestroyedOf, kind, p) /\ ~LeftToMember(parts, p)}

destroy_channel(parts) == parts

-----------------------------------------------------------------------------
(* A mention of a channel is smaller than the discord_channel it is copied *)
(* and destroyed as. The number of an option is copied as if it were a     *)
(* string, because nobody sets value_type. (A value is made as a select    *)
(* option and used as an option: they have the same size, and Discord      *)
(* sends values that leave it empty.)                                      *)
CopyMisreads(parts) ==
    \E p \in parts : p # <<>> /\ Last(p) \in {"mention_channel", "number_option"}
DestroyMisreads(freedParts) ==
    \E p \in freedParts : p # <<>> /\ Last(p) = "mention_channel"

(* Some of the pointers that are freed lead to the same block.             *)
FreesTwice(s, pointers) ==
    \E p, q \in pointers : p # q /\ s[p] = s[q]
====
