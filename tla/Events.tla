---- MODULE Events ----
(***************************************************************************)
(* Who owns channels, messages and interactions: event_handle of           *)
(* discord/event.c, which runs on the event loop, fills a cache and hands  *)
(* copies to the callbacks of the user, and the lists of messages that a   *)
(* worker of web/request.c puts into the same cache. An interaction is     *)
(* handed to the user as it is.                                            *)
(*                                                                         *)
(* The calls of the cache do not overlap; the threads take turns between   *)
(* them. One of the caches is considered, the one of the chosen type.      *)
(***************************************************************************)
EXTENDS Cache, Structures, FiniteSets

CONSTANTS ChannelParts,      \* what the JSON of a channel may contain
          MessageParts,      \* what the JSON of a message may contain
          InteractionParts,  \* what the JSON of an interaction may contain
          MaxCopies,      \* bound on the objects made for the user
          MaxList         \* bound on the messages of a list

(* No part is without the one that points to it.                           *)
Whole(parts) ==
    /\ parts \subseteq Seq(Fields) \ {<<>>}
    /\ \A p \in parts : Front(p) = <<>> \/ Front(p) \in parts

ASSUME PartsAssumption ==
    /\ \A parts \in ChannelParts : parts \subseteq {<<"topic">>, <<"icon">>}
    /\ \A parts \in MessageParts :
        Whole(parts) /\ \A p \in parts : Along(MadeOf, "message", p)
    /\ \A parts \in InteractionParts :
        Whole(parts) /\ \A p \in parts : Along(MadeOf, "interaction", p)
ASSUME EventBoundsAssumption == MaxCopies \in Nat /\ MaxList \in Nat

VARIABLES type,       \* "channel", "message" or "interaction"
          objects,    \* the structures in memory, by number
          heap,       \* the blocks that are allocated
          copies,     \* copies made so far
          misuse,     \* the first misuse of memory, which ends the behaviour
          event,      \* what event_handle is doing
          served,     \* the nodes that events have put into the cache
          list,       \* what request_t_pool does with a list of messages
          owned       \* the objects that belong to the user

eventVars == <<objects, heap, copies, misuse, event, served, owned>>
allVars == <<vars, type, objects, heap, copies, misuse, event, served, list, owned>>

(* The object of a node has the number of the node; copies follow.         *)
Objects == 1..(MaxSets + MaxCopies)
Live == {o \in Objects : objects[o] # NoStructure}
Sound == misuse = "none"

NoEvent == [phase |-> "none", id |-> NoNode, got |-> NoNode,
            new |-> NoNode, old |-> 0, copy |-> 0]
NoList == [phase |-> "none", nodes |-> {}, alone |-> FALSE]

Parts == IF type = "channel" THEN ChannelParts ELSE MessageParts
FromJson(o, parts) ==
    IF type = "channel" THEN json_to_channel(o, parts) ELSE FromParts(o, parts)
Copy(o, s) ==
    IF type = "channel" THEN copy_channel(o, s) ELSE CopyParts(o, "message", s)
Freed(s) ==
    IF type = "channel" THEN destroy_channel(DOMAIN s)
    ELSE FreedParts(type, DOMAIN s)

(* What copying s allocates: its own blocks, and the copy of a topic that  *)
(* the copy of the icon replaces.                                          *)
CopyBlocks(o, s) ==
    {b \in Blocks(Copy(o, s)) : b[1] = o}
        \cup {<<o, p>> : p \in DOMAIN s \cap {<<"topic">>}}

CopiedWrongly(s) == type # "channel" /\ CopyMisreads(DOMAIN s)
DestroyedWrongly(s) == type # "channel" /\ DestroyMisreads(Freed(s))

EventsInit ==
    /\ Init
    /\ type \in {"channel", "message", "interaction"}
    /\ objects = [o \in Objects |-> NoStructure]
    /\ heap = {}
    /\ copies = 0
    /\ misuse = "none"
    /\ event = NoEvent
    /\ served = {}
    /\ list = NoList
    /\ owned = {}

-----------------------------------------------------------------------------
(* Definitions that end in an underscore and a word are variants of the    *)
(* one that follows them, with a mistake in it.                            *)

(* The object o is destroyed: its blocks are freed, unless a pointer leads *)
(* to a block that is freed already, or to a structure of another shape.   *)
DestroyObject(o) ==
    LET s == objects[o]
        freedBlocks == {s[p] : p \in Freed(s)}
        double == FreesTwice(s, Freed(s)) \/ ~(freedBlocks \subseteq heap)
    IN \/ /\ DestroyedWrongly(s)
          /\ misuse' = "shape"
          /\ UNCHANGED <<objects, heap>>
       \/ /\ ~DestroyedWrongly(s)
          /\ double
          /\ misuse' = "double"
          /\ UNCHANGED <<objects, heap>>
       \/ /\ ~DestroyedWrongly(s)
          /\ ~double
          /\ objects' = [objects EXCEPT ![o] = NoStructure]
          /\ heap' = heap \ freedBlocks
          /\ UNCHANGED misuse

(* The call of discord_cache_set, whose result the callers ignore.         *)
Store(id) == Set(id) \/ SetFails(id)
Stored == IF failed' = failed THEN {[id |-> event.id, nr |-> sets']} ELSE {}

(* The list is no longer the only user of the cache.                       *)
Disturbed == list' = [list EXCEPT !.alone = FALSE]

(* CHANNEL_CREATE, MESSAGE_CREATE: the new object is copied and cached.    *)
ReceiveCreate(id, parts) ==
    LET o == sets + 1
        c == MaxSets + copies + 1
        s == FromJson(o, parts)
    IN /\ Sound
       /\ type # "interaction"
       /\ event.phase = "none"
       /\ copies < MaxCopies
       /\ copies' = copies + 1
       /\ objects' = [objects EXCEPT ![o] = s, ![c] = Copy(c, s)]
       /\ heap' = heap \cup Blocks(s) \cup CopyBlocks(c, s)
       /\ misuse' = IF CopiedWrongly(s) THEN "shape" ELSE misuse
       /\ Store(id)
       /\ event' = [NoEvent EXCEPT !.phase = "deliver", !.id = id, !.copy = c]
       /\ served' = served \cup
            IF failed' = failed THEN {[id |-> id, nr |-> sets']} ELSE {}
       /\ Disturbed
       /\ UNCHANGED <<type, owned>>

(* CHANNEL_UPDATE, MESSAGE_UPDATE up to the return of discord_cache_get.   *)
(* The new object is on nobody's way until it is copied, and is chosen     *)
(* only then.                                                              *)
ReceiveUpdate(id) ==
    /\ Sound
    /\ type # "interaction"
    /\ event.phase = "none"
    /\ Get(id)
    /\ event' = [NoEvent EXCEPT !.phase = "update", !.id = id, !.got = map[id]]
    /\ Disturbed
    /\ UNCHANGED <<type, objects, heap, copies, misuse, served, owned>>

(* CHANNEL_DELETE, MESSAGE_DELETE up to the return of discord_cache_get.   *)
ReceiveDelete(id) ==
    /\ Sound
    /\ type # "interaction"
    /\ event.phase = "none"
    /\ Get(id)
    /\ event' = [NoEvent EXCEPT !.phase = "delete", !.id = id, !.got = map[id]]
    /\ Disturbed
    /\ UNCHANGED <<type, objects, heap, copies, misuse, served, owned>>

(* The cached object that event_handle is about to copy was destroyed      *)
(* between the return of discord_cache_get and the copy.                   *)
Gone == event.got # NoNode /\ event.got \in freed

CopyGone ==
    /\ Sound
    /\ event.phase \in {"update", "delete"}
    /\ Gone
    /\ misuse' = "stale"
    /\ UNCHANGED <<vars, type, objects, heap, copies, event, served, list, owned>>

(* The rest of an update: the cached object, if any, and the new one are   *)
(* copied, and the new one is cached.                                      *)
FinishUpdate(parts) ==
    LET o == sets + 1
        found == event.got # NoNode
        a == MaxSets + copies + 1
        c == IF found THEN a + 1 ELSE a
        s == FromJson(o, parts)
        cached == IF found THEN objects[event.got.nr] ELSE NoStructure
        withNew == [objects EXCEPT ![o] = s, ![c] = Copy(c, s)]
    IN /\ Sound
       /\ event.phase = "update"
       /\ ~Gone
       /\ c <= MaxSets + MaxCopies
       /\ copies' = c - MaxSets
       /\ objects' = IF found THEN [withNew EXCEPT ![a] = Copy(a, cached)]
                     ELSE withNew
       /\ heap' = heap \cup Blocks(s) \cup CopyBlocks(c, s) \cup CopyBlocks(a, cached)
       /\ misuse' = IF CopiedWrongly(s) \/ CopiedWrongly(cached) THEN "shape" ELSE misuse
       /\ Store(event.id)
       /\ event' = [event EXCEPT !.phase = "deliver", !.copy = c,
                        !.old = IF found THEN a ELSE 0,
                        !.new = [id |-> event.id, nr |-> sets']]
       /\ served' = served \cup Stored
       /\ Disturbed
       /\ UNCHANGED <<type, owned>>

(* The rest of a deletion: the object stays in the cache.                  *)
FinishDelete ==
    LET a == MaxSets + copies + 1
        found == event.got # NoNode
        cached == IF found THEN objects[event.got.nr] ELSE NoStructure
    IN /\ Sound
       /\ event.phase = "delete"
       /\ ~Gone
       /\ found => copies < MaxCopies
       /\ copies' = IF found THEN copies + 1 ELSE copies
       /\ objects' = IF found THEN [objects EXCEPT ![a] = Copy(a, cached)] ELSE objects
       /\ heap' = heap \cup CopyBlocks(a, cached)
       /\ misuse' = IF CopiedWrongly(cached) THEN "shape" ELSE misuse
       /\ event' = [event EXCEPT !.phase = "deliver",
                                 !.old = IF found THEN a ELSE 0]
       /\ UNCHANGED <<vars, type, served, list, owned>>

(* INTERACTION_CREATE: the callback of the user gets the object itself.    *)
ReceiveInteraction(parts) ==
    LET o == MaxSets + copies + 1
        s == FromJson(o, parts)
    IN /\ Sound
       /\ type = "interaction"
       /\ copies < MaxCopies
       /\ copies' = copies + 1
       /\ objects' = [objects EXCEPT ![o] = s]
       /\ heap' = heap \cup Blocks(s)
       /\ owned' = owned \cup {o}
       /\ UNCHANGED <<vars, type, misuse, event, served, list>>

(* The callback of the user gets the copies, once the cache is tidied up.  *)
Deliver ==
    /\ Sound
    /\ event.phase = "deliver"
    /\ toRemove = 0
    /\ owned' = owned \cup ({event.old, event.copy} \ {0})
    /\ event' = NoEvent
    /\ UNCHANGED <<vars, type, objects, heap, copies, misuse, served, list>>

(* The user destroys an object, in the callback or later.                  *)
UserDestroys(c) ==
    /\ Sound
    /\ c \in owned
    /\ DestroyObject(c)
    /\ owned' = owned \ {c}
    /\ UNCHANGED <<vars, type, copies, event, served, list>>

-----------------------------------------------------------------------------
(* An answer with a list of messages arrives at a worker.                  *)
ReceiveList ==
    /\ Sound
    /\ type = "message"
    /\ list.phase = "none"
    /\ list' = [phase |-> "fill", nodes |-> {}, alone |-> TRUE]
    /\ UNCHANGED <<vars, type, eventVars>>

(* The next message of the list is cached as it is. (The array of the list *)
(* is allocated for no element; the smallest block that glibc hands out    *)
(* has room for three, which bounds MaxList.)                              *)
ListMessage(id, parts) ==
    LET o == sets + 1
        s == FromJson(o, parts)
    IN /\ Sound
       /\ list.phase = "fill"
       /\ Cardinality(list.nodes) < MaxList
       /\ objects' = [objects EXCEPT ![o] = s]
       /\ heap' = heap \cup Blocks(s)
       /\ Store(id)
       /\ list' = [list EXCEPT !.nodes = @ \cup {[id |-> id, nr |-> o]}]
       /\ UNCHANGED <<type, copies, misuse, event, served, owned>>

(* The callback gets the messages themselves, and reads them.              *)
CallList ==
    /\ Sound
    /\ toRemove = 0
    /\ list.phase \in {"fill", "call"}
    /\ list' = [list EXCEPT !.phase = "call"]
    /\ misuse' = IF list.nodes \cap freed # {} THEN "stale" ELSE misuse
    /\ UNCHANGED <<vars, type, objects, heap, copies, event, served, owned>>

ListDone ==
    /\ Sound
    /\ list.phase = "call"
    /\ list' = NoList
    /\ UNCHANGED <<vars, type, eventVars>>

-----------------------------------------------------------------------------
(* A round of the clean-up loop, which destroys the object of the node it  *)
(* deletes, if there is one. After more failures of hashmap_put than the   *)
(* cache has places the loop may meet an empty queue, which Cache shows;   *)
(* here it stops there.                                                    *)
Evict ==
    /\ Sound
    /\ EvictFirst
    /\ \/ /\ freed' = freed
          /\ UNCHANGED <<objects, heap, misuse>>
       \/ \E n \in freed' \ freed : DestroyObject(n.nr)
    /\ UNCHANGED <<type, copies, event, served, list, owned>>

EventsNext ==
    \/ \E id \in Ids, parts \in Parts :
        \/ ReceiveCreate(id, parts)
        \/ ListMessage(id, parts)
    \/ \E id \in Ids : ReceiveUpdate(id) \/ ReceiveDelete(id)
    \/ CopyGone
    \/ \E parts \in Parts : FinishUpdate(parts)
    \/ FinishDelete
    \/ \E parts \in InteractionParts : ReceiveInteraction(parts)
    \/ Deliver
    \/ \E c \in Objects : UserDestroys(c)
    \/ ReceiveList
    \/ CallList
    \/ ListDone
    \/ Evict

EventsSpec == EventsInit /\ [][EventsNext]_allVars

-----------------------------------------------------------------------------
EventsTypeOK ==
    /\ type \in {"channel", "message", "interaction"}
    /\ DOMAIN objects = Objects
    /\ copies \in 0..MaxCopies
    /\ misuse \in {"none", "shape", "stale", "double"}
    /\ event \in [phase : {"none", "update", "delete", "deliver"},
                  id : Ids \cup {NoNode}, got : Node \cup {NoNode}, new : Node \cup {NoNode},
                  old : 0..(MaxSets + MaxCopies), copy : 0..(MaxSets + MaxCopies)]
    /\ event.phase # "none" => event.id \in Ids /\ type # "interaction"
    /\ served \subseteq Node
    /\ list \in [phase : {"none", "fill", "call"}, nodes : SUBSET Node, alone : BOOLEAN]
    /\ IsFiniteSet(list.nodes)
    /\ list.phase # "none" => type = "message"
    /\ owned \subseteq Objects

(* Two structures have no block in common but an icon, whichever copies    *)
(* were made of which (README.md:60, channel.c:63).                        *)
SharedOnlyIcons ==
    \A o, q \in Live : o # q =>
        {objects[o][p] : p \in DOMAIN objects[o] \ {<<"icon">>}}
            \cap Blocks(objects[q]) = {}

(* While memory is sound, what is allocated can be reached from a          *)
(* structure, or is the topic of a copy that its icon replaced, or belongs *)
(* to a destroyed object: to the message that it, or a message in it,      *)
(* referred to, or to the type of one of its components; and every object  *)
(* that was made for the cache is in it, but for failures of hashmap_put   *)
(* (channel.c:64, message.c:187, component.c:119, cache.c:190).            *)
KnownLeaks ==
    misuse = "none" =>
        /\ \A b \in heap \ UNION {Blocks(objects[o]) : o \in Live} :
            \/ b[2] = <<"topic">> /\ b[1] > MaxSets
            \/ /\ b[1] \notin Live
               /\ \E i \in DOMAIN b[2] : b[2][i] \in {"referenced_message", "body"}
        /\ Cardinality({o \in Live : o <= MaxSets
                /\ \A n \in Nodes(queue) : n.nr # o}) <= failed

(* What a pointer of a structure leads to is allocated, but for the icon   *)
(* of a channel whose copy was destroyed; so a block is only freed twice   *)
(* if it is an icon (channel.c:78, message.c:188).                         *)
DanglingOnlyIcons ==
    /\ \A o \in Live : \A p \in DOMAIN objects[o] :
        objects[o][p] \in heap \/ (type = "channel" /\ p = <<"icon">>)
    /\ misuse = "double" => type = "channel"

(* What an update presents as the old object is the last one that an event *)
(* cached under that id, and not the new one (event.c:177).                *)
OldIsPrevious ==
    event.phase = "deliver" /\ event.old # 0 /\ event.new # NoNode =>
        /\ event.got.id = event.id
        /\ event.got.nr < event.new.nr
        /\ \A n \in served :
            n.id = event.id /\ n.nr < event.new.nr => n.nr <= event.got.nr

(* A list that is no longer than the limit is intact when its callback is  *)
(* called, if no event came in between, every hashmap_put worked and no id *)
(* had been set twice (message_commands.h:56, request.c:220).              *)
ListIntact ==
    list.alone /\ toRemove = 0 /\ failed = 0 /\ NoStale
        /\ Cardinality(list.nodes) <= MaxSize
    => list.nodes \cap freed = {}

-----------------------------------------------------------------------------
(* What the documentation says, and the code does not do.                  *)

(* README.md:60: "every event will always provide a newly allocated        *)
(* structure ... so that a specific message struct doesn't get freed while *)
(* another event still uses it".                                           *)
CopiesAreOwn == \A c \in owned : Blocks(objects[c]) \subseteq heap
====
