---- MODULE Commands ----
(***************************************************************************)
(* The functions a bot calls: messages are sent, edited, fetched and       *)
(* looked up (discord/message.c), commands are registered                  *)
(* (discord/command.c) and interactions are answered                       *)
(* (discord/interaction.c). Each builds a request, which a worker carries  *)
(* out; in the end it calls the callback the caller left (web/request.c).  *)
(*                                                                         *)
(* The cache of messages is what KeyStore promises; Request has the        *)
(* attempts of a request, of which there is one here. The threads that     *)
(* call, the workers, the event loop that fills the cache and the user     *)
(* that destroys messages take turns between their steps.                  *)
(***************************************************************************)
EXTENDS Integers, Sequences, SequencesExt

CONSTANTS Calls,       \* calls of these functions
          Ids,         \* ids of messages
          Commands,    \* application commands with options
          Replies,     \* autocompletions
          MaxObjects,  \* bound on the messages made
          Room,        \* pointers that fit in what malloc(0) returns
          Nothing      \* no message

(* A command has, for itself and for each option, a sequence of options,   *)
(* some of which are required.                                             *)
ASSUME CommandsAssumption ==
    \A command \in Commands :
        /\ "command" \in DOMAIN command.options
        /\ \A p \in DOMAIN command.options :
            /\ command.options[p] \in Seq(DOMAIN command.options)
            /\ IsInjective(command.options[p])
(* A reply suggests choices for the focused one of the options that the    *)
(* interaction came with. Options have a type.                             *)
ASSUME RepliesAssumption ==
    \A reply \in Replies :
        /\ reply.options \in Seq({"number", "string", "other"})
        /\ reply.choices \in Nat /\ reply.focused \in DOMAIN reply.options
ASSUME ObjectsAssumption ==
    MaxObjects \in Nat /\ Room \in Nat /\ Nothing \notin 1..MaxObjects

VARIABLES what,      \* what each call asks for
          caller,    \* how far the calling thread is
          node,      \* how far the request is
          blocks,    \* what was allocated for the call, and is not freed
          hit,       \* the message that discord_get_message found
          called,    \* how often the callback was called (history)
          body,      \* the options of a command, in the order of the JSON
          listed,    \* messages put in the array of a list so far
          store, held, freed, closed,  \* the cache of messages: KeyStore
          made,      \* messages made so far
          mine,      \* messages that callbacks got, for the user to destroy
          gone,      \* messages the user has destroyed
          fault      \* the first misuse of memory, which ends the behaviour

callVars == <<what, caller, node, blocks, hit, called, body>>
cacheVars == <<store, held, freed, closed>>
userVars == <<mine, gone>>
vars == <<callVars, listed, cacheVars, made, userVars, fault>>

Objects == 1..MaxObjects
Cache == INSTANCE KeyStore

NoCall == [kind |-> "none", files |-> FALSE, cb |-> FALSE, id |-> Nothing,
           of |-> Nothing]

Init ==
    /\ what = [c \in Calls |-> NoCall]
    /\ caller = [c \in Calls |-> "none"]
    /\ node = [c \in Calls |-> "none"]
    /\ blocks = [c \in Calls |-> {}]
    /\ hit = [c \in Calls |-> Nothing]
    /\ called = [c \in Calls |-> 0]
    /\ body = [c \in Calls |-> <<>>]
    /\ listed = [c \in Calls |-> 0]
    /\ Cache!Init
    /\ made = 0 /\ mine = {} /\ gone = {}
    /\ fault = "none"

-----------------------------------------------------------------------------
(* Definitions that end in an underscore and a word are variants of the    *)
(* one that follows them, with a mistake in it.                            *)

(* What the misuse of memory does is left open: it may go unnoticed.       *)
May(misuse, happens) ==
    \/ UNCHANGED fault
    \/ happens /\ fault' = misuse

(* request(), with all that was allocated for it before: the strings of    *)
(* the node are copies of its own.                                         *)
Request(c, own) ==
    /\ node' = [node EXCEPT ![c] = "queued"]
    /\ blocks' = [blocks EXCEPT ![c] = @ \cup own \cup {"node"}]

Asks(c, asked) ==
    /\ caller[c] = "none"
    /\ what' = [what EXCEPT ![c] = asked]

Names(files) == IF files THEN {"names"} ELSE {}

discord_channel_send_message(c, files, cb) ==
    /\ Asks(c, [NoCall EXCEPT !.kind = "send", !.files = files, !.cb = cb])
    /\ Request(c, {"json"} \cup Names(files) \cup IF cb THEN {"rc"} ELSE {})
    /\ caller' = [caller EXCEPT ![c] = "asked"]
    /\ UNCHANGED <<hit, called, body, listed, cacheVars, made, userVars, fault>>

(* The message, which may be NULL, is asked for its attachments.           *)
discord_channel_edit_message(c, message, files) ==
    /\ files => message
    /\ Asks(c, [NoCall EXCEPT !.kind = "edit", !.files = files])
    /\ IF message
       THEN /\ Request(c, {"json"} \cup Names(files))
            /\ UNCHANGED fault
       ELSE /\ fault' = "message"
            /\ UNCHANGED <<node, blocks>>
    /\ caller' = [caller EXCEPT ![c] = "asked"]
    /\ UNCHANGED <<hit, called, body, listed, cacheVars, made, userVars>>

discord_get_messages(c) ==
    /\ Asks(c, [NoCall EXCEPT !.kind = "list", !.cb = TRUE])
    /\ Request(c, {"rc"})
    /\ caller' = [caller EXCEPT ![c] = "asked"]
    /\ UNCHANGED <<hit, called, body, listed, cacheVars, made, userVars, fault>>

discord_fetch_message(c, id) ==
    /\ Asks(c, [NoCall EXCEPT !.kind = "fetch", !.cb = TRUE, !.id = id])
    /\ Request(c, {"rc"})
    /\ caller' = [caller EXCEPT ![c] = "asked"]
    /\ UNCHANGED <<hit, called, body, listed, cacheVars, made, userVars, fault>>

(* discord_get_message up to the return of discord_cache_get_message. (Of  *)
(* a caller without a callback it, and discord_fetch_message, want         *)
(* nothing.)                                                               *)
discord_get_message(c, id) ==
    /\ Asks(c, [NoCall EXCEPT !.kind = "get", !.cb = TRUE, !.id = id])
    /\ hit' = [hit EXCEPT ![c] = store[id]]
    /\ caller' = [caller EXCEPT ![c] = "looked"]
    /\ UNCHANGED <<node, blocks, called, body, listed, cacheVars, made, userVars, fault>>

(* The rest of it: the callback gets the cached message, and the message   *)
(* is fetched all the same.                                                *)
GetAndFetch(c) ==
    /\ caller[c] = "looked"
    /\ IF hit[c] = Nothing THEN UNCHANGED <<called, mine, fault>>
       ELSE /\ called' = [called EXCEPT ![c] = @ + 1]
            /\ mine' = mine \cup {<<c, hit[c]>>}
            /\ fault' = IF hit[c] \in freed \cup gone THEN "stale" ELSE fault
    /\ Request(c, {"rc"})
    /\ caller' = [caller EXCEPT ![c] = "asked"]
    /\ UNCHANGED <<what, hit, body, listed, cacheVars, made, gone>>

(* What is left to the calling thread once request() returned. An edit     *)
(* keeps its JSON.                                                         *)
Deleted(c) == IF what[c].kind = "edit" THEN {} ELSE {"json"}

CallReturns(c) ==
    /\ caller[c] = "asked"
    /\ caller' = [caller EXCEPT ![c] = "back"]
    /\ blocks' = [blocks EXCEPT ![c] = @ \ Deleted(c)]
    /\ UNCHANGED <<what, node, hit, called, body, listed, cacheVars, made, userVars, fault>>

-----------------------------------------------------------------------------
(* Commands and replies are requested without a bot, which request() asks  *)
(* for its thread pool, when the node is filled.                           *)
WithoutBot(c, kind, of) ==
    /\ Asks(c, [NoCall EXCEPT !.kind = kind, !.of = of])
    /\ blocks' = [blocks EXCEPT ![c] = {"node"} \cup IF kind = "delete" THEN {} ELSE {"json"}]
    /\ caller' = [caller EXCEPT ![c] = "asked"]
    /\ UNCHANGED <<node, hit, called, listed, cacheVars, made, userVars>>

(* The options are put one by one behind the ones that are there already:  *)
(* first the required ones, then the others.                               *)
Place(options, required, i) ==
    LET first == {j \in DOMAIN options : options[j] \in required}
        rest == DOMAIN options \ first
    IN IF i \in first THEN 1 + Cardinality({j \in first : j < i})
       ELSE 1 + Cardinality(first) + Cardinality({j \in rest : j < i})
Ordered(options, required) ==
    [k \in DOMAIN options |->
        options[CHOOSE i \in DOMAIN options : Place(options, required, i) = k]]

add_option_unordered(command, o) == command.options[o]
add_option(command, o) == Ordered(command.options[o], command.required)

(* The options of the command and of its options. Without a name there is  *)
(* no JSON to speak of, and it is sent.                                    *)
format_json(command) ==
    IF ~command.named THEN <<>>
    ELSE [p \in DOMAIN command.options |->
            IF p = "command" THEN Ordered(command.options[p], command.required)
            ELSE add_option(command, p)]

(* discord_command_register and discord_command_update                     *)
RegisterOrUpdate(c, command) ==
    /\ WithoutBot(c, "command", command)
    /\ body' = [body EXCEPT ![c] = format_json(command)]
    /\ fault' = "bot"

(* discord_command_delete_global and discord_command_delete_guild          *)
DeleteCommand(c) ==
    /\ WithoutBot(c, "delete", Nothing)
    /\ fault' = "bot"
    /\ UNCHANGED body

(* The value of each choice is read as the type of the option that has the *)
(* number of the choice.                                                   *)
Misread_before(reply) ==
    LET bad == {i \in 1..reply.choices : i >= Len(reply.options)}
    IN IF bad = {} THEN "bot" ELSE "option"

Misread(reply) ==
    LET bad == {i \in 1..reply.choices :
                    \/ i > Len(reply.options)
                    \/ /\ reply.options[i] \in {"number", "string"}
                       /\ reply.options[i] # reply.options[reply.focused]}
    IN IF bad = {} THEN "bot"
       ELSE IF \E i \in bad : i <= Len(reply.options) THEN "value" ELSE "option"

(* discord_send_interaction with choices for an option that is typed in.   *)
Autocomplete(c, reply) ==
    /\ WithoutBot(c, "reply", reply)
    /\ fault' = Misread(reply)
    /\ UNCHANGED body

(* discord_send_interaction with a message or a modal.                     *)
discord_send_interaction(c) ==
    /\ WithoutBot(c, "reply", Nothing)
    /\ fault' = "bot"
    /\ UNCHANGED body

-----------------------------------------------------------------------------
(* request_t_pool of web/request.c, the attempt that is answered: the      *)
(* names of the files are freed before anything is called.  With files, it *)
(* appends to lists of headers that malloc left in the array, and frees    *)
(* them (request.c:66, 296, 179).                                          *)
Run(c) ==
    /\ node[c] = "queued"
    /\ May("attachments", what[c].files)
    /\ node' = [node EXCEPT ![c] = "answered"]
    /\ blocks' = [blocks EXCEPT ![c] = @ \ {"names"}]
    /\ UNCHANGED <<what, caller, hit, called, body, listed, cacheVars, made, userVars>>

Cached_all(id, o) == Cache!Put(id, o)
Cached(id, o) == UNCHANGED cacheVars

(* A callback for one message gets a new one, which is not cached, whether *)
(* or not the answer holds a message.                                      *)
CallBack(c) ==
    /\ node[c] = "answered"
    /\ what[c].kind \in {"send", "fetch", "get"} /\ what[c].cb
    /\ made < MaxObjects
    /\ made' = made + 1
    /\ \E id \in IF what[c].kind = "send" THEN Ids ELSE {what[c].id} :
          Cached(id, made + 1)
    /\ mine' = mine \cup {<<c, made + 1>>}
    /\ called' = [called EXCEPT ![c] = @ + 1]
    /\ node' = [node EXCEPT ![c] = "over"]
    /\ UNCHANGED <<what, caller, blocks, hit, body, listed, gone, fault>>

(* Each message of a list is put in an array that was allocated for none,  *)
(* and cached.                                                             *)
ListMessage(c, id) ==
    /\ node[c] = "answered" /\ what[c].kind = "list"
    /\ made < MaxObjects
    /\ made' = made + 1
    /\ listed' = [listed EXCEPT ![c] = @ + 1]
    /\ May("overrun", listed[c] >= Room)
    /\ Cache!Put(id, made + 1)
    /\ UNCHANGED <<callVars, userVars>>

(* The callback for a list gets all of them at once, or none if the answer *)
(* is not a list; the cache keeps them.                                    *)
CallBackList(c) ==
    /\ node[c] = "answered" /\ what[c].kind = "list"
    /\ called' = [called EXCEPT ![c] = @ + 1]
    /\ node' = [node EXCEPT ![c] = "over"]
    /\ UNCHANGED <<what, caller, blocks, hit, body, listed, cacheVars, made, userVars, fault>>

(* Nobody waits for the answer.                                            *)
Unasked_send(c) == what[c].kind = "send" \/ ~what[c].cb
Unasked(c) == ~what[c].cb

FreedByWorker_node(c) == {"node"}
FreedByWorker(c) == {"node", "rc"}

FreeNode(c) ==
    /\ node[c] = "over" \/ (node[c] = "answered" /\ Unasked(c))
    /\ node' = [node EXCEPT ![c] = "freed"]
    /\ blocks' = [blocks EXCEPT ![c] = @ \ FreedByWorker(c)]
    /\ UNCHANGED <<what, caller, hit, called, body, listed, cacheVars, made, userVars, fault>>

-----------------------------------------------------------------------------
(* Once it is done with it, the user destroys a message that a callback    *)
(* got, as the examples do.                                                *)
UserDestroys(c, o) ==
    /\ <<c, o>> \in mine
    /\ mine' = mine \ {<<c, o>>}
    /\ gone' = gone \cup {o}
    /\ fault' = IF o \in gone \cup freed THEN "double" ELSE fault
    /\ UNCHANGED <<callVars, listed, cacheVars, made>>

(* An event caches a message.                                              *)
Receive(id) ==
    /\ made < MaxObjects
    /\ made' = made + 1
    /\ Cache!Put(id, made + 1)
    /\ UNCHANGED <<callVars, listed, userVars, fault>>

(* The cache drops a message for the sake of another one, and destroys it. *)
Evict(id) ==
    /\ Cache!Drop(id)
    /\ fault' = IF store[id] \in gone THEN "double" ELSE fault
    /\ UNCHANGED <<callVars, listed, made, userVars>>

(* At the end of the bot, when no worker runs any more, the cache destroys *)
(* what it holds. What is queued stays where it is.                        *)
Shutdown ==
    /\ \A c \in Calls :
          caller[c] \in {"none", "back"} /\ node[c] \in {"none", "queued", "freed"}
    /\ Cache!Close
    /\ fault' = IF held \cap gone # {} THEN "double" ELSE fault
    /\ UNCHANGED <<callVars, listed, made, userVars>>

Calling(c) ==
    \/ \E files, cb \in BOOLEAN : discord_channel_send_message(c, files, cb)
    \/ \E message, files \in BOOLEAN : discord_channel_edit_message(c, message, files)
    \/ discord_get_messages(c)
    \/ \E id \in Ids : discord_get_message(c, id) \/ discord_fetch_message(c, id)
    \/ GetAndFetch(c)
    \/ \E command \in Commands : RegisterOrUpdate(c, command)
    \/ DeleteCommand(c)
    \/ \E reply \in Replies : Autocomplete(c, reply)
    \/ discord_send_interaction(c)
    \/ CallReturns(c)

Working(c) ==
    \/ Run(c) \/ CallBack(c) \/ CallBackList(c) \/ FreeNode(c)
    \/ \E id \in Ids : ListMessage(c, id)

(* What the program does after a misuse of memory is not modelled.         *)
Next ==
    /\ fault = "none"
    /\ \/ ~closed /\ \E c \in Calls : Calling(c) \/ Working(c)
       \/ \E c \in Calls, o \in Objects : UserDestroys(c, o)
       \/ \E id \in Ids : Receive(id) \/ Evict(id)
       \/ Shutdown

Spec == Init /\ [][Next]_vars

-----------------------------------------------------------------------------
Misuses == {"message", "bot", "option", "value", "stale", "double",
            "attachments", "overrun"}

TypeOK ==
    /\ what \in [Calls -> [kind : {"none", "send", "edit", "list", "fetch", "get",
                                   "command", "delete", "reply"},
                           files : BOOLEAN, cb : BOOLEAN, id : Ids \cup {Nothing},
                           of : Commands \cup Replies \cup {Nothing}]]
    /\ caller \in [Calls -> {"none", "looked", "asked", "back"}]
    /\ node \in [Calls -> {"none", "queued", "answered", "over", "freed"}]
    /\ blocks \in [Calls -> SUBSET {"json", "names", "rc", "node"}]
    /\ hit \in [Calls -> Objects \cup {Nothing}]
    /\ called \in [Calls -> 0..2]
    /\ store \in [Ids -> Objects \cup {Nothing}]
    /\ held \subseteq Objects /\ freed \subseteq Objects /\ closed \in BOOLEAN
    /\ made \in 0..MaxObjects
    /\ mine \subseteq Calls \X Objects /\ gone \subseteq Objects
    /\ fault \in Misuses \cup {"none"}
    /\ listed \in [Calls -> Nat]

(* When the thread that called and the worker are both through with a      *)
(* call, in whichever order, nothing is left of it but the JSON of an edit *)
(* (message.c:522, 473, request.c:186, 228).                               *)
OnlyEditsLeak ==
    \A c \in Calls : caller[c] = "back" /\ node[c] = "freed" =>
        blocks[c] = IF what[c].kind = "edit" THEN {"json"} ELSE {}

(* A callback is called once for each call that leaves one, when the       *)
(* request is over, and once before that by discord_get_message if the     *)
(* message is cached (message.c:561, request.c:200).                       *)
CalledAsOften ==
    \A c \in Calls :
        called[c] = (IF node[c] \in {"over", "freed"} /\ what[c].cb THEN 1 ELSE 0)
                  + (IF node[c] # "none" /\ hit[c] # Nothing THEN 1 ELSE 0)

(* A message the cache has, or had, is in the hands of the user only if    *)
(* discord_get_message found it; so as long as that finds nothing, no      *)
(* message is destroyed twice or used after it was destroyed, although     *)
(* the user destroys all it gets at any time and the cache evicts at any   *)
(* time (message.c:563, message_commands.h:81).                            *)
BorrowedOnlyByGet ==
    /\ \A p \in mine : p[2] \in held \cup freed => hit[p[1]] = p[2]
    /\ fault \in {"stale", "double"} => \E c \in Calls : hit[c] # Nothing

(* In the JSON of a command the options of each level are all there, no    *)
(* required one is behind one that is not, and options of a kind keep      *)
(* their order (command.c:98, 160).                                        *)
RequiredFirst ==
    \A c \in Calls : what[c].kind = "command" /\ what[c].of.named =>
        /\ DOMAIN body[c] = DOMAIN what[c].of.options
        /\ \A p \in DOMAIN body[c] :
            LET given == what[c].of.options[p]
                required(o) == o \in what[c].of.required
                before(s, o, q) == \E i, j \in DOMAIN s : i < j /\ s[i] = o /\ s[j] = q
            IN /\ Len(body[c][p]) = Len(given)
               /\ \A o, q \in ToSet(given) :
                    before(body[c][p], o, q) <=>
                        \/ required(o) /\ ~required(q)
                        \/ (required(o) <=> required(q)) /\ before(given, o, q)

(* Calls do not crash, whatever else goes on, but for an edit without a    *)
(* message, for a message that discord_get_message found, for requests     *)
(* without a bot, and before such a request only for choices that          *)
(* outnumber the options of the interaction or that meet options of        *)
(* several types (message.c:513, interaction.c:223, request.c:256); and,   *)
(* once they are answered, for files (request.c:66) and for a list that    *)
(* outgrows the array allocated for no messages (request.c:214).  What the *)
(* attempts before the answer may do is said by FaultsExplained of Request.*)
CrashesExplained ==
    fault # "none" => \E c \in Calls :
        \/ fault = "message" /\ what[c].kind = "edit" /\ node[c] = "none"
        \/ fault \in {"stale", "double"} /\ hit[c] # Nothing
        \/ fault = "attachments" /\ what[c].files /\ node[c] # "queued"
        \/ fault = "overrun" /\ what[c].kind = "list" /\ listed[c] > Room
        \/ fault = "bot" /\ what[c].kind \in {"command", "delete", "reply"}
        \/ /\ fault \in {"option", "value"} /\ what[c].kind = "reply"
           /\ LET reply == what[c].of IN
                \/ reply.choices > Len(reply.options)
                \/ \E i, j \in DOMAIN reply.options : reply.options[i] # reply.options[j]
====
