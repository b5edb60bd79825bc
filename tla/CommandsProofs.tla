---- MODULE CommandsProofs ----
(***************************************************************************)
(* Proofs about Commands: what a call leaves behind, how often it calls    *)
(* its callback, who may have a message and when a call may crash, for any *)
(* number of calls, messages, commands and replies, and in any             *)
(* interleaving with workers, events and the user.                         *)
(***************************************************************************)
EXTENDS Commands, FiniteSetTheorems, TLAPS

USE DEF May, Misuses

-----------------------------------------------------------------------------
(* The inductive invariant.                                                *)

(* How far a call is: what its request, its callback and its memory may be *)
(* at each point.                                                          *)
CallStates ==
    \A c \in Calls :
        /\ caller[c] = "none" => what[c] = NoCall /\ hit[c] = Nothing
        /\ caller[c] \in {"none", "looked"} => node[c] = "none" /\ blocks[c] = {}
        /\ caller[c] \in {"asked", "back"} /\ fault = "none" => node[c] # "none"
        /\ caller[c] = "looked" => what[c].kind = "get"
        /\ hit[c] # Nothing => what[c].kind = "get"
        /\ what[c].kind \in {"list", "fetch", "get"} => what[c].cb

(* What is left of a call, on each of the two ways it is freed on.         *)
BlockStates ==
    \A c \in Calls :
        /\ node[c] # "none" /\ what[c].kind = "edit" => "json" \in blocks[c]
        /\ caller[c] = "back" /\ what[c].kind # "edit" => "json" \notin blocks[c]
        /\ node[c] \in {"answered", "over", "freed"} => "names" \notin blocks[c]
        /\ node[c] = "freed" => {"node", "rc"} \cap blocks[c] = {}

(* Who has a message, as long as discord_get_message found none.           *)
Apart ==
    (\A c \in Calls : hit[c] = Nothing) =>
        /\ \A p \in mine : p[2] \notin held \cup freed \cup gone
        /\ \A p, q \in mine : p[2] = q[2] => p = q
        /\ gone \cap (held \cup freed) = {}

(* A message was made before anybody has it, and a call that brought one   *)
(* was requested.                                                          *)
Made ==
    /\ held \cup freed \cup gone \subseteq 1..made
    /\ \A p \in mine : p[2] \in 1..made /\ node[p[1]] # "none"
    /\ \A id \in Ids : store[id] \in 1..made \cup {Nothing}
    /\ \A c \in Calls : hit[c] \in 1..made \cup {Nothing}

(* The JSON of each command is that of the command it was asked for.       *)
BodyFollows ==
    /\ body = [c \in Calls |->
                IF what[c].kind = "command" THEN format_json(what[c].of) ELSE <<>>]
    /\ \A c \in Calls : what[c].kind = "command" => what[c].of \in Commands

IInv ==
    /\ TypeOK /\ CallStates /\ BlockStates /\ Apart /\ Made /\ BodyFollows
    /\ CalledAsOften /\ BorrowedOnlyByGet /\ CrashesExplained

-----------------------------------------------------------------------------
(* What a call is for, and its blocks of memory.                           *)
What == [kind : {"none", "send", "edit", "list", "fetch", "get",
                 "command", "delete", "reply"},
         files : BOOLEAN, cb : BOOLEAN, id : Ids \cup {Nothing},
         of : Commands \cup Replies \cup {Nothing}]
Block == {"json", "names", "rc", "node"}

-----------------------------------------------------------------------------
(* The steps, in groups, and what the steps of a group have in common.     *)

Requests(c) ==
    \/ \E files, cb \in BOOLEAN : discord_channel_send_message(c, files, cb)
    \/ \E message, files \in BOOLEAN : discord_channel_edit_message(c, message, files)
    \/ discord_get_messages(c)
    \/ \E id \in Ids : discord_fetch_message(c, id)

NoBot(c) ==
    \/ \E command \in Commands : RegisterOrUpdate(c, command)
    \/ DeleteCommand(c)
    \/ \E reply \in Replies : Autocomplete(c, reply)
    \/ discord_send_interaction(c)

LEMMA NextCases ==
    ASSUME Next
    PROVE  \/ \E c \in Calls : \/ Requests(c) \/ NoBot(c)
                               \/ \E id \in Ids : discord_get_message(c, id)
                               \/ GetAndFetch(c) \/ CallReturns(c)
                               \/ Run(c) \/ CallBack(c) \/ CallBackList(c) \/ FreeNode(c)
                               \/ \E id \in Ids : ListMessage(c, id)
           \/ \E c \in Calls, o \in Objects : UserDestroys(c, o)
           \/ \E id \in Ids : Receive(id) \/ Evict(id)
           \/ Shutdown
BY Zenon DEF Next, Calling, Working, Requests, NoBot

(* A thread begins the call c, of one of these kinds.                      *)
Begins(c, kinds) ==
    /\ caller[c] = "none"
    /\ caller' = [caller EXCEPT ![c] = "asked"]
    /\ what'[c] \in What /\ what'[c].kind \in kinds
    /\ what' = [what EXCEPT ![c] = what'[c]]
    /\ blocks'[c] \subseteq Block
    /\ blocks' = [blocks EXCEPT ![c] = blocks'[c]]
    /\ UNCHANGED <<hit, called, listed, cacheVars, made, userVars>>

LEMMA RequestsBegin ==
    ASSUME IInv, NEW c \in Calls, Requests(c)
    PROVE  /\ Begins(c, {"send", "edit", "list", "fetch"})
           /\ what'[c].kind \in {"list", "fetch"} => what'[c].cb
           /\ \/ /\ node' = [node EXCEPT ![c] = "queued"]
                 /\ what'[c].kind = "edit" => "json" \in blocks'[c]
                 /\ UNCHANGED fault
              \/ /\ what'[c].kind = "edit" /\ blocks'[c] = {}
                 /\ UNCHANGED node
                 /\ fault' = "message"
<1> USE DEF What, Block, NoCall, Begins
<1>0. /\ blocks \in [Calls -> SUBSET Block]
      /\ what \in [Calls -> What]
      /\ caller[c] = "none" => blocks[c] = {}
  BY DEF IInv, TypeOK, CallStates
<1>1. ASSUME NEW files \in BOOLEAN, NEW cb \in BOOLEAN,
             discord_channel_send_message(c, files, cb)
      PROVE  /\ Begins(c, {"send"})
             /\ node' = [node EXCEPT ![c] = "queued"]
             /\ UNCHANGED fault
  <2>1. /\ what'[c] \in What /\ what'[c].kind = "send"
        /\ what' = [what EXCEPT ![c] = what'[c]]
    BY <1>0, <1>1 DEF discord_channel_send_message, Asks
  <2>2. /\ blocks'[c] \subseteq Block
        /\ blocks' = [blocks EXCEPT ![c] = blocks'[c]]
    BY <1>0, <1>1 DEF discord_channel_send_message, Asks, Request, Names
  <2> QED
    BY <1>1, <2>1, <2>2 DEF discord_channel_send_message, Asks, Request
<1>2. ASSUME NEW message \in BOOLEAN, NEW files \in BOOLEAN,
             discord_channel_edit_message(c, message, files)
      PROVE  /\ Begins(c, {"edit"})
             /\ \/ /\ node' = [node EXCEPT ![c] = "queued"]
                   /\ "json" \in blocks'[c]
                   /\ UNCHANGED fault
                \/ /\ blocks'[c] = {} /\ fault' = "message"
                   /\ UNCHANGED node
  <2>1. /\ what'[c] \in What /\ what'[c].kind = "edit"
        /\ what' = [what EXCEPT ![c] = what'[c]]
    BY <1>0, <1>2 DEF discord_channel_edit_message, Asks
  <2>2. /\ blocks'[c] \subseteq Block
        /\ blocks' = [blocks EXCEPT ![c] = blocks'[c]]
        /\ IF message THEN "json" \in blocks'[c] ELSE blocks'[c] = {}
    BY <1>0, <1>2 DEF discord_channel_edit_message, Asks, Request, Names
  <2> QED
    BY <1>2, <2>1, <2>2 DEF discord_channel_edit_message, Asks, Request
<1>3. ASSUME NEW kind \in {"list", "fetch"}, NEW id \in Ids \cup {Nothing},
             Asks(c, [NoCall EXCEPT !.kind = kind, !.cb = TRUE, !.id = id]),
             Request(c, {"rc"}), caller' = [caller EXCEPT ![c] = "asked"],
             UNCHANGED <<hit, called, body, listed, cacheVars, made, userVars, fault>>
      PROVE  /\ Begins(c, {"list", "fetch"}) /\ what'[c].cb
             /\ node' = [node EXCEPT ![c] = "queued"]
             /\ UNCHANGED fault
  <2>1. /\ what'[c] \in What /\ what'[c].kind \in {"list", "fetch"} /\ what'[c].cb
        /\ what' = [what EXCEPT ![c] = what'[c]]
    BY <1>0, <1>3 DEF Asks
  <2>2. /\ blocks'[c] \subseteq Block
        /\ blocks' = [blocks EXCEPT ![c] = blocks'[c]]
    BY <1>0, <1>3 DEF Asks, Request
  <2> QED
    BY <1>3, <2>1, <2>2 DEF Asks, Request
<1> HIDE DEF What, Block, NoCall
<1>4. CASE \E files, cb \in BOOLEAN : discord_channel_send_message(c, files, cb)
  BY <1>1, <1>4
<1>5. CASE \E message, files \in BOOLEAN : discord_channel_edit_message(c, message, files)
  BY <1>2, <1>5
<1>6. CASE discord_get_messages(c) \/ \E id \in Ids : discord_fetch_message(c, id)
  <2>1. ASSUME discord_get_messages(c)
        PROVE  /\ Begins(c, {"list", "fetch"}) /\ what'[c].cb
               /\ node' = [node EXCEPT ![c] = "queued"]
               /\ UNCHANGED fault
    <3>1. what'[c] \in What /\ what'[c].kind = "list" /\ what'[c].cb
      BY <1>0, <2>1 DEF discord_get_messages, Asks, What, NoCall
    <3>2. what' = [what EXCEPT ![c] = what'[c]]
      BY <1>0, <2>1 DEF discord_get_messages, Asks
    <3>3. /\ blocks'[c] \subseteq Block
          /\ blocks' = [blocks EXCEPT ![c] = blocks'[c]]
      BY <1>0, <2>1 DEF discord_get_messages, Asks, Request, Block
    <3> QED
      BY <2>1, <3>1, <3>2, <3>3 DEF discord_get_messages, Asks, Request
  <2>2. ASSUME NEW id \in Ids, discord_fetch_message(c, id)
        PROVE  /\ Begins(c, {"list", "fetch"}) /\ what'[c].cb
               /\ node' = [node EXCEPT ![c] = "queued"]
               /\ UNCHANGED fault
    BY <1>3, <2>2 DEF discord_fetch_message
  <2> HIDE DEF Begins
  <2>3. /\ Begins(c, {"list", "fetch"}) /\ what'[c].cb
        /\ node' = [node EXCEPT ![c] = "queued"]
        /\ UNCHANGED fault
    BY <1>6, <2>1, <2>2, Zenon
  <2>4. /\ Begins(c, {"send", "edit", "list", "fetch"})
        /\ what'[c].kind \in {"list", "fetch"}
    BY <2>3 DEF Begins
  <2> QED
    BY <2>3, <2>4
<1> QED
  BY <1>4, <1>5, <1>6 DEF Requests

LEMMA NoBotBegins ==
    ASSUME IInv, NEW c \in Calls, NoBot(c)
    PROVE  /\ Begins(c, {"command", "delete", "reply"})
           /\ UNCHANGED node
           /\ fault' \in {"bot", "option", "value"}
           /\ fault' # "bot" =>
                /\ what'[c].kind = "reply"
                /\ LET reply == what'[c].of IN
                   \/ reply.choices > Len(reply.options)
                   \/ \E i, j \in DOMAIN reply.options : reply.options[i] # reply.options[j]
<1> USE DEF What, Block, NoCall, Begins
<1>0. blocks \in [Calls -> SUBSET Block] /\ what \in [Calls -> What]
  BY DEF IInv, TypeOK
<1>1. ASSUME NEW kind \in {"command", "delete", "reply"},
             NEW of \in Commands \cup Replies \cup {Nothing}, WithoutBot(c, kind, of)
      PROVE  /\ Begins(c, {"command", "delete", "reply"}) /\ UNCHANGED node
             /\ what'[c].kind = kind /\ what'[c].of = of
  BY <1>0, <1>1 DEF WithoutBot, Asks
<1>2. ASSUME NEW reply \in Replies, Misread(reply) # "bot"
      PROVE  \/ reply.choices > Len(reply.options)
             \/ \E i, j \in DOMAIN reply.options : reply.options[i] # reply.options[j]
  <2>1. PICK i \in 1..reply.choices :
            \/ i > Len(reply.options)
            \/ reply.options[i] # reply.options[reply.focused]
    BY <1>2 DEF Misread
  <2>2. /\ reply.choices \in Nat /\ reply.focused \in DOMAIN reply.options
        /\ reply.options \in Seq({"number", "string", "other"})
    BY RepliesAssumption
  <2> QED
    BY <2>1, <2>2
<1>3. ASSUME NEW reply \in Replies, Autocomplete(c, reply)
      PROVE  /\ what'[c].kind = "reply" /\ what'[c].of = reply
             /\ fault' = Misread(reply)
             /\ Misread(reply) \in {"bot", "option", "value"}
             /\ Begins(c, {"command", "delete", "reply"}) /\ UNCHANGED node
  <2>1. WithoutBot(c, "reply", reply) /\ fault' = Misread(reply)
    BY <1>3 DEF Autocomplete
  <2> QED
    BY <1>1, <2>1 DEF Misread
<1>4. ASSUME \/ \E command \in Commands : RegisterOrUpdate(c, command)
             \/ DeleteCommand(c) \/ discord_send_interaction(c)
      PROVE  /\ fault' = "bot" /\ UNCHANGED node
             /\ Begins(c, {"command", "delete", "reply"})
  <2>1. \E kind \in {"command", "delete", "reply"},
           of \in Commands \cup Replies \cup {Nothing} :
              WithoutBot(c, kind, of) /\ fault' = "bot"
    BY <1>4 DEF RegisterOrUpdate, DeleteCommand, discord_send_interaction
  <2> QED
    BY <2>1, <1>1
<1> HIDE DEF Begins
<1> QED
  BY <1>2, <1>3, <1>4 DEF NoBot

-----------------------------------------------------------------------------
LEMMA CallStatesStep ==
    ASSUME IInv, Next
    PROVE  CallStates'
<1> USE DEF IInv, TypeOK, CallStates
<1>0. fault = "none"
  BY DEF Next
<1>1. ASSUME NEW c \in Calls, Requests(c)
      PROVE  CallStates'
  BY <1>0, <1>1, RequestsBegin DEF Begins
<1>2. ASSUME NEW c \in Calls, NoBot(c)
      PROVE  CallStates'
  <2>1. /\ Begins(c, {"command", "delete", "reply"}) /\ UNCHANGED node
        /\ fault' # "none"
    BY <1>2, NoBotBegins
  <2> QED
    BY <2>1 DEF Begins
<1>3. ASSUME NEW c \in Calls, NEW id \in Ids, discord_get_message(c, id)
      PROVE  CallStates'
  BY <1>0, <1>3 DEF discord_get_message, Asks, NoCall
<1>4. ASSUME NEW c \in Calls, GetAndFetch(c) \/ CallReturns(c)
      PROVE  CallStates'
  BY <1>0, <1>4 DEF GetAndFetch, CallReturns, Request
<1>5. ASSUME NEW c \in Calls, Run(c) \/ CallBack(c) \/ CallBackList(c) \/ FreeNode(c)
      PROVE  CallStates'
  BY <1>0, <1>5 DEF Run, CallBack, CallBackList, FreeNode
<1>6. ASSUME NEW c \in Calls, NEW id \in Ids, ListMessage(c, id)
      PROVE  CallStates'
  BY <1>0, <1>6 DEF ListMessage, callVars
<1>7. ASSUME NEW c \in Calls, NEW o \in Objects, UserDestroys(c, o)
      PROVE  CallStates'
  BY <1>0, <1>7 DEF UserDestroys, callVars
<1>8. ASSUME NEW id \in Ids, Receive(id) \/ Evict(id)
      PROVE  CallStates'
  BY <1>0, <1>8 DEF Receive, Evict, callVars
<1>9. CASE Shutdown
  BY <1>0, <1>9 DEF Shutdown, callVars
<1> QED
  BY <1>1, <1>2, <1>3, <1>4, <1>5, <1>6, <1>7, <1>8, <1>9, NextCases

-----------------------------------------------------------------------------
LEMMA BlockStatesStep ==
    ASSUME IInv, Next
    PROVE  BlockStates'
<1> USE DEF IInv, TypeOK, BlockStates, CallStates
<1>0. fault = "none"
  BY DEF Next
<1>1. ASSUME NEW c \in Calls, Requests(c)
      PROVE  BlockStates'
  <2>1. /\ Begins(c, {"send", "edit", "list", "fetch"})
        /\ \/ /\ node' = [node EXCEPT ![c] = "queued"]
              /\ what'[c].kind = "edit" => "json" \in blocks'[c]
           \/ UNCHANGED node
    BY <1>1, RequestsBegin
  <2> QED
    BY <2>1 DEF Begins
<1>2. ASSUME NEW c \in Calls, NoBot(c)
      PROVE  BlockStates'
  <2>1. Begins(c, {"command", "delete", "reply"}) /\ UNCHANGED node
    BY <1>2, NoBotBegins
  <2> QED
    BY <2>1 DEF Begins
<1>3. ASSUME NEW c \in Calls, NEW id \in Ids, discord_get_message(c, id)
      PROVE  BlockStates'
  BY <1>0, <1>3 DEF discord_get_message, Asks, NoCall
<1>4. ASSUME NEW c \in Calls, GetAndFetch(c) \/ CallReturns(c)
      PROVE  BlockStates'
  BY <1>0, <1>4 DEF GetAndFetch, CallReturns, Request, Deleted
<1>5. ASSUME NEW c \in Calls, Run(c) \/ CallBack(c) \/ CallBackList(c) \/ FreeNode(c)
      PROVE  BlockStates'
  <2>1. CASE Run(c)
    BY <2>1 DEF Run
  <2>2. CASE CallBack(c)
    BY <2>2 DEF CallBack
  <2>3. CASE CallBackList(c)
    BY <2>3 DEF CallBackList
  <2>4. CASE FreeNode(c)
    BY <1>0, <2>4 DEF FreeNode, FreedByWorker
  <2> QED
    BY <1>5, <2>1, <2>2, <2>3, <2>4
<1>6. ASSUME NEW c \in Calls, NEW id \in Ids, ListMessage(c, id)
      PROVE  BlockStates'
  BY <1>0, <1>6 DEF ListMessage, callVars
<1>7. ASSUME NEW c \in Calls, NEW o \in Objects, UserDestroys(c, o)
      PROVE  BlockStates'
  BY <1>0, <1>7 DEF UserDestroys, callVars
<1>8. ASSUME NEW id \in Ids, Receive(id) \/ Evict(id)
      PROVE  BlockStates'
  BY <1>0, <1>8 DEF Receive, Evict, callVars
<1>9. CASE Shutdown
  BY <1>0, <1>9 DEF Shutdown, callVars
<1> QED
  BY <1>1, <1>2, <1>3, <1>4, <1>5, <1>6, <1>7, <1>8, <1>9, NextCases

LEMMA CalledAsOftenStep ==
    ASSUME IInv, Next
    PROVE  CalledAsOften'
<1> USE DEF IInv, TypeOK, CalledAsOften, CallStates
<1>0. fault = "none"
  BY DEF Next
<1>1. ASSUME NEW c \in Calls, Requests(c)
      PROVE  CalledAsOften'
  <2>1. /\ caller[c] = "none" /\ UNCHANGED <<hit, called>>
        /\ what' = [what EXCEPT ![c] = what'[c]]
        /\ node' = node \/ node' = [node EXCEPT ![c] = "queued"]
    BY <1>1, RequestsBegin DEF Begins
  <2>2. /\ node[c] = "none" /\ hit[c] = Nothing /\ called[c] = 0
        /\ node'[c] \in {"none", "queued"}
    BY <2>1
  <2>3. \A d \in Calls \ {c} : what'[d] = what[d] /\ node'[d] = node[d]
    BY <2>1
  <2> QED
    BY <2>1, <2>2, <2>3
<1>2. ASSUME NEW c \in Calls, NoBot(c)
      PROVE  CalledAsOften'
  <2>1. Begins(c, {"command", "delete", "reply"}) /\ UNCHANGED node
    BY <1>2, NoBotBegins
  <2> QED
    BY <2>1 DEF Begins
<1>3. ASSUME NEW c \in Calls, NEW id \in Ids, discord_get_message(c, id)
      PROVE  CalledAsOften'
  BY <1>0, <1>3 DEF discord_get_message, Asks, NoCall
<1>4. ASSUME NEW c \in Calls, GetAndFetch(c) \/ CallReturns(c)
      PROVE  CalledAsOften'
  BY <1>0, <1>4 DEF GetAndFetch, CallReturns, Request
<1>5. ASSUME NEW c \in Calls, Run(c) \/ CallBack(c) \/ CallBackList(c) \/ FreeNode(c)
      PROVE  CalledAsOften'
  BY <1>0, <1>5 DEF Run, CallBack, CallBackList, FreeNode, Unasked
<1>6. ASSUME NEW c \in Calls, NEW id \in Ids, ListMessage(c, id)
      PROVE  CalledAsOften'
  BY <1>0, <1>6 DEF ListMessage, callVars
<1>7. ASSUME NEW c \in Calls, NEW o \in Objects, UserDestroys(c, o)
      PROVE  CalledAsOften'
  BY <1>0, <1>7 DEF UserDestroys, callVars
<1>8. ASSUME NEW id \in Ids, Receive(id) \/ Evict(id)
      PROVE  CalledAsOften'
  BY <1>0, <1>8 DEF Receive, Evict, callVars
<1>9. CASE Shutdown
  BY <1>0, <1>9 DEF Shutdown, callVars
<1> QED
  BY <1>1, <1>2, <1>3, <1>4, <1>5, <1>6, <1>7, <1>8, <1>9, NextCases

-----------------------------------------------------------------------------
LEMMA MadeStep ==
    ASSUME IInv, Next
    PROVE  Made'
<1> USE DEF IInv, TypeOK, Made, CallStates
<1> USE ObjectsAssumption
<1>0. fault = "none"
  BY DEF Next
<1>1. ASSUME NEW c \in Calls, Requests(c) \/ NoBot(c)
      PROVE  Made'
  <2>1. UNCHANGED <<hit, cacheVars, made, userVars>> /\ caller[c] = "none"
    BY <1>1, RequestsBegin, NoBotBegins DEF Begins
  <2>2. \A d \in Calls : node[d] # "none" => node'[d] # "none"
    BY <1>1, RequestsBegin, NoBotBegins
  <2> QED
    BY <2>1, <2>2 DEF cacheVars, userVars
<1>3. ASSUME NEW c \in Calls, NEW id \in Ids, discord_get_message(c, id)
      PROVE  Made'
  BY <1>0, <1>3 DEF discord_get_message, Asks, cacheVars, userVars
<1>4. ASSUME NEW c \in Calls, GetAndFetch(c)
      PROVE  Made'
  BY <1>0, <1>4 DEF GetAndFetch, Request, cacheVars
<1>5. ASSUME NEW c \in Calls,
             CallReturns(c) \/ Run(c) \/ CallBackList(c) \/ FreeNode(c)
      PROVE  Made'
  BY <1>0, <1>5 DEF CallReturns, Run, CallBackList, FreeNode, cacheVars, userVars
<1>6. ASSUME NEW c \in Calls, CallBack(c)
      PROVE  Made'
  BY <1>0, <1>6 DEF CallBack, Cached, cacheVars
<1>7. ASSUME NEW id \in Ids, Receive(id) \/ \E c \in Calls : ListMessage(c, id)
      PROVE  Made'
  <2>1. /\ Cache!Put(id, made + 1) /\ made' = made + 1
        /\ UNCHANGED <<callVars, userVars>>
    BY <1>7 DEF Receive, ListMessage
  <2> QED
    BY <2>1 DEF Cache!Put, callVars, userVars
<1>8. ASSUME NEW c \in Calls, NEW o \in Objects, UserDestroys(c, o)
      PROVE  Made'
  BY <1>0, <1>8 DEF UserDestroys, callVars, cacheVars
<1>9. ASSUME \/ \E id \in Ids : Evict(id)
             \/ Shutdown
      PROVE  Made'
  <2>1. /\ Cache!Close \/ \E id \in Ids : Cache!Drop(id)
        /\ UNCHANGED <<callVars, made, userVars>>
    BY <1>9 DEF Evict, Shutdown
  <2> QED
    BY <2>1 DEF Cache!Drop, Cache!Close, callVars, userVars
<1> QED
  BY <1>1, <1>3, <1>4, <1>5, <1>6, <1>7, <1>8, <1>9, NextCases

LEMMA BorrowedStep ==
    ASSUME IInv, Next
    PROVE  BorrowedOnlyByGet' /\ Apart'
<1> USE DEF IInv, TypeOK, Made, CallStates, BorrowedOnlyByGet, Apart
<1> USE ObjectsAssumption
<1> DEFINE NoHit == \A c \in Calls : hit[c] = Nothing
<1>0. fault = "none"
  BY DEF Next
<1>1. ASSUME NEW c \in Calls, Requests(c) \/ NoBot(c)
      PROVE  BorrowedOnlyByGet' /\ Apart'
  <2>1. UNCHANGED <<hit, cacheVars, userVars>> /\ fault' \notin {"stale", "double"}
    BY <1>0, <1>1, RequestsBegin, NoBotBegins DEF Begins
  <2> QED
    BY <2>1 DEF cacheVars, userVars
<1>3. ASSUME NEW c \in Calls, NEW id \in Ids, discord_get_message(c, id)
      PROVE  BorrowedOnlyByGet' /\ Apart'
  BY <1>0, <1>3 DEF discord_get_message, Asks, cacheVars, userVars
<1>4. ASSUME NEW c \in Calls, GetAndFetch(c)
      PROVE  BorrowedOnlyByGet' /\ Apart'
  BY <1>0, <1>4 DEF GetAndFetch, Request, cacheVars
<1>5. ASSUME NEW c \in Calls,
             CallReturns(c) \/ Run(c) \/ CallBackList(c) \/ FreeNode(c)
      PROVE  BorrowedOnlyByGet' /\ Apart'
  <2>1. /\ UNCHANGED <<hit, cacheVars, userVars>>
        /\ fault' \in {"none", "attachments"}
    BY <1>0, <1>5 DEF CallReturns, Run, CallBackList, FreeNode
  <2> QED
    BY <2>1 DEF cacheVars, userVars
<1>6. ASSUME NEW c \in Calls, CallBack(c)
      PROVE  BorrowedOnlyByGet' /\ Apart'
  BY <1>0, <1>6 DEF CallBack, Cached, cacheVars
<1>7. ASSUME NEW id \in Ids, Receive(id) \/ \E c \in Calls : ListMessage(c, id)
      PROVE  BorrowedOnlyByGet' /\ Apart'
  <2>1. /\ Cache!Put(id, made + 1) /\ made' = made + 1
        /\ fault' \in {fault, "overrun"}
        /\ UNCHANGED <<callVars, userVars>>
    BY <1>7 DEF Receive, ListMessage
  <2>2. held' = held \cup {made + 1} /\ freed' = freed /\ made + 1 \notin 1..made
    BY <2>1 DEF Cache!Put
  <2>3. UNCHANGED <<hit, mine, gone>> /\ fault' \notin {"stale", "double"}
    BY <1>0, <2>1 DEF callVars, userVars
  <2>4. \A p \in mine : p[2] # made + 1
    BY <2>2
  <2>5. made + 1 \notin gone
    BY <2>2
  <2> QED
    BY <2>2, <2>3, <2>4, <2>5
<1>8. ASSUME NEW c \in Calls, NEW o \in Objects, UserDestroys(c, o)
      PROVE  BorrowedOnlyByGet' /\ Apart'
  BY <1>0, <1>8 DEF UserDestroys, callVars, cacheVars
<1>9. ASSUME NEW id \in Ids, Evict(id)
      PROVE  BorrowedOnlyByGet' /\ Apart'
  BY <1>0, <1>9 DEF Evict, Cache!Drop, callVars, userVars
<1>10. CASE Shutdown
  BY <1>0, <1>10 DEF Shutdown, Cache!Close, callVars, userVars
<1> QED
  BY <1>1, <1>3, <1>4, <1>5, <1>6, <1>7, <1>8, <1>9, <1>10, NextCases

LEMMA CrashesExplainedStep ==
    ASSUME IInv, Next
    PROVE  CrashesExplained'
<1> USE DEF CrashesExplained
<1>0. fault = "none"
  BY DEF Next
<1>1. ASSUME NEW c \in Calls, Requests(c)
      PROVE  CrashesExplained'
  <2>1. node[c] = "none"
    BY <1>1, RequestsBegin DEF Begins, IInv, CallStates
  <2> QED
    BY <1>0, <1>1, <2>1, RequestsBegin
<1>2. ASSUME NEW c \in Calls, NoBot(c)
      PROVE  CrashesExplained'
  BY <1>2, NoBotBegins DEF Begins
<1>3. CASE fault' \in {"stale", "double"}
  BY <1>3, BorrowedStep DEF BorrowedOnlyByGet
<1>4. ASSUME NEW c \in Calls, Run(c)
      PROVE  CrashesExplained'
  <2>1. fault' = "none" \/ (fault' = "attachments" /\ what'[c].files)
    BY <1>0, <1>4 DEF Run
  <2>2. node'[c] = "answered"
    BY <1>4 DEF Run, IInv, TypeOK
  <2> QED
    BY <2>1, <2>2
<1>5. ASSUME NEW c \in Calls, NEW id \in Ids, ListMessage(c, id)
      PROVE  CrashesExplained'
  <2>1. /\ fault' = "none" \/ (fault' = "overrun" /\ listed[c] >= Room)
        /\ what'[c].kind = "list" /\ listed'[c] = listed[c] + 1
    BY <1>0, <1>5 DEF ListMessage, callVars, IInv, TypeOK
  <2>2. listed[c] \in Nat
    BY DEF IInv, TypeOK
  <2> QED
    BY <2>1, <2>2, ObjectsAssumption
<1>6. ASSUME fault' \notin {"none", "stale", "double"}
      PROVE  \E c \in Calls : \/ Requests(c) \/ NoBot(c) \/ Run(c)
                              \/ \E id \in Ids : ListMessage(c, id)
  BY <1>0, <1>6, NextCases DEF discord_get_message, GetAndFetch, CallReturns,
     CallBack, CallBackList, FreeNode, UserDestroys, Receive, Evict, Shutdown
<1> QED
  BY <1>1, <1>2, <1>3, <1>4, <1>5, <1>6

LEMMA TypeOKStep ==
    ASSUME IInv, Next
    PROVE  TypeOK'
<1> USE ObjectsAssumption
<1>0. Made' /\ CallStates' /\ CalledAsOften'
  BY MadeStep, CallStatesStep, CalledAsOftenStep
<1>t. /\ caller \in [Calls -> {"none", "looked", "asked", "back"}]
      /\ node \in [Calls -> {"none", "queued", "answered", "over", "freed"}]
      /\ what \in [Calls -> What] /\ blocks \in [Calls -> SUBSET Block]
  BY DEF IInv, TypeOK, What, Block
<1>u. /\ hit \in [Calls -> Objects \cup {Nothing}] /\ called \in [Calls -> Nat]
      /\ store \in [Ids -> Objects \cup {Nothing}]
      /\ mine \subseteq Calls \X Objects
  BY DEF IInv, TypeOK
<1>v. /\ held \subseteq Objects /\ freed \subseteq Objects /\ gone \subseteq Objects
      /\ closed \in BOOLEAN /\ made \in 0..MaxObjects
      /\ fault \in Misuses \cup {"none"}
  BY DEF IInv, TypeOK
<1>s. \A id \in Ids : store[id] \in 1..made \cup {Nothing}
  BY DEF IInv, Made
<1>1. /\ caller' \in [Calls -> {"none", "looked", "asked", "back"}]
      /\ node' \in [Calls -> {"none", "queued", "answered", "over", "freed"}]
      /\ what' \in [Calls -> What] /\ blocks' \in [Calls -> SUBSET Block]
  <2> DEFINE Fits ==
        /\ caller' \in [Calls -> {"none", "looked", "asked", "back"}]
        /\ node' \in [Calls -> {"none", "queued", "answered", "over", "freed"}]
        /\ what' \in [Calls -> What] /\ blocks' \in [Calls -> SUBSET Block]
  <2>1. ASSUME NEW c \in Calls, Requests(c) \/ NoBot(c)
        PROVE  Fits
    <3>1. /\ \/ Begins(c, {"send", "edit", "list", "fetch"})
             \/ Begins(c, {"command", "delete", "reply"})
          /\ node' = node \/ node' = [node EXCEPT ![c] = "queued"]
          /\ fault' \in {fault, "message", "bot", "option", "value"}
      BY <2>1, RequestsBegin, NoBotBegins
    <3> QED
      BY <1>t, <3>1 DEF Begins, cacheVars, userVars
  <2>2. ASSUME NEW c \in Calls, NEW id \in Ids, discord_get_message(c, id)
        PROVE  Fits
    BY <1>t, <1>u, <1>v, <2>2 DEF discord_get_message, Asks, NoCall, What, cacheVars, userVars
  <2>3. ASSUME NEW c \in Calls, GetAndFetch(c)
        PROVE  Fits
    BY <1>t, <1>u, <1>v, <2>3 DEF GetAndFetch, Request, Block, cacheVars
  <2>4. ASSUME NEW c \in Calls,
               CallReturns(c) \/ Run(c) \/ CallBackList(c) \/ FreeNode(c)
        PROVE  Fits
    BY <1>t, <2>4 DEF CallReturns, Run, CallBackList, FreeNode, cacheVars, userVars
  <2>5. ASSUME NEW c \in Calls, CallBack(c)
        PROVE  Fits
    BY <1>t, <1>v, <2>5 DEF CallBack, Cached, cacheVars, Objects
  <2>6. ASSUME NEW id \in Ids, Receive(id) \/ \E c \in Calls : ListMessage(c, id)
        PROVE  Fits
    <3>1. /\ Cache!Put(id, made + 1) /\ made' = made + 1 /\ made < MaxObjects
          /\ fault' \in {fault, "overrun"}
          /\ UNCHANGED <<callVars, userVars>>
      BY <2>6 DEF Receive, ListMessage
    <3> QED
      BY <1>t, <1>v, <3>1 DEF Cache!Put, callVars, userVars, Objects
  <2>7. ASSUME NEW c \in Calls, NEW o \in Objects, UserDestroys(c, o)
        PROVE  Fits
    BY <1>t, <2>7 DEF UserDestroys, callVars, cacheVars
  <2>8. ASSUME (\E id \in Ids : Evict(id)) \/ Shutdown
        PROVE  Fits
    <3>1. /\ Cache!Close \/ \E id \in Ids : Cache!Drop(id)
          /\ fault' \in {fault, "double"}
          /\ UNCHANGED <<callVars, made, userVars>>
      BY <2>8 DEF Evict, Shutdown
    <3> QED
      BY <1>t, <1>s, <1>v, <3>1 DEF Cache!Drop, Cache!Close, callVars, userVars
  <2> QED
    BY <2>1, <2>2, <2>3, <2>4, <2>5, <2>6, <2>7, <2>8, NextCases
<1>2. /\ hit' \in [Calls -> Objects \cup {Nothing}] /\ called' \in [Calls -> Nat]
      /\ store' \in [Ids -> Objects \cup {Nothing}]
      /\ mine' \subseteq Calls \X Objects
  <2> DEFINE Fits ==
        /\ hit' \in [Calls -> Objects \cup {Nothing}] /\ called' \in [Calls -> Nat]
        /\ store' \in [Ids -> Objects \cup {Nothing}]
        /\ mine' \subseteq Calls \X Objects
  <2>1. ASSUME NEW c \in Calls, Requests(c) \/ NoBot(c)
        PROVE  Fits
    <3>1. /\ \/ Begins(c, {"send", "edit", "list", "fetch"})
             \/ Begins(c, {"command", "delete", "reply"})
          /\ node' = node \/ node' = [node EXCEPT ![c] = "queued"]
          /\ fault' \in {fault, "message", "bot", "option", "value"}
      BY <2>1, RequestsBegin, NoBotBegins
    <3> QED
      BY <1>u, <3>1 DEF Begins, cacheVars, userVars
  <2>2. ASSUME NEW c \in Calls, NEW id \in Ids, discord_get_message(c, id)
        PROVE  Fits
    BY <1>t, <1>u, <1>v, <2>2 DEF discord_get_message, Asks, NoCall, What, cacheVars, userVars
  <2>3. ASSUME NEW c \in Calls, GetAndFetch(c)
        PROVE  Fits
    BY <1>t, <1>u, <1>v, <2>3 DEF GetAndFetch, Request, Block, cacheVars
  <2>4. ASSUME NEW c \in Calls,
               CallReturns(c) \/ Run(c) \/ CallBackList(c) \/ FreeNode(c)
        PROVE  Fits
    BY <1>u, <2>4 DEF CallReturns, Run, CallBackList, FreeNode, cacheVars, userVars
  <2>5. ASSUME NEW c \in Calls, CallBack(c)
        PROVE  Fits
    BY <1>u, <1>v, <2>5 DEF CallBack, Cached, cacheVars, Objects
  <2>6. ASSUME NEW id \in Ids, Receive(id) \/ \E c \in Calls : ListMessage(c, id)
        PROVE  Fits
    <3>1. /\ Cache!Put(id, made + 1) /\ made' = made + 1 /\ made < MaxObjects
          /\ fault' \in {fault, "overrun"}
          /\ UNCHANGED <<callVars, userVars>>
      BY <2>6 DEF Receive, ListMessage
    <3> QED
      BY <1>u, <1>v, <3>1 DEF Cache!Put, callVars, userVars, Objects
  <2>7. ASSUME NEW c \in Calls, NEW o \in Objects, UserDestroys(c, o)
        PROVE  Fits
    BY <1>u, <2>7 DEF UserDestroys, callVars, cacheVars
  <2>8. ASSUME (\E id \in Ids : Evict(id)) \/ Shutdown
        PROVE  Fits
    <3>1. /\ Cache!Close \/ \E id \in Ids : Cache!Drop(id)
          /\ fault' \in {fault, "double"}
          /\ UNCHANGED <<callVars, made, userVars>>
      BY <2>8 DEF Evict, Shutdown
    <3> QED
      BY <1>u, <1>s, <1>v, <3>1 DEF Cache!Drop, Cache!Close, callVars, userVars
  <2> QED
    BY <2>1, <2>2, <2>3, <2>4, <2>5, <2>6, <2>7, <2>8, NextCases
<1>3. /\ held' \subseteq Objects /\ freed' \subseteq Objects /\ gone' \subseteq Objects
      /\ closed' \in BOOLEAN /\ made' \in 0..MaxObjects
      /\ fault' \in Misuses \cup {"none"}
  <2> DEFINE Fits ==
        /\ held' \subseteq Objects /\ freed' \subseteq Objects /\ gone' \subseteq Objects
        /\ closed' \in BOOLEAN /\ made' \in 0..MaxObjects
        /\ fault' \in Misuses \cup {"none"}
  <2>1. ASSUME NEW c \in Calls, Requests(c) \/ NoBot(c)
        PROVE  Fits
    <3>1. /\ \/ Begins(c, {"send", "edit", "list", "fetch"})
             \/ Begins(c, {"command", "delete", "reply"})
          /\ node' = node \/ node' = [node EXCEPT ![c] = "queued"]
          /\ fault' \in {fault, "message", "bot", "option", "value"}
      BY <2>1, RequestsBegin, NoBotBegins
    <3> QED
      BY <1>v, <3>1 DEF Begins, cacheVars, userVars
  <2>2. ASSUME NEW c \in Calls, NEW id \in Ids, discord_get_message(c, id)
        PROVE  Fits
    BY <1>t, <1>u, <1>v, <2>2 DEF discord_get_message, Asks, NoCall, What, cacheVars, userVars
  <2>3. ASSUME NEW c \in Calls, GetAndFetch(c)
        PROVE  Fits
    BY <1>t, <1>u, <1>v, <2>3 DEF GetAndFetch, Request, Block, cacheVars
  <2>4. ASSUME NEW c \in Calls,
               CallReturns(c) \/ Run(c) \/ CallBackList(c) \/ FreeNode(c)
        PROVE  Fits
    BY <1>v, <2>4 DEF CallReturns, Run, CallBackList, FreeNode, cacheVars, userVars
  <2>5. ASSUME NEW c \in Calls, CallBack(c)
        PROVE  Fits
    BY <1>v, <2>5 DEF CallBack, Cached, cacheVars, Objects
  <2>6. ASSUME NEW id \in Ids, Receive(id) \/ \E c \in Calls : ListMessage(c, id)
        PROVE  Fits
    <3>1. /\ Cache!Put(id, made + 1) /\ made' = made + 1 /\ made < MaxObjects
          /\ fault' \in {fault, "overrun"}
          /\ UNCHANGED <<callVars, userVars>>
      BY <2>6 DEF Receive, ListMessage
    <3> QED
      BY <1>v, <3>1 DEF Cache!Put, callVars, userVars, Objects
  <2>7. ASSUME NEW c \in Calls, NEW o \in Objects, UserDestroys(c, o)
        PROVE  Fits
    BY <1>v, <2>7 DEF UserDestroys, callVars, cacheVars
  <2>8. ASSUME (\E id \in Ids : Evict(id)) \/ Shutdown
        PROVE  Fits
    <3>1. /\ Cache!Close \/ \E id \in Ids : Cache!Drop(id)
          /\ fault' \in {fault, "double"}
          /\ UNCHANGED <<callVars, made, userVars>>
      BY <2>8 DEF Evict, Shutdown
    <3> QED
      BY <1>v, <1>s, <1>v, <3>1 DEF Cache!Drop, Cache!Close, callVars, userVars
  <2> QED
    BY <2>1, <2>2, <2>3, <2>4, <2>5, <2>6, <2>7, <2>8, NextCases
<1>4. \A c \in Calls : called'[c] \in 0..2
  BY <1>0 DEF CalledAsOften
<1>5. listed' \in [Calls -> Nat]
  <2>0. listed \in [Calls -> Nat]
    BY DEF IInv, TypeOK
  <2>1. ASSUME NEW c \in Calls, NEW id \in Ids, ListMessage(c, id)
        PROVE  listed' \in [Calls -> Nat]
    BY <2>0, <2>1 DEF ListMessage
  <2>2. \/ UNCHANGED listed
        \/ \E c \in Calls, id \in Ids : ListMessage(c, id)
    BY NextCases, RequestsBegin, NoBotBegins DEF Begins, discord_get_message,
       GetAndFetch, CallReturns, Run, CallBack, CallBackList, FreeNode,
       UserDestroys, Receive, Evict, Shutdown
  <2> QED
    BY <2>0, <2>1, <2>2
<1> QED
  BY <1>1, <1>2, <1>3, <1>4, <1>5 DEF TypeOK, What, Block

-----------------------------------------------------------------------------
LEMMA BodyFollowsStep ==
    ASSUME IInv, Next
    PROVE  BodyFollows'
<1> DEFINE json(c, asked) ==
        IF asked[c].kind = "command" THEN format_json(asked[c].of) ELSE <<>>
<1>0. /\ body = [c \in Calls |-> json(c, what)]
      /\ \A c \in Calls : what[c].kind = "command" => what[c].of \in Commands
      /\ what \in [Calls -> What]
      /\ \A c \in Calls : caller[c] = "none" => what[c].kind = "none"
  BY DEF IInv, BodyFollows, TypeOK, What, CallStates, NoCall
<1>1. ASSUME NEW c \in Calls, caller[c] = "none", NEW asked \in What,
             what' = [what EXCEPT ![c] = asked], body' = body, asked.kind # "command"
      PROVE  BodyFollows'
  <2>1. \A d \in Calls : json(d, what') = json(d, what)
    BY <1>0, <1>1
  <2>2. body' = [d \in Calls |-> json(d, what')]
    BY <1>0, <1>1, <2>1
  <2>3. \A d \in Calls : what'[d].kind = "command" => what'[d].of \in Commands
    BY <1>0, <1>1
  <2> QED
    BY <2>2, <2>3 DEF BodyFollows
<1>2. ASSUME UNCHANGED <<what, body>>
      PROVE  BodyFollows'
  BY <1>0, <1>2 DEF BodyFollows
<1>3. ASSUME NEW c \in Calls, Requests(c)
      PROVE  BodyFollows'
  <2>1. Begins(c, {"send", "edit", "list", "fetch"})
    BY <1>3, RequestsBegin
  <2>2. body' = body
    BY <1>3 DEF Requests, discord_channel_send_message, discord_channel_edit_message,
       discord_get_messages, discord_fetch_message
  <2> QED
    BY <2>1, <2>2, <1>1 DEF Begins
<1>4. ASSUME NEW c \in Calls, NEW command \in Commands, RegisterOrUpdate(c, command)
      PROVE  BodyFollows'
  <2>1. /\ what' = [what EXCEPT ![c] = [NoCall EXCEPT !.kind = "command", !.of = command]]
        /\ body' = [body EXCEPT ![c] = format_json(command)]
    BY <1>4 DEF RegisterOrUpdate, WithoutBot, Asks
  <2>2. what'[c].kind = "command" /\ what'[c].of = command
    BY <1>0, <2>1 DEF NoCall
  <2>3. \A d \in Calls \ {c} : what'[d] = what[d]
    BY <1>0, <2>1
  <2>4. body' = [d \in Calls |-> json(d, what')]
    BY <1>0, <2>1, <2>2, <2>3
  <2>5. \A d \in Calls : what'[d].kind = "command" => what'[d].of \in Commands
    BY <1>0, <2>2, <2>3
  <2> QED
    BY <2>4, <2>5 DEF BodyFollows
<1>5. ASSUME NEW c \in Calls, NEW kind \in {"delete", "reply"},
             NEW of \in Replies \cup {Nothing}, WithoutBot(c, kind, of), UNCHANGED body
      PROVE  BodyFollows'
  <2> DEFINE asked == [NoCall EXCEPT !.kind = kind, !.of = of]
  <2>1. caller[c] = "none" /\ what' = [what EXCEPT ![c] = asked]
    BY <1>5 DEF WithoutBot, Asks
  <2>2. asked \in What /\ asked.kind # "command"
    BY DEF NoCall, What
  <2> HIDE DEF asked
  <2> QED
    BY <1>1, <1>5, <2>1, <2>2
<1>6. ASSUME NEW c \in Calls, NoBot(c)
      PROVE  BodyFollows'
  <2>1. CASE \E command \in Commands : RegisterOrUpdate(c, command)
    BY <1>4, <2>1
  <2>2. CASE \/ DeleteCommand(c) \/ discord_send_interaction(c)
             \/ \E reply \in Replies : Autocomplete(c, reply)
    BY <1>5, <2>2 DEF DeleteCommand, Autocomplete, discord_send_interaction
  <2> QED
    BY <1>6, <2>1, <2>2 DEF NoBot
<1>7. ASSUME NEW c \in Calls, NEW id \in Ids, discord_get_message(c, id)
      PROVE  BodyFollows'
  <2> DEFINE asked == [NoCall EXCEPT !.kind = "get", !.cb = TRUE, !.id = id]
  <2>1. caller[c] = "none" /\ what' = [what EXCEPT ![c] = asked] /\ body' = body
    BY <1>7 DEF discord_get_message, Asks
  <2>2. asked \in What /\ asked.kind # "command"
    BY DEF NoCall, What
  <2> HIDE DEF asked
  <2> QED
    BY <1>1, <2>1, <2>2
<1>8. ASSUME \/ \E c \in Calls : \/ GetAndFetch(c) \/ CallReturns(c) \/ Run(c) \/ CallBack(c)
                                 \/ CallBackList(c) \/ FreeNode(c)
                                 \/ \E id \in Ids : ListMessage(c, id)
             \/ \E c \in Calls, o \in Objects : UserDestroys(c, o)
             \/ \E id \in Ids : Receive(id) \/ Evict(id)
             \/ Shutdown
      PROVE  UNCHANGED <<what, body>>
  BY <1>8 DEF GetAndFetch, CallReturns, Run, CallBack, CallBackList, FreeNode, ListMessage,
     UserDestroys, Receive, Evict, Shutdown, callVars
<1> QED
  BY <1>2, <1>3, <1>6, <1>7, <1>8, NextCases

-----------------------------------------------------------------------------
(* The order of options.                                                   *)

(* How many numbers of a set are below one.                                *)
LEMMA BelowGrows ==
    ASSUME NEW S \in SUBSET Nat, IsFiniteSet(S), NEW i \in S, NEW k \in Nat
    PROVE  /\ Cardinality({j \in S : j < k}) \in 0..Cardinality(S)
           /\ Cardinality(S) \in Nat
           /\ Cardinality({j \in S : j < i}) < Cardinality(S)
           /\ i < k => Cardinality({j \in S : j < i}) < Cardinality({j \in S : j < k})
<1> DEFINE below(n) == {j \in S : j < n}
<1>1. IsFiniteSet(below(k)) /\ Cardinality(below(k)) <= Cardinality(S)
  BY FS_Subset
<1>2. IsFiniteSet(below(i)) /\ i \notin below(i)
  <2>1. IsFiniteSet(below(i))
    BY FS_Subset
  <2> QED
    BY <2>1
<1>3. Cardinality(below(k)) \in Nat /\ Cardinality(below(i)) \in Nat /\ Cardinality(S) \in Nat
  BY <1>1, <1>2, FS_CardinalityType
<1>4. Cardinality(below(i) \cup {i}) = Cardinality(below(i)) + 1
  BY <1>2, FS_AddElement
<1>5. Cardinality(below(i)) + 1 <= Cardinality(S)
  <2>1. below(i) \cup {i} \in SUBSET S
    OBVIOUS
  <2>2. Cardinality(below(i) \cup {i}) <= Cardinality(S)
    BY <2>1, FS_Subset
  <2> QED
    BY <1>4, <2>2
<1>6. i < k => Cardinality(below(i)) + 1 <= Cardinality(below(k))
  <2>1. ASSUME i < k PROVE below(i) \cup {i} \in SUBSET below(k)
    <3>1. \A j \in S : j \in Nat /\ (j < i => j < k)
      BY <2>1
    <3> QED
      BY <2>1, <3>1
  <2>2. ASSUME i < k PROVE Cardinality(below(i) \cup {i}) <= Cardinality(below(k))
    BY <1>1, <2>1, <2>2, FS_Subset
  <2> QED
    BY <1>4, <2>2
<1> HIDE DEF below
<1>7. /\ Cardinality(below(k)) \in 0..Cardinality(S)
      /\ Cardinality(below(i)) < Cardinality(S)
      /\ i < k => Cardinality(below(i)) < Cardinality(below(k))
  BY <1>1, <1>3, <1>5, <1>6
<1> QED
  BY <1>3, <1>7 DEF below

(* Which of two options comes first.                                       *)
Precedes(options, required, i, j) ==
    \/ options[i] \in required /\ options[j] \notin required
    \/ (options[i] \in required <=> options[j] \in required) /\ i < j

LEMMA PlaceOrders ==
    ASSUME NEW S, NEW options \in Seq(S), NEW required,
           NEW i \in DOMAIN options, NEW j \in DOMAIN options
    PROVE  /\ Place(options, required, i) \in DOMAIN options
           /\ Precedes(options, required, i, j)
                => Place(options, required, i) < Place(options, required, j)
<1> DEFINE all == DOMAIN options
           first == {k \in all : options[k] \in required}
           rest == all \ first
           under(T, k) == Cardinality({x \in T : x < k})
<1>1. all = 1..Len(options) /\ Len(options) \in Nat /\ all \subseteq Nat
  OBVIOUS
<1>2. IsFiniteSet(all) /\ Cardinality(all) = Len(options)
  <2>1. /\ IsFiniteSet(1..Len(options))
        /\ Cardinality(1..Len(options)) = IF 1 > Len(options) THEN 0 ELSE Len(options) - 1 + 1
    BY <1>1, FS_Interval
  <2>2. Cardinality(1..Len(options)) = Len(options)
    BY <1>1, <2>1
  <2> HIDE DEF all
  <2> QED
    BY <1>1, <2>1, <2>2
<1>3. first \in SUBSET all /\ rest \in SUBSET all /\ IsFiniteSet(first) /\ IsFiniteSet(rest)
  <2>1. first \in SUBSET all /\ rest \in SUBSET all
    OBVIOUS
  <2> QED
    BY <1>2, <2>1, FS_Subset
<1>4. Cardinality(first) + Cardinality(rest) = Len(options)
  <2> DEFINE T == first
  <2>1. T \in SUBSET all /\ rest = all \ T /\ IsFiniteSet(T) /\ all \cap T = T
    BY <1>3
  <2> HIDE DEF T, all, rest
  <2>2. Cardinality(all \ T) = Cardinality(all) - Cardinality(all \cap T)
    BY <1>2, FS_Difference
  <2>3. Cardinality(T) \in Nat
    BY <2>1, FS_CardinalityType
  <2>a. Cardinality(rest) = Cardinality(all) - Cardinality(T)
    BY <2>1, <2>2, Zenon
  <2>4. Cardinality(T) + Cardinality(rest) = Len(options)
    BY <1>1, <1>2, <2>3, <2>a
  <2> QED
    BY <2>4 DEF T
<1>5. /\ Cardinality(first) \in Nat /\ Cardinality(rest) \in Nat
      /\ i \in Nat /\ j \in Nat
  BY <1>1, <1>3, FS_CardinalityType
<1>6. ASSUME NEW T \in {first, rest}, NEW k \in T, NEW n \in Nat
      PROVE  /\ under(T, k) \in Nat /\ under(T, k) < Cardinality(T)
             /\ k < n => under(T, k) < under(T, n)
             /\ under(T, n) \in Nat
  <2>1. T \in SUBSET Nat /\ IsFiniteSet(T) /\ k \in Nat
    BY <1>1, <1>3
  <2>2. /\ under(T, n) \in 0..Cardinality(T) /\ Cardinality(T) \in Nat
        /\ under(T, k) < Cardinality(T)
        /\ k < n => under(T, k) < under(T, n)
    BY <2>1, BelowGrows
  <2>3. under(T, k) \in 0..Cardinality(T)
    BY <2>1, BelowGrows
  <2> HIDE DEF under
  <2> QED
    BY <2>2, <2>3
<1>7. /\ \A k \in first : Place(options, required, k) = 1 + under(first, k)
      /\ \A k \in rest : Place(options, required, k) = 1 + Cardinality(first) + under(rest, k)
  BY DEF Place
<1>8. /\ i \in first \/ i \in rest
      /\ j \in first \/ j \in rest
      /\ Precedes(options, required, i, j) =>
            \/ i \in first /\ j \in rest
            \/ i \in first /\ j \in first /\ i < j
            \/ i \in rest /\ j \in rest /\ i < j
  BY DEF Precedes
<1> HIDE DEF all, first, rest, under
<1>a. ASSUME NEW k \in first, NEW n \in Nat
      PROVE  /\ under(first, k) \in Nat /\ under(first, k) < Cardinality(first)
             /\ k < n => under(first, k) < under(first, n)
             /\ under(first, n) \in Nat
  BY <1>6
<1>b. ASSUME NEW k \in rest, NEW n \in Nat
      PROVE  /\ under(rest, k) \in Nat /\ under(rest, k) < Cardinality(rest)
             /\ k < n => under(rest, k) < under(rest, n)
             /\ under(rest, n) \in Nat
  BY <1>6
<1>9. Place(options, required, i) \in all
  <2>1. CASE i \in first
    <3>1. Place(options, required, i) = 1 + under(first, i)
      BY <1>7, <2>1
    <3>2. under(first, i) \in Nat /\ under(first, i) < Cardinality(first)
      BY <1>a, <1>5, <2>1
    <3> QED
      BY <1>1, <1>4, <1>5, <3>1, <3>2
  <2>2. CASE i \in rest
    <3>1. Place(options, required, i) = 1 + Cardinality(first) + under(rest, i)
      BY <1>7, <2>2
    <3>2. under(rest, i) \in Nat /\ under(rest, i) < Cardinality(rest)
      BY <1>b, <1>5, <2>2
    <3> QED
      BY <1>1, <1>4, <1>5, <3>1, <3>2
  <2> QED
    BY <1>8, <2>1, <2>2
<1>10. Precedes(options, required, i, j)
          => Place(options, required, i) < Place(options, required, j)
  <2>1. CASE i \in first /\ j \in rest
    <3>1. /\ Place(options, required, i) = 1 + under(first, i)
          /\ Place(options, required, j) = 1 + Cardinality(first) + under(rest, j)
      BY <1>7, <2>1
    <3>2. under(first, i) \in Nat /\ under(first, i) < Cardinality(first) /\ under(rest, j) \in Nat
      BY <1>a, <1>b, <1>5, <2>1
    <3> QED
      BY <1>5, <3>1, <3>2
  <2>2. CASE i \in first /\ j \in first /\ i < j
    <3>1. /\ Place(options, required, i) = 1 + under(first, i)
          /\ Place(options, required, j) = 1 + under(first, j)
      BY <1>7, <2>2
    <3>2. under(first, i) \in Nat /\ under(first, j) \in Nat /\ under(first, i) < under(first, j)
      BY <1>a, <1>5, <2>2
    <3> QED
      BY <3>1, <3>2
  <2>3. CASE i \in rest /\ j \in rest /\ i < j
    <3>1. /\ Place(options, required, i) = 1 + Cardinality(first) + under(rest, i)
          /\ Place(options, required, j) = 1 + Cardinality(first) + under(rest, j)
      BY <1>7, <2>3
    <3>2. under(rest, i) \in Nat /\ under(rest, j) \in Nat /\ under(rest, i) < under(rest, j)
      BY <1>b, <1>5, <2>3
    <3> QED
      BY <1>5, <3>1, <3>2
  <2> QED
    BY <1>8, <2>1, <2>2, <2>3
<1> QED
  BY <1>9, <1>10 DEF all

(* Every place is taken by one option.                                     *)
LEMMA PlaceIsBijective ==
    ASSUME NEW S, NEW options \in Seq(S), NEW required
    PROVE  /\ \A i, j \in DOMAIN options :
                Place(options, required, i) = Place(options, required, j) => i = j
           /\ \A k \in DOMAIN options :
                \E i \in DOMAIN options : Place(options, required, i) = k
<1> DEFINE D == DOMAIN options
           place == [i \in D |-> Place(options, required, i)]
<1>1. D = 1..Len(options) /\ Len(options) \in Nat /\ IsFiniteSet(D)
  BY FS_Interval
<1>2. ASSUME NEW i \in D, NEW j \in D, i # j
      PROVE  Place(options, required, i) # Place(options, required, j)
  <2>1. Precedes(options, required, i, j) \/ Precedes(options, required, j, i)
    BY <1>1, <1>2 DEF Precedes
  <2>2. /\ Place(options, required, i) \in D /\ Place(options, required, j) \in D
        /\ Precedes(options, required, i, j)
             => Place(options, required, i) < Place(options, required, j)
        /\ Precedes(options, required, j, i)
             => Place(options, required, j) < Place(options, required, i)
    BY PlaceOrders
  <2> QED
    BY <1>1, <2>1, <2>2
<1>3. place \in [D -> D]
  BY PlaceOrders
<1>4. place \in Injection(D, D)
  BY <1>2, <1>3 DEF Injection, IsInjective
<1>5. place \in Surjection(D, D)
  BY <1>1, <1>4, FS_Injection
<1>6. \A k \in D : \E i \in D : place[i] = k
  BY <1>5 DEF Surjection
<1> QED
  BY <1>2, <1>6

(* All that is given is in the sorted sequence, what is required first, in *)
(* the order given.                                                        *)
IsStable(sorted, given, required) ==
    LET before(s, o, q) == \E i, j \in DOMAIN s : i < j /\ s[i] = o /\ s[j] = q
    IN /\ Len(sorted) = Len(given)
       /\ \A o, q \in ToSet(given) :
            before(sorted, o, q) <=>
                \/ o \in required /\ q \notin required
                \/ (o \in required <=> q \in required) /\ before(given, o, q)

LEMMA OrderedIsStable ==
    ASSUME NEW S, NEW options \in Seq(S), IsInjective(options), NEW required
    PROVE  IsStable(Ordered(options, required), options, required)
<1> DEFINE D == DOMAIN options
           sorted == Ordered(options, required)
           at(k) == CHOOSE i \in D : Place(options, required, i) = k
           before(s, o, q) == \E i, j \in DOMAIN s : i < j /\ s[i] = o /\ s[j] = q
<1>1. D = 1..Len(options) /\ Len(options) \in Nat
  OBVIOUS
<1>2. /\ sorted = [k \in D |-> options[at(k)]] /\ DOMAIN sorted = D
      /\ \A k \in D : sorted[k] = options[at(k)]
  BY DEF Ordered
<1>3. \A k \in D : at(k) \in D /\ Place(options, required, at(k)) = k
  BY PlaceIsBijective
<1>4. \A i \in D : Place(options, required, i) \in D /\ at(Place(options, required, i)) = i
  <2>1. ASSUME NEW i \in D
        PROVE  Place(options, required, i) \in D /\ at(Place(options, required, i)) = i
    <3>1. Place(options, required, i) \in D
      BY PlaceOrders
    <3>2. /\ at(Place(options, required, i)) \in D
          /\ Place(options, required, at(Place(options, required, i)))
                = Place(options, required, i)
      BY <1>3, <3>1
    <3> HIDE DEF at
    <3> QED
      BY <3>1, <3>2, PlaceIsBijective
  <2> QED
    BY <2>1
<1>5. Len(sorted) = Len(options)
  <2>1. sorted \in Seq(S)
    <3>1. \A k \in D : options[at(k)] \in S
      BY <1>3, <1>1
    <3> HIDE DEF at, sorted
    <3> QED
      BY <1>1, <1>2, <3>1
  <2> HIDE DEF sorted, at
  <2> QED
    BY <1>1, <1>2, <2>1
<1> HIDE DEF sorted, at
<1>6. ASSUME NEW i \in D, NEW j \in D
      PROVE  Place(options, required, i) < Place(options, required, j)
                <=> Precedes(options, required, i, j)
  <2>1. /\ Place(options, required, i) \in D /\ Place(options, required, j) \in D
        /\ Precedes(options, required, i, j)
             => Place(options, required, i) < Place(options, required, j)
        /\ Precedes(options, required, j, i)
             => Place(options, required, j) < Place(options, required, i)
    BY PlaceOrders
  <2>2. i # j => Precedes(options, required, i, j) \/ Precedes(options, required, j, i)
    BY <1>1 DEF Precedes
  <2> QED
    BY <1>1, <2>1, <2>2
<1>7. ASSUME NEW o \in ToSet(options), NEW q \in ToSet(options)
      PROVE  before(sorted, o, q) <=>
                \/ o \in required /\ q \notin required
                \/ (o \in required <=> q \in required) /\ before(options, o, q)
  <2>1. PICK i \in D, j \in D : options[i] = o /\ options[j] = q
    BY DEF ToSet
  <2>2. before(options, o, q) <=> i < j
    BY <2>1 DEF IsInjective
  <2>3. before(sorted, o, q) <=> Place(options, required, i) < Place(options, required, j)
    <3>1. ASSUME NEW k \in D, NEW l \in D, k < l, sorted[k] = o, sorted[l] = q
          PROVE  Place(options, required, i) < Place(options, required, j)
      <4>1. at(k) = i /\ at(l) = j
        BY <1>2, <1>3, <2>1, <3>1 DEF IsInjective
      <4> QED
        BY <1>3, <3>1, <4>1
    <3>2. ASSUME Place(options, required, i) < Place(options, required, j)
          PROVE  before(sorted, o, q)
      BY <1>2, <1>4, <2>1, <3>2
    <3> QED
      BY <1>2, <3>1, <3>2
  <2> HIDE DEF before
  <2> QED
    BY <1>6, <2>1, <2>2, <2>3 DEF Precedes
<1> QED
  BY <1>5, <1>7 DEF sorted, IsStable
-----------------------------------------------------------------------------
(* The invariant holds whatever bots, workers, events and users do.        *)
THEOREM InvariantHolds == Spec => []IInv
<1>1. Init => IInv
  <2> SUFFICES ASSUME Init
               PROVE  IInv
    OBVIOUS
  <2> USE DEF Init, Cache!Init
  <2>a. NoCall \in What
    BY DEF NoCall, What
  <2>1. TypeOK
    <3>1. /\ what \in [Calls -> What] /\ made \in 0..MaxObjects
          /\ hit \in [Calls -> Objects \cup {Nothing}]
          /\ store \in [Ids -> Objects \cup {Nothing}]
          /\ called \in [Calls -> 0..2] /\ listed \in [Calls -> Nat]
      BY <2>a, ObjectsAssumption
    <3>2. /\ caller \in [Calls -> {"none", "looked", "asked", "back"}]
          /\ node \in [Calls -> {"none", "queued", "answered", "over", "freed"}]
          /\ blocks \in [Calls -> SUBSET Block]
          /\ closed \in BOOLEAN /\ fault = "none"
          /\ held = {} /\ freed = {} /\ mine = {} /\ gone = {}
      OBVIOUS
    <3> QED
      BY <3>1, <3>2 DEF TypeOK, What, Block
  <2>2. CallStates /\ BlockStates /\ CalledAsOften
    BY DEF CallStates, BlockStates, CalledAsOften, NoCall
  <2>3. Made /\ Apart
    BY DEF Made, Apart
  <2>4. BorrowedOnlyByGet /\ CrashesExplained
    BY DEF BorrowedOnlyByGet, CrashesExplained
  <2>5. BodyFollows
    BY DEF BodyFollows, NoCall
  <2> QED
    BY <2>1, <2>2, <2>3, <2>4, <2>5 DEF IInv
<1>2. IInv /\ [Next]_vars => IInv'
  <2> SUFFICES ASSUME IInv, [Next]_vars
               PROVE  IInv'
    OBVIOUS
  <2>1. CASE Next
    BY <2>1, TypeOKStep, CallStatesStep, BlockStatesStep, BorrowedStep, MadeStep,
       CalledAsOftenStep, CrashesExplainedStep, BodyFollowsStep DEF IInv
  <2>2. CASE UNCHANGED vars
    <3> USE <2>2 DEF vars, callVars, cacheVars, userVars
    <3>1. TypeOK' /\ Made' /\ Apart'
      BY DEF IInv, TypeOK, Made, Apart
    <3>2. CallStates' /\ BlockStates' /\ CalledAsOften'
      BY DEF IInv, CallStates, BlockStates, CalledAsOften
    <3>3. BorrowedOnlyByGet' /\ CrashesExplained'
      BY DEF IInv, BorrowedOnlyByGet, CrashesExplained
    <3>4. BodyFollows'
      BY DEF IInv, BodyFollows
    <3> QED
      BY <3>1, <3>2, <3>3, <3>4 DEF IInv
  <2> QED
    BY <2>1, <2>2
<1> QED
  BY <1>1, <1>2, PTL DEF Spec

(* Whatever the order in which the calling thread and the worker come to   *)
(* their ends, nothing is left of a call but the JSON of an edit.          *)
THEOREM OnlyEditsLeakHolds == Spec => []OnlyEditsLeak
<1>1. IInv => OnlyEditsLeak
  <2> SUFFICES ASSUME IInv, NEW c \in Calls, caller[c] = "back", node[c] = "freed"
               PROVE  blocks[c] = IF what[c].kind = "edit" THEN {"json"} ELSE {}
    BY DEF OnlyEditsLeak
  <2>1. blocks[c] \subseteq {"json", "names", "rc", "node"}
    BY DEF IInv, TypeOK
  <2>2. /\ "names" \notin blocks[c] /\ "rc" \notin blocks[c] /\ "node" \notin blocks[c]
        /\ "json" \in blocks[c] <=> what[c].kind = "edit"
    BY DEF IInv, BlockStates
  <2> QED
    BY <2>1, <2>2
<1> QED
  BY <1>1, InvariantHolds, PTL

(* A callback is called once for each request that leaves one, and once    *)
(* more for a message that discord_get_message finds.                      *)
THEOREM CalledAsOftenHolds == Spec => []CalledAsOften
BY InvariantHolds, PTL DEF IInv

(* The cache shares a message with the user only through                   *)
(* discord_get_message.                                                    *)
THEOREM BorrowedOnlyByGetHolds == Spec => []BorrowedOnlyByGet
BY InvariantHolds, PTL DEF IInv

(* What a call crashes on: no message to edit, a message that was found in *)
(* the cache, no bot, choices that the interaction has no option for,      *)
(* files, or a list of more messages than its array has room for.          *)
THEOREM CrashesExplainedHolds == Spec => []CrashesExplained
BY InvariantHolds, PTL DEF IInv

(* In the JSON of a command every level has all of its options, first the  *)
(* required ones, and otherwise in their order (command.c:98, 160): at no  *)
(* level do two options get the same place.                                *)
THEOREM RequiredFirstHolds == Spec => []RequiredFirst
<1>1. IInv => RequiredFirst
  <2>1. ASSUME IInv, NEW c \in Calls, what[c].kind = "command", what[c].of.named
        PROVE  LET command == what[c].of IN
               /\ DOMAIN body[c] = DOMAIN command.options
               /\ \A p \in DOMAIN body[c] :
                    IsStable(body[c][p], command.options[p], command.required)
    <3> DEFINE command == what[c].of
    <3>1. command \in Commands /\ body[c] = format_json(command)
      BY <2>1 DEF IInv, BodyFollows
    <3>2. body[c] = [p \in DOMAIN command.options |->
                        Ordered(command.options[p], command.required)]
      BY <2>1, <3>1 DEF format_json, add_option
    <3>3. ASSUME NEW p \in DOMAIN command.options
          PROVE  IsStable(Ordered(command.options[p], command.required),
                          command.options[p], command.required)
      BY <3>1, CommandsAssumption, OrderedIsStable
    <3> HIDE DEF command
    <3>4. /\ DOMAIN body[c] = DOMAIN command.options
          /\ \A p \in DOMAIN body[c] :
                IsStable(body[c][p], command.options[p], command.required)
      BY <3>2, <3>3
    <3> QED
      BY <3>4 DEF command
  <2> QED
    BY <2>1 DEF RequiredFirst, IsStable
<1> QED
  BY <1>1, InvariantHolds, PTL
====
