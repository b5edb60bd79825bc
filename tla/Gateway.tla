---- MODULE Gateway ----
(***************************************************************************)
(* The connection to the Discord gateway: web/websocket.c and              *)
(* web/gateway.c, the event loop (the main thread, which runs every        *)
(* callback of libwebsockets), the heartbeat threads, and the signal       *)
(* handler of disco.c.  libwebsockets and the server are the environment.  *)
(*                                                                         *)
(* The fields of websocket_client that are flags keep their names.  The    *)
(* memory of a connection is not numbered: link is the state of the one    *)
(* client->wsi points to, and a heartbeat thread that still holds the      *)
(* pointer to a connection libwebsockets has freed is "late".              *)
(***************************************************************************)
EXTENDS Integers, FiniteSets

CONSTANTS Threads,      \* identities of heartbeat threads
          NoThread,     \* client->heartbeat_thread before there is one
          Interval,     \* HEARTBEAT_INTERVAL in rounds of the heartbeat loop
          MaxSeq        \* bound on the events of one session

ASSUME ThreadAssumption == IsFiniteSet(Threads) /\ NoThread \notin Threads
ASSUME BoundAssumption == Interval \in Nat \ {0} /\ MaxSeq \in Nat \ {0}

VARIABLES
    active, connected, success_login, exit, heartbeat_active, sigterm,
    heartbeat_thread,
    session_id,     \* "none"; or a session that is "live" or "dead" to the server
    seq,            \* the static of gateway.c, -1 for null
    content,        \* connections the fragments in client->content came from
    link,           \* state of the connection client->wsi
    peer,           \* what the server is about to send on it
    main,           \* where the event loop is
    then,           \* where it goes after websocket_close
    joinee,         \* the thread websocket_close joins
    beat,           \* where each heartbeat thread is
    rounds,         \* t of gateway_heartbeat_loop
    handled,        \* s of the last event handled in the session (history)
    rejected,       \* the server answered INVALID_SESSION for it (history)
    lost,           \* the server closed the last connection (history)
    fault           \* who used a freed connection: "none" or who did

flags == <<active, connected, success_login, exit>>
threadVars == <<heartbeat_active, heartbeat_thread, beat, rounds>>
sessionVars == <<session_id, seq, handled, rejected>>
loopVars == <<main, then, joinee>>
linkVars == <<link, peer, content, lost>>
vars == <<flags, sigterm, threadVars, sessionVars, loopVars, linkVars, fault>>

(* "sleep": in the loop, between two heartbeats; "send": about to write,   *)
(* with the pointer to the connection in hand; "late": the same, but that  *)
(* connection was freed since; "ended": has returned, not joined.          *)
BeatPc == {"none", "sleep", "send", "late", "ended"}

Init ==
    /\ active = TRUE
    /\ connected = FALSE /\ success_login = FALSE /\ exit = FALSE
    /\ sigterm = FALSE
    /\ heartbeat_active = FALSE /\ heartbeat_thread = NoThread
    /\ beat = [h \in Threads |-> "none"]
    /\ rounds = [h \in Threads |-> 0]
    /\ session_id = "none" /\ seq = -1 /\ handled = 0 /\ rejected = FALSE
    /\ main = "service" /\ then = "service" /\ joinee = NoThread
    /\ link = "connecting" /\ peer = "silent" /\ content = {} /\ lost = FALSE
    /\ fault = "none"

-----------------------------------------------------------------------------
(* Definitions that end in an underscore and a word are variants of the    *)
(* one that follows them, with a mistake in it.                            *)

(* The beginning of websocket_close; what comes after it is CloseReturns.  *)
Close_unjoined(next) ==
    /\ main' = "close" /\ then' = next
    /\ joinee' = NoThread
    /\ heartbeat_active' = FALSE
    /\ UNCHANGED <<heartbeat_thread, beat, rounds>>

Close_unreset(next) ==
    /\ main' = "close" /\ then' = next
    /\ joinee' = IF heartbeat_active THEN heartbeat_thread ELSE NoThread
    /\ UNCHANGED <<heartbeat_active, heartbeat_thread, beat, rounds>>

Close(next) ==
    /\ main' = "close" /\ then' = next
    /\ joinee' = IF heartbeat_active THEN heartbeat_thread ELSE NoThread
    /\ heartbeat_active' = FALSE
    /\ UNCHANGED <<heartbeat_thread, beat, rounds>>

(* pthread_join has returned.  lws_set_timeout has the connection closed   *)
(* soon; the caller of websocket_close goes on.                            *)
CloseReturns ==
    /\ main = "close"
    /\ joinee # NoThread => beat[joinee] = "ended"
    /\ beat' = [h \in Threads |-> IF h = joinee THEN "none" ELSE beat[h]]
    /\ fault' = IF then = "ended" /\ link = "gone" THEN "exit" ELSE fault
    /\ link' = IF link = "open" THEN "killed" ELSE link
    /\ main' = IF then = "closed" THEN "service" ELSE then
    /\ IF then = "closed"
       THEN connected' = FALSE /\ success_login' = FALSE
       ELSE UNCHANGED <<connected, success_login>>
    /\ joinee' = NoThread
    /\ UNCHANGED <<active, exit, sigterm, heartbeat_active, heartbeat_thread,
                   rounds, sessionVars, then, peer, content, lost>>

-----------------------------------------------------------------------------
(* The callbacks of libwebsockets, called from lws_service.                *)

(* LWS_CALLBACK_CLIENT_ESTABLISHED: the server will say HELLO.             *)
Established ==
    /\ main = "service" /\ link = "connecting"
    /\ link' = "open" /\ peer' = "hello"
    /\ connected' = TRUE
    /\ UNCHANGED <<active, success_login, exit, sigterm, threadVars,
                   sessionVars, loopVars, content, lost, fault>>

(* LWS_CALLBACK_CLIENT_CONNECTION_ERROR, up to exit(1).                    *)
ConnectionError ==
    /\ main = "service" /\ link = "connecting"
    /\ connected' = FALSE /\ active' = FALSE
    /\ Close("exit1")
    /\ UNCHANGED <<success_login, exit, sigterm, sessionVars, linkVars, fault>>

(* A freed connection leaves the threads that hold it with the pointer.    *)
FreeLink == beat' = [h \in Threads |-> IF beat[h] = "send" THEN "late" ELSE beat[h]]

(* websocket_connect.  What was received of an unfinished message, on the  *)
(* connection that is now the previous one, is dropped.                    *)
NewContent_kept == IF content = {} THEN {} ELSE {"previous"}
NewContent == {}

Connect ==
    /\ link' = "connecting" /\ peer' = "silent"
    /\ content' = NewContent
    /\ active' = TRUE

(* LWS_CALLBACK_CLIENT_CLOSED: the bot gives up if it never logged in,     *)
(* ends if it is to exit, and reconnects otherwise.                        *)
MayReconnect_always == TRUE
MayReconnect_alive == heartbeat_active /\ ~exit
MayReconnect == success_login /\ ~exit

Closed ==
    IF MayReconnect
    THEN /\ Connect
         /\ FreeLink
         /\ UNCHANGED <<connected, success_login, exit, loopVars, rounds,
                        heartbeat_active, heartbeat_thread>>
    ELSE /\ exit' = TRUE
         /\ active' = FALSE
         /\ link' = "gone" /\ peer' = "silent"
         /\ Close("closed")
         /\ UNCHANGED <<connected, success_login, content>>

ServerCloses ==
    /\ main = "service" /\ link = "open"
    /\ lost' = TRUE
    /\ Closed
    /\ UNCHANGED <<sigterm, sessionVars, fault>>

Killed ==
    /\ main = "service" /\ link = "killed"
    /\ lost' = FALSE
    /\ Closed
    /\ UNCHANGED <<sigterm, sessionVars, fault>>

-----------------------------------------------------------------------------
(* LWS_CALLBACK_CLIENT_RECEIVE.  A fragment that is not the last one is    *)
(* appended to the content; with the last one gateway_on_receive handles   *)
(* the content, which is then empty.                                       *)
Receiving == main = "service" /\ link \in {"open", "killed"}

Fragment ==
    /\ Receiving /\ peer # "silent"
    /\ content' = content \cup {"this"}
    /\ UNCHANGED <<flags, sigterm, threadVars, sessionVars, loopVars, link,
                   peer, lost, fault>>

(* DISCORD_HELLO: gateway_handle_identify starts a heartbeat thread unless *)
(* one is already running.                                                 *)
StartsThread_always == TRUE
StartsThread_first == heartbeat_thread = NoThread
StartsThread == ~heartbeat_active

Hello ==
    /\ Receiving /\ peer = "hello"
    /\ content' = {}
    /\ peer' = IF session_id = "none" THEN "identify" ELSE "resume"
    /\ IF StartsThread
       THEN \E h \in {t \in Threads : beat[t] = "none"} :
              /\ heartbeat_active' = TRUE
              /\ heartbeat_thread' = h
              /\ beat' = [beat EXCEPT ![h] = "sleep"]
              /\ rounds' = [rounds EXCEPT ![h] = 0]
       ELSE UNCHANGED threadVars
    /\ UNCHANGED <<flags, sigterm, sessionVars, loopVars, link, lost, fault>>

(* A callback of the user runs inside event_handle.  It may close the      *)
(* connection for good or to reconnect (the example bot does both).        *)
Callback ==
    \/ UNCHANGED <<exit, loopVars, threadVars>>
    \/ UNCHANGED exit /\ Close("service")
    \/ exit' = TRUE /\ Close("service")

(* DISCORD_DISPATCH of READY, in answer to op 2.                           *)
Ready ==
    /\ Receiving /\ peer = "identify"
    /\ content' = {}
    /\ peer' = "serve"
    /\ success_login' = TRUE
    /\ session_id' = "live" /\ rejected' = FALSE
    /\ seq' = 1 /\ handled' = 1
    /\ Callback
    /\ UNCHANGED <<active, connected, sigterm, link, lost, fault>>

(* DISCORD_DISPATCH of anything else; the server resumes a live session    *)
(* with the event after the one the client named.                          *)
Dispatch ==
    /\ Receiving
    /\ peer = "serve" \/ (peer = "resume" /\ session_id = "live")
    /\ handled < MaxSeq
    /\ content' = {}
    /\ peer' = "serve"
    /\ success_login' = TRUE
    /\ handled' = handled + 1
    /\ seq' = handled + 1
    /\ Callback
    /\ UNCHANGED <<active, connected, session_id, rejected, sigterm, link,
                   lost, fault>>

(* DISCORD_INVALID_SESSION: seq is reset, session_id is not.               *)
ResetSeq_kept == seq
ResetSeq == -1

InvalidSession ==
    /\ Receiving
    /\ \/ peer \in {"identify", "serve"}
       \/ peer = "resume" /\ session_id = "dead"
    /\ content' = {}
    /\ peer' = "silent"
    /\ seq' = ResetSeq
    /\ rejected' = (session_id # "none")
    /\ session_id' = IF session_id = "none" THEN "none" ELSE "dead"
    /\ Close("service")
    /\ UNCHANGED <<flags, sigterm, handled, link, lost, fault>>

(* DISCORD_RECONNECT, DISCORD_HEARTBEAT, DISCORD_HEARTBEAT_ACK: nothing    *)
(* but an answer that is not modelled.                                     *)
OtherOpcode ==
    /\ Receiving /\ peer = "serve"
    /\ content' = {}
    /\ UNCHANGED <<flags, sigterm, threadVars, sessionVars, loopVars, link,
                   peer, lost, fault>>

(* The server forgets a session nobody is connected to.                    *)
Expire ==
    /\ session_id = "live" /\ peer # "serve"
    /\ session_id' = "dead"
    /\ UNCHANGED <<flags, sigterm, threadVars, seq, handled, rejected,
                   loopVars, linkVars, fault>>

-----------------------------------------------------------------------------
(* gateway_event_loop and what follows it in discord_start_bot.            *)

Sigterm ==
    /\ main \notin {"done", "exit1"}
    /\ ~sigterm
    /\ sigterm' = TRUE
    /\ UNCHANGED <<flags, threadVars, sessionVars, loopVars, linkVars, fault>>

ServiceReturns ==
    /\ main = "service"
    /\ main' = "check"
    /\ UNCHANGED <<flags, sigterm, threadVars, sessionVars, then, joinee,
                   linkVars, fault>>

Exit ==
    /\ main = "check" /\ sigterm
    /\ exit' = TRUE
    /\ Close("ended")
    /\ UNCHANGED <<active, connected, success_login, sigterm, sessionVars,
                   linkVars, fault>>

NextRound ==
    /\ main = "check" /\ ~sigterm
    /\ main' = IF active THEN "service" ELSE "ended"
    /\ UNCHANGED <<flags, sigterm, threadVars, sessionVars, then, joinee,
                   linkVars, fault>>

(* websocket_destroy_client.  lws_context_destroy closes the connection,   *)
(* with one of the two callbacks above; an error ends the process.         *)
DestroyClient ==
    /\ main = "ended"
    /\ main' \in IF link = "connecting" THEN {"done", "exit1"} ELSE {"done"}
    /\ link' = "gone" /\ peer' = "silent"
    /\ active' = FALSE /\ heartbeat_active' = FALSE
    /\ connected' = FALSE /\ success_login' = FALSE
    /\ UNCHANGED <<exit, sigterm, heartbeat_thread, beat, rounds, sessionVars,
                   then, joinee, content, lost, fault>>

-----------------------------------------------------------------------------
(* gateway_heartbeat_loop: the thread sleeps, or takes the pointer to the  *)
(* connection to send a heartbeat on it, or ends.                          *)
Due(h) == rounds[h] + 1 >= Interval

Round(h) ==
    /\ beat[h] = "sleep"
    /\ active /\ heartbeat_active
    /\ IF Due(h)
       THEN /\ rounds' = [rounds EXCEPT ![h] = 0]
            /\ beat' = [beat EXCEPT ![h] = "send"]
       ELSE /\ rounds' = [rounds EXCEPT ![h] = @ + 1]
            /\ UNCHANGED beat
    /\ UNCHANGED <<flags, sigterm, heartbeat_active, heartbeat_thread,
                   sessionVars, loopVars, linkVars, fault>>

Send(h) ==
    /\ beat[h] \in {"send", "late"}
    /\ fault' = IF beat[h] = "late" THEN "heartbeat" ELSE fault
    /\ beat' = [beat EXCEPT ![h] = "sleep"]
    /\ UNCHANGED <<flags, sigterm, heartbeat_active, heartbeat_thread, rounds,
                   sessionVars, loopVars, linkVars>>

EndLoop(h) ==
    /\ beat[h] = "sleep"
    /\ ~(active /\ heartbeat_active)
    /\ beat' = [beat EXCEPT ![h] = "ended"]
    /\ UNCHANGED <<flags, sigterm, heartbeat_active, heartbeat_thread, rounds,
                   sessionVars, loopVars, linkVars, fault>>

-----------------------------------------------------------------------------
Heartbeat(h) == Round(h) \/ Send(h) \/ EndLoop(h)

Receive ==
    Fragment \/ Hello \/ Ready \/ Dispatch \/ InvalidSession \/ OtherOpcode

Over == main \in {"done", "exit1"} \/ fault # "none"

Next ==
    \/ /\ ~Over
       /\ \/ Established \/ ConnectionError \/ ServerCloses \/ Killed
          \/ Receive
          \/ CloseReturns \/ ServiceReturns \/ Exit \/ NextRound
          \/ DestroyClient
          \/ Sigterm \/ Expire
          \/ \E h \in Threads : Heartbeat(h)
    \/ Over /\ UNCHANGED vars

Spec == Init /\ [][Next]_vars

(* Both threads are scheduled, lws_service handles what is due and returns,*)
(* and a connection is either established or fails.                        *)
Fairness ==
    /\ WF_vars(~Over /\ (CloseReturns \/ Exit \/ NextRound \/ DestroyClient))
    /\ SF_vars(~Over /\ ServiceReturns)
    /\ SF_vars(~Over /\ Killed)
    /\ \A h \in Threads : WF_vars(~Over /\ Heartbeat(h))

FairSpec == Spec /\ Fairness

-----------------------------------------------------------------------------
Running == {h \in Threads : beat[h] \in {"sleep", "send", "late"}}

TypeOK ==
    /\ active \in BOOLEAN /\ connected \in BOOLEAN
    /\ success_login \in BOOLEAN /\ exit \in BOOLEAN /\ sigterm \in BOOLEAN
    /\ heartbeat_active \in BOOLEAN
    /\ heartbeat_thread \in Threads \cup {NoThread}
    /\ beat \in [Threads -> BeatPc]
    /\ rounds \in [Threads -> 0..(Interval - 1)]
    /\ session_id \in {"none", "live", "dead"}
    /\ seq \in {-1} \cup 1..MaxSeq
    /\ handled \in 0..MaxSeq
    /\ rejected \in BOOLEAN
    /\ main \in {"service", "check", "close", "ended", "done", "exit1"}
    /\ then \in {"service", "closed", "ended", "exit1"}
    /\ joinee \in Threads \cup {NoThread}
    /\ link \in {"connecting", "open", "killed", "gone"}
    /\ peer \in {"silent", "hello", "identify", "resume", "serve"}
    /\ content \subseteq {"this", "previous"}
    /\ lost \in BOOLEAN
    /\ fault \in {"none", "exit", "heartbeat"}

(* The flag heartbeat_active and the handle heartbeat_thread keep track of *)
(* the heartbeat threads over any number of reconnects (gateway.c:39,      *)
(* websocket.c:181): the only thread there may be is the one they name, or *)
(* the one that is being joined.                                           *)
HeartbeatTracked ==
    /\ \A h \in Threads : beat[h] # "none" =>
          IF heartbeat_active THEN h = heartbeat_thread ELSE h = joinee
    /\ heartbeat_active => heartbeat_thread \in Running
    /\ joinee # NoThread => main = "close"

(* No heartbeat uses a connection that the client has told libwebsockets   *)
(* to close, and that is about to be freed (websocket.c:183 joins before   *)
(* websocket.c:185); and none outlives the event loop: the client it uses  *)
(* is a local variable of discord_start_bot, and the pthread_join of       *)
(* websocket_destroy_client (websocket.c:155) is never reached.            *)
HeartbeatStops ==
    \/ link = "killed" /\ main # "close"
    \/ main \in {"ended", "done"}
    => Running = {}

(* A freed connection is used in two cases only: by a heartbeat, after the *)
(* server closed the connection, and by websocket_exit, when the signal    *)
(* comes after a connection that was to be the last one was closed.        *)
FaultsExplained ==
    /\ \A h \in Threads : beat[h] = "late" => lost
    /\ fault = "exit" => sigterm /\ ~active

(* The seq that a RESUME carries is that of the last event handled in the  *)
(* session, unless the server has rejected the session (gateway.c:34).     *)
SeqIsLastHandled ==
    IF session_id = "none" \/ rejected THEN seq = -1 ELSE seq = handled

(* A message is never put together from fragments of two connections,      *)
(* although a connection may be closed, by either side, between two        *)
(* fragments of one, and the next message is appended to what client->     *)
(* content then holds (websocket.c:60, 138).                               *)
ContentOfOneConnection == content \subseteq {"this"}

(* The bot takes a closed connection for that of an invalid token, and     *)
(* ends, only when no session was ever opened (websocket.c:37).            *)
GivesUpBeforeLogin ==
    [][~exit /\ exit' /\ then' = "closed" => session_id = "none"]_vars

(* SIGTERM, or a callback that exits, ends the process, whatever the       *)
(* connection and the heartbeat are doing.                                 *)
ExitEnds == (sigterm \/ exit) ~> Over

(* A session that is served gets heartbeats, after reconnects as before.   *)
HeartbeatsGoOut ==
    peer = "serve" ~> \/ peer # "serve" \/ Over
                      \/ \E h \in Threads : beat[h] \in {"send", "late"}

(* What the invariants rest on.  Only a connection that was given up, or   *)
(* that could not be opened, leaves the client inactive; HELLO is the      *)
(* first message of a connection, and the client never closes one that has *)
(* not said it, except to end; a session is served while it lives.         *)
ActiveWhileLinked ==
    /\ link \in {"open", "killed"} /\ main # "done" => active
    /\ link = "connecting" /\ main \in {"service", "check"} => active
    /\ link = "gone" => ~active
    /\ heartbeat_active => active

HelloComesFirst ==
    peer = "hello" =>
        /\ link = "open" \/ main \in {"ended", "done"}
        /\ main = "close" => then # "service"

ServedSessionLives ==
    /\ peer = "serve" => session_id = "live"
    /\ rejected => session_id = "dead"
    /\ session_id = "none" => handled = 0
    /\ session_id # "none" =>
          success_login \/ exit \/ main \in {"done", "exit1"}

(* Why websocket_close was called, and that it has stopped the heartbeat.  *)
ReasonToClose ==
    main = "close" =>
        /\ ~heartbeat_active
        /\ then = "service" => link \in {"open", "killed"}
        /\ then = "closed" => link = "gone" /\ exit
        /\ then = "exit1" => link = "connecting"
        /\ then = "ended" => sigterm

(* The inductive invariant of the proofs.                                  *)
IInv ==
    /\ TypeOK /\ HeartbeatTracked /\ HeartbeatStops /\ FaultsExplained
    /\ SeqIsLastHandled /\ ContentOfOneConnection
    /\ ActiveWhileLinked /\ HelloComesFirst /\ ServedSessionLives
    /\ ReasonToClose

-----------------------------------------------------------------------------
(* What the comment says, and the code does not do.                        *)

(* gateway.c:33: "if there's a session_id, we can try reconnecting": the   *)
(* session a RESUME names is not one the server has already rejected.      *)
ResumesOwnSession == peer = "resume" => ~rejected
====
