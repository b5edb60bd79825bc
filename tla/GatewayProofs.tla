---- MODULE GatewayProofs ----
(***************************************************************************)
(* The safety of the connection to the gateway, for any number of          *)
(* heartbeat threads, any heartbeat interval and any number of events.     *)
(***************************************************************************)
EXTENDS Gateway, TLAPS

USE ThreadAssumption, BoundAssumption DEF ThreadAssumption, BoundAssumption
USE DEF flags, threadVars, sessionVars, loopVars, linkVars, Running, BeatPc
USE DEF Close, Closed, MayReconnect, Connect, FreeLink, Receiving,
        StartsThread, Callback, ResetSeq, Due, NewContent

(* Everything that happens before the end, as one disjunction.             *)
LEMMA NextCases ==
    ASSUME Next, ~Over
    PROVE  \/ Established \/ ConnectionError \/ ServerCloses \/ Killed
           \/ Fragment \/ Hello \/ Ready \/ Dispatch \/ InvalidSession
           \/ OtherOpcode
           \/ Expire \/ Sigterm \/ ServiceReturns \/ Exit \/ NextRound
           \/ DestroyClient \/ CloseReturns
           \/ \E t \in Threads : Round(t) \/ Send(t) \/ EndLoop(t)
BY DEF Next, Receive, Heartbeat

(* The invariant holds initially.                                          *)
LEMMA InitInv == Init => IInv
<1> SUFFICES ASSUME Init PROVE IInv
  OBVIOUS
<1> USE DEF Init
<1>1. TypeOK
  <2>1. 0 \in 0..(Interval - 1) /\ 0 \in 0..MaxSeq
    OBVIOUS
  <2> QED
    BY <2>1 DEF TypeOK
<1>2. HeartbeatTracked /\ HeartbeatStops /\ FaultsExplained
  BY DEF HeartbeatTracked, HeartbeatStops, FaultsExplained
<1>3. SeqIsLastHandled /\ ContentOfOneConnection
  BY DEF SeqIsLastHandled, ContentOfOneConnection
<1>4. /\ ActiveWhileLinked /\ HelloComesFirst /\ ServedSessionLives
      /\ ReasonToClose
  BY DEF ActiveWhileLinked, HelloComesFirst, ServedSessionLives, ReasonToClose
<1> QED
  BY <1>1, <1>2, <1>3, <1>4 DEF IInv

-----------------------------------------------------------------------------
(* Each part of the invariant is kept by each step.                        *)

(* The types, of the variables that go together.                           *)
FlagsOK ==
    /\ active \in BOOLEAN /\ connected \in BOOLEAN
    /\ success_login \in BOOLEAN /\ exit \in BOOLEAN /\ sigterm \in BOOLEAN

ThreadsOK ==
    /\ heartbeat_active \in BOOLEAN
    /\ heartbeat_thread \in Threads \cup {NoThread}
    /\ beat \in [Threads -> BeatPc]
    /\ rounds \in [Threads -> 0..(Interval - 1)]

SessionOK ==
    /\ session_id \in {"none", "live", "dead"} /\ rejected \in BOOLEAN
    /\ seq \in {-1} \cup 1..MaxSeq /\ handled \in 0..MaxSeq

LoopOK ==
    /\ main \in {"service", "check", "close", "ended", "done", "exit1"}
    /\ then \in {"service", "closed", "ended", "exit1"}
    /\ joinee \in Threads \cup {NoThread}

LinkOK ==
    /\ link \in {"connecting", "open", "killed", "gone"}
    /\ peer \in {"silent", "hello", "identify", "resume", "serve"}
    /\ content \subseteq {"this", "previous"} /\ lost \in BOOLEAN
    /\ fault \in {"none", "exit", "heartbeat"}

(* The flags of the client.                                                *)
LEMMA FlagsStep ==
    ASSUME FlagsOK, Next, ~Over
    PROVE  FlagsOK'
<1> USE DEF FlagsOK
<1>1. CASE Established \/ ConnectionError \/ ServerCloses \/ Killed
  BY <1>1 DEF Established, ConnectionError, ServerCloses, Killed
<1>2. CASE Fragment \/ Hello \/ Ready \/ Dispatch
     \/ InvalidSession \/ OtherOpcode
  BY <1>2 DEF Fragment, Hello, Ready, Dispatch,
     InvalidSession, OtherOpcode
<1>3. CASE Expire \/ Sigterm \/ ServiceReturns \/ Exit
     \/ NextRound \/ DestroyClient \/ CloseReturns
  BY <1>3 DEF Expire, Sigterm, ServiceReturns, Exit,
     NextRound, DestroyClient, CloseReturns
<1>4. ASSUME NEW t \in Threads, Round(t)
      PROVE  FlagsOK'
  BY <1>4 DEF Round
<1>5. ASSUME NEW t \in Threads, Send(t)
      PROVE  FlagsOK'
  BY <1>5 DEF Send
<1>6. ASSUME NEW t \in Threads, EndLoop(t)
      PROVE  FlagsOK'
  BY <1>6 DEF EndLoop
<1> QED
  BY <1>1, <1>2, <1>3, <1>4, <1>5, <1>6, NextCases

(* The heartbeat threads.                                                  *)
LEMMA ThreadsStep ==
    ASSUME ThreadsOK, Next, ~Over
    PROVE  ThreadsOK'
<1> USE DEF ThreadsOK
<1>1. CASE Established \/ ConnectionError \/ ServerCloses \/ Killed
  BY <1>1 DEF Established, ConnectionError, ServerCloses, Killed
<1>2. CASE Fragment \/ Ready \/ Dispatch \/ InvalidSession \/ OtherOpcode
  BY <1>2 DEF Fragment, Ready, Dispatch, InvalidSession, OtherOpcode
<1>3. CASE Hello
  <2>1. CASE StartsThread
    <3>1. PICK h \in Threads :
             /\ heartbeat_active' = TRUE /\ heartbeat_thread' = h
             /\ beat' = [beat EXCEPT ![h] = "sleep"]
             /\ rounds' = [rounds EXCEPT ![h] = 0]
      BY <1>3, <2>1 DEF Hello
    <3>2. 0 \in 0..(Interval - 1)
      OBVIOUS
    <3> QED
      BY <3>1, <3>2
  <2>2. CASE ~StartsThread
    BY <1>3, <2>2 DEF Hello
  <2> QED
    BY <2>1, <2>2
<1>4. CASE Expire \/ Sigterm \/ ServiceReturns \/ Exit
     \/ NextRound \/ DestroyClient
  BY <1>4 DEF Expire, Sigterm, ServiceReturns, Exit,
     NextRound, DestroyClient
<1>5. CASE CloseReturns
  BY <1>5 DEF CloseReturns
<1>6. ASSUME NEW t \in Threads, Round(t)
      PROVE  ThreadsOK'
  BY <1>6 DEF Round
<1>7. ASSUME NEW t \in Threads, Send(t)
      PROVE  ThreadsOK'
  BY <1>7 DEF Send
<1>8. ASSUME NEW t \in Threads, EndLoop(t)
      PROVE  ThreadsOK'
  BY <1>8 DEF EndLoop
<1> QED
  BY <1>1, <1>2, <1>3, <1>4, <1>5, <1>6, <1>7, <1>8, NextCases

(* The session.                                                            *)
LEMMA SessionStep ==
    ASSUME SessionOK, Next, ~Over
    PROVE  SessionOK'
<1> USE DEF SessionOK
<1>1. CASE Established \/ ConnectionError \/ ServerCloses \/ Killed
  BY <1>1 DEF Established, ConnectionError, ServerCloses, Killed
<1>2. CASE Fragment \/ Hello \/ Ready \/ InvalidSession \/ OtherOpcode
  <2>1. 1 \in 1..MaxSeq /\ 1 \in 0..MaxSeq
    OBVIOUS
  <2> QED
    BY <1>2, <2>1 DEF Fragment, Hello, Ready, InvalidSession, OtherOpcode
<1>3. CASE Dispatch
  <2>1. /\ handled < MaxSeq /\ handled' = handled + 1 /\ seq' = handled + 1
        /\ session_id' = session_id /\ rejected' = rejected
    BY <1>3 DEF Dispatch
  <2>2. handled + 1 \in 1..MaxSeq
    BY <2>1
  <2> QED
    BY <2>1, <2>2
<1>4. CASE Expire \/ Sigterm \/ ServiceReturns \/ Exit
     \/ NextRound \/ DestroyClient \/ CloseReturns
  BY <1>4 DEF Expire, Sigterm, ServiceReturns, Exit,
     NextRound, DestroyClient, CloseReturns
<1>5. ASSUME NEW t \in Threads, Round(t)
      PROVE  SessionOK'
  BY <1>5 DEF Round
<1>6. ASSUME NEW t \in Threads, Send(t)
      PROVE  SessionOK'
  BY <1>6 DEF Send
<1>7. ASSUME NEW t \in Threads, EndLoop(t)
      PROVE  SessionOK'
  BY <1>7 DEF EndLoop
<1> QED
  BY <1>1, <1>2, <1>3, <1>4, <1>5, <1>6, <1>7, NextCases

(* The event loop.                                                         *)
LEMMA LoopStep ==
    ASSUME LoopOK, ThreadsOK, Next, ~Over
    PROVE  LoopOK'
<1> USE DEF LoopOK, ThreadsOK
<1>1. CASE Established \/ ConnectionError \/ ServerCloses \/ Killed
  BY <1>1 DEF Established, ConnectionError, ServerCloses, Killed
<1>2. CASE Fragment \/ Hello \/ Ready \/ Dispatch
     \/ InvalidSession \/ OtherOpcode
  BY <1>2 DEF Fragment, Hello, Ready, Dispatch,
     InvalidSession, OtherOpcode
<1>3. CASE Expire \/ Sigterm \/ ServiceReturns \/ Exit
     \/ NextRound \/ DestroyClient \/ CloseReturns
  BY <1>3 DEF Expire, Sigterm, ServiceReturns, Exit,
     NextRound, DestroyClient, CloseReturns
<1>4. ASSUME NEW t \in Threads, Round(t)
      PROVE  LoopOK'
  BY <1>4 DEF Round
<1>5. ASSUME NEW t \in Threads, Send(t)
      PROVE  LoopOK'
  BY <1>5 DEF Send
<1>6. ASSUME NEW t \in Threads, EndLoop(t)
      PROVE  LoopOK'
  BY <1>6 DEF EndLoop
<1> QED
  BY <1>1, <1>2, <1>3, <1>4, <1>5, <1>6, NextCases

(* The connection.                                                         *)
LEMMA LinkStep ==
    ASSUME LinkOK, Next, ~Over
    PROVE  LinkOK'
<1> USE DEF LinkOK
<1>1. CASE Established \/ ConnectionError \/ ServerCloses \/ Killed
  BY <1>1 DEF Established, ConnectionError, ServerCloses, Killed
<1>2. CASE Fragment \/ Hello \/ Ready \/ Dispatch
     \/ InvalidSession \/ OtherOpcode
  BY <1>2 DEF Fragment, Hello, Ready, Dispatch,
     InvalidSession, OtherOpcode
<1>3. CASE Expire \/ Sigterm \/ ServiceReturns \/ Exit
     \/ NextRound \/ DestroyClient \/ CloseReturns
  BY <1>3 DEF Expire, Sigterm, ServiceReturns, Exit,
     NextRound, DestroyClient, CloseReturns
<1>4. ASSUME NEW t \in Threads, Round(t)
      PROVE  LinkOK'
  BY <1>4 DEF Round
<1>5. ASSUME NEW t \in Threads, Send(t)
      PROVE  LinkOK'
  BY <1>5 DEF Send
<1>6. ASSUME NEW t \in Threads, EndLoop(t)
      PROVE  LinkOK'
  BY <1>6 DEF EndLoop
<1> QED
  BY <1>1, <1>2, <1>3, <1>4, <1>5, <1>6, NextCases

LEMMA TypeOKStep ==
    ASSUME IInv, Next, ~Over
    PROVE  TypeOK'
<1>1. FlagsOK /\ ThreadsOK /\ SessionOK /\ LoopOK /\ LinkOK
  BY DEF IInv, TypeOK, FlagsOK, ThreadsOK, SessionOK, LoopOK, LinkOK
<1>2. FlagsOK' /\ ThreadsOK' /\ SessionOK' /\ LoopOK' /\ LinkOK'
  BY <1>1, FlagsStep, ThreadsStep, SessionStep, LoopStep, LinkStep
<1> QED
  BY <1>2 DEF TypeOK, FlagsOK, ThreadsOK, SessionOK, LoopOK, LinkOK

(* The heartbeat thread is the one the flag and the handle name.           *)
LEMMA HeartbeatTrackedStep ==
    ASSUME IInv, Next, ~Over
    PROVE  HeartbeatTracked'
<1> USE DEF IInv, Over
<1>1. CASE Established \/ ConnectionError \/ ServerCloses \/ Killed
  BY <1>1 DEF HeartbeatTracked, Established, ConnectionError, ServerCloses,
     Killed
<1>2. CASE Fragment \/ Ready \/ Dispatch \/ InvalidSession \/ OtherOpcode
  BY <1>2 DEF HeartbeatTracked, Fragment, Ready, Dispatch, InvalidSession,
     OtherOpcode
<1>3. CASE Hello
  BY <1>3 DEF TypeOK, HeartbeatTracked, Hello
<1>4. CASE Expire \/ Sigterm \/ ServiceReturns \/ Exit \/ NextRound
     \/ CloseReturns
  BY <1>4 DEF HeartbeatTracked, Expire, Sigterm, ServiceReturns, Exit,
     NextRound, CloseReturns
<1>5. CASE DestroyClient
  BY <1>5 DEF HeartbeatTracked, HeartbeatStops, DestroyClient
<1>6. ASSUME NEW t \in Threads, Round(t)
      PROVE  HeartbeatTracked'
  BY <1>6 DEF TypeOK, HeartbeatTracked, Round
<1>7. ASSUME NEW t \in Threads, Send(t)
      PROVE  HeartbeatTracked'
  BY <1>7 DEF HeartbeatTracked, Send
<1>8. ASSUME NEW t \in Threads, EndLoop(t)
      PROVE  HeartbeatTracked'
  BY <1>8 DEF HeartbeatTracked, ActiveWhileLinked, EndLoop
<1> QED
  BY <1>1, <1>2, <1>3, <1>4, <1>5, <1>6, <1>7, <1>8, NextCases

(* No heartbeat on a connection that is being closed, or after the loop.   *)
LEMMA HeartbeatStopsStep ==
    ASSUME IInv, Next, ~Over
    PROVE  HeartbeatStops'
<1> USE DEF IInv, Over
<1>1. CASE Established \/ ConnectionError \/ ServerCloses \/ Killed
  BY <1>1 DEF HeartbeatStops, Established, ConnectionError, ServerCloses,
     Killed
<1>2. CASE Fragment \/ Ready \/ Dispatch \/ InvalidSession \/ OtherOpcode
  BY <1>2 DEF HeartbeatStops, Fragment, Ready, Dispatch, InvalidSession,
     OtherOpcode
<1>3. CASE Hello
  BY <1>3 DEF HeartbeatStops, HelloComesFirst, Hello
<1>4. CASE Expire \/ Sigterm \/ ServiceReturns \/ Exit \/ DestroyClient
  BY <1>4 DEF HeartbeatStops, Expire, Sigterm, ServiceReturns, Exit,
     DestroyClient
<1>5. CASE NextRound
  BY <1>5 DEF HeartbeatTracked, HeartbeatStops, ActiveWhileLinked, NextRound
<1>6. CASE CloseReturns
  <2> USE <1>6
  <2>1. \A h \in Threads : beat'[h] = "none"
    <3> SUFFICES ASSUME NEW h \in Threads PROVE beat'[h] = "none"
      OBVIOUS
    <3>1. CASE h = joinee
      BY <3>1 DEF CloseReturns
    <3>2. CASE h # joinee
      BY <3>2 DEF CloseReturns, HeartbeatTracked, ReasonToClose
    <3> QED
      BY <3>1, <3>2
  <2> QED
    BY <2>1 DEF HeartbeatStops
<1>7. ASSUME NEW t \in Threads, Round(t) \/ Send(t) \/ EndLoop(t)
      PROVE  HeartbeatStops'
  BY <1>7 DEF HeartbeatStops, Round, Send, EndLoop
<1> QED
  BY <1>1, <1>2, <1>3, <1>4, <1>5, <1>6, <1>7, NextCases

(* What explains the use of a freed connection.                            *)
LEMMA FaultsExplainedStep ==
    ASSUME IInv, Next, ~Over
    PROVE  FaultsExplained'
<1> USE DEF IInv, Over
<1>1. CASE Established \/ ConnectionError \/ ServerCloses
  BY <1>1 DEF FaultsExplained, Established, ConnectionError, ServerCloses
<1>2. CASE Killed
  BY <1>2 DEF HeartbeatStops, FaultsExplained, Killed
<1>3. CASE Fragment \/ Ready \/ Dispatch \/ InvalidSession \/ OtherOpcode
  BY <1>3 DEF FaultsExplained, Fragment, Ready, Dispatch, InvalidSession,
     OtherOpcode
<1>4. CASE Hello
  BY <1>4 DEF TypeOK, FaultsExplained, Hello
<1>5. CASE Expire \/ Sigterm \/ ServiceReturns \/ Exit \/ NextRound
     \/ DestroyClient
  BY <1>5 DEF FaultsExplained, Expire, Sigterm, ServiceReturns, Exit,
     NextRound, DestroyClient
<1>6. CASE CloseReturns
  BY <1>6 DEF FaultsExplained, ActiveWhileLinked, ReasonToClose, CloseReturns
<1>7. ASSUME NEW t \in Threads, Round(t)
      PROVE  FaultsExplained'
  BY <1>7 DEF TypeOK, FaultsExplained, Round
<1>8. ASSUME NEW t \in Threads, Send(t)
      PROVE  FaultsExplained'
  BY <1>8 DEF FaultsExplained, Send
<1>9. ASSUME NEW t \in Threads, EndLoop(t)
      PROVE  FaultsExplained'
  BY <1>9 DEF FaultsExplained, EndLoop
<1> QED
  BY <1>1, <1>2, <1>3, <1>4, <1>5, <1>6, <1>7, <1>8, <1>9, NextCases

(* The number of the last event.                                           *)
LEMMA SeqIsLastHandledStep ==
    ASSUME IInv, Next, ~Over
    PROVE  SeqIsLastHandled'
<1> USE DEF IInv, Over
<1>1. CASE Established \/ ConnectionError \/ ServerCloses \/ Killed
  BY <1>1 DEF SeqIsLastHandled, Established, ConnectionError, ServerCloses,
     Killed
<1>2. CASE Fragment \/ Hello \/ OtherOpcode
  BY <1>2 DEF SeqIsLastHandled, Fragment, Hello, OtherOpcode
<1>3. CASE Ready
  BY <1>3 DEF SeqIsLastHandled, Ready
<1>4. CASE Dispatch
  BY <1>4 DEF SeqIsLastHandled, ServedSessionLives, Dispatch
<1>5. CASE InvalidSession
  BY <1>5 DEF SeqIsLastHandled, InvalidSession
<1>6. CASE Expire \/ Sigterm \/ ServiceReturns \/ Exit \/ NextRound
     \/ DestroyClient \/ CloseReturns
  BY <1>6 DEF SeqIsLastHandled, Expire, Sigterm, ServiceReturns, Exit,
     NextRound, DestroyClient, CloseReturns
<1>7. ASSUME NEW t \in Threads, Round(t) \/ Send(t) \/ EndLoop(t)
      PROVE  SeqIsLastHandled'
  BY <1>7 DEF SeqIsLastHandled, Round, Send, EndLoop
<1> QED
  BY <1>1, <1>2, <1>3, <1>4, <1>5, <1>6, <1>7, NextCases

(* The fragments of a message.                                             *)
LEMMA ContentOfOneConnectionStep ==
    ASSUME IInv, Next, ~Over
    PROVE  ContentOfOneConnection'
<1> USE DEF IInv, Over
<1>1. CASE Established \/ ConnectionError \/ ServerCloses \/ Killed
  BY <1>1 DEF ContentOfOneConnection, Established, ConnectionError,
     ServerCloses, Killed
<1>2. CASE Fragment \/ Hello \/ Ready \/ Dispatch \/ InvalidSession
     \/ OtherOpcode
  BY <1>2 DEF ContentOfOneConnection, Fragment, Hello, Ready, Dispatch,
     InvalidSession, OtherOpcode
<1>3. CASE Expire \/ Sigterm \/ ServiceReturns \/ Exit \/ NextRound
     \/ DestroyClient \/ CloseReturns
  BY <1>3 DEF ContentOfOneConnection, Expire, Sigterm, ServiceReturns, Exit,
     NextRound, DestroyClient, CloseReturns
<1>4. ASSUME NEW t \in Threads, Round(t) \/ Send(t) \/ EndLoop(t)
      PROVE  ContentOfOneConnection'
  BY <1>4 DEF ContentOfOneConnection, Round, Send, EndLoop
<1> QED
  BY <1>1, <1>2, <1>3, <1>4, NextCases

(* The client is active while it has a connection.                         *)
LEMMA ActiveWhileLinkedStep ==
    ASSUME IInv, Next, ~Over
    PROVE  ActiveWhileLinked'
<1> USE DEF IInv, Over
<1>1. CASE Established \/ ConnectionError \/ ServerCloses \/ Killed
  BY <1>1 DEF ActiveWhileLinked, Established, ConnectionError, ServerCloses,
     Killed
<1>2. CASE Fragment \/ Hello \/ Ready \/ Dispatch \/ InvalidSession
     \/ OtherOpcode
  BY <1>2 DEF ActiveWhileLinked, Fragment, Hello, Ready, Dispatch,
     InvalidSession, OtherOpcode
<1>3. CASE Expire \/ Sigterm \/ ServiceReturns \/ Exit \/ NextRound
     \/ DestroyClient
  BY <1>3 DEF ActiveWhileLinked, Expire, Sigterm, ServiceReturns, Exit,
     NextRound, DestroyClient
<1>4. CASE CloseReturns
  BY <1>4 DEF TypeOK, ActiveWhileLinked, ReasonToClose, CloseReturns
<1>5. ASSUME NEW t \in Threads, Round(t) \/ Send(t) \/ EndLoop(t)
      PROVE  ActiveWhileLinked'
  BY <1>5 DEF ActiveWhileLinked, Round, Send, EndLoop
<1> QED
  BY <1>1, <1>2, <1>3, <1>4, <1>5, NextCases

(* The server says HELLO first.                                            *)
LEMMA HelloComesFirstStep ==
    ASSUME IInv, Next, ~Over
    PROVE  HelloComesFirst'
<1> USE DEF IInv, Over
<1>1. CASE Established \/ ConnectionError \/ ServerCloses \/ Killed
  BY <1>1 DEF HelloComesFirst, Established, ConnectionError, ServerCloses,
     Killed
<1>2. CASE Fragment \/ Hello \/ Ready \/ Dispatch \/ InvalidSession
     \/ OtherOpcode
  BY <1>2 DEF HelloComesFirst, Fragment, Hello, Ready, Dispatch,
     InvalidSession, OtherOpcode
<1>3. CASE Expire \/ Sigterm \/ ServiceReturns \/ Exit \/ NextRound
     \/ DestroyClient
  BY <1>3 DEF HelloComesFirst, Expire, Sigterm, ServiceReturns, Exit,
     NextRound, DestroyClient
<1>4. CASE CloseReturns
  BY <1>4 DEF TypeOK, HelloComesFirst, ReasonToClose, CloseReturns
<1>5. ASSUME NEW t \in Threads, Round(t) \/ Send(t) \/ EndLoop(t)
      PROVE  HelloComesFirst'
  BY <1>5 DEF HelloComesFirst, Round, Send, EndLoop
<1> QED
  BY <1>1, <1>2, <1>3, <1>4, <1>5, NextCases

(* The session.                                                            *)
LEMMA ServedSessionLivesStep ==
    ASSUME IInv, Next, ~Over
    PROVE  ServedSessionLives'
<1> USE DEF IInv, Over
<1>1. CASE Established \/ ConnectionError \/ ServerCloses \/ Killed
  BY <1>1 DEF ServedSessionLives, Established, ConnectionError, ServerCloses,
     Killed
<1>2. CASE Fragment \/ Hello \/ OtherOpcode
  BY <1>2 DEF ServedSessionLives, Fragment, Hello, OtherOpcode
<1>3. CASE Ready
  BY <1>3 DEF ServedSessionLives, Ready
<1>4. CASE Dispatch
  BY <1>4 DEF ServedSessionLives, Dispatch
<1>5. CASE InvalidSession
  BY <1>5 DEF ServedSessionLives, InvalidSession
<1>6. CASE Expire \/ Sigterm \/ ServiceReturns \/ Exit \/ NextRound
     \/ DestroyClient
  BY <1>6 DEF ServedSessionLives, Expire, Sigterm, ServiceReturns, Exit,
     NextRound, DestroyClient
<1>7. CASE CloseReturns
  BY <1>7 DEF ServedSessionLives, ReasonToClose, CloseReturns
<1>8. ASSUME NEW t \in Threads, Round(t) \/ Send(t) \/ EndLoop(t)
      PROVE  ServedSessionLives'
  BY <1>8 DEF ServedSessionLives, Round, Send, EndLoop
<1> QED
  BY <1>1, <1>2, <1>3, <1>4, <1>5, <1>6, <1>7, <1>8, NextCases

(* The reasons to close a connection.                                      *)
LEMMA ReasonToCloseStep ==
    ASSUME IInv, Next, ~Over
    PROVE  ReasonToClose'
<1> USE DEF IInv, Over
<1>1. CASE Established \/ ConnectionError \/ ServerCloses \/ Killed
  BY <1>1 DEF ReasonToClose, Established, ConnectionError, ServerCloses,
     Killed
<1>2. CASE Fragment \/ Hello \/ Ready \/ Dispatch \/ InvalidSession
     \/ OtherOpcode
  BY <1>2 DEF ReasonToClose, Fragment, Hello, Ready, Dispatch,
     InvalidSession, OtherOpcode
<1>3. CASE Expire \/ Sigterm \/ ServiceReturns \/ Exit \/ NextRound
     \/ DestroyClient \/ CloseReturns
  BY <1>3 DEF ReasonToClose, Expire, Sigterm, ServiceReturns, Exit,
     NextRound, DestroyClient, CloseReturns
<1>4. ASSUME NEW t \in Threads, Round(t) \/ Send(t) \/ EndLoop(t)
      PROVE  ReasonToClose'
  BY <1>4 DEF ReasonToClose, Round, Send, EndLoop
<1> QED
  BY <1>1, <1>2, <1>3, <1>4, NextCases

-----------------------------------------------------------------------------
LEMMA NextInv == IInv /\ [Next]_vars => IInv'
<1> SUFFICES ASSUME IInv, [Next]_vars PROVE IInv'
  OBVIOUS
<1>1. CASE UNCHANGED vars
  <2> USE <1>1 DEF vars
  <2>1. TypeOK' /\ HeartbeatTracked' /\ HeartbeatStops' /\ FaultsExplained'
    BY DEF IInv, TypeOK, HeartbeatTracked, HeartbeatStops, FaultsExplained
  <2>2. SeqIsLastHandled' /\ ContentOfOneConnection'
    BY DEF IInv, SeqIsLastHandled, ContentOfOneConnection
  <2>3. /\ ActiveWhileLinked' /\ HelloComesFirst' /\ ServedSessionLives'
        /\ ReasonToClose'
    BY DEF IInv, ActiveWhileLinked, HelloComesFirst, ServedSessionLives,
           ReasonToClose
  <2> QED
    BY <2>1, <2>2, <2>3 DEF IInv
<1>2. CASE Next /\ ~Over
  BY <1>2, TypeOKStep, HeartbeatTrackedStep, HeartbeatStopsStep,
     FaultsExplainedStep, SeqIsLastHandledStep, ContentOfOneConnectionStep,
     ActiveWhileLinkedStep, HelloComesFirstStep, ServedSessionLivesStep,
     ReasonToCloseStep
  DEF IInv
<1> QED
  BY <1>1, <1>2 DEF Next

(* The inductive invariant.                                                *)
THEOREM InvariantHolds == Spec => []IInv
BY InitInv, NextInv, PTL DEF Spec

(* There is one heartbeat thread at most, and the client knows it          *)
(* (gateway.c:39, websocket.c:181).                                        *)
THEOREM OneHeartbeat == Spec => []HeartbeatTracked
BY InvariantHolds, PTL DEF IInv

(* No heartbeat is sent on a connection that the client closes, or after   *)
(* the event loop (websocket.c:183).                                       *)
THEOREM HeartbeatsStop == Spec => []HeartbeatStops
BY InvariantHolds, PTL DEF IInv

(* A freed connection is used in two cases only.                           *)
THEOREM MisuseExplained == Spec => []FaultsExplained
BY InvariantHolds, PTL DEF IInv

(* A RESUME carries the number of the last event (gateway.c:34).           *)
THEOREM SeqHolds == Spec => []SeqIsLastHandled
BY InvariantHolds, PTL DEF IInv

(* No message is put together from fragments of two connections: a         *)
(* reconnect drops what the last one left (websocket.c:60, 138).           *)
THEOREM ContentHolds == Spec => []ContentOfOneConnection
BY InvariantHolds, PTL DEF IInv

-----------------------------------------------------------------------------
(* The bot gives up a closed connection only before its first session      *)
(* (websocket.c:37).                                                       *)
THEOREM GivesUpOnlyBeforeLogin == Spec => GivesUpBeforeLogin
<1>1. ASSUME IInv, [Next]_vars, ~exit, exit', then' = "closed"
      PROVE  session_id = "none"
  <2>1. CASE UNCHANGED vars
    BY <1>1, <2>1 DEF vars
  <2>2. CASE Next /\ ~Over
    <3>1. ServerCloses \/ Killed
      BY <1>1, <2>2, NextCases
      DEF Established, ConnectionError, Fragment, Hello, Ready, Dispatch,
          InvalidSession, OtherOpcode, Expire, Sigterm, ServiceReturns, Exit,
          NextRound, DestroyClient, CloseReturns, Round, Send, EndLoop
    <3> QED
      BY <1>1, <3>1 DEF ServerCloses, Killed, IInv, ServedSessionLives
  <2> QED
    BY <1>1, <2>1, <2>2 DEF Next
<1> QED
  BY <1>1, InvariantHolds, PTL DEF Spec, GivesUpBeforeLogin
====
