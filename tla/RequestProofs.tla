---- MODULE RequestProofs ----
(***************************************************************************)
(* The safety invariants of the requests, for any number of workers,       *)
(* requests, attempts and rate limits.                                     *)
(***************************************************************************)
EXTENDS Request, TLAPS

USE RequestAssumption, NumberAssumption
DEF RequestAssumption, NumberAssumption
USE DEF Memory, workerVars, nodeVars

(* Types and the rest of the invariant hold initially.                     *)
LEMMA InitInv == Init => IInv
<1> SUFFICES ASSUME Init PROVE IInv
  OBVIOUS
<1> USE DEF Init
<1>1. TypeOK
  <2>1. stopped \in BOOLEAN /\ sent \in [Workers -> BOOLEAN]
    BY Zenon
  <2> QED
    BY <2>1 DEF TypeOK
<1>2. WorkerStates
  BY DEF WorkerStates, WorkerState
<1>3. AloneUntilTried
  BY DEF AloneUntilTried
<1>4. RequestStates
  BY DEF RequestStates
<1>5. OneOwner
  BY DEF OneOwner, Owns
<1>6. CalledAtTheEnd /\ FaultsExplained /\ FilesGoFirst
  BY DEF CalledAtTheEnd, FaultsExplained, FilesGoFirst
<1> QED
  BY <1>1, <1>2, <1>3, <1>4, <1>5, <1>6 DEF IInv

-----------------------------------------------------------------------------
(* What explains a wrong use of memory, one kind after the other.          *)

LEMMA NoFault == ASSUME fault' = {} PROVE FaultsExplained'
BY DEF FaultsExplained

LEMMA QueueFault ==
    ASSUME NEW r \in Requests, Fault("queue", r), stopped'
    PROVE  FaultsExplained'
BY DEF FaultsExplained, Fault

LEMMA NodeFault ==
    ASSUME NEW r \in Requests, Fault("node", r), Tried(r)'
    PROVE  FaultsExplained'
BY DEF FaultsExplained, Fault, Tried

LEMMA FilesFault ==
    ASSUME NEW r \in Requests, Fault("files", r), r \in WithFiles, Tried(r)'
    PROVE  FaultsExplained'
BY DEF FaultsExplained, Fault, Tried

LEMMA AttachmentsFault ==
    ASSUME NEW r \in Requests, Fault("attachments", r), r \in WithFiles
    PROVE  FaultsExplained'
BY DEF FaultsExplained, Fault

LEMMA LimitFault ==
    ASSUME NEW r \in Requests, Fault("limit", r), r \in lost'
    PROVE  FaultsExplained'
BY DEF FaultsExplained, Fault

LEMMA ResponseFault ==
    ASSUME NEW r \in Requests, Fault("response", r), iteration'[r] = Retries
    PROVE  FaultsExplained'
BY DEF FaultsExplained, Fault

-----------------------------------------------------------------------------
(* Each step keeps the invariant.                                          *)


(* A new request: nobody had it, and its node was not there.               *)
LEMMA SubmitStep ==
    ASSUME IInv, fault = {}, NEW s \in Requests, Submit(s)
    PROVE  IInv'
<1> USE DEF Submit, Add, Fault
<1>1. TypeOK'
  BY DEF IInv, TypeOK
<1>2. WorkerStates'
  BY DEF IInv, WorkerStates, WorkerState, Tried
<1>3. AloneUntilTried'
  BY DEF IInv, WorkerStates, AloneUntilTried, WorkerState, Tried
<1>4. RequestStates'
  BY DEF IInv, TypeOK, RequestStates, Tried
<1>5. OneOwner'
  BY DEF IInv, TypeOK, RequestStates, OneOwner, Owns
<1>6. CalledAtTheEnd'
  BY DEF IInv, WorkerStates, CalledAtTheEnd, WorkerState
<1>7. FaultsExplained'
  <2>1. CASE stopped
    <3>1. stopped' /\ (UNCHANGED fault \/ Fault("queue", s))
      BY <2>1, Zenon
    <3> QED
      BY <3>1, NoFault, QueueFault
  <2>2. CASE ~stopped
    BY <2>2, NoFault
  <2> QED
    BY <2>1, <2>2
<1>8. FilesGoFirst'
  BY DEF IInv, FilesGoFirst
<1> QED
  BY <1>1, <1>2, <1>3, <1>4, <1>5, <1>6, <1>7, <1>8 DEF IInv

(* The queue is lost: what was pending had no owner, and has none.         *)
LEMMA StopStep ==
    ASSUME IInv, fault = {}, Stop
    PROVE  IInv'
<1> USE DEF Stop
<1>1. TypeOK'
  BY DEF IInv, TypeOK
<1>2. WorkerStates'
  BY DEF IInv, WorkerStates, WorkerState, Tried
<1>3. AloneUntilTried'
  BY DEF IInv, AloneUntilTried, Tried
<1>4. RequestStates'
  BY DEF IInv, RequestStates, OneOwner, Tried
<1>5. OneOwner'
  BY DEF IInv, OneOwner, Owns
<1>6. CalledAtTheEnd'
  BY DEF IInv, CalledAtTheEnd
<1>7. FaultsExplained'
  BY DEF IInv, FaultsExplained
<1>8. FilesGoFirst'
  BY DEF IInv, FilesGoFirst
<1> QED
  BY <1>1, <1>2, <1>3, <1>4, <1>5, <1>6, <1>7, <1>8 DEF IInv

(* A pending request has no owner; the worker becomes its owner.           *)
LEMMA StartStep ==
    ASSUME IInv, fault = {}, NEW u \in Workers, NEW s \in Requests, Start(u, s)
    PROVE  IInv'
<1> USE DEF Start
<1>1. TypeOK'
  BY DEF IInv, TypeOK
<1>2. WorkerStates'
  BY DEF IInv, TypeOK, WorkerStates, OneOwner, WorkerState, Tried
<1>3. AloneUntilTried'
  BY DEF IInv, AloneUntilTried, Tried
<1>4. RequestStates'
  BY DEF IInv, RequestStates, Tried
<1>5. OneOwner'
  BY DEF IInv, TypeOK, OneOwner, Owns
<1>6. CalledAtTheEnd'
  BY DEF IInv, CalledAtTheEnd
<1>7. FaultsExplained'
  BY DEF IInv, FaultsExplained
<1>8. FilesGoFirst'
  BY DEF IInv, FilesGoFirst
<1> QED
  BY <1>1, <1>2, <1>3, <1>4, <1>5, <1>6, <1>7, <1>8 DEF IInv

(* The owner reads the node, and the names of the files: those are freed   *)
(* only if the request was tried before.                                   *)
LEMMA SetupStep ==
    ASSUME IInv, fault = {}, NEW u \in Workers, Setup(u)
    PROVE  IInv'
<1> USE DEF Setup, Touch, Touched, Fault, GivesUp
<1>1. TypeOK'
  BY DEF IInv, TypeOK, WorkerStates, WorkerState
<1>2. WorkerStates'
  <2> SUFFICES ASSUME NEW w \in Workers PROVE WorkerState(w)'
    BY DEF WorkerStates
  <2>1. WorkerState(w) /\ job[u] \in Requests
    BY DEF IInv, TypeOK, WorkerStates, WorkerState
  <2>2. CASE w = u
    <3>1. sent'[u] = (iteration[job[u]] >= Retries)
      BY DEF IInv, TypeOK
    <3>2. iteration[job[u]] \in 0..Retries
      BY <2>1 DEF IInv, TypeOK
    <3>3. CASE iteration[job[u]] >= Retries
      <4>1. at'[u] = "cleanup" /\ sent'[u]
        BY <3>1, <3>3 DEF IInv, TypeOK
      <4> QED
        BY <2>1, <2>2, <3>2, <3>3, <4>1 DEF WorkerState
    <3>4. CASE iteration[job[u]] < Retries
      <4>1. at'[u] = "perform" /\ ~sent'[u]
        <5>1. ~(iteration[job[u]] >= Retries)
          BY <3>2, <3>4
        <5>2. ~sent'[u]
          BY <3>1, <5>1, Zenon
        <5> QED
          BY <5>1, <5>2 DEF IInv, TypeOK
      <4> QED
        BY <2>1, <2>2, <3>2, <3>4, <4>1 DEF WorkerState
    <3> QED
      BY <3>2, <3>3, <3>4
  <2>3. CASE w # u
    <3>1. at'[w] = at[w] /\ sent'[w] = sent[w]
      BY <2>3 DEF IInv, TypeOK
    <3> QED
      BY <2>1, <3>1 DEF WorkerState, Tried
  <2> QED
    BY <2>2, <2>3
<1>3. AloneUntilTried'
  BY DEF IInv, AloneUntilTried, Tried
<1>4. RequestStates'
  BY DEF IInv, RequestStates, Tried
<1>5. OneOwner'
  BY DEF IInv, OneOwner, Owns
<1>6. CalledAtTheEnd'
  BY DEF IInv, CalledAtTheEnd
<1>7. FaultsExplained'
  <2>1. job[u] \in Requests /\ Owns(u, job[u])
    BY DEF IInv, TypeOK, WorkerStates, WorkerState, Owns
  <2>2. node[job[u]] = "live" /\ job[u] \notin lost
    BY <2>1 DEF IInv, OneOwner
  <2>3. \A v \in Workers : at[v] \in {"respond", "free"} => job[v] # job[u]
    BY <2>1 DEF IInv, WorkerStates, WorkerState, OneOwner, Owns
  <2>4. CASE files[job[u]] = "freed"
    <3>1. job[u] \in WithFiles /\ Tried(job[u])
      BY <2>1, <2>2, <2>3, <2>4 DEF IInv, RequestStates
    <3>2. Fault("files", job[u]) /\ Tried(job[u])'
      BY <2>2, <2>4, <3>1 DEF Tried
    <3> QED
      BY <2>1, <3>1, <3>2, FilesFault
  <2>5. CASE files[job[u]] # "freed" /\ fault' = fault
    BY <2>5, NoFault
  <2>6. CASE job[u] \in WithFiles /\ Fault("attachments", job[u])
    BY <2>1, <2>6, AttachmentsFault
  <2> QED
    BY <2>2, <2>4, <2>5, <2>6
<1>8. FilesGoFirst'
  BY DEF IInv, FilesGoFirst
<1> QED
  BY <1>1, <1>2, <1>3, <1>4, <1>5, <1>6, <1>7, <1>8 DEF IInv

(* The owner keeps the request, and cleans up.                             *)
LEMMA AnsweredStep ==
    ASSUME IInv, fault = {}, NEW u \in Workers, Answered(u)
    PROVE  IInv'
<1> USE DEF Answered
<1>1. TypeOK'
  BY DEF IInv, TypeOK
<1>2. WorkerStates'
  BY DEF IInv, TypeOK, WorkerStates, WorkerState, Tried
<1>3. AloneUntilTried'
  BY DEF IInv, AloneUntilTried, Tried
<1>4. RequestStates'
  BY DEF IInv, RequestStates, Tried
<1>5. OneOwner'
  BY DEF IInv, OneOwner, Owns
<1>6. CalledAtTheEnd'
  BY DEF IInv, CalledAtTheEnd
<1>7. FaultsExplained'
  BY DEF IInv, FaultsExplained
<1>8. FilesGoFirst'
  BY DEF IInv, FilesGoFirst
<1> QED
  BY <1>1, <1>2, <1>3, <1>4, <1>5, <1>6, <1>7, <1>8 DEF IInv

(* The owner hands the request to the pool, and counts the attempt.        *)
LEMMA FailedStep ==
    ASSUME IInv, fault = {}, NEW u \in Workers, Failed(u)
    PROVE  IInv'
<1> USE DEF Failed, Add, Counted, Fault
<1>1. TypeOK'
  BY DEF IInv, TypeOK, WorkerStates, WorkerState
<1>2. WorkerStates'
  BY DEF IInv, TypeOK, WorkerStates, OneOwner, WorkerState, Owns, Tried
<1>3. AloneUntilTried'
  BY DEF IInv, TypeOK, AloneUntilTried, Tried
<1>4. RequestStates'
  BY DEF IInv, TypeOK, RequestStates, OneOwner, Owns, Tried
<1>5. OneOwner'
  BY DEF IInv, TypeOK, WorkerStates, OneOwner, WorkerState, Owns
<1>6. CalledAtTheEnd'
  BY DEF IInv, OneOwner, CalledAtTheEnd, Owns
<1>7. FaultsExplained'
  <2>0. PICK r \in Requests : r = job[u]
    BY DEF IInv, TypeOK, WorkerStates, WorkerState
  <2>1. CASE stopped
    <3>1. stopped' /\ (UNCHANGED fault \/ Fault("queue", r))
      BY <2>0, <2>1, Zenon
    <3> QED
      BY <2>0, <3>1, NoFault, QueueFault
  <2>2. CASE ~stopped
    BY <2>2, NoFault
  <2> QED
    BY <2>1, <2>2
<1>8. FilesGoFirst'
  BY DEF IInv, FilesGoFirst
<1> QED
  BY <1>1, <1>2, <1>3, <1>4, <1>5, <1>6, <1>7, <1>8 DEF IInv

(* The owner hands the request to the pool, and will not have it any more. *)
LEMMA LimitedStep ==
    ASSUME IInv, fault = {}, NEW u \in Workers, Limited(u)
    PROVE  IInv'
<1> USE DEF Limited, Add, Fault
<1>1. TypeOK'
  BY DEF IInv, TypeOK, WorkerStates, WorkerState
<1>2. WorkerStates'
  BY DEF IInv, TypeOK, WorkerStates, WorkerState, Tried
<1>3. AloneUntilTried'
  BY DEF IInv, TypeOK, AloneUntilTried, Tried
<1>4. RequestStates'
  BY DEF IInv, TypeOK, RequestStates, OneOwner, Owns, Tried
<1>5. OneOwner'
  BY DEF IInv, TypeOK, WorkerStates, OneOwner, WorkerState, Owns
<1>6. CalledAtTheEnd'
  BY DEF IInv, OneOwner, CalledAtTheEnd, Owns
<1>7. FaultsExplained'
  <2>0. PICK r \in Requests : r = job[u]
    BY DEF IInv, TypeOK, WorkerStates, WorkerState
  <2>1. CASE stopped
    <3>1. stopped' /\ (UNCHANGED fault \/ Fault("queue", r))
      BY <2>0, <2>1, Zenon
    <3> QED
      BY <2>0, <3>1, NoFault, QueueFault
  <2>2. CASE ~stopped
    BY <2>2, NoFault
  <2> QED
    BY <2>1, <2>2
<1>8. FilesGoFirst'
  BY DEF IInv, FilesGoFirst
<1> QED
  BY <1>1, <1>2, <1>3, <1>4, <1>5, <1>6, <1>7, <1>8 DEF IInv

(* The owner lets the request go; its file names are not freed yet.        *)
LEMMA DroppedStep ==
    ASSUME IInv, fault = {}, NEW u \in Workers, Dropped(u)
    PROVE  IInv'
<1> USE DEF Dropped, Fault
<1>1. TypeOK'
  BY DEF IInv, TypeOK, WorkerStates, WorkerState
<1>2. WorkerStates'
  BY DEF IInv, TypeOK, WorkerStates, RequestStates, OneOwner, WorkerState,
     Owns, Tried
<1>3. AloneUntilTried'
  BY DEF IInv, AloneUntilTried, Tried
<1>4. RequestStates'
  BY DEF IInv, RequestStates, OneOwner, Owns, Tried
<1>5. OneOwner'
  BY DEF IInv, TypeOK, WorkerStates, OneOwner, WorkerState, Owns
<1>6. CalledAtTheEnd'
  BY DEF IInv, OneOwner, CalledAtTheEnd, Owns
<1>7. FaultsExplained'
  <2>1. PICK r \in Requests : r = job[u]
    BY DEF IInv, TypeOK, WorkerStates, WorkerState
  <2>2. CASE UNCHANGED fault
    BY <2>2, NoFault
  <2>3. CASE Fault("limit", job[u])
    BY <2>1, <2>3, LimitFault
  <2> QED
    BY <2>2, <2>3
<1>8. FilesGoFirst'
  BY DEF IInv, FilesGoFirst
<1> QED
  BY <1>1, <1>2, <1>3, <1>4, <1>5, <1>6, <1>7, <1>8 DEF IInv

(* A worker that is not the owner any more uses a freed node, or freed     *)
(* file names, only if the request was tried again.                        *)
LEMMA CleanupStep ==
    ASSUME IInv, fault = {}, NEW u \in Workers, Cleanup(u)
    PROVE  IInv'
<1> USE DEF Cleanup, Touch, Fault, FreedFiles, GoesOn
<1>1. TypeOK'
  BY DEF IInv, TypeOK, WorkerStates, WorkerState
<1>2. WorkerStates'
  <2> SUFFICES ASSUME NEW w \in Workers PROVE WorkerState(w)'
    BY DEF WorkerStates
  <2> USE DEF WorkerState, WorkerStates
  <2>1. job[u] \in Requests
    BY DEF IInv, TypeOK
  <2>2. CASE w = u
    <3>1. sent[u] => node[job[u]] = "live"
      BY <2>1 DEF IInv, OneOwner, Owns
    <3>2. CASE sent[u]
      <4>1. at'[u] = "respond" /\ job'[u] = job[u] /\ sent'[u]
        BY <3>2 DEF IInv, TypeOK
      <4>2. files'[job[u]] # "live"
        BY <2>1 DEF IInv, TypeOK, RequestStates
      <4> QED
        BY <2>1, <2>2, <3>1, <3>2, <4>1, <4>2 DEF IInv
    <3>3. CASE ~sent[u]
      <4>1. at'[u] = "idle" /\ job'[u] = NoRequest
        BY <3>3 DEF IInv, TypeOK
      <4> QED
        BY <2>2, <4>1
    <3> QED
      BY <3>2, <3>3
  <2>3. CASE w # u
    <3>1. at'[w] = at[w] /\ job'[w] = job[w]
      BY <2>3 DEF IInv, TypeOK
    <3>2. CASE job[w] = job[u]
      <4>1. Tried(job[w])
        BY <2>1, <2>3, <3>2 DEF IInv, AloneUntilTried
      <4>2. Tried(job[w])'
        BY <3>1, <4>1 DEF Tried
      <4>3. files[job[w]] # "live" => files'[job[w]] # "live"
        BY <2>1, <3>2 DEF IInv, TypeOK
      <4> QED
        BY <2>1, <3>1, <4>2, <4>3 DEF IInv
    <3>3. CASE job[w] # job[u]
      <4>1. files'[job[w]] = files[job[w]]
        BY <2>1, <3>3 DEF IInv, TypeOK
      <4> QED
        BY <3>1, <4>1 DEF IInv, Tried
    <3> QED
      BY <3>2, <3>3
  <2> QED
    BY <2>2, <2>3
<1>3. AloneUntilTried'
  BY DEF IInv, AloneUntilTried, Tried
<1>4. RequestStates'
  BY DEF IInv, TypeOK, WorkerStates, RequestStates, WorkerState, Tried
<1>5. OneOwner'
  BY DEF IInv, OneOwner, Owns
<1>6. CalledAtTheEnd'
  BY DEF IInv, CalledAtTheEnd
<1>7. FaultsExplained'
  <2>1. PICK r \in Requests : r = job[u]
    BY DEF IInv, TypeOK, WorkerStates, WorkerState
  <2>2. CASE node[r] = "freed"
    <3>1. Tried(r)
      <4>1. ~sent[u]
        BY <2>1, <2>2 DEF IInv, OneOwner, Owns, TypeOK
      <4> QED
        BY <2>1, <2>2, <4>1 DEF IInv, WorkerStates, WorkerState, RequestStates
    <3>2. Fault("node", r) /\ Tried(r)'
      BY <2>1, <2>2, <3>1 DEF Tried
    <3> QED
      BY <2>1, <3>2, NodeFault
  <2>3. CASE node[r] # "freed" /\ files[r] = "freed"
    <3>1. r \in WithFiles /\ Tried(r)
      <4>1. CASE sent[u]
        <5>1. Owns(u, r)
          BY <2>1, <4>1 DEF Owns
        <5>2. r \notin lost
          BY <2>1, <5>1 DEF IInv, OneOwner
        <5>3. \A v \in Workers :
                 at[v] \in {"respond", "free"} => job[v] # r
          BY <2>1, <5>1 DEF IInv, OneOwner, Owns
        <5> QED
          BY <2>1, <2>3, <5>2, <5>3 DEF IInv, RequestStates
      <4>2. CASE ~sent[u]
        BY <2>1, <2>3, <4>2 DEF IInv, WorkerStates, WorkerState, RequestStates
      <4> QED
        BY <4>1, <4>2
    <3>2. Fault("files", r) /\ Tried(r)'
      BY <2>1, <2>3, <3>1 DEF Tried
    <3> QED
      BY <2>1, <3>1, <3>2, FilesFault
  <2>4. CASE node[r] # "freed" /\ files[r] # "freed"
    BY <2>1, <2>4, NoFault
  <2> QED
    BY <2>2, <2>3, <2>4
<1>8. FilesGoFirst'
  BY DEF IInv, FilesGoFirst
<1> QED
  BY <1>1, <1>2, <1>3, <1>4, <1>5, <1>6, <1>7, <1>8 DEF IInv

(* The owner calls the callback, for the first time.                       *)
LEMMA RespondStep ==
    ASSUME IInv, fault = {}, NEW u \in Workers, Respond(u)
    PROVE  IInv'
<1> USE DEF Respond, Fault
<1>1. TypeOK'
  BY DEF IInv, TypeOK, WorkerStates, OneOwner, CalledAtTheEnd, WorkerState,
     Owns
<1>2. WorkerStates'
  BY DEF IInv, WorkerStates, WorkerState, Tried
<1>3. AloneUntilTried'
  BY DEF IInv, AloneUntilTried, Tried
<1>4. RequestStates'
  BY DEF IInv, RequestStates, Tried
<1>5. OneOwner'
  BY DEF IInv, OneOwner, Owns
<1>6. CalledAtTheEnd'
  BY DEF IInv, TypeOK, OneOwner, CalledAtTheEnd, Owns
<1>7. FaultsExplained'
  <2>1. job[u] \in Requests
    BY DEF IInv, TypeOK, WorkerStates, WorkerState
  <2>2. CASE UNCHANGED fault
    BY <2>2, NoFault
  <2>3. CASE response[u] = "unset" /\ Fault("response", job[u])
    <3>1. iteration'[job[u]] = Retries
      BY <2>3 DEF IInv, WorkerStates, WorkerState
    <3> QED
      BY <2>1, <2>3, <3>1, ResponseFault
  <2> QED
    BY <2>2, <2>3
<1>8. FilesGoFirst'
  BY DEF IInv, FilesGoFirst
<1> QED
  BY <1>1, <1>2, <1>3, <1>4, <1>5, <1>6, <1>7, <1>8 DEF IInv

(* The owner frees the node: nobody else decides about it.                 *)
LEMMA FreeNodeStep ==
    ASSUME IInv, fault = {}, NEW u \in Workers, FreeNode(u)
    PROVE  IInv'
<1> USE DEF FreeNode, Freed
<1>1. TypeOK'
  BY DEF IInv, TypeOK
<1>2. WorkerStates'
  BY DEF IInv, TypeOK, WorkerStates, WorkerState, Tried
<1>3. AloneUntilTried'
  BY DEF IInv, AloneUntilTried, Tried
<1>4. RequestStates'
  BY DEF IInv, TypeOK, RequestStates, OneOwner, Owns, Tried
<1>5. OneOwner'
  BY DEF IInv, TypeOK, OneOwner, Owns
<1>6. CalledAtTheEnd'
  BY DEF IInv, TypeOK, CalledAtTheEnd
<1>7. FaultsExplained'
  BY DEF IInv, FaultsExplained
<1>8. FilesGoFirst'
  BY DEF IInv, WorkerStates, FilesGoFirst, WorkerState
<1> QED
  BY <1>1, <1>2, <1>3, <1>4, <1>5, <1>6, <1>7, <1>8 DEF IInv

-----------------------------------------------------------------------------
LEMMA NextInv == IInv /\ [Next]_vars => IInv'
<1> SUFFICES ASSUME IInv, [Next]_vars PROVE IInv'
  OBVIOUS
<1>1. CASE UNCHANGED vars
  <2> USE <1>1 DEF vars
  <2>1. TypeOK'
    BY DEF IInv, TypeOK
  <2>2. WorkerStates' /\ AloneUntilTried'
    BY DEF IInv, WorkerStates, WorkerState, AloneUntilTried, Tried
  <2>3. RequestStates' /\ OneOwner'
    BY DEF IInv, RequestStates, OneOwner, Owns, Tried
  <2>4. CalledAtTheEnd' /\ FaultsExplained' /\ FilesGoFirst'
    BY DEF IInv, CalledAtTheEnd, FaultsExplained, FilesGoFirst
  <2> QED
    BY <2>1, <2>2, <2>3, <2>4 DEF IInv
<1>2. CASE Next
  <2>1. fault = {}
    BY <1>2 DEF Next
  <2>2. ASSUME NEW w \in Workers, Run(w) PROVE IInv'
    BY <2>1, <2>2, SetupStep, AnsweredStep, FailedStep, LimitedStep,
       DroppedStep, CleanupStep, RespondStep, FreeNodeStep DEF Run
  <2> QED
    BY <1>2, <2>1, <2>2, SubmitStep, StopStep, StartStep DEF Next
<1> QED
  BY <1>1, <1>2

(* The inductive invariant.                                                *)
THEOREM InvariantHolds == Spec => []IInv
BY InitInv, NextInv, PTL DEF Spec

(* A request is in one hand at a time: in the queue, with the worker that  *)
(* decides about it, or lost (request.c:153, 164 against 238).             *)
THEOREM OneOwnerHolds == Spec => []OneOwner
BY InvariantHolds, PTL DEF IInv

(* The callback is called once, when the request is over (request.c:190).  *)
THEOREM CallbackOnce == Spec => []CalledAtTheEnd
BY InvariantHolds, PTL DEF IInv

(* What is not there (any more) is used after a retry, by a retry with     *)
(* files, by any upload, by giving up, after a limit without a time, and   *)
(* by adding work after the end (request.c:66, 105, 144, 172-188, 195).    *)
THEOREM MisuseExplained == Spec => []FaultsExplained
BY InvariantHolds, PTL DEF IInv
====
