---- MODULE Request ----
(***************************************************************************)
(* The HTTP requests of web/request.c: request() hands a node to the       *)
(* thread pool, a worker runs request_t_pool on it, and a request that is  *)
(* rate limited or that failed is handed to the pool again, by the worker  *)
(* that still has to clean up.                                             *)
(*                                                                         *)
(* The pool is what WorkPool promises, without the clock: any pending      *)
(* request may be started, at any time.  Connections, URLs and bodies are  *)
(* left out; what matters of an answer is what the code makes of it.       *)
(***************************************************************************)
EXTENDS Integers, FiniteSets

CONSTANTS Workers,       \* the threads of the pool
          Requests,      \* calls of request()
          NoRequest,     \* what an idle worker runs
          WithFiles,     \* the requests with attachments
          WithCallback,  \* the requests somebody waits for
          Retries,       \* 5 in the code: attempts that may fail
          MaxLimits      \* bound on the times a request is rate limited

ASSUME RequestAssumption ==
    NoRequest \notin Requests /\ WithFiles \subseteq Requests
ASSUME NumberAssumption == Retries \in Nat \ {0} /\ MaxLimits \in Nat

VARIABLES
    pending,     \* requests in the queue of the pool
    stopped,     \* t_pool_destroy was called
    job,         \* n of request_t_pool: the request of each worker
    at,          \* where each worker is in request_t_pool
    sent,        \* its sent_message
    response,    \* its response: "unset" while it is not initialized
    node,        \* the request_work_node of each request
    files,       \* n->files
    iteration,   \* n->iteration
    limits,      \* how often it was rate limited (history)
    called,      \* how often its callback was called (history)
    lost,        \* requests that nobody will run again (history)
    fault        \* wrong uses of memory: what was used, for which request

nodeVars == <<node, files, iteration, limits, called>>
workerVars == <<job, at, sent, response>>
vars == <<pending, stopped, workerVars, nodeVars, lost, fault>>

Memory == {"none", "live", "freed"}

Init ==
    /\ pending = {} /\ stopped = FALSE
    /\ job = [w \in Workers |-> NoRequest]
    /\ at = [w \in Workers |-> "idle"]
    /\ sent = [w \in Workers |-> FALSE]
    /\ response = [w \in Workers |-> "unset"]
    /\ node = [r \in Requests |-> "none"]
    /\ files = [r \in Requests |-> "none"]
    /\ iteration = [r \in Requests |-> 0]
    /\ limits = [r \in Requests |-> 0]
    /\ called = [r \in Requests |-> 0]
    /\ lost = {} /\ fault = {}

Fault(what, r) == fault' = {[what |-> what, of |-> r]}

(* A worker reads n, and the array n->files if there is one.               *)
Touch(r) ==
    IF node[r] = "freed" THEN Fault("node", r)
    ELSE IF files[r] = "freed" THEN Fault("files", r)
    ELSE UNCHANGED fault

-----------------------------------------------------------------------------
(* Definitions that end in an underscore and a word are variants of the    *)
(* one that follows them, with a mistake in it.                            *)

(* t_pool_add_work.  After t_pool_destroy, which leaves the pointers of    *)
(* the queue as they were, the node is linked behind a freed one, or into  *)
(* a queue that nobody reads.                                              *)
Add(r) ==
    IF stopped
    THEN /\ lost' = lost \cup {r}
         /\ UNCHANGED fault \/ Fault("queue", r)
         /\ UNCHANGED pending
    ELSE pending' = pending \cup {r} /\ UNCHANGED <<lost, fault>>

(* request(), called by the main thread or by a callback on a worker.      *)
Submit(r) ==
    /\ node[r] = "none"
    /\ node' = [node EXCEPT ![r] = "live"]
    /\ files' = [files EXCEPT ![r] = IF r \in WithFiles THEN "live" ELSE @]
    /\ Add(r)
    /\ UNCHANGED <<stopped, workerVars, iteration, limits, called>>

(* t_pool_destroy frees the work of the queue, and not what it points to.  *)
Stop ==
    /\ ~stopped
    /\ stopped' = TRUE
    /\ pending' = {}
    /\ lost' = lost \cup pending
    /\ UNCHANGED <<workerVars, nodeVars, fault>>

(* A worker of the pool calls request_t_pool.                              *)
Start(w, r) ==
    /\ ~stopped
    /\ job[w] = NoRequest /\ r \in pending
    /\ pending' = pending \ {r}
    /\ job' = [job EXCEPT ![w] = r]
    /\ at' = [at EXCEPT ![w] = "setup"]
    /\ sent' = [sent EXCEPT ![w] = FALSE]
    /\ response' = [response EXCEPT ![w] = "unset"]
    /\ UNCHANGED <<stopped, nodeVars, lost, fault>>

GivesUp_late(r) == iteration[r] > Retries
GivesUp(r) == iteration[r] >= Retries

(* The headers, which name the files, and the decision to give up.  The    *)
(* header of each file is appended to an entry of attachments_l, which     *)
(* comes from malloc: it happens to be NULL, or is taken for a list.       *)
Touched(r) == node[r] # "freed" /\ files[r] # "freed"

Setup(w) == LET r == job[w] IN
    /\ at[w] = "setup"
    /\ \/ Touch(r)
       \/ Touched(r) /\ r \in WithFiles /\ Fault("attachments", r)
    /\ at' = [at EXCEPT ![w] = IF GivesUp(r) THEN "cleanup" ELSE "perform"]
    /\ sent' = [sent EXCEPT ![w] = GivesUp(r)]
    /\ UNCHANGED <<pending, stopped, job, response, nodeVars, lost>>

(* curl_easy_perform returns, and its worker decides what becomes of the   *)
(* request.  2xx, 4xx and all codes that are not named: it is done.        *)
Answered(w) ==
    /\ at[w] = "perform"
    /\ at' = [at EXCEPT ![w] = "cleanup"]
    /\ sent' = [sent EXCEPT ![w] = TRUE]
    /\ \E body \in {"null", "body"} : response' = [response EXCEPT ![w] = body]
    /\ UNCHANGED <<pending, stopped, job, nodeVars, lost, fault>>

(* No connection, 5xx or 409: try again, later each time.                  *)
Counted_not(r) == iteration
Counted(r) == [iteration EXCEPT ![r] = @ + 1]

Failed(w) == LET r == job[w] IN
    /\ at[w] = "perform"
    /\ at' = [at EXCEPT ![w] = "cleanup"]
    /\ \E body \in {"null", "body"} : response' = [response EXCEPT ![w] = body]
    /\ iteration' = Counted(r)
    /\ Add(r)
    /\ UNCHANGED <<stopped, job, sent, node, files, limits, called>>

(* 429 with the time to wait: try again then, as often as it takes.        *)
Limited(w) == LET r == job[w] IN
    /\ at[w] = "perform" /\ limits[r] < MaxLimits
    /\ at' = [at EXCEPT ![w] = "cleanup"]
    /\ response' = [response EXCEPT ![w] = "body"]
    /\ limits' = [limits EXCEPT ![r] = @ + 1]
    /\ Add(r)
    /\ UNCHANGED <<stopped, job, sent, node, files, iteration, called>>

(* 429 without it: the request is dropped, unless the time is logged,      *)
(* which a build of libwebsockets with lwsl_debug reads through NULL.      *)
Dropped(w) ==
    /\ at[w] = "perform"
    /\ UNCHANGED fault \/ Fault("limit", job[w])
    /\ at' = [at EXCEPT ![w] = "cleanup"]
    /\ \E body \in {"null", "body"} : response' = [response EXCEPT ![w] = body]
    /\ lost' = lost \cup {job[w]}
    /\ UNCHANGED <<pending, stopped, job, sent, nodeVars>>

(* The cleanup, with n still in hand after it was handed to the pool.      *)
GoesOn_always(w) == TRUE
GoesOn(w) == sent[w]

FreedFiles_kept(r) == files
FreedFiles(r) == [files EXCEPT ![r] = IF r \in WithFiles THEN "freed" ELSE @]

Cleanup(w) == LET r == job[w] IN
    /\ at[w] = "cleanup"
    /\ Touch(r)
    /\ files' = FreedFiles(r)
    /\ at' = [at EXCEPT ![w] = IF GoesOn(w) THEN "respond" ELSE "idle"]
    /\ job' = [job EXCEPT ![w] = IF GoesOn(w) THEN @ ELSE NoRequest]
    /\ UNCHANGED <<pending, stopped, sent, response, node, iteration, limits,
                   called, lost>>

(* The body is parsed and freed, and the callback is called.  A response   *)
(* that was never set happens to be NULL, or is parsed and freed.          *)
Respond(w) == LET r == job[w] IN
    /\ at[w] = "respond"
    /\ \/ UNCHANGED fault
       \/ response[w] = "unset" /\ Fault("response", r)
    /\ called' = [called EXCEPT ![r] = IF r \in WithCallback THEN @ + 1 ELSE @]
    /\ at' = [at EXCEPT ![w] = "free"]
    /\ UNCHANGED <<pending, stopped, job, sent, response, node, files,
                   iteration, limits, lost>>

Freed_kept(r) == node
Freed(r) == [node EXCEPT ![r] = "freed"]

FreeNode(w) ==
    /\ at[w] = "free"
    /\ node' = Freed(job[w])
    /\ at' = [at EXCEPT ![w] = "idle"]
    /\ job' = [job EXCEPT ![w] = NoRequest]
    /\ UNCHANGED <<pending, stopped, sent, response, files, iteration, limits,
                   called, lost, fault>>

-----------------------------------------------------------------------------
Run(w) ==
    \/ Setup(w)
    \/ Answered(w) \/ Failed(w) \/ Limited(w) \/ Dropped(w)
    \/ Cleanup(w) \/ Respond(w) \/ FreeNode(w)

(* What the program does after a wrong use of memory is not modelled.      *)
Next ==
    /\ fault = {}
    /\ \/ \E r \in Requests : Submit(r)
       \/ Stop
       \/ \E w \in Workers, r \in Requests : Start(w, r)
       \/ \E w \in Workers : Run(w)

Spec == Init /\ [][Next]_vars

(* Each transfer of curl ends, and the pool starts what is in its queue.   *)
Fairness ==
    /\ \A w \in Workers : WF_vars(fault = {} /\ Run(w))
    /\ \A r \in Requests :
          WF_vars(fault = {} /\ \E w \in Workers : Start(w, r))

FairSpec == Spec /\ Fairness

-----------------------------------------------------------------------------
TypeOK ==
    /\ pending \subseteq Requests /\ stopped \in BOOLEAN
    /\ job \in [Workers -> Requests \cup {NoRequest}]
    /\ at \in [Workers -> {"idle", "setup", "perform", "cleanup", "respond",
                           "free"}]
    /\ sent \in [Workers -> BOOLEAN]
    /\ response \in [Workers -> {"unset", "null", "body"}]
    /\ node \in [Requests -> Memory] /\ files \in [Requests -> Memory]
    /\ iteration \in [Requests -> 0..Retries]
    /\ limits \in [Requests -> 0..MaxLimits]
    /\ called \in [Requests -> 0..1]
    /\ lost \subseteq Requests
    /\ fault \subseteq [what : {"queue", "node", "files", "attachments",
                                "response", "limit"}, of : Requests]

(* The worker that decides what becomes of r, and may use n as it likes:   *)
(* it has not handed r to the pool again.                                  *)
Owns(w, r) ==
    /\ job[w] = r
    /\ \/ at[w] \in {"setup", "perform", "respond", "free"}
       \/ at[w] = "cleanup" /\ sent[w]

(* A request is in one hand at a time, over all its attempts: it waits in  *)
(* the queue, or one worker decides about it, or it is lost; and while it  *)
(* is in a hand its node is not freed (request.c:153, 164 against 238).    *)
OneOwner ==
    /\ \A r \in pending : node[r] = "live" /\ \A w \in Workers : ~Owns(w, r)
    /\ \A w \in Workers, r \in Requests : Owns(w, r) =>
          /\ node[r] = "live"
          /\ \A v \in Workers : Owns(v, r) => v = w
    /\ \A r \in lost : r \notin pending /\ \A w \in Workers : ~Owns(w, r)

(* The callback of a request is called once, when its node is about to be  *)
(* freed, and not while the request may still be retried: when it has been *)
(* called nobody runs the request any more (request.c:190).                *)
CalledAtTheEnd ==
    \A r \in Requests : called[r] > 0 =>
        /\ r \notin pending \cup lost
        /\ node[r] = "freed" \/ \E w \in Workers : at[w] = "free" /\ job[w] = r

(* Of the node, its files, their headers, the response, and the queue,     *)
(* what is not there (any more) is used only so.  "node": a worker cleans  *)
(* up after an attempt whose successor is over; "files": the names were    *)
(* freed when an earlier attempt cleaned up; "attachments": the headers of *)
(* any upload, at any attempt, are lists that were never set; "response":  *)
(* the request is given up without one; "limit": it was limited, and is    *)
(* dropped; "queue": it is added after the pool was destroyed.  A request  *)
(* without files that gets another answer than 429 at the first attempt,   *)
(* before the end, is safe (request.c:66, 144, 172-188, 195, 296).         *)
FaultsExplained ==
    \A f \in fault :
        /\ f.what = "node" => iteration[f.of] + limits[f.of] > 0
        /\ f.what = "files" =>
              f.of \in WithFiles /\ iteration[f.of] + limits[f.of] > 0
        /\ f.what = "attachments" => f.of \in WithFiles
        /\ f.what = "response" => iteration[f.of] = Retries
        /\ f.what = "limit" => f.of \in lost
        /\ f.what = "queue" => stopped

(* When the node of a request is gone, the names of its files are too.     *)
FilesGoFirst == \A r \in Requests : node[r] = "freed" => files[r] # "live"

(* What the invariants above rest on.  A request that is retried was       *)
(* counted, one whose file names are gone was tried before.                *)
Tried(r) == iteration[r] + limits[r] > 0

WorkerState(w) ==
    /\ at[w] = "idle" <=> job[w] = NoRequest
    /\ at[w] # "idle" => node[job[w]] # "none"
    /\ at[w] \in {"setup", "perform"} => ~sent[w]
    /\ at[w] \in {"respond", "free"} => sent[w] /\ files[job[w]] # "live"
    /\ at[w] = "perform" => iteration[job[w]] < Retries
    /\ at[w] \in {"cleanup", "respond"} /\ sent[w] /\ response[w] = "unset"
         => iteration[job[w]] = Retries
    /\ at[w] = "cleanup" /\ ~sent[w] =>
         \/ Tried(job[w])
         \/ job[w] \in lost /\ files[job[w]] # "freed"

WorkerStates == \A w \in Workers : WorkerState(w)

(* Until it has been handed to the pool again, one worker has a request.   *)
AloneUntilTried == \A r \in Requests, w \in Workers :
    job[w] = r /\ (r \in pending \/ \E v \in Workers : v # w /\ job[v] = r)
    => Tried(r)

RequestStates == \A r \in Requests :
    /\ node[r] = "none" => files[r] = "none" /\ r \notin lost
    /\ r \in lost => node[r] = "live"
    /\ files[r] # "none" => r \in WithFiles
    /\ files[r] = "freed" =>
         \/ Tried(r) \/ r \in lost \/ node[r] = "freed"
         \/ \E w \in Workers : at[w] \in {"respond", "free"} /\ job[w] = r

(* The inductive invariant of the proofs.                                  *)
IInv ==
    /\ TypeOK /\ WorkerStates /\ AloneUntilTried /\ RequestStates
    /\ OneOwner /\ CalledAtTheEnd /\ FaultsExplained /\ FilesGoFirst

(* A request ends, whatever it is answered: it is answered for good, given *)
(* up after Retries failures, dropped by the code or by t_pool_destroy, or *)
(* memory was misused.  (A server that answers 429 for ever is excluded    *)
(* by MaxLimits: the code retries for ever then.)                          *)
RequestEnds ==
    \A r \in Requests :
        node[r] = "live" ~> node[r] = "freed" \/ r \in lost \/ fault # {}
====
