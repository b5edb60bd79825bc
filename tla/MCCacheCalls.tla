---- MODULE MCCacheCalls ----
(* The event loop has an object of each type, and a worker two messages.   *)
EXTENDS CacheCalls

CONSTANTS loop, worker, message, channel, i1, i2

MCMayUse == [t \in Threads |->
    IF t = loop THEN {<<message, i1>>, <<channel, i1>>}
    ELSE {message} \X {i1, i2}]
====
