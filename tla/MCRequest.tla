---- MODULE MCRequest ----
(* An upload and a query on up to three workers.                           *)
EXTENDS Request

CONSTANTS w1, w2, w3, upload, query

MCWorkers == {w1, w2, w3}
MCRequests == {upload, query}
MCWithFiles == {upload}
====
