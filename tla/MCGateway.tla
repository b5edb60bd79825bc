---- MODULE MCGateway ----
EXTENDS Gateway

CONSTANTS h1, h2

MCThreads == {h1, h2}
====
