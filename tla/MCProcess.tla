----------------------------- MODULE MCProcess -----------------------------
(* Instances of Process for TLC. *)
EXTENDS Process

CONSTANTS w1, w2

MCServers    == <<"debug", "metrics">>
MCOneServer  == <<"metrics">>
MCOneWorker  == {w1}
MCTwoWorkers == {w1, w2}
=============================================================================
