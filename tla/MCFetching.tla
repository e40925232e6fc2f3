----------------------------- MODULE MCFetching -----------------------------
(* Two threads; three sources on two hosts, two of them sharing a host with   *)
(* different intervals.                                                       *)
EXTENDS Fetching

MCSources == {[host |-> "arxiv", interval |-> 2], [host |-> "arxiv", interval |-> 1],
              [host |-> "blog", interval |-> 1]}
=============================================================================
