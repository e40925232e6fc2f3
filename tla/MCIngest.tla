------------------------------ MODULE MCIngest ------------------------------
(* The values of Ingest's constants for TLC.  Overlap: two processes poll one *)
(* source.  Nightly: one process, twice, over a registry in which a and b are *)
(* active, c has no host, d a host but no fetcher, and e is not listed.       *)
EXTENDS Ingest

OverlapOrder == <<"a">>
NightlyOrder == <<"a", "b", "c", "d">>

Everything == [only |-> NoSource, limit |-> NoLimit]
OneSource == [only |-> "a", limit |-> 1]
NoHost == [only |-> "c", limit |-> NoLimit]
NoFetcher == [only |-> "d", limit |-> NoLimit]
Unlisted == [only |-> "e", limit |-> NoLimit]

OverlapCalls == {Everything}
NightlyCalls == {Everything, OneSource, NoHost, NoFetcher, Unlisted}
=============================================================================
