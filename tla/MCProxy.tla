------------------------------ MODULE MCProxy ------------------------------
(***************************************************************************)
(* The proxy for TLC.  The configurations give the constants; Interchange  *)
(* is the symmetry of the runs in which every address plays the same part  *)
(* (no Chatters, no Dests; never with a liveness property).                *)
(***************************************************************************)
EXTENDS ProxyFindings, ProxyInvariant, ProxyRefinement, TLC

Interchange == Permutations(Addr)

\* Who connects: anyone at any time, or one of the Dests after one of the Talkers.
Anyone        == (0..BUFLEN) \X Addr
TalkersBefore == ({0} \X Talkers) \cup ((1..BUFLEN) \X Dests)
=============================================================================
