---------------------------- MODULE MCWSSession -----------------------------
(***************************************************************************)
(* Instances of WSSession for TLC.                                         *)
(***************************************************************************)
EXTENDS WSSession

\* Upstreams that never reuse an id, not even each other's.
FreshId(e, k) == <<e, k>>
=============================================================================
