----------------------------- MODULE MCAuthCache -----------------------------
(* Instances of AuthCache.                                                 *)
EXTENDS AuthCache, TLC
=============================================================================
