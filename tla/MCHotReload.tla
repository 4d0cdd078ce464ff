----------------------------- MODULE MCHotReload -----------------------------
(* One pod with two rate limits and its queue weights. *)
EXTENDS HotReload
=============================================================================
