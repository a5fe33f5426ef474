----------------------------- MODULE MCWebFeed -----------------------------
(* WebFeed, as it is. *)
EXTENDS WebFeed
=============================================================================
