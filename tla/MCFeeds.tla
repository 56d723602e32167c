-------------------------------- MODULE MCFeeds --------------------------------
(* Small instances of Feeds for TLC. *)
EXTENDS Feeds, TLC
================================================================================
