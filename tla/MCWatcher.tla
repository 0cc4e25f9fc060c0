----------------------------- MODULE MCWatcher -----------------------------
(* Small instances of Watcher for TLC.                                     *)
EXTENDS WatcherProperties
CONSTANTS alice, mallory, dependabot, bot
=============================================================================
