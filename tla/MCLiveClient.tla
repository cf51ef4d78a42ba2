---------------------------- MODULE MCLiveClient ----------------------------
(* A small instance of LiveClient for TLC. *)
EXTENDS LiveClient

CONSTANTS service, goal
=============================================================================
