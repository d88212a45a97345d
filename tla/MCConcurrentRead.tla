-------------------------- MODULE MCConcurrentRead --------------------------
(* A small instance of ConcurrentRead for TLC.                             *)
EXTENDS ConcurrentRead
=============================================================================
