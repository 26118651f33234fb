----------------------------- MODULE MCPlatform -----------------------------
(* Values of the constants of Platform for TLC.                              *)
EXTENDS PlatformProps

\* As in MCOperations: each exec consumes an attempt.
EnoughExecs == 1..(MaxRetries * Cardinality(Requests))
=============================================================================
