---------------------------- MODULE MCOperations ----------------------------
(* Values of the constants of Operations for TLC.                            *)
EXTENDS OperationsProps

\* MaxRetries execs per operation are enough: a job exists only while attempts
\* are left, and each exec consumes one.
EnoughExecs == 1..(MaxRetries * Cardinality(Requests))
=============================================================================
