----------------------------- MODULE MCGateway -----------------------------
(* Gateway for TLC.                                                          *)
EXTENDS GatewayProps, TLC

\* Requests are interchangeable: no liveness is checked of them.
RequestSymmetry == Permutations(Requests)
=============================================================================
