---------------------------- MODULE MCMcpGateway ----------------------------
(***************************************************************************)
(* Instances of McpGateway for TLC.                                        *)
(***************************************************************************)
EXTENDS McpGateway
=============================================================================
