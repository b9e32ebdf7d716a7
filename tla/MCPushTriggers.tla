-------------------------- MODULE MCPushTriggers --------------------------
(***************************************************************************)
(* Two commits: the configuration of one reacts to pushes and pull        *)
(* requests, the other has none.                                          *)
(***************************************************************************)
EXTENDS PushTriggers, TLC
CONSTANTS c1, c2
MCConfig == c1 :> Events @@ c2 :> {}
=============================================================================
