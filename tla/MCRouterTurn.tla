---------------------------- MODULE MCRouterTurn ----------------------------
(* RouterTurn for TLC. *)
EXTENDS RouterTurn

MCSkills    == {"brief", "query"}
MCStreaming == {"brief"}
MCProse     == {"query"}
MCRefused   == {"unknown"}
=============================================================================
