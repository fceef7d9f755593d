---------------------------- MODULE MCAgentFeeds -----------------------------
(***************************************************************************)
(* An instance of AgentFeeds with every application.                       *)
(***************************************************************************)
EXTENDS AgentFeeds

MCAgents == {"zcode", "hermes", "remote", "claude", "codex"}
=============================================================================
