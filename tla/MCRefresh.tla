------------------------------- MODULE MCRefresh -------------------------------
(* The instance of Refresh that TLC checks: the loop runs one pipeline of
   resources; the bot runs that or the one of prices. *)
EXTENDS RefreshSystem
MCPipelines == <<"breaking_resources">>
===============================================================================
