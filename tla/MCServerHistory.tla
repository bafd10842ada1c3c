-------------------------- MODULE MCServerHistory ---------------------------
(* ServerHistory on the instances of MCServer.                             *)
EXTENDS ServerHistory, MCServer
=============================================================================
