---------------------------- MODULE MCPushServer ----------------------------
(* PushServer on small instances. *)
EXTENDS PushServer, MCPush
=============================================================================
