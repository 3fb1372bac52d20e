------------------------ MODULE MCPushDispatchHistory ------------------------
(* PushDispatchHistory on small instances. *)
EXTENDS PushDispatchHistory, MCPush
=============================================================================
