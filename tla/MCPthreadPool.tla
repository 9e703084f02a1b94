--------------------------- MODULE MCPthreadPool ----------------------------
(* PthreadPool for TLC. *)
EXTENDS PthreadPool
=============================================================================
