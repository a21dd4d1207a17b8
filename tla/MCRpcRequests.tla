--------------------------- MODULE MCRpcRequests ---------------------------
(* Small instances of RpcRequests. *)
EXTENDS RpcRequests

CONSTANTS c1, c2, p1, p2, p3
=============================================================================
