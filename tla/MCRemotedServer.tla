-------------------------- MODULE MCRemotedServer --------------------------
(* RemotedServer for TLC: two networks that share one source. *)
EXTENDS RemotedServer

MCOnLink == [view \in Views |-> IF view = "home" THEN {"a", "b"} ELSE {"b"}]
=============================================================================
