------------------------ MODULE MCRemotedController ------------------------
(* RemotedController for TLC: two networks and none. *)
EXTENDS RemotedController

MCListen == [view \in Views |->
    CASE view = "home" -> {"a", "b"} [] view = "other" -> {"b"} [] OTHER -> {}]
=============================================================================
