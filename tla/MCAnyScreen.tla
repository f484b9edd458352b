---------------------------- MODULE MCAnyScreen ----------------------------
(* Small instances: two leaves, each with a handler, and others who write. *)
EXTENDS AnyScreen, TLC

CONSTANTS p1, p2, h1, h2, v0, v1

MCPaths == {p1, p2}
MCHandlers == {h1, h2}
MCPathOf == h1 :> p1 @@ h2 :> p2
MCRemoteValues == p1 :> {Null, v1}
MCInitialDb == p1 :> v0 @@ p2 :> Null
=============================================================================
