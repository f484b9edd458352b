----------------------------- MODULE MCSyncTree -----------------------------
(* A small instance: one path observed by two handlers.                  *)
EXTENDS SyncTree, TLC

CONSTANTS p1, h1, h2, v1, t1

MCPaths == {p1}
MCHandlers == {h1, h2}
MCValues == {Null, v1}
MCTasks == {t1}
MCPathOf == h1 :> p1 @@ h2 :> p1
=============================================================================
