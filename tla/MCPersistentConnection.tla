----------------------- MODULE MCPersistentConnection -----------------------
(* Small instances of the connection.                                     *)
EXTENDS PersistentConnection, TLC

CONSTANTS x, y, v
=============================================================================
