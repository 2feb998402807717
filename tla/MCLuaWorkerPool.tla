--------------------------- MODULE MCLuaWorkerPool ---------------------------
(***************************************************************************)
(* Small instances of LuaWorkerPool.                                        *)
(***************************************************************************)
EXTENDS LuaWorkerPool

=============================================================================
