---------------------------- MODULE MCNativePool ----------------------------
(***************************************************************************)
(* Small instances of NativePool.                                           *)
(***************************************************************************)
EXTENDS NativePool

\* Background work, and a Project run as symbol_index.lua submits it.
BackgroundKinds == {[priority |-> -1, project |-> FALSE], [priority |-> -1, project |-> TRUE]}
AllKinds == BackgroundKinds \cup {[priority |-> 1, project |-> FALSE]}
=============================================================================
