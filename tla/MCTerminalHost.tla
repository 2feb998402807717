--------------------------- MODULE MCTerminalHost ---------------------------
(***************************************************************************)
(* Small instances of TerminalHost.                                         *)
(***************************************************************************)
EXTENDS TerminalHost

LocalRemoteLocal == <<"local", "remote", "local">>

=============================================================================
