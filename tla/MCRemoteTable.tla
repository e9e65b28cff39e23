--------------------------- MODULE MCRemoteTable ---------------------------
(***************************************************************************)
(* RemoteTable for TLC.                                                    *)
(***************************************************************************)
EXTENDS RemoteTable

=============================================================================
