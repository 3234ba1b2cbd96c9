-------------------------- MODULE MCStdioClient --------------------------
(* Instance of StdioClient for TLC.                                        *)
EXTENDS StdioClient
=============================================================================
