-------------------------- MODULE MCBashSession --------------------------
(* Instance of BashSession for TLC.                                        *)
EXTENDS BashSession
=============================================================================
