------------------------------ MODULE MCWMQueue ------------------------------
(* Instance of WMQueue for TLC.                                            *)
EXTENDS WMQueue
=============================================================================
