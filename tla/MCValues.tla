------------------------------ MODULE MCValues ------------------------------
(* Small instances of Values for TLC.                                        *)
EXTENDS Values, TLC
=============================================================================
