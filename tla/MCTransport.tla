----------------------------- MODULE MCTransport -----------------------------
(* An instance of Transport for TLC.                                        *)
EXTENDS Transport

TwoOut == <<3, 1>>
TwoIn  == <<2, 1>>
=============================================================================
