------------------------------ MODULE MCSdkMail ------------------------------
(* An instance of SdkMail for TLC.                                          *)
EXTENDS SdkMail
=============================================================================
