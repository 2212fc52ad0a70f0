--------------------------- MODULE MCAppLifecycle ---------------------------
(***************************************************************************)
(* Small instances of AppLifecycle for TLC.                                *)
(***************************************************************************)
EXTENDS AppLifecycle
=============================================================================
