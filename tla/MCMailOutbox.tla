----------------------------- MODULE MCMailOutbox -----------------------------
(***************************************************************************)
(* Model-checking instances of MailOutbox.                                 *)
(***************************************************************************)
EXTENDS MailOutbox
===============================================================================
