---------------------------- MODULE MCMailPipeline ----------------------------
(* Model-checking instances of MailPipeline.                                 *)
EXTENDS MailPipeline
===============================================================================
