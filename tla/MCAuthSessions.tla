---------------------------- MODULE MCAuthSessions ----------------------------
(***************************************************************************)
(* Model-checking instances of AuthSessions.                               *)
(***************************************************************************)
EXTENDS AuthSessions

\* The clock moves only where three sessions and four triples have been drawn at most, and to the
\* tick of the first sweep where it is three triples; a family that reaches a cap of three, with
\* two refreshes racing for the last place, does so at once.
Narrow == /\ now' > 0 => nextSid' <= 4 /\ nextTok' <= 5
          /\ now' > Refresh + Retain => nextTok' <= 4
===============================================================================
