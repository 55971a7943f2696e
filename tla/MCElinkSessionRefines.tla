------------------------ MODULE MCElinkSessionRefines ------------------------
(* Constants of the run that checks the refinement.                        *)
EXTENDS ElinkSessionRefines, MCElinkSession

\* A command that changes something, a query, and a query that is not
\* answered.
SilentToo ==
  {Kind("cfg", TRUE, TRUE), Kind("get_status", TRUE, TRUE), Kind("get_status", TRUE, FALSE)}
=============================================================================
