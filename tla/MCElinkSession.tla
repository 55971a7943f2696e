--------------------------- MODULE MCElinkSession ---------------------------
(* Constants of the runs of ElinkSession.                                  *)
EXTENDS ElinkSession

Kind(type, full, numbered) == [type |-> type, full |-> full, numbered |-> numbered]

\* Every handler of keepRun, with and without the argument or the sequence
\* it looks for.
EveryHandler ==
  {Kind("cfg", TRUE, TRUE), Kind("cfg", TRUE, FALSE),
   Kind("get_status", TRUE, TRUE), Kind("get_status", TRUE, FALSE),
   Kind("deassociation", FALSE, TRUE), Kind("getrssiinfo", TRUE, TRUE)}

CfgOnly == {Kind("cfg", TRUE, TRUE)}
=============================================================================
