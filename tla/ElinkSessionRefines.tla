------------------------- MODULE ElinkSessionRefines -------------------------
(***************************************************************************)
(* ElinkSession implements CommandService.  A command is named by its      *)
(* place among the commands of its connection.                             *)
(***************************************************************************)
EXTENDS ElinkSession

\* The commands among the first n frames the gateway sent on s.
Place(s, n) == Number(in[s], n, CmdTypes)

CommandsTaken == [s \in Sessions |-> Place(s, rIn[s])]

InHand == IF pc \in {"apply", "answer"} THEN << <<sid, Place(sid, rIn[sid])>> >> ELSE <<>>

GoneThrough == pc = "answer"

CarriedOut ==
  [n \in 1 .. Len(applied) |-> <<applied[n][1], Place(applied[n][1], applied[n][2])>>]

AnswersSent == [s \in Sessions |-> Number(out[s], Len(out[s]), AnswerTypes)]

Service == INSTANCE CommandService WITH
  Conns <- Sessions, MaxTaken <- MaxCmd,
  taken <- CommandsTaken, hand <- InHand, gone <- GoneThrough,
  done <- CarriedOut, answers <- AnswersSent

\* Whatever connections break, whatever handlers raise and whichever
\* coroutine is replaced, the agent keeps the promises of CommandService
\* (elink.lua:494-534).
ServesCommands == Service!FairSpec
=============================================================================
