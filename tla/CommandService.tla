--------------------------- MODULE CommandService ---------------------------
(***************************************************************************)
(* What the agent promises the gateway about commands, whatever happens to *)
(* the connections they arrive on: one command is in hand at a time, in    *)
(* the order they came; it is carried out once or not at all; an answer    *)
(* follows only what was gone through with; and no command stays in hand.  *)
(* ElinkSession implements this (ElinkSessionRefines).                     *)
(***************************************************************************)
EXTENDS Naturals, Sequences

CONSTANTS
  Conns,    \* the connections, numbered in the order they are made
  MaxTaken  \* how many commands a connection brings, at most

ASSUME ServiceAssumption == Conns \subseteq Nat /\ MaxTaken \in Nat

\* A command is the connection it came on and its number there.
Commands == Conns \X Nat

VARIABLES
  taken,    \* how many commands of each connection were taken in hand
  hand,     \* the command in hand, as a sequence of at most one
  gone,     \* the command in hand was gone through with
  done,     \* the commands that changed something, in order
  answers   \* how many answers each connection carries

vars == <<taken, hand, gone, done, answers>>

TypeOK ==
  /\ taken \in [Conns -> 0 .. MaxTaken]
  /\ hand \in Seq(Commands) /\ Len(hand) <= 1
  /\ gone \in BOOLEAN /\ done \in Seq(Commands)
  /\ answers \in [Conns -> Nat]

Init ==
  /\ taken = [s \in Conns |-> 0] /\ hand = <<>> /\ gone = FALSE
  /\ done = <<>> /\ answers = [s \in Conns |-> 0]

\* A command is read; connections are not gone back to.
Take(s) ==
  /\ hand = <<>> /\ taken[s] < MaxTaken
  /\ \A t \in Conns : t > s => taken[t] = 0
  /\ taken' = [taken EXCEPT ![s] = @ + 1]
  /\ hand' = << <<s, taken[s] + 1>> >> /\ gone' = FALSE
  /\ UNCHANGED <<done, answers>>

\* Mutant: it stays to be gone through with again.
DoLingers ==
  /\ hand # <<>> /\ ~gone /\ gone' \in BOOLEAN
  /\ done' \in {done, Append(done, hand[1])}
  /\ UNCHANGED <<taken, hand, answers>>

\* Its handler runs to the end; a command without argument changes nothing.
Do ==
  /\ hand # <<>> /\ ~gone /\ gone' = TRUE
  /\ done' \in {done, Append(done, hand[1])}
  /\ UNCHANGED <<taken, hand, answers>>

\* Mutant: an answer, and the command stays in hand.
TellLingers ==
  /\ hand # <<>> /\ gone /\ hand' \in {hand, <<>>} /\ gone' = (hand' # <<>>)
  /\ LET s == hand[1][1] IN
     answers' \in {answers, [answers EXCEPT ![s] = @ + 1]}
  /\ UNCHANGED <<taken, done>>

\* It is answered, unless it is a query without a number.
Tell ==
  /\ hand # <<>> /\ gone /\ hand' = <<>> /\ gone' = FALSE
  /\ LET s == hand[1][1] IN
     answers' \in {answers, [answers EXCEPT ![s] = @ + 1]}
  /\ UNCHANGED <<taken, done>>

\* The handler raised: whatever it did so far, nobody is told.
Abandon ==
  /\ hand # <<>> /\ ~gone /\ hand' = <<>>
  /\ UNCHANGED <<taken, gone, done, answers>>

Next == (\E s \in Conns : Take(s)) \/ Do \/ Tell \/ Abandon

Spec == Init /\ [][Next]_vars

FairSpec == Spec /\ WF_vars(Do \/ Tell \/ Abandon)

-----------------------------------------------------------------------------
(* Properties.                                                             *)

Before(c, d) == c[1] < d[1] \/ (c[1] = d[1] /\ c[2] < d[2])

\* What was carried out was carried out once, in the order of arrival, and
\* before any later command was taken in hand.
DoneInOrder ==
  /\ \A i, j \in 1 .. Len(done) : i < j => Before(done[i], done[j])
  /\ hand # <<>> /\ ~gone => \A i \in 1 .. Len(done) : Before(done[i], hand[1])

\* An answer counts for a command taken and gone through with: answers never
\* outnumber the commands that have left the hand.
AnswersEarned ==
  \A s \in Conns :
    answers[s] + (IF hand # <<>> /\ hand[1][1] = s THEN 1 ELSE 0) <= taken[s]
=============================================================================
