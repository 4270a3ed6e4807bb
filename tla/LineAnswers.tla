----------------------------- MODULE LineAnswers -----------------------------
(***************************************************************************)
(* What the customer portal promises of the lines of an estimate: a line   *)
(* is answered once; an answer to several lines counts for all of them or  *)
(* for none; a refused line, and no other, is followed up, and stays so    *)
(* even when the workshop asks about it again.                             *)
(***************************************************************************)
CONSTANTS Lines

VARIABLES
  answers,  \* pairs of a line and its verdict
  followed  \* lines the workshop comes back to

vars == <<answers, followed>>

Verdicts == {"approved", "declined", "deferred"}
Refusals == {"declined", "deferred"}

Answered == {p[1] : p \in answers}

Init == answers = {} /\ followed = {}

\* The customer answers lines that are open.
Answer(lines, verdict) ==
  /\ lines \cap Answered = {}
  /\ answers' = answers \cup {<<l, verdict[l]>> : l \in lines}
  /\ followed' = followed \cup {l \in lines : verdict[l] \in Refusals}

\* The workshop asks again about some lines.
AskAgain(lines) ==
  /\ answers' = {p \in answers : p[1] \notin lines}
  /\ UNCHANGED followed

Next ==
  \/ \E lines \in SUBSET Lines : \E verdict \in [lines -> Verdicts] : Answer(lines, verdict)
  \/ \E lines \in SUBSET Lines : AskAgain(lines)

Spec == Init /\ [][Next]_vars
==============================================================================
