----------------------------- MODULE SourceRun ------------------------------
(***************************************************************************)
(* What the compiler owes the author of a program: it is refused if it     *)
(* breaks a rule of the language, and otherwise the                        *)
(* instrument shows the events the program means, all of them.             *)
(***************************************************************************)
EXTENDS SeqcMeaning

CONSTANTS Programs, Inputs

VARIABLES
  program, input,   \* what is compiled, and what the outside world answers
  verdict,          \* "none", "accepted" or "refused"
  shown,            \* the events so far
  due               \* the events still to come

vars == <<program, input, verdict, shown, due>>

Init ==
  /\ program \in Programs /\ input \in Inputs
  /\ verdict = "none" /\ shown = <<>>
  /\ due = Events(program, input)

Judge ==
  /\ verdict = "none"
  /\ verdict' = IF IsMeant(program, input) THEN "accepted" ELSE "refused"
  /\ UNCHANGED <<program, input, shown, due>>

Show ==
  /\ verdict = "accepted" /\ due # <<>>
  /\ shown' = Append(shown, Head(due)) /\ due' = Tail(due)
  /\ UNCHANGED <<program, input, verdict>>

Next == Judge \/ Show

\* Nothing the author is owed stays out.
Settled == verdict = "refused" \/ (verdict = "accepted" /\ due = <<>>)

Spec == Init /\ [][Next]_vars /\ <>Settled
=============================================================================
