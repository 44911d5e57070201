---------------------------- MODULE HttpdExchange ----------------------------
(***************************************************************************)
(* What a connection to the web server promises to a client: requests are  *)
(* answered in the order they were sent, each once and none before it was  *)
(* completely sent, and the server does not hang up on a client that waits *)
(* for an answer.                                                          *)
(***************************************************************************)
EXTENDS Naturals, Sequences

VARIABLES
  asked,    \* requests the client has sent
  answers,  \* the requests answered, in the order of the answers
  left,     \* the client has hung up
  open      \* the server has not

vars == <<asked, answers, left, open>>

Init ==
  /\ asked = 0
  /\ answers = <<>>
  /\ left = FALSE
  /\ open = TRUE

Ask ==
  /\ ~left
  /\ asked' = asked + 1
  /\ UNCHANGED <<answers, left, open>>

Answer ==
  /\ open
  /\ Len(answers) < asked
  /\ answers' = Append(answers, Len(answers) + 1)
  /\ UNCHANGED <<asked, left, open>>

Leave ==
  /\ ~left
  /\ left' = TRUE
  /\ UNCHANGED <<asked, answers, open>>

HangUp ==
  /\ open
  /\ left \/ Len(answers) = asked
  /\ open' = FALSE
  /\ UNCHANGED <<asked, answers, left>>

Next == Ask \/ Answer \/ Leave \/ HangUp

SafeSpec == Init /\ [][Next]_vars

\* A request that was sent is answered, unless the connection ends before.
Spec == SafeSpec /\ WF_vars(Answer \/ (HangUp /\ left))
=============================================================================
