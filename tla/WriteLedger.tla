----------------------------- MODULE WriteLedger -----------------------------
(***************************************************************************)
(* What a client of the database may count on for its writes, whatever     *)
(* becomes of the connection.  Writes are numbered in the order they were  *)
(* asked for.  The server handles a write once at least, and again as long *)
(* as it has not been answered, but never before an earlier one; an answer *)
(* says what became of the last handling, and after it there is no other.  *)
(***************************************************************************)
EXTENDS Integers, Sequences

VARIABLES
  issued,   \* how many writes have been asked for
  log,      \* what the server has handled: the numbers, and if it accepted
  answered  \* the answers, in the order of the writes

ledgerVars == <<issued, log, answered>>

Init ==
  /\ issued = 0
  /\ log = <<>>
  /\ answered = <<>>

Issue ==
  /\ issued' = issued + 1
  /\ UNCHANGED <<log, answered>>

Handled(i) == \E k \in 1..Len(log) : log[k].index = i

Handle(i, ok) ==
  /\ i \in Len(answered)..(issued - 1)
  /\ \A j \in 0..(i - 1) : Handled(j)
  /\ log' = Append(log, [index |-> i, ok |-> ok])
  /\ UNCHANGED <<issued, answered>>

\* The server's last word on write i.
LastWord(i, ok) ==
  \E k \in 1..Len(log) :
    /\ log[k] = [index |-> i, ok |-> ok]
    /\ \A l \in (k + 1)..Len(log) : log[l].index # i

Answer(oks) ==
  /\ answered' = answered \o oks
  /\ \A k \in 1..Len(oks) : LastWord(Len(answered) + k - 1, oks[k])
  /\ UNCHANGED <<issued, log>>

Next ==
  \/ Issue
  \/ \E i \in 0..(issued - 1), ok \in BOOLEAN : Handle(i, ok)
  \/ Answer(SubSeq(answered', Len(answered) + 1, Len(answered')))

Spec == Init /\ [][Next]_ledgerVars
=============================================================================
