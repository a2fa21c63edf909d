---------------------------- MODULE MCErrorHandling ----------------------------
(* Two failing exchanges: every pair of entry points and every pair of errors. *)
EXTENDS ErrorHandling

CONSTANTS x1, x2, r1, t1

Message(retryCount, maxRetries) ==
  [retryCount |-> retryCount, maxRetries |-> maxRetries]

\* A message before the last retry of the default budget, and two that were
\* retried for ages: the budget of the one ends where dates do, that of the
\* other goes on.
MCMessages == {Message(2, Absent), Message(40, 41), Message(40, 42)}
=============================================================================
