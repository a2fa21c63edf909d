----------------------------- MODULE TodoHistory -----------------------------
(***************************************************************************)
(* The use cases implement the promise of TodoService.  To say so, a        *)
(* history variable records the states of the Map a call that has read but  *)
(* not acted yet has lived through; it changes nothing of what the use      *)
(* cases do.                                                                *)
(***************************************************************************)
EXTENDS TodoUseCases

VARIABLE seen

historyVars == <<vars, seen>>

\* A call has read in its first segment and acts when it is next resumed.
Reading == {"found", "missing"}

HistoryInit ==
  /\ Init
  /\ seen = [c \in Calls |-> {}]

HistoryNext ==
  /\ Next
  /\ seen' = [c \in Calls |-> IF pc'[c] \in Reading THEN seen[c] \cup {store'}
                                                    ELSE {}]

HistorySpec == HistoryInit /\ [][HistoryNext]_historyVars

\* A writing call has acted as soon as the repository has its todo; what it
\* will answer is fixed from then on.
Told(c) ==
  CASE pc[c] = "answered" -> answer[c]
    [] pc[c] = "write"    -> Ok(held[c])
    [] OTHER              -> [error |-> "waiting", todos |-> {}]

Service == INSTANCE TodoService WITH
  todos  <- store,
  given  <- command,
  result <- [c \in Calls |-> Told(c)]

\* Every call of a use case, however it is interleaved with others across its
\* awaits, does and answers what the service promises: it decides on one state
\* of the todos it has lived through, changes its own todo only, and is told
\* so (application/todo, over infrastructure/persistence).
ServiceKept == Service!Spec
=============================================================================
