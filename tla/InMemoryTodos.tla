---------------------------- MODULE InMemoryTodos ----------------------------
(***************************************************************************)
(* The use cases over InMemoryTodoRepository, on Node's event loop.         *)
(*                                                                         *)
(* Every method of the repository works at once and returns a promise that  *)
(* is already settled, so the rest of the awaiting call becomes a microtask *)
(* right away, and microtasks run one at a time in the order they were      *)
(* queued.  Callers invoke use cases whenever they like: from one turn of   *)
(* the loop (Promise.all, a batch, pipelined requests) or from several.     *)
(***************************************************************************)
EXTENDS TodoUseCases, Sequences, SequencesExt

VARIABLES
  microtasks,  \* the calls whose next segment is queued, first to run first
  invoked      \* the calls made so far, in the order they were made

loopVars == <<vars, microtasks, invoked>>

\* Mutant: the newest continuation runs first.
RequeueFirst(c, queue) ==
  IF pc'[c] = "answered" THEN queue ELSE <<c>> \o queue

\* Mutant: the continuation after the write is never queued.
RequeueOnce(c, queue) ==
  IF pc'[c] \in {"answered", "write"} THEN queue ELSE Append(queue, c)

\* A segment that ends in an await queues the next one; one that settles the
\* call does not.
Requeue(c, queue) ==
  IF pc'[c] = "answered" THEN queue ELSE Append(queue, c)

InvokeNow(c) ==
  /\ Invoke(c)
  /\ microtasks' = Requeue(c, microtasks)
  /\ invoked' = Append(invoked, c)

RunMicrotask ==
  /\ microtasks # <<>>
  /\ LET c == Head(microtasks) IN
       /\ Resume(c)
       /\ microtasks' = Requeue(c, Tail(microtasks))
  /\ UNCHANGED invoked

Pass == Tick /\ UNCHANGED <<microtasks, invoked>>

LoopInit ==
  /\ Init
  /\ microtasks = <<>>
  /\ invoked = <<>>

LoopNext ==
  \/ Pass
  \/ RunMicrotask
  \/ \E c \in Calls : InvokeNow(c)

\* The event loop does not stop while a microtask is queued.
LoopSpec == LoopInit /\ [][LoopNext]_loopVars /\ WF_loopVars(RunMicrotask)

-----------------------------------------------------------------------------
(* Properties *)

\* The calls that changed the todo with this id, successfully.
Writers(id) ==
  {c \in Calls :
     /\ pc[c] = "answered"
     /\ answer[c].error = "none"
     /\ \/ /\ command[c].op \in {"create", "update", "complete"}
           /\ \E todo \in answer[c].todos : todo.id = id
        \/ command[c].op = "delete" /\ command[c].id = id}

LastInvoked(S) == invoked[SelectLastInSeq(invoked, LAMBDA c : c \in S)]

\* When all calls are settled, the last of the successful writers to have been
\* invoked has decided what became of the todo: its answer is the stored row,
\* or it was a delete and there is none.
LastInvokedWins ==
  microtasks = <<>> =>
    \A id \in DOMAIN issued :
      LET last == LastInvoked(Writers(id)) IN
      IF command[last].op = "delete" THEN id \notin Stored
      ELSE id \in Stored /\ answer[last].todos = {store[id]}

\* The event loop is one way to keep the contract of the port.
PortContract == Spec
=============================================================================
