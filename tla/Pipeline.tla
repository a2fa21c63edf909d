------------------------------- MODULE Pipeline -------------------------------
(***************************************************************************)
(* The core of the pipeline library (src/common/pipeline/core): pipelines    *)
(* that grow while executions run through them.                             *)
(*                                                                         *)
(* A middleware is any code that is given the context and next.  It is       *)
(* modelled by everything it may do: replace the arguments, call next, more   *)
(* than once even, and return or throw whatever it likes.  It awaits what it *)
(* got from next before it goes on.  LoggingMiddleware is the one this       *)
(* repository has.                                                          *)
(***************************************************************************)
EXTENDS Naturals, Sequences, SequencesExt

CONSTANTS
  Middlewares,        \* every middleware
  LoggingMiddleware,  \* the one of src/infrastructure/pipeline
  Pipelines,          \* pipelines, made or yet to be made
  Root,               \* the pipeline there is from the start
  Executions,         \* calls of execute
  MaxLength,          \* bound on the middlewares of a pipeline
  MaxNext             \* bound on the calls of next by one middleware

ASSUME LoggingAndRoot == LoggingMiddleware \in Middlewares /\ Root \in Pipelines

\* fn, the function at the end of every chain, is no middleware.
ASSUME FunctionApart == "fn" \notin Middlewares

VARIABLES
  pipelines,  \* the pipelines that were made: name -> its middlewares
  args,       \* the args of each execution's context
  stack,      \* the calls each execution is in, the innermost last
  outcome,    \* what the innermost call was given last, or the execution gave
  snapshot,   \* the middlewares of the pipeline when the execution began
  ranWith     \* the arguments of each run of the function

vars == <<pipelines, args, stack, outcome, snapshot, ranWith>>

\* What a promise of the chain settles with: the function's own result or
\* error, or something a middleware made up.
Outcome == {"result", "error", "other result", "other error"}
Unsettled == "unsettled"

\* Argument tuples: those of the caller and the replacement of a middleware.
Args == Executions \X {"given", "replaced"}

-----------------------------------------------------------------------------
(* Pipeline: use, useAll, withTarget *)

Extend(p, more) ==
  /\ Len(pipelines[p]) + Len(more) <= MaxLength
  /\ pipelines' = [pipelines EXCEPT ![p] = @ \o more]
  /\ UNCHANGED <<args, stack, outcome, snapshot, ranWith>>

Use(p, middleware) == Extend(p, <<middleware>>)

UseAll(p, other) == Extend(p, pipelines[other])

WithTarget(p, new) ==
  /\ new \notin DOMAIN pipelines
  /\ pipelines' = [q \in DOMAIN pipelines \cup {new} |->
                     IF q = new THEN pipelines[p] ELSE pipelines[q]]
  /\ UNCHANGED <<args, stack, outcome, snapshot, ranWith>>

-----------------------------------------------------------------------------
(* Pipeline.execute *)

\* The innermost function of a chain: it calls fn with the args of the context.
Target == [handle |-> "fn"]

Link(middleware, next) == [handle |-> middleware, next |-> next]

\* Mutant: reduce in place of reduceRight.
ChainReduced(list) ==
  FoldLeft(LAMBDA next, middleware : Link(middleware, next), Target, list)

Chain(list) == FoldRight(Link, list, Target)

Frame(link) == [link |-> link, nexts |-> 0]

\* Mutant: the context belongs to the pipeline.
ContextShared(e) == CHOOSE x \in Executions : TRUE

\* The context an execution works on: its own.
Context(e) == e

Execute(e, p) ==
  /\ stack[e] = <<>>
  /\ outcome[e] = Unsettled
  /\ stack' = [stack EXCEPT ![e] = <<Frame(Chain(pipelines[p]))>>]
  /\ args' = [args EXCEPT ![Context(e)] = <<e, "given">>]
  /\ snapshot' = [snapshot EXCEPT ![e] = pipelines[p]]
  /\ UNCHANGED <<pipelines, outcome, ranWith>>

Running(e) == stack[e] # <<>>

Innermost(e) == Last(stack[e])

\* The innermost call of e is one of the middleware's handle.
Handling(e, middleware) ==
  Running(e) /\ Innermost(e).link.handle = middleware

\* The innermost of the calls has called next once more.
NextCounted(calls) == [calls EXCEPT ![Len(calls)].nexts = @ + 1]

CallNext(e) ==
  /\ stack' = [stack EXCEPT ![e] =
                 Append(NextCounted(@), Frame(Innermost(e).link.next))]
  /\ outcome' = [outcome EXCEPT ![e] = Unsettled]
  /\ UNCHANGED <<pipelines, args, snapshot, ranWith>>

\* The innermost call settles; the one around it is given the outcome.
Return(e, with) ==
  /\ stack' = [stack EXCEPT ![e] = Front(@)]
  /\ outcome' = [outcome EXCEPT ![e] = with]

RunFunction(e) ==
  /\ Handling(e, "fn")
  /\ \E with \in {"result", "error"} : Return(e, with)
  /\ ranWith' = [ranWith EXCEPT ![e] = Append(@, args[Context(e)])]
  /\ UNCHANGED <<pipelines, args, snapshot>>

-----------------------------------------------------------------------------
(* Middlewares *)

\* Mutant: the failure is logged and not rethrown.
LoggingHandlesQuietly(e) ==
  /\ Handling(e, LoggingMiddleware)
  /\ IF Innermost(e).nexts = 0 THEN CallNext(e)
     ELSE /\ Return(e, IF outcome[e] = "error" THEN "other result"
                                               ELSE outcome[e])
          /\ UNCHANGED <<pipelines, args, snapshot, ranWith>>

\* LoggingMiddleware calls next and passes on what it gave.
LoggingHandles(e) ==
  /\ Handling(e, LoggingMiddleware)
  /\ IF Innermost(e).nexts = 0 THEN CallNext(e)
     ELSE Return(e, outcome[e]) /\ UNCHANGED <<pipelines, args, snapshot, ranWith>>

\* Any other middleware does what it likes; it settles with what next gave it
\* last or with something of its own.
MiddlewareHandles(e, middleware) ==
  /\ middleware # LoggingMiddleware
  /\ Handling(e, middleware)
  /\ \/ Innermost(e).nexts < MaxNext /\ CallNext(e)
     \/ /\ args' = [args EXCEPT ![Context(e)] = <<e, "replaced">>]
        /\ UNCHANGED <<pipelines, stack, outcome, snapshot, ranWith>>
     \/ /\ \E with \in Outcome \ ({"result", "error"} \ {outcome[e]}) :
             Return(e, with)
        /\ UNCHANGED <<pipelines, args, snapshot, ranWith>>

-----------------------------------------------------------------------------

Init ==
  /\ pipelines = [p \in {Root} |-> <<>>]
  /\ args = [e \in Executions |-> <<e, "given">>]
  /\ stack = [e \in Executions |-> <<>>]
  /\ outcome = [e \in Executions |-> Unsettled]
  /\ snapshot = [e \in Executions |-> <<>>]
  /\ ranWith = [e \in Executions |-> <<>>]

Next ==
  \/ \E p \in DOMAIN pipelines :
       \/ \E middleware \in Middlewares : Use(p, middleware)
       \/ \E other \in DOMAIN pipelines : UseAll(p, other)
       \/ \E new \in Pipelines : WithTarget(p, new)
       \/ \E e \in Executions : Execute(e, p)
  \/ \E e \in Executions :
       \/ RunFunction(e)
       \/ LoggingHandles(e)
       \/ \E middleware \in Middlewares : MiddlewareHandles(e, middleware)

Spec == Init /\ [][Next]_vars

-----------------------------------------------------------------------------
(* Properties *)

Handles(e) == [i \in 1..Len(stack[e]) |-> stack[e][i].link.handle]

Settled(e) == ~ Running(e) /\ outcome[e] # Unsettled

\* Whatever is added to a pipeline meanwhile, an execution goes through the
\* middlewares the pipeline had when it began, the first one outermost, and
\* reaches the function only inside all of them.
OnionOrder ==
  \A e \in Executions :
    IsPrefix(Handles(e), Append(snapshot[e], "fn"))

\* An execution's context is its own: the function is never called with the
\* arguments another execution was given or made.
ContextPrivate ==
  \A e \in Executions : \A i \in 1..Len(ranWith[e]) : ranWith[e][i][1] = e

\* Logging changes nothing: where there is no other middleware, the function
\* runs once, with the caller's arguments, and its result or its error is what
\* the caller gets.
LoggingTransparent ==
  \A e \in Executions :
    /\ Settled(e)
    /\ \A i \in 1..Len(snapshot[e]) : snapshot[e][i] = LoggingMiddleware
    => ranWith[e] = << <<e, "given">> >> /\ outcome[e] \in {"result", "error"}
=============================================================================
