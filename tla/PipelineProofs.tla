---------------------------- MODULE PipelineProofs ----------------------------
(***************************************************************************)
(* What holds of pipelines of any length and of any number of executions.   *)
(*                                                                         *)
(* The chain of an execution is a fold, so the first part proves what the   *)
(* fold computes: the recursive function under it exists (by the least      *)
(* number principle, over the number of middlewares that are left), and the *)
(* closure of each middleware has that of the one after it for its next.    *)
(* The second part is about executions.                                    *)
(***************************************************************************)
EXTENDS Pipeline, FiniteSetTheorems, WellFoundedInduction, TLAPS

(* The chain *)

\* Every set of naturals that is not empty has a least element.
LEMMA LeastNatural ==
  ASSUME NEW T \in SUBSET Nat, T # {}
  PROVE  \E m \in T : \A k \in T : m <= k
<1> DEFINE R == {pair \in Nat \X Nat : pair[1] < pair[2]}
<1>1. OpToRel(<, Nat) = R
  BY DEF OpToRel
<1>2. IsWellFoundedOn(R, Nat)
  BY <1>1, NatLessThanWellFounded
<1>3. PICK m \in T : \A y \in T : <<y, m>> \notin R
  BY <1>2, WFMin
<1>4. \A k \in T : k < m => <<k, m>> \in R
  OBVIOUS
<1>5. \A k \in T : ~ (k < m)
  BY <1>3, <1>4
<1>6. \A k \in T : m <= k
  BY <1>5
<1> QED
  BY <1>6

LEMMA MinIsLeast ==
  ASSUME NEW T \in SUBSET Nat, T # {}
  PROVE  Min(T) \in T /\ \A k \in T : Min(T) <= k
BY LeastNatural DEF Min

\* What the fold makes of the middlewares at some places, from what it makes
\* of fewer.
Step(list, g, s) ==
  IF s = {} THEN Target ELSE Link(list[Min(s)], g[s \ {Min(s)}])

\* The recursive function the fold is defined by.
Fold(list) ==
  CHOOSE g : g = [s \in SUBSET DOMAIN list |-> Step(list, g, s)]

LEMMA ChainIsFold ==
  ASSUME NEW list
  PROVE  Chain(list) = Fold(list)[DOMAIN list]
BY DEF Chain, FoldRight, MapThenFoldSet, Fold, Step, Min

LEMMA FoldExists ==
  ASSUME NEW list \in Seq(Middlewares)
  PROVE  Fold(list) = [s \in SUBSET DOMAIN list |-> Step(list, Fold(list), s)]
<1> DEFINE D == DOMAIN list
           upTo(k) == {s \in SUBSET D : Cardinality(s) <= k}
           partial(k) == \E g : g = [s \in upTo(k) |-> Step(list, g, s)]
           missing == {k \in Nat : ~ partial(k)}
<1>1. /\ D = 1..Len(list) /\ Len(list) \in Nat
      /\ IsFiniteSet(D) /\ Cardinality(D) = Len(list)
  <2>1. Len(list) \in Nat /\ D = 1..Len(list)
    OBVIOUS
  <2> QED
    BY <2>1, FS_Interval
<1>2. \A s \in SUBSET D : /\ s \in SUBSET Nat /\ IsFiniteSet(s)
                          /\ Cardinality(s) \in Nat
                          /\ Cardinality(s) <= Len(list)
  BY <1>1, FS_Subset, FS_CardinalityType
<1>3. ASSUME NEW s \in SUBSET D, s # {}
      PROVE  /\ s \ {Min(s)} \in SUBSET D
             /\ Cardinality(s \ {Min(s)}) = Cardinality(s) - 1
  BY <1>2, <1>3, MinIsLeast, FS_RemoveElement
<1>4. missing = {}
  <2> SUFFICES ASSUME missing # {} PROVE FALSE
    OBVIOUS
  <2>1. PICK m \in missing : \A k \in missing : m <= k
    BY LeastNatural
  <2>2. CASE m = 0
    <3>1. \A s \in upTo(0) : s = {}
      BY <1>2, FS_EmptySet
    <3> DEFINE g == [s \in upTo(0) |-> Target]
    <3>2. g = [s \in upTo(0) |-> Step(list, g, s)]
      BY <3>1 DEF Step
    <3> QED
      BY <2>1, <2>2, <3>2
  <2>3. CASE m # 0
    <3>1. m - 1 \in Nat /\ m - 1 \notin missing
      <4>1. m \in Nat
        BY <2>1
      <4>2. m - 1 \in Nat /\ ~ (m <= m - 1)
        BY <2>3, <4>1
      <4> HIDE DEF missing
      <4> QED
        BY <2>1, <4>2
    <3>2. PICK g : g = [s \in upTo(m - 1) |-> Step(list, g, s)]
      BY <3>1
    <3> DEFINE h == [s \in upTo(m) |-> Step(list, g, s)]
    <3>3. \A u \in upTo(m - 1) : u \in upTo(m) /\ h[u] = g[u]
      BY <1>2, <2>1, <3>1, <3>2
    <3>4. \A s \in upTo(m) : Step(list, g, s) = Step(list, h, s)
      <4> SUFFICES ASSUME NEW s \in upTo(m), s # {}
                   PROVE  g[s \ {Min(s)}] = h[s \ {Min(s)}]
        BY DEF Step
      <4>1. s \ {Min(s)} \in upTo(m - 1)
        <5>1. m \in Nat
          BY <2>1
        <5>2. s \in SUBSET D /\ Cardinality(s) \in Nat /\ Cardinality(s) <= m
          BY <1>2
        <5>3. /\ s \ {Min(s)} \in SUBSET D
              /\ Cardinality(s \ {Min(s)}) = Cardinality(s) - 1
          BY <1>3, <5>2
        <5>4. Cardinality(s) - 1 <= m - 1
          BY <5>1, <5>2
        <5> QED
          BY <5>3, <5>4
      <4> QED
        BY <3>3, <4>1
    <3>5. h = [s \in upTo(m) |-> Step(list, h, s)]
      BY <3>4
    <3> QED
      BY <2>1, <3>5
  <2> QED
    BY <2>2, <2>3
<1>5. upTo(Len(list)) = SUBSET D
  BY <1>2
<1>6. \E g : g = [s \in SUBSET D |-> Step(list, g, s)]
  <2>1. Len(list) \notin missing
    BY <1>4
  <2>2. partial(Len(list))
    BY <1>1, <2>1
  <2> HIDE DEF upTo
  <2> QED
    BY <1>5, <2>2
<1> QED
  BY <1>6 DEF Fold

\* What next is made of where the middlewares before place i were taken off.
Closure(list, i) == Fold(list)[i..Len(list)]

\* A chain starts with the closure of the first middleware, the next of each
\* closure is that of the middleware after it, and the last next is the function.
LEMMA ChainLinks ==
  ASSUME NEW list \in Seq(Middlewares)
  PROVE  /\ Chain(list) = Closure(list, 1)
         /\ \A i \in 1..Len(list) :
              Closure(list, i) = Link(list[i], Closure(list, i + 1))
         /\ Closure(list, Len(list) + 1) = Target
<1>1. Len(list) \in Nat /\ DOMAIN list = 1..Len(list)
  OBVIOUS
<1>2. \A s \in SUBSET (1..Len(list)) : Fold(list)[s] = Step(list, Fold(list), s)
  <2> DEFINE G == Fold(list)
  <2>1. G = [s \in SUBSET DOMAIN list |-> Step(list, G, s)]
    BY FoldExists
  <2> HIDE DEF G
  <2>2. \A s \in SUBSET (1..Len(list)) : G[s] = Step(list, G, s)
    BY <1>1, <2>1
  <2> QED
    BY <2>2 DEF G
<1>3. Chain(list) = Closure(list, 1)
  BY <1>1, ChainIsFold DEF Closure
<1>4. ASSUME NEW i \in 1..Len(list)
      PROVE  Closure(list, i) = Link(list[i], Closure(list, i + 1))
  <2>1. /\ i..Len(list) \in SUBSET (1..Len(list)) /\ i..Len(list) # {}
        /\ i..Len(list) \in SUBSET Nat
    BY <1>1
  <2>2. Min(i..Len(list)) = i
    <3>1. /\ Min(i..Len(list)) \in i..Len(list)
          /\ \A k \in i..Len(list) : Min(i..Len(list)) <= k
      BY <2>1, MinIsLeast
    <3>2. i \in i..Len(list)
      BY <1>1
    <3> QED
      BY <1>1, <3>1, <3>2
  <2>3. (i..Len(list)) \ {i} = (i + 1)..Len(list)
    BY <1>1
  <2> QED
    BY <1>2, <2>1, <2>2, <2>3 DEF Closure, Step
<1>5. Closure(list, Len(list) + 1) = Target
  <2>1. (Len(list) + 1)..Len(list) = {}
    BY <1>1
  <2> QED
    BY <1>2, <2>1 DEF Closure, Step
<1> QED
  BY <1>3, <1>4, <1>5

-----------------------------------------------------------------------------
(* Executions *)

\* What a call of an execution through list may look like.
Frames(list) ==
  [link : {Closure(list, i) : i \in 1..(Len(list) + 1)}, nexts : Nat]

Typed ==
  /\ \A p \in DOMAIN pipelines : pipelines[p] \in Seq(Middlewares)
  /\ args \in [Executions -> Args]
  /\ outcome \in [Executions -> Outcome \cup {Unsettled}]
  /\ snapshot \in [Executions -> Seq(Middlewares)]
  /\ ranWith \in [Executions -> Seq(Args)]
  /\ DOMAIN stack = Executions
  /\ \A e \in Executions : stack[e] \in Seq(Frames(snapshot[e]))

\* The calls of e are those of its chain, the outermost first.
Nested(e) ==
  /\ Len(stack[e]) <= Len(snapshot[e]) + 1
  /\ \A i \in 1..Len(stack[e]) : stack[e][i].link = Closure(snapshot[e], i)

\* A call that another is inside of has called next; and when next returned, e
\* has an outcome.  Before it began, e has run no function.
Awaiting(e) ==
  /\ \A i \in 1..Len(stack[e]) : i < Len(stack[e]) => stack[e][i].nexts # 0
  /\ Running(e) /\ Innermost(e).nexts # 0 => outcome[e] # Unsettled
  /\ ~ Running(e) /\ outcome[e] = Unsettled => ranWith[e] = <<>>

Private(e) ==
  /\ args[e][1] = e
  /\ \A i \in 1..Len(ranWith[e]) : ranWith[e][i][1] = e

LoggingOnly(e) ==
  \A i \in 1..Len(snapshot[e]) : snapshot[e][i] = LoggingMiddleware

\* On the way to the function every call but the innermost has called next.
Inward(e) ==
  /\ ranWith[e] = <<>> /\ outcome[e] = Unsettled
  /\ \A i \in 1..Len(stack[e]) :
       i = Len(stack[e]) => stack[e][i].nexts = 0

\* On the way back all have, and none calls it again.
Outward(e) ==
  /\ Len(stack[e]) <= Len(snapshot[e])
  /\ ranWith[e] = << <<e, "given">> >> /\ outcome[e] \in {"result", "error"}
  /\ \A i \in 1..Len(stack[e]) : stack[e][i].nexts # 0

\* Where only LoggingMiddleware is, an execution goes in once and out once.
Transparent(e) ==
  LoggingOnly(e) => args[e] = <<e, "given">> /\ (Inward(e) \/ Outward(e))

IInv ==
  /\ Typed
  /\ \A e \in Executions :
       Nested(e) /\ Awaiting(e) /\ Private(e) /\ Transparent(e)

\* An execution that a step does not concern keeps its part of the invariant.
Kept(e) ==
  /\ args'[e] = args[e] /\ stack'[e] = stack[e] /\ outcome'[e] = outcome[e]
  /\ snapshot'[e] = snapshot[e] /\ ranWith'[e] = ranWith[e]

Sound(e) == Nested(e) /\ Awaiting(e) /\ Private(e) /\ Transparent(e)

LEMMA KeptIsSound ==
  ASSUME NEW e, Sound(e), Kept(e)
  PROVE  Sound(e)'
BY DEF Kept, Sound, Nested, Awaiting, Private, Transparent, LoggingOnly, Inward,
       Outward, Running, Innermost, Last

\* The innermost call is the function's, or that of a middleware whose next is
\* the closure of those after it.
LEMMA InnermostCall ==
  ASSUME Typed, NEW e \in Executions, Nested(e), Running(e)
  PROVE  /\ snapshot[e] \in Seq(Middlewares) /\ Len(snapshot[e]) \in Nat
         /\ stack[e] \in Seq(Frames(snapshot[e]))
         /\ Len(stack[e]) \in Nat \ {0}
         /\ Innermost(e) = stack[e][Len(stack[e])]
         /\ Innermost(e) \in Frames(snapshot[e])
         /\ \/ /\ Len(stack[e]) = Len(snapshot[e]) + 1
               /\ Innermost(e).link.handle = "fn"
            \/ /\ Len(stack[e]) \in 1..Len(snapshot[e])
               /\ Innermost(e).link.handle = snapshot[e][Len(stack[e])]
               /\ Innermost(e).link.next = Closure(snapshot[e], Len(stack[e]) + 1)
<1>1. /\ snapshot[e] \in Seq(Middlewares) /\ Len(snapshot[e]) \in Nat
      /\ stack[e] \in Seq(Frames(snapshot[e]))
  BY DEF Typed
<1>2. Len(stack[e]) \in Nat \ {0}
  BY <1>1 DEF Running
<1>3. Innermost(e) = stack[e][Len(stack[e])]
  BY DEF Innermost, Last
<1>4. Innermost(e) \in Frames(snapshot[e])
  BY <1>1, <1>2, <1>3
<1>5. Innermost(e).link = Closure(snapshot[e], Len(stack[e]))
  BY <1>2, <1>3 DEF Nested
<1>6. Len(stack[e]) <= Len(snapshot[e]) + 1
  BY DEF Nested
<1>7. CASE Len(stack[e]) = Len(snapshot[e]) + 1
  <2>1. Closure(snapshot[e], Len(snapshot[e]) + 1) = Target
    BY <1>1, ChainLinks
  <2> QED
    BY <1>1, <1>2, <1>3, <1>4, <1>5, <1>7, <2>1 DEF Target
<1>8. CASE Len(stack[e]) # Len(snapshot[e]) + 1
  <2>1. Len(stack[e]) \in 1..Len(snapshot[e])
    BY <1>1, <1>2, <1>6, <1>8
  <2>2. Closure(snapshot[e], Len(stack[e]))
          = Link(snapshot[e][Len(stack[e])], Closure(snapshot[e], Len(stack[e]) + 1))
    BY <1>1, <2>1, ChainLinks
  <2> QED
    BY <1>1, <1>2, <1>3, <1>4, <1>5, <2>1, <2>2 DEF Link
<1> QED
  BY <1>7, <1>8

\* A middleware calls next: one more call, of the closure after it.
LEMMA CallNextPushes ==
  ASSUME Typed, NEW e \in Executions, Nested(e),
         NEW middleware \in Middlewares, Handling(e, middleware), CallNext(e)
  PROVE  /\ Len(stack[e]) \in 1..Len(snapshot[e])
         /\ snapshot[e][Len(stack[e])] = middleware
         /\ stack'[e] \in Seq(Frames(snapshot[e]))
         /\ Len(stack'[e]) = Len(stack[e]) + 1
         /\ \A i \in 1..Len(stack'[e]) : stack'[e][i].link = Closure(snapshot[e], i)
         /\ \A i \in 1..Len(stack[e]) :
              stack'[e][i].nexts = IF i = Len(stack[e]) THEN stack[e][i].nexts + 1
                                                        ELSE stack[e][i].nexts
         /\ stack'[e][Len(stack'[e])].nexts = 0
<1> DEFINE n == Len(stack[e])
           F == Frames(snapshot[e])
           called == [stack[e][n] EXCEPT !.nexts = @ + 1]
           before == NextCounted(stack[e])
           new == Frame(Closure(snapshot[e], n + 1))
<1>1. /\ Running(e) /\ Innermost(e).link.handle = middleware
      /\ middleware # "fn"
  BY FunctionApart DEF Handling
<1>2. /\ snapshot[e] \in Seq(Middlewares) /\ Len(snapshot[e]) \in Nat
      /\ stack[e] \in Seq(F) /\ n \in Nat \ {0} /\ stack[e][n] \in F
      /\ n \in 1..Len(snapshot[e]) /\ snapshot[e][n] = middleware
      /\ Innermost(e).link.next = Closure(snapshot[e], n + 1)
  BY <1>1, InnermostCall
<1>3. stack'[e] = Append(before, new)
  BY <1>2 DEF CallNext, Typed
<1>4. called \in F /\ called.link = stack[e][n].link
      /\ called.nexts = stack[e][n].nexts + 1
  <2> DEFINE frame == stack[e][n]
  <2>1. frame \in F
    BY <1>2
  <2> HIDE DEF frame
  <2>2. /\ [frame EXCEPT !.nexts = @ + 1] \in F
        /\ [frame EXCEPT !.nexts = @ + 1].link = frame.link
        /\ [frame EXCEPT !.nexts = @ + 1].nexts = frame.nexts + 1
    BY <2>1 DEF Frames
  <2> QED
    BY <2>2 DEF frame
<1>5. new \in F /\ new.link = Closure(snapshot[e], n + 1) /\ new.nexts = 0
  BY <1>2 DEF Frames, Frame
<1>5a. before = [stack[e] EXCEPT ![n] = called]
  BY <1>2 DEF NextCounted
<1> HIDE DEF called, new, F, before
<1>6. /\ before \in Seq(F) /\ Len(before) = n /\ before[n] = called
      /\ \A i \in 1..n : i # n => before[i] = stack[e][i]
  BY <1>2, <1>4, <1>5a
<1>7. /\ stack'[e] \in Seq(F) /\ Len(stack'[e]) = n + 1
      /\ stack'[e][n + 1] = new
      /\ \A i \in 1..n : stack'[e][i] = before[i]
  BY <1>2, <1>3, <1>5, <1>6
<1>8. \A i \in 1..n : stack[e][i].link = Closure(snapshot[e], i)
  BY DEF Nested
<1>9. \A i \in 1..(n + 1) : stack'[e][i].link = Closure(snapshot[e], i)
  <2>1. ASSUME NEW i \in 1..(n + 1), i = n + 1
        PROVE  stack'[e][i].link = Closure(snapshot[e], i)
    BY <1>5, <1>7, <2>1
  <2>2. ASSUME NEW i \in 1..(n + 1), i # n + 1
        PROVE  stack'[e][i].link = Closure(snapshot[e], i)
    <3>1. i \in 1..n
      BY <1>2, <2>2
    <3> QED
      BY <1>4, <1>6, <1>7, <1>8, <3>1
  <2> QED
    BY <2>1, <2>2
<1> QED
  BY <1>2, <1>4, <1>5, <1>6, <1>7, <1>9 DEF F

\* The innermost call settles: one call less.
LEMMA ReturnPops ==
  ASSUME Typed, NEW e \in Executions, Nested(e), Running(e),
         NEW with, Return(e, with)
  PROVE  /\ stack'[e] \in Seq(Frames(snapshot[e]))
         /\ Len(stack[e]) \in Nat \ {0}
         /\ Len(stack'[e]) = Len(stack[e]) - 1
         /\ \A i \in 1..Len(stack'[e]) : /\ i \in 1..Len(stack[e])
                                         /\ i < Len(stack[e])
                                         /\ stack'[e][i] = stack[e][i]
         /\ outcome'[e] = with
<1>1. stack[e] \in Seq(Frames(snapshot[e])) /\ Len(stack[e]) \in Nat \ {0}
  BY InnermostCall
<1>2. stack'[e] = SubSeq(stack[e], 1, Len(stack[e]) - 1)
  BY DEF Return, Front, Typed
<1>3. outcome'[e] = with
  BY DEF Return, Typed
<1> HIDE DEF Return
<1> QED
  BY <1>1, <1>2, <1>3

LEMMA InitInv ==
  ASSUME Init
  PROVE  IInv
<1>1. Typed
  BY DEF Init, Typed, Args
<1>2. ASSUME NEW e \in Executions
      PROVE  /\ args[e] = <<e, "given">> /\ stack[e] = <<>>
             /\ outcome[e] = Unsettled /\ snapshot[e] = <<>> /\ ranWith[e] = <<>>
  BY DEF Init
<1>3. ASSUME NEW e \in Executions
      PROVE  Nested(e) /\ Awaiting(e) /\ Private(e) /\ Transparent(e)
  BY <1>2 DEF Nested, Awaiting, Private, Transparent, Inward, Running
<1> QED
  BY <1>1, <1>3 DEF IInv

\* A step of one execution, or of none, leaves the others what they were.
LEMMA OneMoves ==
  ASSUME IInv, Typed', NEW e \in Executions, Sound(e)',
         \A x \in Executions \ {e} : Kept(x)
  PROVE  IInv'
<1>1. ASSUME NEW x \in Executions
      PROVE  Sound(x)'
  <2>1. Sound(x)
    BY DEF IInv, Sound
  <2>2. CASE x # e
    BY <2>1, <2>2, KeptIsSound
  <2> QED
    BY <2>2
<1> QED
  BY <1>1 DEF IInv, Sound

\* Making and extending pipelines concerns no execution.
LEMMA PipelinesGrow ==
  ASSUME IInv, NEW p \in DOMAIN pipelines,
         \/ \E middleware \in Middlewares : Use(p, middleware)
         \/ \E other \in DOMAIN pipelines : UseAll(p, other)
         \/ \E new \in Pipelines : WithTarget(p, new)
  PROVE  IInv'
<1>1. UNCHANGED <<args, stack, outcome, snapshot, ranWith>>
  BY DEF Use, UseAll, WithTarget, Extend
<1>2. \A q \in DOMAIN pipelines : pipelines[q] \in Seq(Middlewares)
  BY DEF IInv, Typed
<1>3. \A q \in DOMAIN pipelines' : pipelines'[q] \in Seq(Middlewares)
  <2>1. CASE \E middleware \in Middlewares : Use(p, middleware)
    BY <1>2, <2>1 DEF Use, Extend
  <2>2. CASE \E other \in DOMAIN pipelines : UseAll(p, other)
    BY <1>2, <2>2 DEF UseAll, Extend
  <2>3. CASE \E new \in Pipelines : WithTarget(p, new)
    BY <1>2, <2>3 DEF WithTarget
  <2> QED
    BY <2>1, <2>2, <2>3
<1>4. Typed'
  BY <1>1, <1>3 DEF IInv, Typed, Frames
<1>5. \A e \in Executions : Sound(e)'
  BY <1>1, KeptIsSound DEF IInv, Sound, Kept
<1> QED
  BY <1>4, <1>5 DEF IInv, Sound

LEMMA ExecuteInv ==
  ASSUME IInv, NEW p \in DOMAIN pipelines, NEW e \in Executions, Execute(e, p)
  PROVE  IInv'
<1> DEFINE list == pipelines[p]
           frame == Frame(Chain(list))
<1>1. Typed /\ Sound(e)
  BY DEF IInv, Sound
<1>2. list \in Seq(Middlewares) /\ Len(list) \in Nat
  BY <1>1 DEF Typed
<1>3. /\ stack' = [stack EXCEPT ![e] = <<frame>>]
      /\ args' = [args EXCEPT ![e] = <<e, "given">>]
      /\ snapshot' = [snapshot EXCEPT ![e] = list]
      /\ UNCHANGED <<pipelines, outcome, ranWith>>
      /\ ~ Running(e) /\ outcome[e] = Unsettled
  BY DEF Execute, Context, Running
<1>4. frame \in Frames(list) /\ frame.link = Closure(list, 1) /\ frame.nexts = 0
  <2>1. Chain(list) = Closure(list, 1) /\ 1 \in 1..(Len(list) + 1)
    BY <1>2, ChainLinks
  <2> QED
    BY <2>1 DEF Frame, Frames
<1> HIDE DEF frame, list
<1>5. /\ stack'[e] = <<frame>> /\ args'[e] = <<e, "given">>
      /\ snapshot'[e] = list /\ outcome'[e] = Unsettled /\ ranWith'[e] = ranWith[e]
  BY <1>1, <1>3 DEF Typed
<1>6. \A x \in Executions \ {e} : Kept(x)
  BY <1>1, <1>3 DEF Kept, Typed
<1>7. Typed'
  <2>1. \A x \in Executions : stack'[x] \in Seq(Frames(snapshot'[x]))
    <3>1. stack'[e] \in Seq(Frames(snapshot'[e]))
      BY <1>4, <1>5
    <3>2. \A x \in Executions \ {e} : stack'[x] \in Seq(Frames(snapshot'[x]))
      BY <1>1, <1>6 DEF Typed, Kept
    <3> QED
      BY <3>1, <3>2
  <2>2. args' \in [Executions -> Args]
    BY <1>1, <1>3 DEF Typed, Args
  <2>3. snapshot' \in [Executions -> Seq(Middlewares)]
    BY <1>1, <1>2, <1>3 DEF Typed
  <2>4. DOMAIN stack' = Executions
    BY <1>1, <1>3 DEF Typed
  <2>5. \A x \in Executions : (stack[x] \in Seq(Frames(snapshot[x])))'
    BY <2>1 DEF Frames
  <2> QED
    BY <1>1, <1>3, <2>2, <2>3, <2>4, <2>5 DEF Typed
<1>8. ranWith[e] = <<>>
  BY <1>1, <1>3 DEF Sound, Awaiting
<1>9. Sound(e)'
  <2>1. Len(stack'[e]) = 1 /\ stack'[e][1] = frame /\ stack'[e] # <<>>
    BY <1>5
  <2>2. Nested(e)'
    BY <1>2, <1>4, <1>5, <2>1 DEF Nested
  <2>3. Awaiting(e)'
    BY <1>4, <2>1 DEF Awaiting, Running, Innermost, Last
  <2>4. Private(e)'
    BY <1>5, <1>8 DEF Private
  <2>5. Inward(e)'
    BY <1>4, <1>5, <1>8, <2>1 DEF Inward
  <2> QED
    BY <1>5, <2>2, <2>3, <2>4, <2>5 DEF Sound, Transparent
<1> QED
  BY <1>6, <1>7, <1>9, OneMoves

\* A middleware calls next; LoggingMiddleware only once.
LEMMA CallNextInv ==
  ASSUME IInv, NEW e \in Executions,
         NEW middleware \in Middlewares, Handling(e, middleware), CallNext(e),
         middleware = LoggingMiddleware => Innermost(e).nexts = 0
  PROVE  IInv'
<1> DEFINE n == Len(stack[e])
           F == Frames(snapshot[e])
<1>1. Typed /\ Sound(e) /\ Nested(e) /\ Running(e)
  BY DEF IInv, Sound, Handling
<1>2. /\ snapshot[e] \in Seq(Middlewares) /\ Len(snapshot[e]) \in Nat
      /\ stack[e] \in Seq(F) /\ n \in Nat \ {0}
      /\ Innermost(e) = stack[e][n]
  BY <1>1, InnermostCall
<1>3. /\ n \in 1..Len(snapshot[e]) /\ snapshot[e][n] = middleware
      /\ stack'[e] \in Seq(F) /\ Len(stack'[e]) = n + 1
      /\ \A i \in 1..Len(stack'[e]) : stack'[e][i].link = Closure(snapshot[e], i)
      /\ \A i \in 1..n : stack'[e][i].nexts = IF i = n THEN stack[e][i].nexts + 1
                                                       ELSE stack[e][i].nexts
      /\ stack'[e][Len(stack'[e])].nexts = 0
  BY <1>1, CallNextPushes
<1>4. /\ outcome' = [outcome EXCEPT ![e] = Unsettled]
      /\ UNCHANGED <<pipelines, args, snapshot, ranWith>>
      /\ \A x \in Executions \ {e} : stack'[x] = stack[x]
      /\ DOMAIN stack' = Executions
  BY <1>1 DEF CallNext, Typed
<1>5. outcome'[e] = Unsettled
  BY <1>1, <1>4 DEF Typed
<1>6. \A x \in Executions \ {e} : Kept(x)
  BY <1>1, <1>4 DEF Kept, Typed
<1>7. Typed'
  <2>1. \A x \in Executions : stack'[x] \in Seq(Frames(snapshot[x]))
    BY <1>1, <1>3, <1>4 DEF Typed
  <2>2. \A x \in Executions : (stack[x] \in Seq(Frames(snapshot[x])))'
    BY <1>4, <2>1 DEF Frames
  <2>3. outcome' \in [Executions -> Outcome \cup {Unsettled}]
    BY <1>1, <1>4 DEF Typed
  <2> QED
    BY <1>1, <1>4, <2>2, <2>3 DEF Typed
<1>8. Nested(e)'
  BY <1>2, <1>3, <1>4 DEF Nested
<1>9. \A i \in 1..n : stack[e][i].nexts \in Nat
  <2>1. \A frame \in F : frame.nexts \in Nat
    BY DEF Frames
  <2> HIDE DEF F
  <2> QED
    BY <1>2, <2>1
<1>10. \A i \in 1..n : stack'[e][i].nexts # 0
  <2>1. \A i \in 1..n : i # n => stack[e][i].nexts # 0
    BY <1>1, <1>2 DEF Sound, Awaiting
  <2> QED
    BY <1>2, <1>3, <1>9, <2>1
<1>11. Awaiting(e)'
  <2>1. stack'[e] # <<>> /\ \A i \in 1..(n + 1) : i < n + 1 => i \in 1..n
    BY <1>2, <1>3
  <2> QED
    BY <1>3, <1>10, <2>1 DEF Awaiting, Running, Innermost, Last
<1>12. Private(e)'
  BY <1>1, <1>4 DEF Private, Sound
<1>13. Transparent(e)'
  <2> SUFFICES ASSUME LoggingOnly(e)'
               PROVE  args'[e] = <<e, "given">> /\ Inward(e)'
    BY DEF Transparent
  <2>1. LoggingOnly(e) /\ middleware = LoggingMiddleware
    BY <1>2, <1>3, <1>4 DEF LoggingOnly
  <2>2. stack[e][n].nexts = 0
    BY <1>2, <2>1
  <2>3. args[e] = <<e, "given">> /\ Inward(e)
    BY <1>1, <1>2, <2>1, <2>2 DEF Sound, Transparent, Outward
  <2> QED
    BY <1>3, <1>4, <1>5, <2>3 DEF Inward
<1> QED
  BY <1>6, <1>7, <1>8, <1>11, <1>12, <1>13, OneMoves DEF Sound

\* The function, or a middleware, settles with an outcome; LoggingMiddleware
\* with what next gave it.
LEMMA ReturnInv ==
  ASSUME IInv, NEW e \in Executions, Running(e),
         NEW with \in Outcome, Return(e, with),
         UNCHANGED <<pipelines, args, snapshot>>,
         \/ /\ Handling(e, "fn") /\ with \in {"result", "error"}
            /\ ranWith' = [ranWith EXCEPT ![e] = Append(@, args[e])]
         \/ /\ Handling(e, LoggingMiddleware)
            /\ Innermost(e).nexts # 0 /\ with = outcome[e]
            /\ UNCHANGED ranWith
         \/ /\ \E middleware \in Middlewares \ {LoggingMiddleware} :
                 Handling(e, middleware)
            /\ UNCHANGED ranWith
  PROVE  IInv'
<1> DEFINE n == Len(stack[e])
           F == Frames(snapshot[e])
<1>1. Typed /\ Sound(e) /\ Nested(e)
  BY DEF IInv, Sound
<1>2. /\ snapshot[e] \in Seq(Middlewares) /\ Len(snapshot[e]) \in Nat
      /\ stack[e] \in Seq(F) /\ n \in Nat \ {0}
      /\ Innermost(e) = stack[e][n]
      /\ \/ n = Len(snapshot[e]) + 1 /\ Innermost(e).link.handle = "fn"
         \/ /\ n \in 1..Len(snapshot[e])
            /\ Innermost(e).link.handle = snapshot[e][n]
  BY <1>1, InnermostCall
<1>3. /\ stack'[e] \in Seq(F) /\ Len(stack'[e]) = n - 1
      /\ \A i \in 1..Len(stack'[e]) : /\ i \in 1..n /\ i < n
                                      /\ stack'[e][i] = stack[e][i]
      /\ outcome'[e] = with
  BY <1>1, ReturnPops
<1>4. /\ outcome' = [outcome EXCEPT ![e] = with]
      /\ UNCHANGED <<pipelines, args, snapshot>>
      /\ \A x \in Executions \ {e} : stack'[x] = stack[x]
      /\ DOMAIN stack' = Executions
  BY <1>1 DEF Return, Typed
<1>5. /\ ranWith' \in [Executions -> Seq(Args)]
      /\ \A x \in Executions \ {e} : ranWith'[x] = ranWith[x]
      /\ ranWith'[e] \in {ranWith[e], Append(ranWith[e], args[e])}
  <2>1. \/ ranWith' = ranWith
        \/ ranWith' = [ranWith EXCEPT ![e] = Append(@, args[e])]
    OBVIOUS
  <2>2. ranWith \in [Executions -> Seq(Args)] /\ args[e] \in Args
    BY <1>1 DEF Typed
  <2>3. Append(ranWith[e], args[e]) \in Seq(Args)
    BY <2>2
  <2> QED
    BY <2>1, <2>2, <2>3
<1>6. \A x \in Executions \ {e} : Kept(x)
  BY <1>1, <1>4, <1>5 DEF Kept, Typed
<1>7. Typed'
  <2>1. \A x \in Executions : stack'[x] \in Seq(Frames(snapshot[x]))
    BY <1>1, <1>3, <1>4 DEF Typed
  <2>2. \A x \in Executions : (stack[x] \in Seq(Frames(snapshot[x])))'
    BY <1>4, <2>1 DEF Frames
  <2>3. outcome' \in [Executions -> Outcome \cup {Unsettled}]
    BY <1>1, <1>4 DEF Typed
  <2> QED
    BY <1>1, <1>4, <1>5, <2>2, <2>3 DEF Typed
<1>8. Nested(e)'
  <2>1. n - 1 <= Len(snapshot[e]) + 1
    BY <1>1, <1>2 DEF Nested
  <2>2. \A i \in 1..n : stack[e][i].link = Closure(snapshot[e], i)
    BY <1>1 DEF Nested
  <2>3. \A i \in 1..Len(stack'[e]) : stack'[e][i].link = Closure(snapshot[e], i)
    BY <1>3, <2>2
  <2> QED
    BY <1>3, <1>4, <2>1, <2>3 DEF Nested
<1>9. \A i \in 1..Len(stack'[e]) : stack'[e][i].nexts # 0
  BY <1>1, <1>3 DEF Sound, Awaiting
<1>10. outcome'[e] # Unsettled
  BY <1>3 DEF Outcome, Unsettled
<1>11. Awaiting(e)'
  BY <1>9, <1>10 DEF Awaiting
<1>12. Private(e)'
  <2>1. args[e][1] = e /\ \A i \in 1..Len(ranWith[e]) : ranWith[e][i][1] = e
    BY <1>1 DEF Sound, Private
  <2>2. \A i \in 1..Len(ranWith'[e]) : ranWith'[e][i][1] = e
    <3>1. ranWith[e] \in Seq(Args) /\ args[e] \in Args
      BY <1>1 DEF Typed
    <3>2. CASE ranWith'[e] = ranWith[e]
      BY <2>1, <3>2
    <3>3. CASE ranWith'[e] = Append(ranWith[e], args[e])
      BY <2>1, <3>1, <3>3
    <3> QED
      BY <1>5, <3>2, <3>3
  <2> QED
    BY <1>4, <2>1, <2>2 DEF Private
<1>13. Transparent(e)'
  <2> SUFFICES ASSUME LoggingOnly(e)'
               PROVE  args'[e] = <<e, "given">> /\ Outward(e)'
    BY DEF Transparent
  <2>1. LoggingOnly(e)
    BY <1>4 DEF LoggingOnly
  <2>2. args[e] = <<e, "given">> /\ (Inward(e) \/ Outward(e))
    BY <1>1, <2>1 DEF Sound, Transparent
  <2>3. Len(stack'[e]) <= Len(snapshot'[e])
    BY <1>1, <1>2, <1>3, <1>4 DEF Nested
  <2>4. CASE Handling(e, "fn")
    <3>1. Innermost(e).link.handle = "fn"
      BY <2>4 DEF Handling
    <3>2. n = Len(snapshot[e]) + 1
      BY <1>2, <3>1, FunctionApart
    <3>3. Inward(e)
      BY <1>2, <2>2, <3>2 DEF Outward
    <3>4. with \in {"result", "error"} /\ ranWith'[e] = Append(<<>>, args[e])
      <4>1. LoggingMiddleware # "fn" /\ \A m \in Middlewares : m # "fn"
        BY FunctionApart, LoggingAndRoot
      <4>2. /\ with \in {"result", "error"}
            /\ ranWith' = [ranWith EXCEPT ![e] = Append(@, args[e])]
        BY <3>1, <4>1 DEF Handling
      <4> QED
        BY <1>1, <3>3, <4>2 DEF Inward, Typed
    <3>5. ranWith'[e] = << <<e, "given">> >>
      BY <2>2, <3>4
    <3> QED
      BY <1>3, <1>4, <1>9, <2>2, <2>3, <3>4, <3>5 DEF Outward
  <2>5. CASE ~ Handling(e, "fn")
    <3>1. /\ n \in 1..Len(snapshot[e])
          /\ Innermost(e).link.handle = snapshot[e][n]
      BY <1>2, <2>5 DEF Handling
    <3>2. Innermost(e).link.handle = LoggingMiddleware
      BY <2>1, <3>1 DEF LoggingOnly
    <3>3. /\ Innermost(e).nexts # 0 /\ with = outcome[e] /\ UNCHANGED ranWith
      BY <2>5, <3>2 DEF Handling
    <3>4. Outward(e)
      BY <1>2, <2>2, <3>3 DEF Inward
    <3> QED
      BY <1>3, <1>4, <1>9, <2>2, <2>3, <3>3, <3>4 DEF Outward
  <2> QED
    BY <2>4, <2>5
<1> QED
  BY <1>6, <1>7, <1>8, <1>11, <1>12, <1>13, OneMoves DEF Sound

\* A middleware gives the execution other arguments.
LEMMA ReplaceInv ==
  ASSUME IInv, NEW e \in Executions,
         NEW middleware \in Middlewares \ {LoggingMiddleware},
         Handling(e, middleware),
         args' = [args EXCEPT ![e] = <<e, "replaced">>],
         UNCHANGED <<pipelines, stack, outcome, snapshot, ranWith>>
  PROVE  IInv'
<1>1. Typed /\ Sound(e) /\ Nested(e) /\ Running(e)
  BY DEF IInv, Sound, Handling
<1>2. args'[e] = <<e, "replaced">>
  BY <1>1 DEF Typed
<1>3. \A x \in Executions \ {e} : Kept(x)
  BY <1>1 DEF Kept, Typed
<1>4. Typed'
  <2>1. args' \in [Executions -> Args]
    BY <1>1 DEF Typed, Args
  <2> QED
    <3>1. \A x \in Executions : stack[x] \in Seq(Frames(snapshot[x]))
      BY <1>1 DEF Typed
    <3>2. \A x \in Executions : (stack[x] \in Seq(Frames(snapshot[x])))'
      BY <3>1 DEF Frames
    <3> QED
      BY <1>1, <2>1, <3>2 DEF Typed
<1>5. Nested(e)' /\ Awaiting(e)' /\ Private(e)'
  BY <1>1, <1>2 DEF Sound, Nested, Awaiting, Private, Running, Innermost
<1>6. ~ LoggingOnly(e)'
  <2>1. /\ Innermost(e).link.handle = middleware /\ middleware # "fn"
    BY FunctionApart DEF Handling
  <2>2. /\ Len(stack[e]) \in 1..Len(snapshot[e])
        /\ snapshot[e][Len(stack[e])] = middleware
    BY <1>1, <2>1, InnermostCall
  <2> QED
    BY <2>2 DEF LoggingOnly
<1> QED
  BY <1>3, <1>4, <1>5, <1>6, OneMoves DEF Sound, Transparent

LEMMA NextInv ==
  ASSUME IInv, [Next]_vars
  PROVE  IInv'
<1>1. CASE UNCHANGED vars
  <2>1. Typed'
    BY <1>1 DEF vars, IInv, Typed, Frames
  <2>2. \A e \in Executions : Sound(e)'
    BY <1>1, KeptIsSound DEF vars, IInv, Sound, Kept
  <2> QED
    BY <2>1, <2>2 DEF IInv, Sound
<1>2. ASSUME NEW p \in DOMAIN pipelines,
             \/ \E middleware \in Middlewares : Use(p, middleware)
             \/ \E other \in DOMAIN pipelines : UseAll(p, other)
             \/ \E new \in Pipelines : WithTarget(p, new)
      PROVE  IInv'
  BY <1>2, PipelinesGrow
<1>3. ASSUME NEW p \in DOMAIN pipelines, NEW e \in Executions, Execute(e, p)
      PROVE  IInv'
  BY <1>3, ExecuteInv
<1>4. ASSUME NEW e \in Executions, RunFunction(e)
      PROVE  IInv'
  <2>1. PICK with \in {"result", "error"} : Return(e, with)
    BY <1>4 DEF RunFunction
  <2>2. /\ Handling(e, "fn") /\ Running(e) /\ with \in Outcome
        /\ UNCHANGED <<pipelines, args, snapshot>>
        /\ ranWith' = [ranWith EXCEPT ![e] = Append(@, args[e])]
    BY <1>4 DEF RunFunction, Context, Outcome, Handling
  <2> QED
    BY <2>1, <2>2, ReturnInv
<1>5. ASSUME NEW e \in Executions, LoggingHandles(e)
      PROVE  IInv'
  <2>1. Handling(e, LoggingMiddleware) /\ Running(e)
    BY <1>5 DEF LoggingHandles, Handling
  <2>2. CASE Innermost(e).nexts = 0
    BY <1>5, <2>1, <2>2, CallNextInv, LoggingAndRoot DEF LoggingHandles
  <2>3. CASE Innermost(e).nexts # 0
    <3>1. Return(e, outcome[e]) /\ UNCHANGED <<pipelines, args, snapshot, ranWith>>
      BY <1>5, <2>3 DEF LoggingHandles
    <3>2. outcome[e] \in Outcome
      BY <2>1, <2>3 DEF IInv, Typed, Awaiting
    <3> QED
      BY <2>1, <2>3, <3>1, <3>2, ReturnInv
  <2> QED
    BY <2>2, <2>3
<1>6. ASSUME NEW e \in Executions, NEW middleware \in Middlewares,
             MiddlewareHandles(e, middleware)
      PROVE  IInv'
  <2>1. /\ middleware \in Middlewares \ {LoggingMiddleware}
        /\ Handling(e, middleware) /\ Running(e)
    BY <1>6 DEF MiddlewareHandles, Handling
  <2>2. CASE CallNext(e)
    BY <2>1, <2>2, CallNextInv
  <2>3. CASE /\ args' = [args EXCEPT ![e] = <<e, "replaced">>]
             /\ UNCHANGED <<pipelines, stack, outcome, snapshot, ranWith>>
    BY <2>1, <2>3, ReplaceInv
  <2>4. CASE /\ \E with \in Outcome : Return(e, with)
             /\ UNCHANGED <<pipelines, args, snapshot, ranWith>>
    BY <2>1, <2>4, ReturnInv
  <2> QED
    BY <1>6, <2>2, <2>3, <2>4 DEF MiddlewareHandles, Context
<1> QED
  BY <1>1, <1>2, <1>3, <1>4, <1>5, <1>6 DEF Next

\* The calls of every execution are those of the pipeline it began with, and
\* where only LoggingMiddleware is, they go in once and out once.
THEOREM Invariance == Spec => []IInv
<1>1. Init => IInv
  BY InitInv
<1>2. IInv /\ [Next]_vars => IInv'
  BY NextInv
<1> QED
  BY <1>1, <1>2, PTL DEF Spec

\* PipelineExecutor goes through the middlewares the pipeline had when the
\* execution began, in their order, and reaches the function inside all of
\* them, however long the pipeline is and whatever is added to it meanwhile.
THEOREM OnionKept == Spec => []OnionOrder
<1>1. ASSUME IInv
      PROVE  OnionOrder
  <2> SUFFICES ASSUME NEW e \in Executions
               PROVE  IsPrefix(Handles(e), Append(snapshot[e], "fn"))
    BY DEF OnionOrder
  <2> DEFINE n == Len(stack[e])
             list == snapshot[e]
             onion == Append(list, "fn")
  <2>1. Typed /\ Nested(e)
    BY <1>1 DEF IInv
  <2>2. /\ list \in Seq(Middlewares) /\ Len(list) \in Nat
        /\ stack[e] \in Seq(Frames(list)) /\ n \in Nat
    BY <2>1 DEF Typed
  <2>3. n <= Len(list) + 1 /\ \A i \in 1..n : stack[e][i].link = Closure(list, i)
    BY <2>1 DEF Nested
  <2>4. \A i \in 1..n : Handles(e)[i] = onion[i]
    <3> SUFFICES ASSUME NEW i \in 1..n
                 PROVE  Handles(e)[i] = onion[i]
      OBVIOUS
    <3>1. Handles(e)[i] = Closure(list, i).handle
      BY <2>3 DEF Handles
    <3>2. CASE i \in 1..Len(list)
      <4>1. Closure(list, i) = Link(list[i], Closure(list, i + 1))
        BY <2>2, <3>2, ChainLinks
      <4> QED
        BY <2>2, <3>1, <3>2, <4>1 DEF Link
    <3>3. CASE i = Len(list) + 1
      <4>1. Closure(list, Len(list) + 1) = Target
        BY <2>2, ChainLinks
      <4> QED
        BY <2>2, <3>1, <3>3, <4>1 DEF Target
    <3> QED
      BY <2>2, <2>3, <3>2, <3>3
  <2>5. Len(Handles(e)) = n /\ DOMAIN Handles(e) = 1..n
    BY <2>2 DEF Handles
  <2>6. Len(onion) = Len(list) + 1
    BY <2>2
  <2>7. SubSeq(Handles(e), 1, n) = [i \in 1..n |-> Handles(e)[i]]
    BY <2>2, <2>5
  <2>8. SubSeq(onion, 1, n) = [i \in 1..n |-> onion[i]]
    BY <2>2, <2>3, <2>6
  <2> HIDE DEF onion, n
  <2> QED
    BY <2>3, <2>4, <2>5, <2>6, <2>7, <2>8 DEF IsPrefix, onion
<1> QED
  BY <1>1, Invariance, PTL

\* The function is called with arguments of its own execution only: each has a
\* PipelineContext of its own.
THEOREM ContextsPrivate == Spec => []ContextPrivate
<1>1. IInv => ContextPrivate
  BY DEF IInv, Private, ContextPrivate
<1> QED
  BY <1>1, Invariance, PTL

\* Where LoggingMiddleware is the only middleware, an execution that settled ran
\* the function once, with the caller's arguments, and gives what it gave.
THEOREM LoggingUnseen == Spec => []LoggingTransparent
<1>1. IInv => LoggingTransparent
  BY DEF IInv, Transparent, LoggingOnly, Inward, Outward, LoggingTransparent,
         Settled
<1> QED
  BY <1>1, Invariance, PTL
=============================================================================
