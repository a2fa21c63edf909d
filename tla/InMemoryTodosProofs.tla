------------------------- MODULE InMemoryTodosProofs -------------------------
(***************************************************************************)
(* The use cases over the in-memory repository, for any number of calls:    *)
(* the queue of microtasks holds every waiting call once, the event loop    *)
(* takes only steps the port allows, and of several writers of one todo the *)
(* one that was invoked last decides what becomes of it.                    *)
(***************************************************************************)
EXTENDS InMemoryTodos, TodoUseCasesProofs

-----------------------------------------------------------------------------
(* Sequences without repetition *)

\* Appending what is not there yet.
LEMMA AppendDistinct ==
  ASSUME NEW S, NEW q \in Seq(S), IsInjective(q), NEW e \in S, e \notin ToSet(q)
  PROVE  /\ Append(q, e) \in Seq(S)
         /\ IsInjective(Append(q, e))
         /\ ToSet(Append(q, e)) = ToSet(q) \cup {e}
<1> DEFINE r == Append(q, e)
<1>1. /\ r \in Seq(S) /\ Len(r) = Len(q) + 1 /\ Len(q) \in Nat
      /\ \A i \in 1..Len(q) : r[i] = q[i]
      /\ r[Len(q) + 1] = e
      /\ DOMAIN r = 1..(Len(q) + 1) /\ DOMAIN q = 1..Len(q)
  OBVIOUS
<1> HIDE DEF r
<1>2. IsInjective(r)
  BY <1>1 DEF IsInjective, ToSet
<1>3. ToSet(r) = ToSet(q) \cup {e}
  <2>1. ASSUME NEW i \in DOMAIN r PROVE r[i] \in ToSet(q) \cup {e}
    BY <1>1 DEF ToSet
  <2>2. ASSUME NEW i \in DOMAIN q PROVE q[i] \in ToSet(r)
    BY <1>1 DEF ToSet
  <2>3. e \in ToSet(r)
    BY <1>1 DEF ToSet
  <2> QED
    BY <2>1, <2>2, <2>3 DEF ToSet
<1> QED
  BY <1>1, <1>2, <1>3 DEF r

\* Taking the first element off.
LEMMA TailDistinct ==
  ASSUME NEW S, NEW q \in Seq(S), q # <<>>, IsInjective(q)
  PROVE  /\ Head(q) \in S
         /\ Tail(q) \in Seq(S)
         /\ IsInjective(Tail(q))
         /\ ToSet(Tail(q)) = ToSet(q) \ {Head(q)}
         /\ Head(q) \in ToSet(q)
<1> DEFINE r == Tail(q)
<1>1. /\ r \in Seq(S) /\ Len(r) = Len(q) - 1 /\ Len(q) \in Nat \ {0}
      /\ \A i \in 1..Len(r) : r[i] = q[i + 1]
      /\ Head(q) = q[1] /\ q[1] \in S
      /\ DOMAIN r = 1..(Len(q) - 1) /\ DOMAIN q = 1..Len(q)
  OBVIOUS
<1> HIDE DEF r
<1>2. IsInjective(r)
  BY <1>1 DEF IsInjective
<1>3. Head(q) \in ToSet(q)
  BY <1>1 DEF ToSet
<1>4. ToSet(r) = ToSet(q) \ {Head(q)}
  <2>1. ASSUME NEW i \in DOMAIN r PROVE r[i] \in ToSet(q) \ {Head(q)}
    BY <1>1 DEF ToSet, IsInjective
  <2>2. ASSUME NEW i \in DOMAIN q, q[i] # Head(q) PROVE q[i] \in ToSet(r)
    <3>1. i - 1 \in DOMAIN r /\ r[i - 1] = q[i]
      BY <1>1, <2>2
    <3> QED
      BY <3>1 DEF ToSet
  <2> QED
    BY <2>1, <2>2 DEF ToSet
<1> QED
  BY <1>1, <1>2, <1>3, <1>4 DEF r

-----------------------------------------------------------------------------
(***************************************************************************)
(* The invariant.  A create writes in the segment that is invoked; every    *)
(* other writer reads then and writes in its first microtask.  The queue    *)
(* keeps first microtasks in the order of invocation, so the writers of one *)
(* todo act in the order in which they were invoked: those that have acted  *)
(* were invoked before those that will.                                     *)
(***************************************************************************)

Waits == {"found", "missing", "write"}

FirstWaits == {"found", "missing"}

\* c was invoked before d.
Before(c, d) ==
  \E i, j \in DOMAIN invoked : i < j /\ invoked[i] = c /\ invoked[j] = d

QueueOK ==
  /\ microtasks \in Seq(Calls) /\ IsInjective(microtasks)
  /\ invoked \in Seq(Calls) /\ IsInjective(invoked)
  /\ \A c \in Calls : c \in ToSet(microtasks) <=> pc[c] \in Waits
  /\ \A c \in Calls : c \in ToSet(invoked) <=> pc[c] # "idle"

\* First microtasks are queued in the order of invocation.
InOrder ==
  \A i, j \in DOMAIN microtasks :
    /\ i < j
    /\ pc[microtasks[i]] \in FirstWaits
    /\ pc[microtasks[j]] \in FirstWaits
    => Before(microtasks[i], microtasks[j])

\* What a call that has written shows or will show.
Wrote(c) == IF pc[c] = "write" THEN held[c] ELSE answer[c].todos

HasActed(c, id) ==
  /\ pc[c] \in {"write", "answered"}
  /\ answer[c].error = "none"
  /\ \/ /\ command[c].op \in {"create", "update", "complete"}
        /\ \E todo \in Wrote(c) : todo.id = id
     \/ command[c].op = "delete" /\ command[c].id = id

WillAct(c, id) ==
  /\ pc[c] = "found"
  /\ command[c].op \in {"update", "complete", "delete"}
  /\ command[c].id = id

\* What became of the todo is what c made of it.
Decides(c, id) ==
  IF command[c].op = "delete" THEN id \notin Stored
  ELSE id \in Stored /\ Wrote(c) = {store[id]}

LastDecides(id) ==
  \E last \in Calls :
    /\ HasActed(last, id)
    /\ Decides(last, id)
    /\ \A c \in Calls \ {last} : HasActed(c, id) => Before(c, last)

WritersOK ==
  \A id \in Ids :
    /\ \A c \in Calls : HasActed(c, id) \/ WillAct(c, id) => id \in DOMAIN issued
    /\ \A c, d \in Calls : HasActed(c, id) /\ WillAct(d, id) => Before(c, d)
    /\ id \in DOMAIN issued => LastDecides(id)

LoopInv ==
  /\ IInv
  /\ QueueOK
  /\ InOrder
  /\ WritersOK

-----------------------------------------------------------------------------
(* The four kinds of segment, as far as writers are concerned *)

SameRow(id) ==
  /\ id \in Stored <=> id \in Stored'
  /\ id \in Stored => store'[id] = store[id]

\* c is refused, answers a query, finds nothing or answers what it wrote.
Quiet(c) ==
  /\ UNCHANGED <<store, issued>>
  /\ \A id : /\ ~ WillAct(c, id)'
             /\ HasActed(c, id)' <=> HasActed(c, id)
             /\ HasActed(c, id) => (Decides(c, id)' <=> Decides(c, id))

\* c is invoked and reads.
Looks(c) ==
  /\ UNCHANGED <<store, issued>>
  /\ pc[c] = "idle"
  /\ \A id : /\ WillAct(c, id)' => id \in Stored
             /\ ~ HasActed(c, id)'

\* c is invoked and creates the todo with this id.
Creates(c, new) ==
  /\ pc[c] = "idle"
  /\ new \in Ids \ DOMAIN issued
  /\ DOMAIN issued' = DOMAIN issued \cup {new}
  /\ Decides(c, new)'
  /\ \A id : /\ ~ WillAct(c, id)'
             /\ HasActed(c, id)' <=> id = new
             /\ id # new => SameRow(id)

\* c writes or removes the todo with this id.
Acts(c, its) ==
  /\ WillAct(c, its)
  /\ UNCHANGED issued
  /\ Decides(c, its)'
  /\ \A id : /\ ~ WillAct(c, id)'
             /\ HasActed(c, id)' <=> id = its
             /\ id # its => SameRow(id)

\* A segment that settles its call with an error.
LEMMA FailureQuiet ==
  ASSUME IInv, NEW c \in Calls, pc[c] \notin {"write", "answered"},
         NEW kind \in ErrorKind, Settle(c, Fail(kind)),
         UNCHANGED <<store, issued>>
  PROVE  Quiet(c)
<1>1. pc'[c] = "answered" /\ answer'[c].error = kind /\ kind # "none"
  BY DEF Settle, Fail, ErrorKind, IInv, TypeOK
<1> QED
  BY <1>1 DEF Quiet, WillAct, HasActed

LEMMA QueryQuiet ==
  ASSUME IInv, NEW c \in Calls, GetAnswers(c) \/ ListAnswers(c)
  PROVE  Quiet(c)
<1>1. /\ pc[c] = "found" /\ pc'[c] = "answered"
      /\ command'[c] = command[c] /\ command[c].op \in {"get", "list"}
      /\ UNCHANGED <<store, issued>>
  BY DEF GetAnswers, ListAnswers, Resumed, Settle, IInv, TypeOK
<1> QED
  BY <1>1 DEF Quiet, WillAct, HasActed

LEMMA WrittenQuiet ==
  ASSUME IInv, NEW c \in Calls, Written(c)
  PROVE  Quiet(c)
<1>1. /\ pc[c] = "write" /\ pc'[c] = "answered"
      /\ command'[c] = command[c]
      /\ answer[c].error = "none"
      /\ answer'[c].error = "none" /\ answer'[c].todos = held[c]
      /\ UNCHANGED <<store, issued>>
  BY DEF Written, Settle, Ok, Fail, IInv, TypeOK, CallsInStep
<1>2. Wrote(c)' = Wrote(c)
  BY <1>1 DEF Wrote
<1> QED
  BY <1>1, <1>2 DEF Quiet, WillAct, HasActed, Decides, Stored

\* Reading segments: a writer that will act found its todo.
LEMMA ReadingLooks ==
  ASSUME IInv, NEW c \in Calls, NEW cmd \in Commands,
         Lookup(c, cmd) \/ CheckExists(c, cmd) \/ ListReads(c, cmd)
  PROVE  Looks(c) /\ pc'[c] \in FirstWaits
<1>1. /\ pc[c] = "idle" /\ command'[c] = cmd /\ UNCHANGED <<store, issued>>
  BY DEF Lookup, CheckExists, ListReads, Given, IInv, TypeOK
<1>2. /\ pc'[c] \in FirstWaits
      /\ cmd.op # "list" /\ pc'[c] = "found" => cmd.id \in Stored
  <2>1. CASE Lookup(c, cmd)
    <3>1. Readable(WithId(cmd.id))
      BY ReadOK DEF WithId
    <3>2. pc'[c] = FoundIf(WithId(cmd.id) # {})
      BY <2>1, <3>1 DEF Lookup, Suspend, IInv, TypeOK
    <3> QED
      BY <3>2 DEF FoundIf, WithId, FirstWaits
  <2>2. CASE CheckExists(c, cmd)
    BY <2>2 DEF CheckExists, Suspend, FoundIf, FirstWaits, IInv, TypeOK
  <2>3. CASE ListReads(c, cmd)
    <3> DEFINE ids == IF cmd.status \in {Undefined, Null} THEN Stored
                      ELSE WithStatus(UpperCase(cmd.status))
    <3>1. Readable(ids)
      BY ReadOK DEF WithStatus
    <3> QED
      BY <2>3, <3>1 DEF ListReads, Suspend, FirstWaits, IInv, TypeOK
  <2> QED
    BY <2>1, <2>2, <2>3
<1> QED
  BY <1>1, <1>2 DEF Looks, WillAct, HasActed, FirstWaits

LEMMA CreateCreates ==
  ASSUME IInv, NEW c \in Calls, NEW cmd \in Commands, CreateSaves(c, cmd)
  PROVE  \E new \in Ids : Creates(c, new)
<1>1. /\ pc[c] = "idle" /\ command'[c] = cmd /\ cmd.op = "create"
      /\ answer[c].error = "none"
  BY DEF CreateSaves, Given, Fail, IInv, TypeOK, CallsInStep
<1>2. PICK new \in Ids \ DOMAIN issued :
        LET todo == CreateTodo(new, cmd.title, cmd.description, clock) IN
        /\ issued' = [i \in DOMAIN issued \cup {new} |->
                        IF i = new THEN clock ELSE issued[i]]
        /\ MapSet(todo)
        /\ Suspend(c, "write", {todo})
  BY DEF CreateSaves
<1>3. PICK todo : todo = CreateTodo(new, cmd.title, cmd.description, clock)
  OBVIOUS
<1>4. todo.id = new /\ MapSet(todo)
  BY <1>2, <1>3 DEF CreateTodo
<1>5. pc'[c] = "write" /\ Wrote(c)' = {todo} /\ answer'[c].error = "none"
  BY <1>1, <1>2, <1>3 DEF Suspend, Wrote, IInv, TypeOK
<1>6. /\ new \in Stored' /\ store'[new] = todo
      /\ \A id : id # new => SameRow(id)
  BY <1>4 DEF MapSet, SameRow, Stored
<1> QED
  BY <1>1, <1>2, <1>4, <1>5, <1>6 DEF Creates, Decides, WillAct, HasActed

LEMMA WriterActs ==
  ASSUME IInv, NEW c \in Calls, PatchWrites(c) \/ CompleteWrites(c)
  PROVE  Acts(c, command[c].id)
<1>1. /\ pc[c] = "found" /\ command[c].op \in {"update", "complete"}
      /\ command'[c] = command[c] /\ UNCHANGED issued
      /\ answer[c].error = "none"
  BY DEF PatchWrites, CompleteWrites, Resumed, Fail, IInv, TypeOK, CallsInStep
<1>2. PICK todo \in Todo : /\ MapSet(todo) /\ Suspend(c, "write", {todo})
                           /\ todo.id = command[c].id
  BY HolderWrites
<1>3. pc'[c] = "write" /\ Wrote(c)' = {todo} /\ answer'[c].error = "none"
  BY <1>1, <1>2 DEF Suspend, Wrote, IInv, TypeOK
<1>4. /\ todo.id \in Stored' /\ store'[todo.id] = todo
      /\ \A id : id # todo.id => SameRow(id)
  BY <1>2 DEF MapSet, SameRow, Stored
<1> QED
  BY <1>1, <1>2, <1>3, <1>4 DEF Acts, Decides, WillAct, HasActed

LEMMA DeleteActs ==
  ASSUME IInv, NEW c \in Calls, DeleteRemoves(c)
  PROVE  Acts(c, command[c].id)
<1>1. /\ pc[c] = "found" /\ command[c].op = "delete"
      /\ command'[c] = command[c] /\ UNCHANGED issued
      /\ answer[c].error = "none"
  BY DEF DeleteRemoves, Resumed, Fail, IInv, TypeOK, CallsInStep
<1>2. pc'[c] = "write" /\ answer'[c].error = "none"
  BY <1>1 DEF DeleteRemoves, Suspend, IInv, TypeOK
<1>3. /\ command[c].id \notin Stored'
      /\ \A id : id # command[c].id => SameRow(id)
  BY DEF DeleteRemoves, MapDelete, SameRow, Stored
<1> QED
  BY <1>1, <1>2, <1>3 DEF Acts, Decides, WillAct, HasActed

LEMMA InvokeKinds ==
  ASSUME IInv, NEW c \in Calls, Invoke(c)
  PROVE  /\ pc[c] = "idle" /\ pc'[c] # "idle"
         /\ \/ Quiet(c)
            \/ Looks(c)
            \/ \E new \in Ids : Creates(c, new)
<1>1. PICK cmd \in Commands : Execute(c, cmd)
  BY DEF Invoke
<1>2. pc[c] = "idle"
  BY <1>1 DEF Execute, CreateRefused, CreateSaves, IdRefused, Lookup,
              CheckExists, ListReads, Given
<1>3. CASE CreateRefused(c, cmd)
  BY <1>2, <1>3, FailureQuiet, ActsAreDone DEF CreateRefused, ErrorKind
<1>4. CASE IdRefused(c, cmd)
  BY <1>2, <1>4, FailureQuiet, ActsAreDone DEF IdRefused, ErrorKind
<1>5. CASE CreateSaves(c, cmd)
  BY <1>2, <1>5, CreateCreates, ActsAreDone
<1>6. CASE Lookup(c, cmd) \/ CheckExists(c, cmd) \/ ListReads(c, cmd)
  BY <1>2, <1>6, ReadingLooks DEF FirstWaits
<1> QED
  BY <1>1, <1>3, <1>4, <1>5, <1>6 DEF Execute

LEMMA ResumeKinds ==
  ASSUME IInv, NEW c \in Calls, Resume(c)
  PROVE  Quiet(c) \/ Acts(c, command[c].id)
<1>1. CASE NotFound(c)
  BY <1>1, FailureQuiet DEF NotFound, ErrorKind
<1>2. CASE PatchRefused(c)
  <2>1. PatchError(command[c]) \in ErrorKind
    BY <1>2 DEF PatchRefused, PatchError, ErrorKind
  <2> QED
    BY <1>2, <2>1, FailureQuiet DEF PatchRefused, Resumed
<1> QED
  BY <1>1, <1>2, QueryQuiet, WrittenQuiet, WriterActs, DeleteActs DEF Resume

-----------------------------------------------------------------------------
(* The writers stay in order *)

\* Calls that a step leaves alone.
LEMMA UntouchedWriter ==
  ASSUME NEW d \in Calls, Untouched(d), NEW id
  PROVE  /\ HasActed(d, id)' <=> HasActed(d, id)
         /\ WillAct(d, id)' <=> WillAct(d, id)
         /\ SameRow(id) => (Decides(d, id)' <=> Decides(d, id))
<1>1. Wrote(d)' = Wrote(d)
  BY DEF Untouched, Wrote
<1> QED
  BY <1>1 DEF Untouched, HasActed, WillAct, Decides, SameRow

\* The writer that decided still does when a step changes no writer of the
\* todo and no row.
LEMMA DecisionStands ==
  ASSUME NEW id, LastDecides(id), SameRow(id),
         \A a, b \in Calls : Before(a, b) => Before(a, b)',
         \A d \in Calls : HasActed(d, id)' <=> HasActed(d, id),
         \A d \in Calls :
           HasActed(d, id) /\ Decides(d, id) => Decides(d, id)'
  PROVE  LastDecides(id)'
BY DEF LastDecides

\* A call that has just decided, after every other writer, is the last.
LEMMA DecisionTaken ==
  ASSUME NEW id, NEW c \in Calls, HasActed(c, id)', Decides(c, id)',
         \A d \in Calls \ {c} : HasActed(d, id)' => Before(d, c)'
  PROVE  LastDecides(id)'
BY DEF LastDecides

LEMMA QuietWriters ==
  ASSUME WritersOK, NEW c \in Calls, Quiet(c),
         \A d \in Calls \ {c} : Untouched(d),
         \A a, b \in Calls : Before(a, b) => Before(a, b)'
  PROVE  WritersOK'
<1> SUFFICES ASSUME NEW id \in Ids PROVE WritersOK!(id)'
  BY DEF WritersOK
<1>1. SameRow(id) /\ UNCHANGED issued
  BY DEF Quiet, SameRow, Stored
<1>2. \A d \in Calls : /\ HasActed(d, id)' <=> HasActed(d, id)
                       /\ WillAct(d, id)' => WillAct(d, id)
                       /\ HasActed(d, id) /\ Decides(d, id) => Decides(d, id)'
  BY <1>1, UntouchedWriter DEF Quiet
<1>3. id \in DOMAIN issued' => LastDecides(id)'
  BY <1>1, <1>2, DecisionStands DEF WritersOK
<1> QED
  BY <1>1, <1>2, <1>3 DEF WritersOK

LEMMA LookingWriters ==
  ASSUME IInv, WritersOK, NEW c \in Calls, Looks(c),
         \A d \in Calls \ {c} : Untouched(d),
         \A a, b \in Calls : Before(a, b) => Before(a, b)',
         \A a \in Calls : pc[a] # "idle" => Before(a, c)'
  PROVE  WritersOK'
<1> SUFFICES ASSUME NEW id \in Ids PROVE WritersOK!(id)'
  BY DEF WritersOK
<1>1. SameRow(id) /\ UNCHANGED issued
  BY DEF Looks, SameRow, Stored
<1>2. ~ HasActed(c, id) /\ ~ HasActed(c, id)' /\ ~ WillAct(c, id)
  BY DEF Looks, HasActed, WillAct
<1>3. WillAct(c, id)' => id \in DOMAIN issued
  BY DEF Looks, IInv, RowsCurrent, Current
<1>4. \A d \in Calls : /\ HasActed(d, id)' <=> HasActed(d, id)
                       /\ d # c => (WillAct(d, id)' <=> WillAct(d, id))
                       /\ HasActed(d, id) /\ Decides(d, id) => Decides(d, id)'
  BY <1>1, <1>2, UntouchedWriter
<1>5. id \in DOMAIN issued' => LastDecides(id)'
  BY <1>1, <1>4, DecisionStands DEF WritersOK
<1>6. \A d \in Calls : HasActed(d, id) => pc[d] # "idle"
  BY DEF HasActed
<1> QED
  BY <1>1, <1>2, <1>3, <1>4, <1>5, <1>6 DEF WritersOK

LEMMA CreatingWriters ==
  ASSUME WritersOK, NEW c \in Calls, NEW new \in Ids, Creates(c, new),
         \A d \in Calls \ {c} : Untouched(d),
         \A a, b \in Calls : Before(a, b) => Before(a, b)'
  PROVE  WritersOK'
<1> SUFFICES ASSUME NEW id \in Ids PROVE WritersOK!(id)'
  BY DEF WritersOK
<1>1. DOMAIN issued' = DOMAIN issued \cup {new} /\ ~ WillAct(c, id)'
  BY DEF Creates
<1>2. \A d \in Calls \ {c} : /\ HasActed(d, id)' <=> HasActed(d, id)
                             /\ WillAct(d, id)' <=> WillAct(d, id)
  BY UntouchedWriter
<1>3. CASE id = new
  <2>1. \A d \in Calls : ~ HasActed(d, id) /\ ~ WillAct(d, id)
    BY <1>3 DEF Creates, WritersOK
  <2>2. LastDecides(id)'
    BY <1>2, <1>3, <2>1, DecisionTaken DEF Creates
  <2> QED
    BY <1>1, <1>2, <1>3, <2>1, <2>2
<1>4. CASE id # new
  <2>1. SameRow(id) /\ ~ HasActed(c, id) /\ ~ HasActed(c, id)'
    BY <1>4 DEF Creates, HasActed
  <2>2. \A d \in Calls : /\ HasActed(d, id)' <=> HasActed(d, id)
                         /\ HasActed(d, id) /\ Decides(d, id) => Decides(d, id)'
    BY <1>2, <2>1, UntouchedWriter
  <2>3. id \in DOMAIN issued' => LastDecides(id)'
    BY <1>1, <1>4, <2>1, <2>2, DecisionStands DEF WritersOK
  <2> QED
    BY <1>1, <1>2, <2>2, <2>3 DEF WritersOK
<1> QED
  BY <1>3, <1>4

LEMMA ActingWriters ==
  ASSUME WritersOK, NEW c \in Calls, NEW its, Acts(c, its),
         \A d \in Calls \ {c} : Untouched(d),
         \A a, b \in Calls : Before(a, b) => Before(a, b)',
         \A d \in Calls \ {c} : WillAct(d, its) => Before(c, d)
  PROVE  WritersOK'
<1> SUFFICES ASSUME NEW id \in Ids PROVE WritersOK!(id)'
  BY DEF WritersOK
<1>1. UNCHANGED issued /\ ~ WillAct(c, id)'
  BY DEF Acts
<1>2. \A d \in Calls \ {c} : /\ HasActed(d, id)' <=> HasActed(d, id)
                             /\ WillAct(d, id)' <=> WillAct(d, id)
  BY UntouchedWriter
<1>3. CASE id = its
  <2>1. WillAct(c, id) /\ HasActed(c, id)' /\ Decides(c, id)'
    BY <1>3 DEF Acts
  <2>2. \A d \in Calls \ {c} : HasActed(d, id) => Before(d, c)
    BY <2>1 DEF WritersOK
  <2>3. LastDecides(id)'
    BY <1>2, <2>1, <2>2, DecisionTaken
  <2>4. id \in DOMAIN issued
    BY <2>1 DEF WritersOK
  <2> QED
    BY <1>1, <1>2, <1>3, <2>3, <2>4 DEF WritersOK
<1>4. CASE id # its
  <2>1. SameRow(id) /\ ~ HasActed(c, id)'
    BY <1>4 DEF Acts
  <2>2. ~ HasActed(c, id)
    BY DEF Acts, WillAct, HasActed
  <2>3. \A d \in Calls : /\ HasActed(d, id)' <=> HasActed(d, id)
                         /\ HasActed(d, id) /\ Decides(d, id) => Decides(d, id)'
    BY <1>2, <2>1, <2>2, UntouchedWriter
  <2>4. id \in DOMAIN issued' => LastDecides(id)'
    BY <1>1, <2>1, <2>3, DecisionStands DEF WritersOK
  <2> QED
    BY <1>1, <1>2, <2>3, <2>4 DEF WritersOK
<1> QED
  BY <1>3, <1>4

-----------------------------------------------------------------------------
(* The queue stays in order *)

\* Invoking a call puts it after all others, and keeps what came before what.
LEMMA BeforeGrows ==
  ASSUME QueueOK, NEW c \in Calls, pc[c] = "idle", invoked' = Append(invoked, c)
  PROVE  /\ \A a, b : Before(a, b) => Before(a, b)'
         /\ \A a \in Calls : pc[a] # "idle" => Before(a, c)'
<1>1. /\ Len(invoked) \in Nat /\ DOMAIN invoked = 1..Len(invoked)
      /\ DOMAIN invoked' = 1..(Len(invoked) + 1)
      /\ \A i \in DOMAIN invoked : invoked'[i] = invoked[i]
      /\ invoked'[Len(invoked) + 1] = c
  BY DEF QueueOK
<1>2. ASSUME NEW a, NEW b, Before(a, b) PROVE Before(a, b)'
  BY <1>1, <1>2 DEF Before
<1>3. ASSUME NEW a \in Calls, pc[a] # "idle" PROVE Before(a, c)'
  <2>1. PICK i \in DOMAIN invoked : invoked[i] = a
    BY <1>3 DEF QueueOK, ToSet
  <2> QED
    BY <1>1, <2>1 DEF Before
<1> QED
  BY <1>2, <1>3

LEMMA InvokeQueue ==
  ASSUME QueueOK, InOrder, NEW c \in Calls, pc[c] = "idle", pc'[c] # "idle",
         \A d \in Calls \ {c} : pc'[d] = pc[d], pc' \in [Calls -> Pc],
         invoked' = Append(invoked, c), microtasks' = Requeue(c, microtasks)
  PROVE  QueueOK' /\ InOrder'
<1>1. c \notin ToSet(invoked) /\ c \notin ToSet(microtasks)
  BY DEF QueueOK, Waits
<1>2. /\ invoked' \in Seq(Calls) /\ IsInjective(invoked')
      /\ ToSet(invoked') = ToSet(invoked) \cup {c}
  BY <1>1, AppendDistinct DEF QueueOK
<1>3. CASE pc'[c] = "answered"
  <2>1. microtasks' = microtasks
    BY <1>3 DEF Requeue
  <2>2. QueueOK'
    BY <1>1, <1>2, <1>3, <2>1 DEF QueueOK, Waits
  <2>3. \A i \in DOMAIN microtasks : /\ microtasks[i] \in Calls \ {c}
    BY <1>1 DEF QueueOK, ToSet
  <2>4. InOrder'
    BY <2>1, <2>3, BeforeGrows DEF InOrder
  <2> QED
    BY <2>2, <2>4
<1>4. CASE pc'[c] # "answered"
  <2>1. microtasks' = Append(microtasks, c) /\ pc'[c] \in Waits
    BY <1>4 DEF Requeue, Pc, Waits
  <2>2. /\ microtasks' \in Seq(Calls) /\ IsInjective(microtasks')
        /\ ToSet(microtasks') = ToSet(microtasks) \cup {c}
    BY <1>1, <2>1, AppendDistinct DEF QueueOK
  <2>3. QueueOK'
    BY <1>2, <2>1, <2>2 DEF QueueOK, Waits
  <2>4. /\ Len(microtasks) \in Nat /\ DOMAIN microtasks = 1..Len(microtasks)
        /\ DOMAIN microtasks' = 1..(Len(microtasks) + 1)
        /\ \A i \in DOMAIN microtasks :
             /\ microtasks'[i] = microtasks[i]
             /\ microtasks[i] \in Calls \ {c}
        /\ microtasks'[Len(microtasks) + 1] = c
    BY <1>1, <2>1 DEF QueueOK, ToSet
  <2>5. ASSUME NEW i \in DOMAIN microtasks PROVE pc[microtasks[i]] # "idle"
    BY <2>4 DEF QueueOK, ToSet, Waits
  <2>6. ASSUME NEW i \in DOMAIN microtasks', NEW j \in DOMAIN microtasks', i < j,
               pc'[microtasks'[i]] \in FirstWaits,
               pc'[microtasks'[j]] \in FirstWaits
        PROVE  Before(microtasks[i], microtasks[j])'
    <3>1. i \in DOMAIN microtasks
      BY <2>4, <2>6
    <3>2. CASE j \in DOMAIN microtasks
      BY <2>4, <2>6, <3>1, <3>2, BeforeGrows DEF InOrder
    <3>3. CASE j \notin DOMAIN microtasks
      BY <2>4, <2>5, <3>1, <3>3, BeforeGrows
    <3> QED
      BY <3>2, <3>3
  <2> QED
    BY <2>3, <2>6 DEF InOrder
<1> QED
  BY <1>3, <1>4

\* Running a microtask takes the first call off, and queues it again only for
\* a later segment than its first.
LEMMA RunQueue ==
  ASSUME QueueOK, InOrder, microtasks # <<>>, NEW c, c = Head(microtasks),
         pc'[c] \in {"write", "answered"},
         \A d \in Calls \ {c} : pc'[d] = pc[d], pc' \in [Calls -> Pc],
         invoked' = invoked, microtasks' = Requeue(c, Tail(microtasks))
  PROVE  QueueOK' /\ InOrder'
<1> DEFINE rest == Tail(microtasks)
<1>1. /\ c \in Calls /\ c \in ToSet(microtasks) /\ rest \in Seq(Calls)
      /\ IsInjective(rest) /\ ToSet(rest) = ToSet(microtasks) \ {c}
  BY TailDistinct DEF QueueOK
<1>2. /\ Len(microtasks) \in Nat \ {0}
      /\ DOMAIN microtasks = 1..Len(microtasks)
      /\ DOMAIN rest = 1..(Len(microtasks) - 1)
      /\ \A i \in DOMAIN rest : rest[i] = microtasks[i + 1]
  BY DEF QueueOK
<1>3. pc[c] # "idle"
  BY <1>1 DEF QueueOK, Waits
<1>4. \A i \in DOMAIN rest : rest[i] \in Calls \ {c}
  BY <1>1 DEF ToSet
<1> HIDE DEF rest
<1>5. /\ QueueOK'
      /\ \A i \in DOMAIN microtasks' :
           \/ i \in DOMAIN rest /\ microtasks'[i] = rest[i]
           \/ microtasks'[i] = c
  <2>1. CASE pc'[c] = "answered"
    <3>1. microtasks' = rest
      BY <2>1 DEF Requeue, rest
    <3> QED
      BY <1>1, <1>3, <2>1, <3>1 DEF QueueOK, Waits
  <2>2. CASE pc'[c] = "write"
    <3>1. microtasks' = Append(rest, c)
      BY <2>2 DEF Requeue, rest
    <3>2. /\ microtasks' \in Seq(Calls) /\ IsInjective(microtasks')
          /\ ToSet(microtasks') = ToSet(rest) \cup {c}
      <4>1. c \in Calls /\ c \notin ToSet(rest)
        BY <1>1
      <4>2. rest \in Seq(Calls) /\ IsInjective(rest)
        BY <1>1
      <4>3. /\ Append(rest, c) \in Seq(Calls)
            /\ IsInjective(Append(rest, c))
            /\ ToSet(Append(rest, c)) = ToSet(rest) \cup {c}
        BY <4>1, <4>2, AppendDistinct
      <4> QED
        BY <3>1, <4>3
    <3>3. QueueOK'
      BY <1>1, <1>3, <2>2, <3>2 DEF QueueOK, Waits
    <3>4. \A i \in DOMAIN microtasks' :
            \/ i \in DOMAIN rest /\ microtasks'[i] = rest[i]
            \/ microtasks'[i] = c
      BY <1>1, <3>1
    <3> QED
      BY <3>3, <3>4
  <2> QED
    BY <2>1, <2>2
<1>6. ASSUME NEW i \in DOMAIN microtasks', NEW j \in DOMAIN microtasks', i < j,
             pc'[microtasks'[i]] \in FirstWaits,
             pc'[microtasks'[j]] \in FirstWaits
      PROVE  Before(microtasks[i], microtasks[j])'
  <2>1. /\ i \in DOMAIN rest /\ microtasks'[i] = rest[i]
        /\ j \in DOMAIN rest /\ microtasks'[j] = rest[j]
    BY <1>5, <1>6 DEF FirstWaits
  <2>2. /\ i + 1 \in DOMAIN microtasks /\ j + 1 \in DOMAIN microtasks
        /\ i + 1 < j + 1
        /\ microtasks'[i] = microtasks[i + 1]
        /\ microtasks'[j] = microtasks[j + 1]
    BY <1>2, <1>6, <2>1
  <2>3. /\ pc[microtasks[i + 1]] \in FirstWaits
        /\ pc[microtasks[j + 1]] \in FirstWaits
    BY <1>4, <1>6, <2>1, <2>2
  <2>4. Before(microtasks[i + 1], microtasks[j + 1])
    BY <2>2, <2>3 DEF InOrder
  <2> QED
    BY <2>2, <2>4 DEF Before
<1> QED
  BY <1>5, <1>6 DEF InOrder

\* The call at the head that will act was invoked before all others that will.
LEMMA HeadFirst ==
  ASSUME QueueOK, InOrder, microtasks # <<>>, NEW c, c = Head(microtasks),
         pc[c] = "found", NEW d \in Calls \ {c}, pc[d] = "found"
  PROVE  Before(c, d)
<1>1. d \in ToSet(microtasks)
  BY DEF QueueOK, Waits
<1>2. PICK j \in DOMAIN microtasks : microtasks[j] = d
  BY <1>1 DEF ToSet
<1>3. /\ 1 \in DOMAIN microtasks /\ microtasks[1] = c /\ 1 < j
  BY <1>2 DEF QueueOK
<1> QED
  BY <1>2, <1>3 DEF InOrder, FirstWaits

-----------------------------------------------------------------------------
(* The invariant holds *)

LEMMA InitLoopInv == LoopInit => LoopInv
<1> SUFFICES ASSUME LoopInit PROVE LoopInv
  OBVIOUS
<1>1. IInv
  BY InitIInv DEF LoopInit
<1>2. QueueOK
  BY DEF LoopInit, Init, QueueOK, IsInjective, ToSet, Waits
<1>3. InOrder /\ WritersOK
  BY DEF LoopInit, Init, InOrder, WritersOK, HasActed, WillAct
<1> QED
  BY <1>1, <1>2, <1>3 DEF LoopInv

\* Every step of the event loop is a step of the port.
LEMMA LoopStepIsPortStep == QueueOK /\ [LoopNext]_loopVars => [Next]_vars
<1> SUFFICES ASSUME QueueOK, [LoopNext]_loopVars PROVE [Next]_vars
  OBVIOUS
<1>1. CASE RunMicrotask
  BY <1>1, TailDistinct DEF QueueOK, RunMicrotask, Next
<1>2. CASE ~ RunMicrotask
  BY <1>2 DEF LoopNext, Pass, InvokeNow, loopVars, Next
<1> QED
  BY <1>1, <1>2

LEMMA NextLoopInv == LoopInv /\ [LoopNext]_loopVars => LoopInv'
<1> SUFFICES ASSUME LoopInv, [LoopNext]_loopVars PROVE LoopInv'
  OBVIOUS
<1>0. IInv /\ QueueOK /\ InOrder /\ WritersOK
  BY DEF LoopInv
<1>1. IInv'
  BY <1>0, LoopStepIsPortStep, NextIInv
<1>2. pc' \in [Calls -> Pc]
  BY <1>1 DEF IInv, TypeOK
<1>3. ASSUME NEW c \in Calls, InvokeNow(c) PROVE LoopInv'
  <2>1. /\ Invoke(c) /\ invoked' = Append(invoked, c)
        /\ microtasks' = Requeue(c, microtasks)
    BY <1>3 DEF InvokeNow
  <2>2. /\ pc[c] = "idle" /\ pc'[c] # "idle"
        /\ \A d \in Calls \ {c} : Untouched(d)
    BY <1>0, <2>1, InvokeKinds, InvokeTouchesOne
  <2>3. QueueOK' /\ InOrder'
    BY <1>0, <1>2, <2>1, <2>2, InvokeQueue DEF Untouched
  <2>4. /\ \A a, b \in Calls : Before(a, b) => Before(a, b)'
        /\ \A a \in Calls : pc[a] # "idle" => Before(a, c)'
    BY <1>0, <2>1, <2>2, BeforeGrows
  <2>5. WritersOK'
    BY <1>0, <2>1, <2>2, <2>4, InvokeKinds, QuietWriters, LookingWriters,
       CreatingWriters
  <2> QED
    BY <1>1, <2>3, <2>5 DEF LoopInv
<1>4. CASE RunMicrotask
  <2>1. PICK c : c = Head(microtasks)
    OBVIOUS
  <2>2. /\ microtasks # <<>> /\ Resume(c) /\ invoked' = invoked
        /\ microtasks' = Requeue(c, Tail(microtasks))
    BY <1>4, <2>1 DEF RunMicrotask
  <2>3. c \in Calls
    BY <1>0, <2>1, <2>2, TailDistinct DEF QueueOK
  <2>4. /\ pc'[c] \in {"write", "answered"}
        /\ \A d \in Calls \ {c} : Untouched(d)
    BY <1>0, <2>2, <2>3, ActsAreDone, ResumeTouchesOne
  <2>5. QueueOK' /\ InOrder'
    BY <1>0, <1>2, <2>1, <2>2, <2>4, RunQueue DEF Untouched
  <2>6. \A a, b \in Calls : Before(a, b) => Before(a, b)'
    BY <2>2 DEF Before
  <2>7. ASSUME Quiet(c) PROVE WritersOK'
    BY <1>0, <2>3, <2>4, <2>6, <2>7, QuietWriters
  <2>8. ASSUME Acts(c, command[c].id) PROVE WritersOK'
    <3>1. \A d \in Calls \ {c} : WillAct(d, command[c].id) => Before(c, d)
      BY <1>0, <2>1, <2>2, <2>8, HeadFirst DEF Acts, WillAct
    <3> QED
      BY <1>0, <2>3, <2>4, <2>6, <2>8, <3>1, ActingWriters
  <2>9. WritersOK'
    BY <1>0, <2>2, <2>3, <2>7, <2>8, ResumeKinds
  <2> QED
    BY <1>1, <2>5, <2>9 DEF LoopInv
<1>5. CASE Pass \/ UNCHANGED loopVars
  <2>1. UNCHANGED <<store, issued, pc, command, held, answer, microtasks,
                    invoked>>
    BY <1>5 DEF Pass, Tick, loopVars, vars
  <2>2. QueueOK' /\ InOrder'
    BY <1>0, <2>1 DEF QueueOK, InOrder, Before
  <2>3. \A d \in Calls : Untouched(d)
    BY <2>1 DEF Untouched
  <2>4. \A a, b \in Calls : Before(a, b) => Before(a, b)'
    BY <2>1 DEF Before
  <2>5. WritersOK'
    <3> SUFFICES ASSUME NEW id \in Ids PROVE WritersOK!(id)'
      BY DEF WritersOK
    <3>1. SameRow(id) /\ UNCHANGED issued
      BY <2>1 DEF SameRow, Stored
    <3>2. \A d \in Calls : /\ HasActed(d, id)' <=> HasActed(d, id)
                           /\ WillAct(d, id)' <=> WillAct(d, id)
                           /\ Decides(d, id)' <=> Decides(d, id)
      BY <2>3, <3>1, UntouchedWriter
    <3>3. id \in DOMAIN issued' => LastDecides(id)'
      BY <1>0, <2>4, <3>1, <3>2, DecisionStands DEF WritersOK
    <3> QED
      BY <1>0, <2>4, <3>1, <3>2, <3>3 DEF WritersOK
  <2> QED
    BY <1>1, <2>2, <2>5 DEF LoopInv
<1> QED
  BY <1>3, <1>4, <1>5 DEF LoopNext

\* The loop's invariant, for any number of calls invoked at any time.
THEOREM LoopInvariance == LoopSpec => []LoopInv
BY InitLoopInv, NextLoopInv, PTL DEF LoopSpec

\* When all calls are settled, the last writer to have been invoked has decided
\* what became of the todo.
THEOREM LastWriterWins == LoopSpec => []LastInvokedWins
<1>1. LoopInv => LastInvokedWins
  <2> SUFFICES ASSUME LoopInv, microtasks = <<>>, NEW id \in DOMAIN issued
               PROVE  LET last == LastInvoked(Writers(id)) IN
                      IF command[last].op = "delete" THEN id \notin Stored
                      ELSE id \in Stored /\ answer[last].todos = {store[id]}
    BY DEF LastInvokedWins
  <2>1. id \in Ids
    BY DEF LoopInv, IInv, TypeOK
  <2>2. PICK last \in Calls :
          /\ HasActed(last, id)
          /\ Decides(last, id)
          /\ \A c \in Calls \ {last} : HasActed(c, id) => Before(c, last)
    BY <2>1 DEF LoopInv, WritersOK, LastDecides
  <2>3. \A c \in Calls : pc[c] \notin Waits
    BY DEF LoopInv, QueueOK, ToSet
  <2>4. \A c \in Calls : c \in Writers(id) <=> HasActed(c, id)
    BY <2>3 DEF Writers, HasActed, Wrote, Waits
  <2>5. Wrote(last) = answer[last].todos
    BY <2>2, <2>3 DEF Wrote, Waits
  <2>6. LastInvoked(Writers(id)) = last
    <3> DEFINE I == {i \in 1..Len(invoked) : invoked[i] \in Writers(id)}
    <3>1. /\ invoked \in Seq(Calls) /\ IsInjective(invoked)
          /\ Len(invoked) \in Nat /\ DOMAIN invoked = 1..Len(invoked)
      BY DEF LoopInv, QueueOK
    <3>2. PICK k \in 1..Len(invoked) : invoked[k] = last
      BY <2>2, <3>1 DEF LoopInv, QueueOK, ToSet, HasActed
    <3>3. k \in I
      BY <2>2, <2>4, <3>2
    <3>4. ASSUME NEW i \in I PROVE i <= k
      <4>1. CASE invoked[i] = last
        BY <3>1, <3>2, <4>1 DEF IsInjective
      <4>2. CASE invoked[i] # last
        <5>1. Before(invoked[i], last)
          BY <2>2, <2>4, <3>1, <4>2
        <5> QED
          BY <3>1, <3>2, <5>1 DEF Before, IsInjective
      <4> QED
        BY <4>1, <4>2
    <3>5. Max(I) = k
      BY <3>1, <3>3, <3>4 DEF Max
    <3>6. SelectLastInSeq(invoked, LAMBDA c : c \in Writers(id)) = Max(I)
      BY <3>3 DEF SelectLastInSeq
    <3> QED
      BY <3>2, <3>5, <3>6 DEF LastInvoked
  <2> QED
    BY <2>2, <2>5, <2>6 DEF Decides
<1> QED
  BY <1>1, LoopInvariance, PTL
=============================================================================
