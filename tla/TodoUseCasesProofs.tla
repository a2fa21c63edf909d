-------------------------- MODULE TodoUseCasesProofs --------------------------
(***************************************************************************)
(* What TodoUseCases guarantees for any number of calls, ids, words and     *)
(* commands.  The proofs follow the code: first the value objects (what     *)
(* they accept is normalised, and normalised values are accepted again),    *)
(* then the entity operations, then one inductive invariant over the        *)
(* segments of the use cases.  The second part is about single steps: what  *)
(* they do to a row, to a call and to the ids that were issued.             *)
(***************************************************************************)
EXTENDS TodoUseCases, TLAPS

-----------------------------------------------------------------------------
(* Value objects *)

\* TodoTitle.create returns trimmed titles of 1 to 200 characters.
LEMMA TitleNormalised ==
  ASSUME NEW raw \in Text \cup {Undefined, Null}, TitleAccepts(raw)
  PROVE  TitleOK(TitleValue(raw))
<1>1. raw \in Text
  BY DEF TitleAccepts
<1>2. Trim(raw) = [word |-> raw.word, length |-> raw.length,
                     characters |-> raw.characters, padding |-> 0]
  BY <1>1 DEF Trim, Text
<1> QED
  BY <1>1, <1>2 DEF TitleAccepts, TitleValue, TitleOK, Text

\* A title that was normalised once is accepted again, unchanged.
LEMMA TitleStable ==
  ASSUME NEW title, TitleOK(title)
  PROVE  TitleAccepts(title) /\ TitleValue(title) = title
<1>1. title \in Text /\ title \notin {Undefined, Null}
  BY AbsentValues DEF TitleOK
<1>2. Trim(title) = title
  BY <1>1 DEF Trim, Text, TitleOK
<1> QED
  BY <1>1, <1>2 DEF TitleAccepts, TitleValue, TitleOK

\* TodoDescription.create returns null or a trimmed text of 1 to 1000 characters.
LEMMA DescriptionNormalised ==
  ASSUME NEW raw \in Text \cup {Undefined, Null}, DescriptionAccepts(raw)
  PROVE  DescriptionOK(DescriptionValue(raw))
<1>1. CASE raw \in {Undefined, Null}
  BY <1>1 DEF DescriptionValue, DescriptionOK
<1>2. CASE raw \notin {Undefined, Null}
  <2>1. raw \in Text
    BY <1>2
  <2>2. Trim(raw) = [word |-> raw.word, length |-> raw.length,
                     characters |-> raw.characters, padding |-> 0]
    BY <2>1 DEF Trim, Text
  <2> QED
    BY <1>2, <2>1, <2>2
    DEF DescriptionAccepts, DescriptionValue, DescriptionOK, Text,
        MaxDescriptionLength
<1> QED
  BY <1>1, <1>2

\* A description that was normalised once is accepted again, unchanged.
LEMMA DescriptionStable ==
  ASSUME NEW description, DescriptionOK(description)
  PROVE  /\ DescriptionAccepts(description)
         /\ DescriptionValue(description) = description
<1>1. CASE description = Null
  BY <1>1 DEF DescriptionAccepts, DescriptionValue
<1>2. CASE description # Null
  <2>1. /\ description \in Text
        /\ description \notin {Undefined, Null}
        /\ description.length \in 1..MaxDescriptionLength
        /\ description.padding = 0
    BY <1>2, AbsentValues DEF DescriptionOK
  <2>2. Trim(description) = description
    BY <2>1 DEF Trim, Text
  <2> QED
    BY <2>1, <2>2
    DEF DescriptionAccepts, DescriptionValue, MaxDescriptionLength
<1> QED
  BY <1>1, <1>2

-----------------------------------------------------------------------------
(* Entities *)

\* A well-formed entity survives the trip through its row: toDomain accepts it
\* and gives back the same entity.
LEMMA RowStable ==
  ASSUME NEW todo, WellFormed(todo)
  PROVE  ToDomainAccepts(todo) /\ ToDomain(todo) = todo
<1>1. todo \in Todo /\ TitleOK(todo.title) /\ DescriptionOK(todo.description)
  BY DEF WellFormed
<1>2. /\ TitleAccepts(todo.title)
      /\ TitleValue(todo.title) = todo.title
  BY <1>1, TitleStable
<1>3. /\ DescriptionAccepts(todo.description)
      /\ DescriptionValue(todo.description) = todo.description
  BY <1>1, DescriptionStable
<1>4. FromStringAccepts(todo.id)
  BY <1>1 DEF Todo, FromStringAccepts
<1>5. ToDomain(todo) = todo
  BY <1>1, <1>2, <1>3 DEF ToDomain, Todo
<1> QED
  BY <1>2, <1>3, <1>4, <1>5 DEF ToDomainAccepts

\* A write that comes after the versions it builds on.
Later(new, old, now) ==
  /\ WellFormed(new)
  /\ new.id = old.id
  /\ new.createdAt = old.createdAt
  /\ new.updatedAt = now

LEMMA CreateTodoOK ==
  ASSUME NEW id \in Ids, NEW now \in Date,
         NEW title \in Text \cup {Undefined, Null}, TitleAccepts(title),
         NEW description \in Text \cup {Undefined, Null},
         DescriptionAccepts(description)
  PROVE  LET todo == CreateTodo(id, title, description, now) IN
         /\ WellFormed(todo)
         /\ todo.id = id
         /\ todo.createdAt = now
         /\ todo.updatedAt = now
         /\ todo.title = TitleValue(title)
         /\ todo.description = DescriptionValue(description)
         /\ todo.status = "PENDING"
<1> DEFINE todo == CreateTodo(id, title, description, now)
<1>1. TitleOK(todo.title)
  BY TitleNormalised DEF CreateTodo
<1>2. DescriptionOK(todo.description)
  BY DescriptionNormalised DEF CreateTodo
<1>3. todo \in Todo
  BY <1>1, <1>2
  DEF CreateTodo, Todo, TitleOK, DescriptionOK, TodoStatus
<1> QED
  BY <1>1, <1>2, <1>3 DEF WellFormed, CreateTodo, Date

LEMMA UpdateTitleOK ==
  ASSUME NEW todo, WellFormed(todo),
         NEW now \in Date, todo.updatedAt <= now,
         NEW title \in Text \cup {Undefined, Null}, TitleAccepts(title)
  PROVE  LET new == UpdateTitle(todo, title, now) IN
         /\ Later(new, todo, now)
         /\ new.title = TitleValue(title)
         /\ new.description = todo.description
         /\ new.status = todo.status
<1> DEFINE new == UpdateTitle(todo, title, now)
<1>1. todo \in Todo /\ DescriptionOK(todo.description)
  BY DEF WellFormed
<1>2. /\ new.id = todo.id
      /\ new.title = TitleValue(title)
      /\ new.description = todo.description
      /\ new.status = todo.status
      /\ new.createdAt = todo.createdAt
      /\ new.updatedAt = now
  BY <1>1 DEF UpdateTitle, Todo
<1>3. TitleOK(new.title)
  BY <1>2, TitleNormalised
<1>4. new \in Todo
  BY <1>1, <1>2, <1>3 DEF Todo, TitleOK, UpdateTitle
<1>5. todo.createdAt <= now
  BY <1>1 DEF WellFormed, Todo, Date
<1> HIDE DEF new
<1> QED
  BY <1>1, <1>2, <1>3, <1>4, <1>5 DEF WellFormed, Later, new

LEMMA UpdateDescriptionOK ==
  ASSUME NEW todo, WellFormed(todo),
         NEW now \in Date, todo.updatedAt <= now,
         NEW description \in Text \cup {Undefined, Null},
         DescriptionAccepts(description)
  PROVE  LET new == UpdateDescription(todo, description, now) IN
         /\ Later(new, todo, now)
         /\ new.title = todo.title
         /\ new.description = DescriptionValue(description)
         /\ new.status = todo.status
<1> DEFINE new == UpdateDescription(todo, description, now)
<1>1. todo \in Todo /\ TitleOK(todo.title)
  BY DEF WellFormed
<1>2. /\ new.id = todo.id
      /\ new.title = todo.title
      /\ new.description = DescriptionValue(description)
      /\ new.status = todo.status
      /\ new.createdAt = todo.createdAt
      /\ new.updatedAt = now
  BY <1>1 DEF UpdateDescription, Todo
<1>3. DescriptionOK(new.description)
  BY <1>2, DescriptionNormalised
<1>4. new \in Todo
  BY <1>1, <1>2, <1>3 DEF Todo, DescriptionOK, UpdateDescription
<1>5. todo.createdAt <= now
  BY <1>1 DEF WellFormed, Todo, Date
<1> HIDE DEF new
<1> QED
  BY <1>1, <1>2, <1>3, <1>4, <1>5 DEF WellFormed, Later, new

LEMMA UpdateStatusOK ==
  ASSUME NEW todo, WellFormed(todo),
         NEW now \in Date, todo.updatedAt <= now,
         NEW status \in RawStatus, UpperCase(status) \in TodoStatus
  PROVE  LET new == UpdateStatus(todo, status, now) IN
         /\ Later(new, todo, now)
         /\ new.title = todo.title
         /\ new.description = todo.description
         /\ new.status = UpperCase(status)
<1> DEFINE new == UpdateStatus(todo, status, now)
<1>1. /\ todo \in Todo
      /\ TitleOK(todo.title)
      /\ DescriptionOK(todo.description)
  BY DEF WellFormed
<1>2. /\ new.id = todo.id
      /\ new.title = todo.title
      /\ new.description = todo.description
      /\ new.status = UpperCase(status)
      /\ new.createdAt = todo.createdAt
      /\ new.updatedAt = now
  BY <1>1 DEF UpdateStatus, Todo
<1>3. new \in Todo
  BY <1>1, <1>2 DEF Todo, UpdateStatus
<1>4. todo.createdAt <= now
  BY <1>1 DEF WellFormed, Todo, Date
<1> HIDE DEF new
<1> QED
  BY <1>1, <1>2, <1>3, <1>4 DEF WellFormed, Later, new

LEMMA MarkAsCompletedOK ==
  ASSUME NEW todo, WellFormed(todo),
         NEW now \in Date, todo.updatedAt <= now
  PROVE  LET new == MarkAsCompleted(todo, now) IN
         /\ Later(new, todo, now)
         /\ new.title = todo.title
         /\ new.description = todo.description
         /\ new.status = "COMPLETED"
<1>1. "COMPLETED" \in RawStatus /\ UpperCase("COMPLETED") = "COMPLETED"
  BY DEF RawStatus, TodoStatus, UpperCase
<1> QED
  BY <1>1, UpdateStatusOK DEF MarkAsCompleted, TodoStatus

\* The patch of an update: each field it gives is applied, normalised, and the
\* others keep the value of the copy the update read.
LEMMA PatchedOK ==
  ASSUME NEW todo, WellFormed(todo),
         NEW now \in Date, todo.updatedAt <= now,
         NEW cmd \in Command, PatchError(cmd) = "none"
  PROVE  LET new == Patched(todo, cmd, now) IN
         /\ WellFormed(new)
         /\ new.id = todo.id
         /\ new.createdAt = todo.createdAt
         /\ new.updatedAt = IF EmptyPatch(cmd) THEN todo.updatedAt ELSE now
         /\ new.title = IF cmd.title = Undefined THEN todo.title
                        ELSE TitleValue(cmd.title)
         /\ new.description =
              IF cmd.description = Undefined THEN todo.description
              ELSE DescriptionValue(cmd.description)
         /\ new.status = IF cmd.status = Undefined THEN todo.status
                         ELSE UpperCase(cmd.status)
<1>1. /\ cmd.title # Undefined => TitleAccepts(cmd.title)
      /\ DescriptionAccepts(cmd.description)
      /\ cmd.status # Undefined => StatusAccepts(cmd.status)
  BY DEF PatchError, TitleRefused, DescriptionRefused, StatusRefused
<1>2. /\ cmd.title \in Text \cup {Undefined, Null}
      /\ cmd.description \in Text \cup {Undefined, Null}
      /\ cmd.status \in RawStatus \cup {Undefined, Null}
  BY DEF Command
<1> DEFINE t1 == IF cmd.title = Undefined THEN todo
                 ELSE UpdateTitle(todo, cmd.title, now)
           t2 == IF cmd.description = Undefined THEN t1
                 ELSE UpdateDescription(t1, cmd.description, now)
           t3 == IF cmd.status = Undefined THEN t2
                 ELSE UpdateStatus(t2, cmd.status, now)
<1>3. /\ WellFormed(t1)
      /\ t1.id = todo.id /\ t1.createdAt = todo.createdAt
      /\ t1.updatedAt = IF cmd.title = Undefined THEN todo.updatedAt ELSE now
      /\ t1.title = IF cmd.title = Undefined THEN todo.title
                    ELSE TitleValue(cmd.title)
      /\ t1.description = todo.description /\ t1.status = todo.status
  BY <1>1, <1>2, UpdateTitleOK DEF Later
<1>4. t1.updatedAt <= now
  BY <1>3 DEF Date
<1> HIDE DEF t1
<1>5. /\ WellFormed(t2)
      /\ t2.id = todo.id /\ t2.createdAt = todo.createdAt
      /\ t2.updatedAt = IF cmd.description = Undefined THEN t1.updatedAt
                        ELSE now
      /\ t2.title = t1.title
      /\ t2.description = IF cmd.description = Undefined
                          THEN todo.description
                          ELSE DescriptionValue(cmd.description)
      /\ t2.status = todo.status
  BY <1>1, <1>2, <1>3, <1>4, UpdateDescriptionOK DEF Later
<1>6. t2.updatedAt <= now
  BY <1>4, <1>5 DEF Date
<1> HIDE DEF t2
<1>7. /\ WellFormed(t3)
      /\ t3.id = todo.id /\ t3.createdAt = todo.createdAt
      /\ t3.updatedAt = IF cmd.status = Undefined THEN t2.updatedAt ELSE now
      /\ t3.title = t2.title /\ t3.description = t2.description
      /\ t3.status = IF cmd.status = Undefined THEN todo.status
                     ELSE UpperCase(cmd.status)
  BY <1>1, <1>2, <1>5, <1>6, UpdateStatusOK DEF Later, StatusAccepts
<1>8. t3 = Patched(todo, cmd, now)
  BY DEF Patched, t1, t2
<1> QED
  BY <1>3, <1>5, <1>7, <1>8 DEF EmptyPatch

-----------------------------------------------------------------------------
(***************************************************************************)
(* The inductive invariant.  That the rows are readable is not inductive by *)
(* itself: a row is written from a copy that some call read earlier, so the *)
(* copies have to be as good as the rows (Current), a copy has to belong to *)
(* the id its call was given, and an answer has to come from such a copy.   *)
(***************************************************************************)

\* A version of a todo that may be stored: well formed, born when its id was
\* issued, last changed in the past.
Current(todo) ==
  /\ WellFormed(todo)
  /\ todo.id \in DOMAIN issued
  /\ todo.createdAt = issued[todo.id]
  /\ todo.updatedAt <= clock

RowsCurrent == \A id \in Stored : store[id].id = id /\ Current(store[id])

CopiesCurrent == \A c \in Calls : \A todo \in held[c] : Current(todo)

CallsInStep ==
  \A c \in Calls :
    /\ pc[c] # "idle" => command[c] \in Command
    /\ pc[c] # "answered" => answer[c] = Fail("none")
    /\ pc[c] \in {"found", "write"} =>
         \A todo \in held[c] :
           command[c].op \in {"update", "complete", "get"} =>
             todo.id = command[c].id
    /\ pc[c] = "write" => \A todo \in held[c] : Honours(command[c], todo)

IInv ==
  /\ TypeOK
  /\ RowsCurrent
  /\ CopiesCurrent
  /\ CallsInStep
  /\ AnswerHonoursCommand

\* Ids are issued, never taken back, and time moves forward.
Onward ==
  /\ DOMAIN issued \subseteq DOMAIN issued'
  /\ \A id \in DOMAIN issued : issued'[id] = issued[id]
  /\ clock <= clock'

\* A version stays current as ids are issued and time passes.
LEMMA CurrentStays ==
  ASSUME TypeOK, Onward, clock' \in Nat, NEW todo, Current(todo)
  PROVE  Current(todo)'
<1>1. todo.updatedAt \in Nat /\ clock \in Nat
  BY MaxClockIsNat DEF TypeOK, Current, WellFormed, Todo, Date
<1>2. WellFormed(todo)
  BY DEF Current
<1> QED
  BY <1>1, <1>2 DEF Current, Onward, WellFormed, Todo, TitleOK, DescriptionOK

\* Reading rows through toDomain gives back the rows.
LEMMA ReadOK ==
  ASSUME IInv, NEW ids \in SUBSET Stored
  PROVE  /\ Readable(ids)
         /\ Read(ids) = {store[id] : id \in ids}
         /\ \A todo \in Read(ids) : Current(todo) /\ todo \in Todo
<1>1. \A id \in ids : Current(store[id]) /\ WellFormed(store[id])
  BY DEF IInv, RowsCurrent, Current
<1>2. \A id \in ids : ToDomainAccepts(store[id])
                     /\ ToDomain(store[id]) = store[id]
  BY <1>1, RowStable
<1>3. \A id \in ids : store[id] \in Todo
  BY <1>1 DEF WellFormed
<1> QED
  BY <1>1, <1>2, <1>3 DEF Readable, Read

\* Map.set with a current version of a todo keeps the rows current.
LEMMA MapSetOK ==
  ASSUME IInv, Onward, clock' \in Nat,
         NEW todo, Current(todo)', MapSet(todo)
  PROVE  /\ RowsCurrent'
         /\ store' \in [Stored' -> Todo] /\ Stored' \subseteq Ids
<1>1. todo \in Todo /\ todo.id \in Ids
  BY DEF Current, WellFormed, Todo
<1>2. /\ Stored' = Stored \cup {todo.id}
      /\ \A id \in Stored' : store'[id] = IF id = todo.id THEN todo
                                          ELSE store[id]
  BY DEF MapSet, Stored
<1>3. ASSUME NEW id \in Stored, NEW row, row = store[id]
      PROVE  row.id = id /\ Current(row)' /\ row \in Todo
  <2>1. row.id = id /\ Current(row)
    BY <1>3 DEF IInv, RowsCurrent
  <2> QED
    BY <2>1, CurrentStays DEF IInv, Current, WellFormed
<1>4. ASSUME NEW id \in Stored', NEW row, row = store'[id]
      PROVE  row.id = id /\ Current(row)' /\ row \in Todo
  BY <1>1, <1>2, <1>3, <1>4
<1> QED
  BY <1>1, <1>2, <1>4 DEF RowsCurrent, IInv, TypeOK, MapSet, Stored

\* Call c has been given a command, now or before; the others keep theirs.
Commanded(c) ==
  /\ command' \in [Calls -> Command \cup {NoCommand}]
  /\ command'[c] \in Command
  /\ \A d \in Calls \ {c} : command'[d] = command[d]

LEMMA GivenCommanded ==
  ASSUME IInv, NEW c \in Calls, NEW cmd \in Commands, Given(c, cmd)
  PROVE  Commanded(c) /\ command'[c] = cmd
BY CommandsTyped DEF IInv, TypeOK, Given, Commanded

LEMMA KeptCommanded ==
  ASSUME IInv, NEW c \in Calls, pc[c] # "idle", UNCHANGED command
  PROVE  Commanded(c)
BY DEF IInv, TypeOK, CallsInStep, Commanded

\* A segment that settles the call it runs for.
LEMMA SettleOK ==
  ASSUME IInv, NEW c \in Calls, Commanded(c),
         NEW outcome \in Answer, Settle(c, outcome),
         \A todo \in outcome.todos : Honours(command'[c], todo),
         UNCHANGED <<store, issued, clock>>
  PROVE  IInv'
<1>1. /\ pc' = [pc EXCEPT ![c] = "answered"]
      /\ answer' = [answer EXCEPT ![c] = outcome]
      /\ UNCHANGED held
  BY DEF Settle
<1>2. TypeOK'
  BY <1>1 DEF IInv, TypeOK, Commanded, Pc, Stored
<1>3. RowsCurrent'
  BY DEF IInv, RowsCurrent, Current, Stored
<1>4. CopiesCurrent'
  BY <1>1 DEF IInv, CopiesCurrent, Current
<1>5. CallsInStep'
  <2> SUFFICES ASSUME NEW d \in Calls
               PROVE  CallsInStep!(d)'
    BY DEF CallsInStep
  <2>1. CASE d = c
    BY <1>1, <2>1 DEF IInv, TypeOK, Commanded
  <2>2. CASE d # c
    BY <1>1, <2>2 DEF IInv, TypeOK, CallsInStep, Commanded
  <2> QED
    BY <2>1, <2>2
<1>6. AnswerHonoursCommand'
  <2> SUFFICES ASSUME NEW d \in Calls
               PROVE  AnswerHonoursCommand!(d)'
    BY DEF AnswerHonoursCommand
  <2>1. CASE d = c
    BY <1>1, <2>1 DEF IInv, TypeOK
  <2>2. CASE d # c
    BY <1>1, <2>2 DEF IInv, TypeOK, AnswerHonoursCommand, Commanded
  <2> QED
    BY <2>1, <2>2
<1> QED
  BY <1>2, <1>3, <1>4, <1>5, <1>6 DEF IInv

\* A segment that ends in an await.  What it did to the store is given by the
\* assumptions on the rows.
LEMMA SuspendOK ==
  ASSUME IInv, Onward, UNCHANGED clock,
         issued' \in [DOMAIN issued' -> Date], DOMAIN issued' \subseteq Ids,
         RowsCurrent', store' \in [Stored' -> Todo], Stored' \subseteq Ids,
         NEW c \in Calls, Commanded(c), pc[c] # "answered",
         NEW at \in {"found", "missing", "write"},
         NEW todos \in SUBSET Todo, Suspend(c, at, todos),
         ASSUME NEW todo \in todos
         PROVE  /\ Current(todo)'
                /\ command'[c].op \in {"update", "complete", "get"} =>
                     todo.id = command'[c].id
                /\ at = "write" => Honours(command'[c], todo)
  PROVE  IInv'
<1>1. /\ pc' = [pc EXCEPT ![c] = at]
      /\ held' = [held EXCEPT ![c] = todos]
      /\ UNCHANGED answer
  BY DEF Suspend
<1>2. TypeOK'
  BY <1>1 DEF IInv, TypeOK, Commanded, Pc
<1>3. CopiesCurrent'
  <2> SUFFICES ASSUME NEW d \in Calls, NEW todo \in held'[d]
               PROVE  Current(todo)'
    BY DEF CopiesCurrent
  <2>1. CASE d = c
    BY <1>1, <2>1 DEF IInv, TypeOK
  <2>2. CASE d # c
    <3>1. Current(todo)
      BY <1>1, <2>2 DEF IInv, TypeOK, CopiesCurrent
    <3>2. clock' \in Nat
      BY MaxClockIsNat DEF IInv, TypeOK
    <3> QED
      BY <3>1, <3>2, CurrentStays DEF IInv
  <2> QED
    BY <2>1, <2>2
<1>4. CallsInStep'
  <2> SUFFICES ASSUME NEW d \in Calls
               PROVE  CallsInStep!(d)'
    BY DEF CallsInStep
  <2>1. CASE d = c
    <3>1. /\ pc'[d] = at /\ held'[d] = todos
          /\ answer'[d] = Fail("none") /\ command'[d] \in Command
      BY <1>1, <2>1 DEF IInv, TypeOK, CallsInStep, Commanded
    <3> QED
      BY <2>1, <3>1
  <2>2. CASE d # c
    BY <1>1, <2>2 DEF IInv, TypeOK, CallsInStep, Commanded
  <2> QED
    BY <2>1, <2>2
<1>5. AnswerHonoursCommand'
  <2> SUFFICES ASSUME NEW d \in Calls
               PROVE  AnswerHonoursCommand!(d)'
    BY DEF AnswerHonoursCommand
  <2>1. CASE d = c
    BY <1>1, <2>1 DEF IInv, CallsInStep, Fail
  <2>2. CASE d # c
    BY <1>1, <2>2 DEF IInv, AnswerHonoursCommand, Commanded
  <2> QED
    BY <2>1, <2>2
<1> QED
  BY <1>2, <1>3, <1>4, <1>5 DEF IInv

-----------------------------------------------------------------------------
(* One lemma per segment *)

\* A refusal: nothing is written and no todo is shown.
LEMMA RefusalOK ==
  ASSUME IInv, NEW c \in Calls, Commanded(c),
         NEW kind \in ErrorKind, Settle(c, Fail(kind)),
         UNCHANGED <<store, issued, clock>>
  PROVE  IInv'
<1>1. Fail(kind) \in Answer /\ Fail(kind).todos = {}
  BY DEF Fail, Answer
<1> QED
  BY <1>1, SettleOK

\* A read: the call waits with rows as they are stored.
LEMMA ReadingOK ==
  ASSUME IInv, NEW c \in Calls, Commanded(c), pc[c] = "idle",
         NEW at \in {"found", "missing"},
         NEW ids \in SUBSET Stored, Suspend(c, at, Read(ids)),
         command'[c].op \in {"update", "complete", "get"} =>
           ids \subseteq {command'[c].id},
         UNCHANGED <<store, issued, clock>>
  PROVE  IInv'
<1>1. Read(ids) = {store[id] : id \in ids}
  BY ReadOK
<1>2. ASSUME NEW todo \in Read(ids)
      PROVE  /\ Current(todo)' /\ todo \in Todo
             /\ command'[c].op \in {"update", "complete", "get"} =>
                  todo.id = command'[c].id
  BY <1>1, <1>2, ReadOK DEF IInv, RowsCurrent, Current
<1>3. Onward
  BY MaxClockIsNat DEF Onward, IInv, TypeOK
<1>4. RowsCurrent'
  BY DEF IInv, RowsCurrent, Current, Stored
<1> HIDE DEF Read
<1> QED
  BY <1>2, <1>3, <1>4, SuspendOK DEF IInv, TypeOK, Stored

LEMMA CreateRefusedOK ==
  ASSUME IInv, NEW c \in Calls, NEW cmd \in Commands, CreateRefused(c, cmd)
  PROVE  IInv'
BY GivenCommanded, RefusalOK DEF CreateRefused, Given, ErrorKind

LEMMA IdRefusedOK ==
  ASSUME IInv, NEW c \in Calls, NEW cmd \in Commands, IdRefused(c, cmd)
  PROVE  IInv'
BY GivenCommanded, RefusalOK DEF IdRefused, Given, ErrorKind

LEMMA NotFoundOK ==
  ASSUME IInv, NEW c \in Calls, NotFound(c)
  PROVE  IInv'
BY KeptCommanded, RefusalOK DEF NotFound, ErrorKind

LEMMA PatchRefusedOK ==
  ASSUME IInv, NEW c \in Calls, PatchRefused(c)
  PROVE  IInv'
<1>1. PatchError(command[c]) \in ErrorKind
  BY DEF PatchRefused, PatchError, ErrorKind
<1> QED
  BY <1>1, KeptCommanded, RefusalOK DEF PatchRefused, Resumed

LEMMA LookupOK ==
  ASSUME IInv, NEW c \in Calls, NEW cmd \in Commands, Lookup(c, cmd)
  PROVE  IInv'
<1> DEFINE ids == WithId(cmd.id)
<1>1. ids \in SUBSET Stored /\ ids \subseteq {cmd.id}
  BY DEF WithId
<1>2. Readable(ids)
  BY <1>1, ReadOK
<1>3. Suspend(c, FoundIf(ids # {}), Read(ids))
  BY <1>2 DEF Lookup
<1>4. FoundIf(ids # {}) \in {"found", "missing"}
  BY DEF FoundIf
<1>5. Commanded(c) /\ command'[c] = cmd /\ pc[c] = "idle"
  BY GivenCommanded DEF Lookup, Given
<1> HIDE DEF ids
<1> QED
  BY <1>1, <1>3, <1>4, <1>5, ReadingOK DEF Lookup, Given

LEMMA CheckExistsOK ==
  ASSUME IInv, NEW c \in Calls, NEW cmd \in Commands, CheckExists(c, cmd)
  PROVE  IInv'
<1>1. Commanded(c) /\ command'[c] = cmd /\ pc[c] = "idle"
  BY GivenCommanded DEF CheckExists, Given
<1>2. Read({}) = {} /\ {} \in SUBSET Stored
  BY DEF Read
<1>3. FoundIf(cmd.id \in Stored) \in {"found", "missing"}
  BY DEF FoundIf
<1>4. Suspend(c, FoundIf(cmd.id \in Stored), Read({}))
  BY <1>2 DEF CheckExists
<1>5. UNCHANGED <<store, issued, clock>>
  BY DEF CheckExists, Given
<1> HIDE DEF Read, FoundIf
<1> QED
  BY <1>1, <1>2, <1>3, <1>4, <1>5, ReadingOK

LEMMA ListReadsOK ==
  ASSUME IInv, NEW c \in Calls, NEW cmd \in Commands, ListReads(c, cmd)
  PROVE  IInv'
<1> DEFINE ids == IF cmd.status \in {Undefined, Null} THEN Stored
                  ELSE WithStatus(UpperCase(cmd.status))
<1>1. ids \in SUBSET Stored
  BY DEF WithStatus
<1>2. Readable(ids)
  BY <1>1, ReadOK
<1>3. Suspend(c, "found", Read(ids))
  BY <1>2 DEF ListReads
<1>4. Commanded(c) /\ command'[c] = cmd /\ pc[c] = "idle" /\ cmd.op = "list"
  BY GivenCommanded DEF ListReads, Given
<1> HIDE DEF ids
<1> QED
  BY <1>1, <1>3, <1>4, ReadingOK DEF ListReads, Given

\* A write of one todo: the call waits with the version it stored.
LEMMA WritingOK ==
  ASSUME IInv, Onward, UNCHANGED clock,
         issued' \in [DOMAIN issued' -> Date], DOMAIN issued' \subseteq Ids,
         NEW c \in Calls, Commanded(c), pc[c] # "answered",
         NEW todo, Current(todo)', MapSet(todo), Suspend(c, "write", {todo}),
         command'[c].op \in {"update", "complete", "get"} =>
           todo.id = command'[c].id,
         Honours(command'[c], todo)
  PROVE  IInv'
<1>1. clock' \in Nat
  BY MaxClockIsNat DEF IInv, TypeOK
<1>2. /\ RowsCurrent'
      /\ store' \in [Stored' -> Todo] /\ Stored' \subseteq Ids
  BY <1>1, MapSetOK
<1>3. {todo} \in SUBSET Todo
  BY DEF Current, WellFormed
<1> QED
  BY <1>2, <1>3, SuspendOK

LEMMA CreateSavesOK ==
  ASSUME IInv, NEW c \in Calls, NEW cmd \in Commands, CreateSaves(c, cmd)
  PROVE  IInv'
<1>1. /\ Commanded(c) /\ command'[c] = cmd /\ pc[c] = "idle"
      /\ cmd.op = "create" /\ UNCHANGED clock
  BY GivenCommanded DEF CreateSaves, Given
<1>2. /\ cmd.title \in Text \cup {Undefined, Null}
      /\ cmd.description \in Text \cup {Undefined, Null}
      /\ clock \in Date
  BY CommandsTyped, MaxClockIsNat DEF Command, IInv, TypeOK, Date
<1>3. PICK id \in Ids \ DOMAIN issued :
        LET todo == CreateTodo(id, cmd.title, cmd.description, clock) IN
        /\ issued' = [i \in DOMAIN issued \cup {id} |->
                        IF i = id THEN clock ELSE issued[i]]
        /\ MapSet(todo)
        /\ Suspend(c, "write", {todo})
  BY DEF CreateSaves
<1>0. PICK todo : todo = CreateTodo(id, cmd.title, cmd.description, clock)
  OBVIOUS
<1>4. /\ WellFormed(todo) /\ todo.id = id
      /\ todo.createdAt = clock /\ todo.updatedAt = clock
      /\ todo.title = TitleValue(cmd.title)
      /\ todo.description = DescriptionValue(cmd.description)
      /\ todo.status = "PENDING"
  BY <1>0, <1>2, CreateTodoOK DEF CreateSaves
<1>5. /\ DOMAIN issued' = DOMAIN issued \cup {id}
      /\ issued'[id] = clock
      /\ \A i \in DOMAIN issued : issued'[i] = issued[i]
      /\ issued' \in [DOMAIN issued' -> Date] /\ DOMAIN issued' \subseteq Ids
  BY <1>2, <1>3 DEF IInv, TypeOK
<1>6. Onward
  BY <1>1, <1>2, <1>5 DEF Onward, Date
<1>7. Current(todo)'
  BY <1>1, <1>2, <1>4, <1>5
  DEF Current, WellFormed, TitleOK, DescriptionOK, Date, Todo
<1>8. Honours(cmd, todo)
  BY <1>1, <1>4 DEF Honours
<1>9. MapSet(todo) /\ Suspend(c, "write", {todo})
  BY <1>0, <1>3
<1> QED
  BY <1>1, <1>5, <1>6, <1>7, <1>8, <1>9, WritingOK

LEMMA PatchWritesOK ==
  ASSUME IInv, NEW c \in Calls, PatchWrites(c)
  PROVE  IInv'
<1>1. /\ command[c].op = "update" /\ pc[c] = "found" /\ Commanded(c)
      /\ PatchError(command[c]) = "none" /\ command[c] \in Command
      /\ UNCHANGED <<issued, clock, command>>
  BY KeptCommanded DEF PatchWrites, Resumed, IInv, CallsInStep
<1>2. PICK old \in held[c] :
        LET todo == Patched(old, command[c], clock) IN
        MapSet(todo) /\ Suspend(c, "write", {todo})
  BY DEF PatchWrites
<1>0. PICK todo : todo = Patched(old, command[c], clock)
  OBVIOUS
<1>3. Current(old) /\ old.id = command[c].id /\ clock \in Date
  BY <1>1, <1>2, MaxClockIsNat
  DEF IInv, CopiesCurrent, CallsInStep, TypeOK, Date
<1>4. /\ WellFormed(todo)
      /\ todo.id = old.id /\ todo.createdAt = old.createdAt
      /\ todo.updatedAt = IF EmptyPatch(command[c]) THEN old.updatedAt
                          ELSE clock
      /\ todo.title = IF command[c].title = Undefined THEN old.title
                      ELSE TitleValue(command[c].title)
      /\ todo.description =
           IF command[c].description = Undefined THEN old.description
           ELSE DescriptionValue(command[c].description)
      /\ todo.status = IF command[c].status = Undefined THEN old.status
                       ELSE UpperCase(command[c].status)
  BY <1>0, <1>1, <1>3, PatchedOK DEF Current
<1>5. MapSet(todo) /\ Suspend(c, "write", {todo})
  BY <1>0, <1>2
<1>6. Current(todo)'
  BY <1>1, <1>3, <1>4
  DEF Current, WellFormed, TitleOK, DescriptionOK, Date, Todo
<1>7. Honours(command[c], todo)
  BY <1>1, <1>3, <1>4 DEF Honours
<1>8. Onward
  BY <1>1, <1>3 DEF Onward, Date
<1> QED
  BY <1>1, <1>3, <1>4, <1>5, <1>6, <1>7, <1>8, WritingOK DEF IInv, TypeOK

LEMMA CompleteWritesOK ==
  ASSUME IInv, NEW c \in Calls, CompleteWrites(c)
  PROVE  IInv'
<1>1. /\ command[c].op = "complete" /\ pc[c] = "found" /\ Commanded(c)
      /\ UNCHANGED <<issued, clock, command>>
  BY KeptCommanded DEF CompleteWrites, Resumed
<1>2. PICK old \in held[c] :
        LET todo == MarkAsCompleted(old, clock) IN
        MapSet(todo) /\ Suspend(c, "write", {todo})
  BY DEF CompleteWrites
<1>0. PICK todo : todo = MarkAsCompleted(old, clock)
  OBVIOUS
<1>3. Current(old) /\ old.id = command[c].id /\ clock \in Date
  BY <1>1, <1>2, MaxClockIsNat
  DEF IInv, CopiesCurrent, CallsInStep, TypeOK, Date
<1>4. Later(todo, old, clock) /\ todo.status = "COMPLETED"
  BY <1>0, <1>3, MarkAsCompletedOK DEF Current
<1>5. MapSet(todo) /\ Suspend(c, "write", {todo})
  BY <1>0, <1>2
<1>6. Current(todo)'
  BY <1>1, <1>3, <1>4
  DEF Later, Current, WellFormed, TitleOK, DescriptionOK, Date, Todo
<1>7. Honours(command[c], todo)
  BY <1>1, <1>3, <1>4 DEF Honours, Later
<1>8. Onward
  BY <1>1, <1>3 DEF Onward, Date
<1> QED
  BY <1>1, <1>3, <1>4, <1>5, <1>6, <1>7, <1>8, WritingOK
  DEF IInv, TypeOK, Later

LEMMA DeleteRemovesOK ==
  ASSUME IInv, NEW c \in Calls, DeleteRemoves(c)
  PROVE  IInv'
<1>1. /\ pc[c] = "found" /\ Commanded(c)
      /\ UNCHANGED <<issued, clock, command>>
      /\ Suspend(c, "write", {})
  BY KeptCommanded DEF DeleteRemoves, Resumed
<1>2. /\ Stored' = Stored \ {command[c].id}
      /\ \A id \in Stored' : store'[id] = store[id]
      /\ store' \in [Stored' -> Todo] /\ Stored' \subseteq Ids
  BY DEF DeleteRemoves, MapDelete, Stored, IInv, TypeOK
<1>3. RowsCurrent'
  BY <1>1, <1>2 DEF IInv, RowsCurrent, Current
<1>4. Onward
  BY <1>1, MaxClockIsNat DEF Onward, IInv, TypeOK
<1>5. issued' \in [DOMAIN issued' -> Date] /\ DOMAIN issued' \subseteq Ids
  BY <1>1 DEF IInv, TypeOK
<1>6. /\ UNCHANGED clock /\ pc[c] # "answered"
      /\ {} \in SUBSET Todo /\ "write" \in {"found", "missing", "write"}
  BY <1>1
<1> QED
  BY <1>1, <1>2, <1>3, <1>4, <1>5, <1>6, SuspendOK

\* A segment that answers with what the call holds.
LEMMA AnsweringOK ==
  ASSUME IInv, NEW c \in Calls, pc[c] \in {"found", "write"},
         Settle(c, Ok(held[c])),
         pc[c] = "write" \/ command[c].op \in {"get", "list"},
         UNCHANGED <<store, issued, clock, command>>
  PROVE  IInv'
<1>1. Ok(held[c]) \in Answer /\ Ok(held[c]).todos = held[c]
  BY DEF Ok, Answer, IInv, TypeOK
<1>2. \A todo \in held[c] : Honours(command'[c], todo)
  BY DEF IInv, CallsInStep, Honours
<1> QED
  BY <1>1, <1>2, KeptCommanded, SettleOK

LEMMA TickOK ==
  ASSUME IInv, Tick
  PROVE  IInv'
<1>1. clock' \in 0..MaxClock /\ Onward
  BY MaxClockIsNat DEF Tick, IInv, TypeOK, Onward
<1>2. \A todo : Current(todo) => Current(todo)'
  BY <1>1, CurrentStays DEF IInv
<1>3. TypeOK'
  BY <1>1 DEF Tick, IInv, TypeOK, Stored
<1>4. RowsCurrent' /\ CopiesCurrent'
  BY <1>2 DEF Tick, IInv, RowsCurrent, CopiesCurrent, Stored
<1>5. CallsInStep' /\ AnswerHonoursCommand'
  BY DEF Tick, IInv, CallsInStep, AnswerHonoursCommand
<1> QED
  BY <1>3, <1>4, <1>5 DEF IInv

-----------------------------------------------------------------------------
(* The invariant holds *)

LEMMA InitIInv == Init => IInv
<1> SUFFICES ASSUME Init PROVE IInv
  OBVIOUS
<1>1. TypeOK
  BY MaxClockIsNat DEF Init, TypeOK, Stored, Pc, Fail, Answer
<1>2. RowsCurrent /\ CopiesCurrent /\ CallsInStep
  BY DEF Init, RowsCurrent, CopiesCurrent, CallsInStep, Stored
<1>3. AnswerHonoursCommand
  BY DEF Init, AnswerHonoursCommand, Fail
<1> QED
  BY <1>1, <1>2, <1>3 DEF IInv

LEMMA NextIInv == IInv /\ [Next]_vars => IInv'
<1> SUFFICES ASSUME IInv, [Next]_vars PROVE IInv'
  OBVIOUS
<1>1. CASE Tick
  BY <1>1, TickOK
<1>2. ASSUME NEW c \in Calls, Invoke(c) PROVE IInv'
  BY <1>2, CreateRefusedOK, CreateSavesOK, IdRefusedOK, LookupOK,
     CheckExistsOK, ListReadsOK DEF Invoke, Execute
<1>3. ASSUME NEW c \in Calls, Resume(c) PROVE IInv'
  <2>1. CASE NotFound(c)
    BY <2>1, NotFoundOK
  <2>2. CASE PatchRefused(c)
    BY <2>2, PatchRefusedOK
  <2>3. CASE PatchWrites(c)
    BY <2>3, PatchWritesOK
  <2>4. CASE CompleteWrites(c)
    BY <2>4, CompleteWritesOK
  <2>5. CASE DeleteRemoves(c)
    BY <2>5, DeleteRemovesOK
  <2>6. CASE GetAnswers(c)
    BY <2>6, AnsweringOK DEF GetAnswers, Resumed
  <2>7. CASE ListAnswers(c)
    BY <2>7, AnsweringOK DEF ListAnswers, Resumed
  <2>8. CASE Written(c)
    BY <2>8, AnsweringOK DEF Written
  <2> QED
    BY <1>3, <2>1, <2>2, <2>3, <2>4, <2>5, <2>6, <2>7, <2>8 DEF Resume
<1>4. CASE UNCHANGED vars
  BY <1>4
  DEF vars, IInv, TypeOK, RowsCurrent, CopiesCurrent, CallsInStep,
      AnswerHonoursCommand, Current, Stored
<1> QED
  BY <1>1, <1>2, <1>3, <1>4 DEF Next

\* The invariant holds in every reachable state, for any number of calls.
THEOREM Invariance == Spec => []IInv
BY InitIInv, NextIInv, PTL DEF Spec

\* Every variable has its type.
THEOREM TypeCorrectness == Spec => []TypeOK
<1>1. IInv => TypeOK
  BY DEF IInv
<1> QED
  BY <1>1, Invariance, PTL

\* Every row of the Map passes toDomain and is read back as it was stored.
THEOREM RowsReadable == Spec => []StoredTodosReadable
<1>1. IInv => StoredTodosReadable
  <2> SUFFICES ASSUME IInv, NEW id \in Stored
               PROVE  StoredTodosReadable!(id)
    BY DEF StoredTodosReadable
  <2>1. store[id].id = id /\ WellFormed(store[id])
    BY DEF IInv, RowsCurrent, Current
  <2>2. Readable({id}) /\ Read({id}) = {store[i] : i \in {id}}
    BY ReadOK
  <2> QED
    BY <2>1, <2>2
<1> QED
  BY <1>1, Invariance, PTL

\* A successful answer shows what its caller asked for.
THEOREM AnswersHonourCommands == Spec => []AnswerHonoursCommand
<1>1. IInv => AnswerHonoursCommand
  BY DEF IInv
<1> QED
  BY <1>1, Invariance, PTL

\* The creation time of a todo is fixed when its id is issued.
THEOREM CreationTimeFixed == Spec => []BirthFixed
<1>1. IInv => BirthFixed
  BY DEF IInv, RowsCurrent, CopiesCurrent, Current, BirthFixed
<1> QED
  BY <1>1, Invariance, PTL

-----------------------------------------------------------------------------
(***************************************************************************)
(* What a step may never do: lose or bring back a todo, turn back a todo's  *)
(* time, write more than it was asked to, or write and be refused.  Every   *)
(* proof has the same shape: a step is a segment of one call, the segments  *)
(* that write are three, and IInv says what such a call holds.              *)
(***************************************************************************)

(* The shape of a step *)

\* A step leaves call d where it was.
Untouched(d) ==
  /\ pc'[d] = pc[d]
  /\ command'[d] = command[d]
  /\ held'[d] = held[d]
  /\ answer'[d] = answer[d]

\* A segment that settles or suspends call c is c's own.
LEMMA OthersUntouched ==
  ASSUME IInv, NEW c \in Calls, Commanded(c),
         \/ \E outcome : Settle(c, outcome)
         \/ \E at, todos : Suspend(c, at, todos)
  PROVE  \A d \in Calls \ {c} : Untouched(d)
BY DEF IInv, TypeOK, Commanded, Settle, Suspend, Untouched

\* The first segment of a use case is its call's own.
LEMMA InvokeTouchesOne ==
  ASSUME IInv, NEW c \in Calls, Invoke(c)
  PROVE  \A d \in Calls \ {c} : Untouched(d)
<1>1. PICK cmd \in Commands : Execute(c, cmd)
  BY DEF Invoke
<1>2. Given(c, cmd)
  BY <1>1 DEF Execute, CreateRefused, CreateSaves, IdRefused, Lookup,
              CheckExists, ListReads
<1>3. Commanded(c)
  BY <1>2, GivenCommanded
<1>4. \/ \E outcome : Settle(c, outcome)
      \/ \E at, todos : Suspend(c, at, todos)
  BY <1>1 DEF Execute, CreateRefused, CreateSaves, IdRefused, Lookup,
              CheckExists, ListReads
<1> QED
  BY <1>3, <1>4, OthersUntouched

\* So is every later segment.
LEMMA ResumeTouchesOne ==
  ASSUME IInv, NEW c \in Calls, Resume(c)
  PROVE  /\ \A d \in Calls \ {c} : Untouched(d)
         /\ pc[c] \in {"found", "missing", "write"}
         /\ UNCHANGED <<issued, clock, command>>
<1>1. /\ pc[c] \in {"found", "missing", "write"}
      /\ UNCHANGED <<issued, clock, command>>
  BY DEF Resume, NotFound, PatchRefused, PatchWrites, CompleteWrites,
         DeleteRemoves, GetAnswers, ListAnswers, Written, Resumed
<1>2. Commanded(c)
  BY <1>1, KeptCommanded
<1>3. \/ \E outcome : Settle(c, outcome)
      \/ \E at, todos : Suspend(c, at, todos)
  BY DEF Resume, NotFound, PatchRefused, PatchWrites, CompleteWrites,
         DeleteRemoves, GetAnswers, ListAnswers, Written
<1> QED
  BY <1>1, <1>2, <1>3, OthersUntouched

\* The segments that do not leave their call with a read.
LEMMA ActsAreDone ==
  ASSUME IInv, NEW c \in Calls,
         \/ Resume(c)
         \/ \E cmd \in Commands :
              CreateRefused(c, cmd) \/ CreateSaves(c, cmd) \/ IdRefused(c, cmd)
  PROVE  pc'[c] \in {"write", "answered"}
<1>1. \/ \E outcome : Settle(c, outcome)
      \/ \E todos : Suspend(c, "write", todos)
  BY DEF Resume, NotFound, PatchRefused, PatchWrites, CompleteWrites,
         DeleteRemoves, GetAnswers, ListAnswers, Written, CreateRefused,
         CreateSaves, IdRefused
<1> QED
  BY <1>1 DEF Settle, Suspend, IInv, TypeOK

\* The segments that change the repository: a create, the second segment of an
\* update or a completion, the second segment of a delete.
LEMMA StoreChanges ==
  ASSUME [Next]_vars
  PROVE  \/ UNCHANGED <<store, issued>>
         \/ \E c \in Calls : \E cmd \in Commands : CreateSaves(c, cmd)
         \/ \E c \in Calls : PatchWrites(c) \/ CompleteWrites(c)
         \/ \E c \in Calls : DeleteRemoves(c)
<1>1. ASSUME NEW c \in Calls, NEW cmd \in Commands, Execute(c, cmd)
      PROVE  UNCHANGED <<store, issued>> \/ CreateSaves(c, cmd)
  BY <1>1 DEF Execute, CreateRefused, IdRefused, Lookup, CheckExists,
              ListReads
<1>2. ASSUME NEW c \in Calls, Resume(c)
      PROVE  \/ UNCHANGED <<store, issued>>
             \/ PatchWrites(c) \/ CompleteWrites(c) \/ DeleteRemoves(c)
  BY <1>2 DEF Resume, NotFound, PatchRefused, GetAnswers, ListAnswers,
              Written, Resumed
<1> QED
  BY <1>1, <1>2 DEF Next, Invoke, Tick, vars

\* What an update or a completion writes: a version of the copy it read, of the
\* todo its command names.
LEMMA HolderWrites ==
  ASSUME IInv, NEW c \in Calls, PatchWrites(c) \/ CompleteWrites(c)
  PROVE  /\ c \in Holders(command[c].id)
         /\ UNCHANGED <<issued, clock>>
         /\ \E old \in held[c], todo \in Todo :
              /\ Current(old)
              /\ old.id = command[c].id
              /\ MapSet(todo)
              /\ Suspend(c, "write", {todo})
              /\ todo.id = command[c].id
              /\ todo.createdAt = old.createdAt
              /\ todo.updatedAt =
                   IF command[c].op = "update" /\ EmptyPatch(command[c])
                   THEN old.updatedAt ELSE clock
              /\ command[c].title = Undefined => todo.title = old.title
              /\ command[c].description = Undefined =>
                   todo.description = old.description
              /\ command[c].op = "update" /\ command[c].status = Undefined =>
                   todo.status = old.status
<1>1. clock \in Date /\ held[c] \subseteq Todo
  BY MaxClockIsNat DEF IInv, TypeOK, Date
<1>2. ASSUME NEW old \in held[c], pc[c] = "found",
             command[c].op \in {"update", "complete"}
      PROVE  /\ Current(old) /\ WellFormed(old) /\ old.updatedAt <= clock
             /\ old.id = command[c].id
  BY <1>2 DEF IInv, CopiesCurrent, CallsInStep, Current
<1>3. CASE PatchWrites(c)
  <2>1. /\ command[c].op = "update" /\ pc[c] = "found"
        /\ PatchError(command[c]) = "none" /\ command[c] \in Command
        /\ UNCHANGED <<issued, clock>>
    BY <1>3 DEF PatchWrites, Resumed, IInv, CallsInStep
  <2>2. PICK old \in held[c] :
          LET todo == Patched(old, command[c], clock) IN
          MapSet(todo) /\ Suspend(c, "write", {todo})
    BY <1>3 DEF PatchWrites
  <2>3. PICK todo : todo = Patched(old, command[c], clock)
    OBVIOUS
  <2>4. /\ WellFormed(todo)
        /\ todo.id = old.id /\ todo.createdAt = old.createdAt
        /\ todo.updatedAt = IF EmptyPatch(command[c]) THEN old.updatedAt
                            ELSE clock
        /\ command[c].title = Undefined => todo.title = old.title
        /\ command[c].description = Undefined =>
             todo.description = old.description
        /\ command[c].status = Undefined => todo.status = old.status
    BY <1>1, <1>2, <2>1, <2>3, PatchedOK
  <2> QED
    BY <1>2, <2>1, <2>2, <2>3, <2>4 DEF Holders, WellFormed
<1>4. CASE CompleteWrites(c)
  <2>1. /\ command[c].op = "complete" /\ pc[c] = "found"
        /\ UNCHANGED <<issued, clock>>
    BY <1>4 DEF CompleteWrites, Resumed
  <2>2. PICK old \in held[c] :
          LET todo == MarkAsCompleted(old, clock) IN
          MapSet(todo) /\ Suspend(c, "write", {todo})
    BY <1>4 DEF CompleteWrites
  <2>3. PICK todo : todo = MarkAsCompleted(old, clock)
    OBVIOUS
  <2>4. /\ WellFormed(todo)
        /\ todo.id = old.id /\ todo.createdAt = old.createdAt
        /\ todo.updatedAt = clock
        /\ todo.title = old.title
        /\ todo.description = old.description
    BY <1>1, <1>2, <2>1, <2>3, MarkAsCompletedOK DEF Later
  <2> QED
    BY <1>2, <2>1, <2>2, <2>3, <2>4 DEF Holders, WellFormed
<1> QED
  BY <1>3, <1>4

\* A call that holds a copy and starts its write writes that copy.
LEMMA HolderStep ==
  ASSUME IInv, [Next]_vars, NEW id, NEW c \in Holders(id), pc'[c] = "write"
  PROVE  PatchWrites(c) \/ CompleteWrites(c)
<1>1. /\ c \in Calls /\ pc[c] = "found" /\ c \in DOMAIN pc
      /\ command[c].op \in {"update", "complete"}
  BY DEF Holders, IInv, TypeOK
<1>2. ASSUME NEW d \in Calls, Invoke(d) PROVE FALSE
  BY <1>1, <1>2, InvokeTouchesOne
  DEF Untouched, Invoke, Execute, CreateRefused, CreateSaves, IdRefused,
      Lookup, CheckExists, ListReads, Given
<1>3. ASSUME NEW d \in Calls, Resume(d) PROVE d = c
  BY <1>1, <1>3, ResumeTouchesOne DEF Untouched
<1>4. Resume(c)
  BY <1>1, <1>2, <1>3 DEF Next, Tick, vars
<1> QED
  BY <1>1, <1>4 DEF Resume, NotFound, PatchRefused, DeleteRemoves, GetAnswers,
     ListAnswers, Written, Resumed, Settle, IInv, TypeOK

-----------------------------------------------------------------------------
(* What a step may never do *)

\* A todo that is gone, and of which no call holds a copy, is not brought back:
\* a create takes an id of its own, and only a holder's write is an upsert.
LEMMA GoneStep ==
  ASSUME IInv, [Next]_vars, NEW id \in DOMAIN issued \ Stored,
         Holders(id) = {}
  PROVE  id \notin DOMAIN store'
<1>1. ASSUME NEW c \in Calls, NEW cmd \in Commands, CreateSaves(c, cmd)
      PROVE  id \notin DOMAIN store'
  BY <1>1 DEF CreateSaves, MapSet, CreateTodo, Stored
<1>2. ASSUME NEW c \in Calls, PatchWrites(c) \/ CompleteWrites(c)
      PROVE  id \notin DOMAIN store'
  <2>1. c \in Holders(command[c].id)
    BY <1>2, HolderWrites
  <2>2. PICK todo \in Todo : MapSet(todo) /\ todo.id = command[c].id
    BY <1>2, HolderWrites
  <2> QED
    BY <2>1, <2>2 DEF MapSet, Stored
<1>3. ASSUME NEW c \in Calls, DeleteRemoves(c)
      PROVE  id \notin DOMAIN store'
  BY <1>3 DEF DeleteRemoves, MapDelete, Stored
<1> QED
  BY <1>1, <1>2, <1>3, StoreChanges DEF Stored

\* Only an update that gives no field turns back the time of a todo's last
\* change: every other write is stamped with the present, which is not before
\* any row's time.
LEMMA TimeStep ==
  ASSUME IInv, [Next]_vars, NEW id \in Stored \cap DOMAIN store'
  PROVE  \/ store'[id].updatedAt >= store[id].updatedAt
         \/ \E c \in Holders(id) : /\ pc'[c] = "write"
                                   /\ command[c].op = "update"
                                   /\ EmptyPatch(command[c])
<1> DEFINE EmptyPatched ==
      \E c \in Holders(id) : /\ pc'[c] = "write"
                             /\ command[c].op = "update"
                             /\ EmptyPatch(command[c])
           Forward == store'[id].updatedAt >= store[id].updatedAt
<1>1. /\ store[id].updatedAt \in Nat /\ clock \in Nat
      /\ store[id].updatedAt <= clock
      /\ id \in DOMAIN issued
  BY MaxClockIsNat
  DEF IInv, TypeOK, RowsCurrent, Current, WellFormed, Todo, Date
<1>2. CASE store'[id] = store[id]
  BY <1>1, <1>2
<1>3. ASSUME NEW c \in Calls, NEW cmd \in Commands, CreateSaves(c, cmd)
      PROVE  store'[id] = store[id]
  BY <1>1, <1>3 DEF CreateSaves, MapSet, CreateTodo, Stored
<1>4. ASSUME NEW c \in Calls, DeleteRemoves(c)
      PROVE  store'[id] = store[id]
  BY <1>4 DEF DeleteRemoves, MapDelete, Stored
<1>5. ASSUME NEW c \in Calls, PatchWrites(c) \/ CompleteWrites(c)
      PROVE  Forward \/ EmptyPatched
  <2>1. pc'[c] = "write"
    BY <1>5 DEF PatchWrites, CompleteWrites, Suspend, IInv, TypeOK
  <2>2. PICK todo \in Todo :
          /\ MapSet(todo)
          /\ todo.id = command[c].id
          /\ \/ todo.updatedAt = clock
             \/ command[c].op = "update" /\ EmptyPatch(command[c])
    BY <1>5, HolderWrites
  <2>3. CASE id # todo.id
    BY <1>2, <2>2, <2>3 DEF MapSet, Stored
  <2>4. CASE id = todo.id
    <3>1. store'[id] = todo /\ c \in Holders(id)
      BY <1>5, <2>2, <2>4, HolderWrites DEF MapSet, Stored
    <3> QED
      BY <1>1, <2>1, <2>2, <3>1
  <2> QED
    BY <2>3, <2>4
<1> QED
  BY <1>2, <1>3, <1>4, <1>5, StoreChanges

\* A write on top of the version it read changes the fields it was given.
LEMMA PatchStep ==
  ASSUME IInv, [Next]_vars, NEW id \in Stored \cap DOMAIN store',
         NEW c \in Holders(id), pc'[c] = "write", held[c] = {store[id]}
  PROVE  /\ store'[id].createdAt = store[id].createdAt
         /\ command[c].title = Undefined =>
              store'[id].title = store[id].title
         /\ command[c].description = Undefined =>
              store'[id].description = store[id].description
         /\ command[c].op = "update" /\ command[c].status = Undefined =>
              store'[id].status = store[id].status
<1>1. c \in Calls /\ command[c].id = id
  BY DEF Holders
<1>2. PatchWrites(c) \/ CompleteWrites(c)
  BY HolderStep
<1>3. PICK todo \in Todo :
        /\ MapSet(todo)
        /\ todo.id = id
        /\ todo.createdAt = store[id].createdAt
        /\ command[c].title = Undefined => todo.title = store[id].title
        /\ command[c].description = Undefined =>
             todo.description = store[id].description
        /\ command[c].op = "update" /\ command[c].status = Undefined =>
             todo.status = store[id].status
  BY <1>1, <1>2, HolderWrites
<1>4. store'[id] = todo
  BY <1>3 DEF MapSet, Stored
<1> QED
  BY <1>3, <1>4

\* A segment that settles its call writes nothing, and settles a call that has
\* written with success.
LEMMA SettlingStep ==
  ASSUME IInv, [Next]_vars, NEW c \in Calls,
         pc[c] # "answered", pc'[c] = "answered"
  PROVE  /\ UNCHANGED <<store, issued>>
         /\ pc[c] = "write" => answer'[c].error = "none"
<1>1. ASSUME NEW d \in Calls, Invoke(d) PROVE c = d
  BY <1>1, InvokeTouchesOne DEF Untouched
<1>2. ASSUME NEW d \in Calls, Resume(d) PROVE c = d
  BY <1>2, ResumeTouchesOne DEF Untouched
<1>3. Invoke(c) \/ Resume(c)
  BY <1>1, <1>2 DEF Next, Tick, vars
<1>4. CASE Invoke(c)
  BY <1>4 DEF Invoke, Execute, CreateRefused, CreateSaves, IdRefused, Lookup,
     CheckExists, ListReads, Given, Suspend, IInv, TypeOK
<1>5. CASE Resume(c)
  <2>1. CASE Written(c)
    BY <2>1 DEF Written, Settle, Ok, IInv, TypeOK
  <2>2. CASE ~ Written(c)
    BY <1>5, <2>2 DEF Resume, NotFound, PatchRefused, PatchWrites,
       CompleteWrites, DeleteRemoves, GetAnswers, ListAnswers, Resumed,
       Suspend, IInv, TypeOK
  <2> QED
    BY <2>1, <2>2
<1> QED
  BY <1>3, <1>4, <1>5

\* A todo that is gone and of which no call holds a copy stays gone.
THEOREM NoUpsertWithoutCopy == Spec => GoneStaysGone
<1>1. IInv /\ [Next]_vars => GoneStaysGone!1
  BY GoneStep
<1> QED
  BY <1>1, Invariance, PTL DEF Spec, GoneStaysGone

\* The time of a todo's last change moves back only under an empty update.
THEOREM TimeMovesForward == Spec => UpdatedAtMovesForward
<1>1. IInv /\ [Next]_vars => UpdatedAtMovesForward!1
  BY TimeStep
<1> QED
  BY <1>1, Invariance, PTL DEF Spec, UpdatedAtMovesForward

\* A write based on the stored version changes only the fields it was given.
THEOREM PatchesKeepTheRest == Spec => OnlyPatchedFieldsChange
<1>1. IInv /\ [Next]_vars => OnlyPatchedFieldsChange!1
  BY PatchStep
<1> QED
  BY <1>1, Invariance, PTL DEF Spec, OnlyPatchedFieldsChange

\* A refused call has written nothing, a call that has written is not refused.
THEOREM RefusalsWriteNothing == Spec => RefusedCallChangesNothing
<1>1. IInv /\ [Next]_vars => RefusedCallChangesNothing!1
  BY SettlingStep
<1> QED
  BY <1>1, Invariance, PTL DEF Spec, RefusedCallChangesNothing

-----------------------------------------------------------------------------
(* Only a delete removes a todo *)

\* Call d is a delete of this id that found it and has not failed.
DeletedBy(d, id) ==
  /\ command[d].op = "delete"
  /\ command[d].id = id
  /\ pc[d] \in {"write", "answered"}
  /\ answer[d].error = "none"

\* Once a delete has removed its todo, it is never refused.
LEMMA DeletedStays ==
  ASSUME IInv, [Next]_vars, NEW id, NEW d \in Calls, DeletedBy(d, id)
  PROVE  DeletedBy(d, id)'
<1>1. ASSUME NEW c \in Calls, Invoke(c) PROVE Untouched(d)
  BY <1>1, InvokeTouchesOne
  DEF DeletedBy, Invoke, Execute, CreateRefused, CreateSaves, IdRefused,
      Lookup, CheckExists, ListReads, Given
<1>2. ASSUME NEW c \in Calls, Resume(c), c # d PROVE Untouched(d)
  BY <1>2, ResumeTouchesOne
<1>3. CASE Resume(d)
  <2>1. Written(d)
    BY <1>3, ResumeTouchesOne
    DEF DeletedBy, Resume, NotFound, PatchRefused, PatchWrites, CompleteWrites,
        DeleteRemoves, GetAnswers, ListAnswers, Resumed
  <2> QED
    BY <2>1 DEF DeletedBy, Written, Settle, Ok, IInv, TypeOK
<1>4. CASE Untouched(d)
  BY <1>4 DEF DeletedBy, Untouched
<1> QED
  BY <1>1, <1>2, <1>3, <1>4 DEF Next, Tick, vars, Untouched

\* A todo that was created is missing only if a delete of its id found it.
THEOREM OnlyDeletesRemove == Spec => []OnlyDeleteRemoves
<1>1. Init => OnlyDeleteRemoves
  BY DEF Init, OnlyDeleteRemoves
<1>2. IInv /\ OnlyDeleteRemoves /\ [Next]_vars => OnlyDeleteRemoves'
  <2> SUFFICES ASSUME IInv, OnlyDeleteRemoves, [Next]_vars,
                      NEW id \in DOMAIN issued'
               PROVE  \/ id \in Stored'
                      \/ \E d \in Calls : DeletedBy(d, id)'
    BY DEF OnlyDeleteRemoves, DeletedBy
  <2>1. id \in DOMAIN issued =>
          id \in Stored \/ \E d \in Calls : DeletedBy(d, id)'
    BY DeletedStays DEF OnlyDeleteRemoves, DeletedBy
  <2>2. CASE UNCHANGED <<store, issued>>
    BY <2>1, <2>2 DEF Stored
  <2>3. ASSUME NEW c \in Calls, NEW cmd \in Commands, CreateSaves(c, cmd)
        PROVE  id \in Stored' \/ \E d \in Calls : DeletedBy(d, id)'
    BY <2>1, <2>3 DEF CreateSaves, CreateTodo, MapSet, Stored
  <2>4. ASSUME NEW c \in Calls, PatchWrites(c) \/ CompleteWrites(c)
        PROVE  id \in Stored' \/ \E d \in Calls : DeletedBy(d, id)'
    BY <2>1, <2>4, HolderWrites DEF MapSet, Stored
  <2>5. ASSUME NEW c \in Calls, DeleteRemoves(c)
        PROVE  id \in Stored' \/ \E d \in Calls : DeletedBy(d, id)'
    <3>1. DOMAIN issued' = DOMAIN issued /\ Stored' = Stored \ {command[c].id}
      BY <2>5 DEF DeleteRemoves, Resumed, MapDelete, Stored
    <3>2. command[c].id = id => DeletedBy(c, id)'
      BY <2>5 DEF DeleteRemoves, Resumed, Suspend, DeletedBy, Fail, IInv, TypeOK,
                  CallsInStep
    <3> QED
      BY <2>1, <3>1, <3>2
  <2> QED
    BY <2>2, <2>3, <2>4, <2>5, StoreChanges
<1> QED
  BY <1>1, <1>2, Invariance, PTL DEF Spec
=============================================================================
