----------------------------- MODULE TodoUseCases -----------------------------
(***************************************************************************)
(* The six use cases of src/application/todo running concurrently over one  *)
(* TodoRepository.                                                          *)
(*                                                                         *)
(* A call of a use case is an async function: it runs without interruption  *)
(* up to its first await, and again from each await to the next.  Between   *)
(* two of these segments any other call may run.  This module is the        *)
(* contract of the port: a waiting call may be resumed at any time and in   *)
(* any order.  InMemoryTodos adds the order in which the in-memory          *)
(* repository's already settled promises resume them.                       *)
(***************************************************************************)
EXTENDS TodoDomain

CONSTANTS
  Calls,     \* the calls callers may make, each made at most once
  Commands,  \* the commands and queries callers may pass
  MaxClock   \* bound on the wall clock

VARIABLES
  store,    \* the repository's Map: id -> row
  issued,   \* id -> creation time, for every id TodoId.create() has returned
  clock,    \* what new Date() reads
  pc,       \* where each call is
  command,  \* what each call was given
  held,     \* the todos each call holds across its await
  answer    \* how each call's promise settled

vars == <<store, issued, clock, pc, command, held, answer>>

Ops == {"create", "update", "complete", "delete", "get", "list"}

Command == [op : Ops,
            id : Ids \cup {BlankId, Undefined},
            title : Text \cup {Undefined, Null},
            description : Text \cup {Undefined, Null},
            status : RawStatus \cup {Undefined, Null}]

ErrorKind == {"Error", "TodoNotFoundError", "TodoValidationError",
              "InvalidTodoStatusError"}

\* How a promise settles: with an error, or with the todos the result shows
\* (none for a delete, whose result repeats the id it was given).
Answer == [error : ErrorKind \cup {"none"}, todos : SUBSET Todo]

NoCommand == [op |-> "none"]

\* A call that has not started, awaits a read that found what it looks for or
\* did not, awaits its write, or is settled.
Pc == {"idle", "found", "missing", "write", "answered"}

ASSUME CommandsTyped == Commands \subseteq Command

ASSUME MaxClockIsNat == MaxClock \in Nat

-----------------------------------------------------------------------------
(* The repository (infrastructure/persistence/in-memory) *)

Stored == DOMAIN store

\* save and update are the same Map.set: an upsert under the entity's own id.
MapSet(todo) ==
  store' = [id \in Stored \cup {todo.id} |->
              IF id = todo.id THEN todo ELSE store[id]]

\* Mutant: delete clears the Map.
MapClear(id) == store' = [other \in {} |-> store[other]]

MapDelete(id) == store' = [other \in Stored \ {id} |-> store[other]]

\* findById, findAll and findByStatus read the rows of some ids through
\* toDomain, which throws on a row its value objects refuse.
Readable(ids) == \A id \in ids : ToDomainAccepts(store[id])

Read(ids) == {ToDomain(store[id]) : id \in ids}

WithId(id) == {id} \cap Stored

WithStatus(status) == {id \in Stored : store[id].status = status}

-----------------------------------------------------------------------------
(* Settling and suspending a call *)

Fail(kind) == [error |-> kind, todos |-> {}]

Ok(todos) == [error |-> "none", todos |-> todos]

Settle(c, outcome) ==
  /\ pc' = [pc EXCEPT ![c] = "answered"]
  /\ answer' = [answer EXCEPT ![c] = outcome]
  /\ UNCHANGED held

Suspend(c, at, todos) ==
  /\ pc' = [pc EXCEPT ![c] = at]
  /\ held' = [held EXCEPT ![c] = todos]
  /\ UNCHANGED answer

FoundIf(found) == IF found THEN "found" ELSE "missing"

Given(c, cmd) ==
  /\ pc[c] = "idle"
  /\ command' = [command EXCEPT ![c] = cmd]
  /\ UNCHANGED clock

Resumed(c, op, at) ==
  /\ pc[c] = at
  /\ command[c].op = op
  /\ UNCHANGED <<issued, clock, command>>

-----------------------------------------------------------------------------
(* CreateTodoUseCase *)

\* The value objects refuse: the plain Error becomes a TodoValidationError.
CreateRefused(c, cmd) ==
  /\ cmd.op = "create"
  /\ Given(c, cmd)
  /\ ~ (TitleAccepts(cmd.title) /\ DescriptionAccepts(cmd.description))
  /\ Settle(c, Fail("TodoValidationError"))
  /\ UNCHANGED <<store, issued>>

\* Mutant: an id is fresh when no stored todo has it.
CreateSavesReusing(c, cmd) ==
  /\ cmd.op = "create"
  /\ Given(c, cmd)
  /\ TitleAccepts(cmd.title)
  /\ DescriptionAccepts(cmd.description)
  /\ \E id \in Ids \ Stored :
       LET todo == CreateTodo(id, cmd.title, cmd.description, clock) IN
       /\ issued' = [i \in DOMAIN issued \cup {id} |->
                       IF i = id THEN clock ELSE issued[i]]
       /\ MapSet(todo)
       /\ Suspend(c, "write", {todo})

\* The todo gets a uuid no todo ever had and is saved before the await.
CreateSaves(c, cmd) ==
  /\ cmd.op = "create"
  /\ Given(c, cmd)
  /\ TitleAccepts(cmd.title)
  /\ DescriptionAccepts(cmd.description)
  /\ \E id \in Ids \ DOMAIN issued :
       LET todo == CreateTodo(id, cmd.title, cmd.description, clock) IN
       /\ issued' = [i \in DOMAIN issued \cup {id} |->
                       IF i = id THEN clock ELSE issued[i]]
       /\ MapSet(todo)
       /\ Suspend(c, "write", {todo})

-----------------------------------------------------------------------------
(* The first segment of the use cases that take an id *)

ByIdOps == {"update", "complete", "delete", "get"}

\* TodoId.fromString throws outside any try: the caller gets the plain Error.
IdRefused(c, cmd) ==
  /\ cmd.op \in ByIdOps
  /\ Given(c, cmd)
  /\ ~ FromStringAccepts(cmd.id)
  /\ Settle(c, Fail("Error"))
  /\ UNCHANGED <<store, issued>>

\* findById is called; the call waits holding what it returned.  A row that
\* toDomain refuses makes findById throw instead.
Lookup(c, cmd) ==
  /\ cmd.op \in {"update", "complete", "get"}
  /\ Given(c, cmd)
  /\ FromStringAccepts(cmd.id)
  /\ LET ids == WithId(cmd.id) IN
       IF Readable(ids) THEN Suspend(c, FoundIf(ids # {}), Read(ids))
                        ELSE Settle(c, Fail("Error"))
  /\ UNCHANGED <<store, issued>>

\* exists reads the keys of the Map only.
CheckExists(c, cmd) ==
  /\ cmd.op = "delete"
  /\ Given(c, cmd)
  /\ FromStringAccepts(cmd.id)
  /\ Suspend(c, FoundIf(cmd.id \in Stored), {})
  /\ UNCHANGED <<store, issued>>

\* Mutant: delete has no answer for an id that does not exist.
NotFoundExceptDelete(c) ==
  /\ pc[c] = "missing"
  /\ command[c].op # "delete"
  /\ Settle(c, Fail("TodoNotFoundError"))
  /\ UNCHANGED <<store, issued, clock, command>>

\* The second segment of each of them starts by refusing an unknown id.
NotFound(c) ==
  /\ pc[c] = "missing"
  /\ Settle(c, Fail("TodoNotFoundError"))
  /\ UNCHANGED <<store, issued, clock, command>>

-----------------------------------------------------------------------------
(* UpdateTodoUseCase *)

TitleRefused(cmd) == cmd.title # Undefined /\ ~ TitleAccepts(cmd.title)

DescriptionRefused(cmd) == ~ DescriptionAccepts(cmd.description)

StatusRefused(cmd) == cmd.status # Undefined /\ ~ StatusAccepts(cmd.status)

\* Mutant: the catch lets the TypeError through.
PatchErrorUncaught(cmd) ==
  IF TitleRefused(cmd) \/ DescriptionRefused(cmd)
    THEN "TodoValidationError"
  ELSE IF StatusRefused(cmd)
    THEN IF cmd.status = Null THEN "Error" ELSE "InvalidTodoStatusError"
  ELSE "none"

\* The fields are taken in the order title, description, status and the first
\* that is refused decides the error; null.toUpperCase() is a TypeError, which
\* the catch turns into a validation error like the value objects' own.
PatchError(cmd) ==
  IF TitleRefused(cmd) \/ DescriptionRefused(cmd)
    THEN "TodoValidationError"
  ELSE IF StatusRefused(cmd)
    THEN IF cmd.status = Null THEN "TodoValidationError"
                              ELSE "InvalidTodoStatusError"
  ELSE "none"

EmptyPatch(cmd) ==
  /\ cmd.title = Undefined
  /\ cmd.description = Undefined
  /\ cmd.status = Undefined

\* Mutant: a field that is not given is taken for null.
PatchedOverwriting(todo, cmd, now) ==
  LET t1 == IF cmd.title = Undefined THEN todo
            ELSE UpdateTitle(todo, cmd.title, now)
      t2 == UpdateDescription(t1, cmd.description, now)
  IN  IF cmd.status = Undefined THEN t2 ELSE UpdateStatus(t2, cmd.status, now)

\* Mutant: the status is validated but never applied.
PatchedForgetting(todo, cmd, now) ==
  LET t1 == IF cmd.title = Undefined THEN todo
            ELSE UpdateTitle(todo, cmd.title, now)
  IN  IF cmd.description = Undefined THEN t1
      ELSE UpdateDescription(t1, cmd.description, now)

Patched(todo, cmd, now) ==
  LET t1 == IF cmd.title = Undefined THEN todo
            ELSE UpdateTitle(todo, cmd.title, now)
      t2 == IF cmd.description = Undefined THEN t1
            ELSE UpdateDescription(t1, cmd.description, now)
  IN  IF cmd.status = Undefined THEN t2 ELSE UpdateStatus(t2, cmd.status, now)

\* Mutant: the fields that were accepted before the refusal are written.
PatchRefusedHalfway(c) ==
  /\ Resumed(c, "update", "found")
  /\ PatchError(command[c]) # "none"
  /\ Settle(c, Fail(PatchError(command[c])))
  /\ IF TitleRefused(command[c]) THEN UNCHANGED store
     ELSE \E todo \in held[c] : MapSet(UpdateTitle(todo, todo.title, clock))

PatchRefused(c) ==
  /\ Resumed(c, "update", "found")
  /\ PatchError(command[c]) # "none"
  /\ Settle(c, Fail(PatchError(command[c])))
  /\ UNCHANGED store

\* Mutant: a write is dropped when the todo has changed meanwhile, and
\* answered all the same.
PatchWritesIfCurrent(c) ==
  /\ Resumed(c, "update", "found")
  /\ PatchError(command[c]) = "none"
  /\ \E old \in held[c] :
       LET todo == Patched(old, command[c], clock) IN
       /\ IF Read(WithId(old.id)) = {old} THEN MapSet(todo)
                                         ELSE UNCHANGED store
       /\ Suspend(c, "write", {todo})

\* The whole entity, read one await earlier, is written back with the patch.
PatchWrites(c) ==
  /\ Resumed(c, "update", "found")
  /\ PatchError(command[c]) = "none"
  /\ \E old \in held[c] :
       LET todo == Patched(old, command[c], clock) IN
       /\ MapSet(todo)
       /\ Suspend(c, "write", {todo})

-----------------------------------------------------------------------------
(* CompleteTodoUseCase, DeleteTodoUseCase *)

CompleteWrites(c) ==
  /\ Resumed(c, "complete", "found")
  /\ \E old \in held[c] :
       LET todo == MarkAsCompleted(old, clock) IN
       /\ MapSet(todo)
       /\ Suspend(c, "write", {todo})

DeleteRemoves(c) ==
  /\ Resumed(c, "delete", "found")
  /\ MapDelete(command[c].id)
  /\ Suspend(c, "write", {})

\* The last segment of the use cases that write: the result is built from the
\* entity that was handed to the repository (for a delete, from the id).
Written(c) ==
  /\ pc[c] = "write"
  /\ Settle(c, Ok(held[c]))
  /\ UNCHANGED <<store, issued, clock, command>>

-----------------------------------------------------------------------------
(* GetTodoByIdUseCase, ListTodosUseCase *)

GetAnswers(c) ==
  /\ Resumed(c, "get", "found")
  /\ Settle(c, Ok(held[c]))
  /\ UNCHANGED store

\* A status is upper-cased and matched as it is: an unknown one finds nothing.
ListReads(c, cmd) ==
  /\ cmd.op = "list"
  /\ Given(c, cmd)
  /\ LET ids == IF cmd.status \in {Undefined, Null} THEN Stored
                ELSE WithStatus(UpperCase(cmd.status))
     IN  IF Readable(ids) THEN Suspend(c, "found", Read(ids))
                          ELSE Settle(c, Fail("Error"))
  /\ UNCHANGED <<store, issued>>

ListAnswers(c) ==
  /\ Resumed(c, "list", "found")
  /\ Settle(c, Ok(held[c]))
  /\ UNCHANGED store

-----------------------------------------------------------------------------
(* The specification *)

\* The wall clock moves forward.
Tick ==
  /\ clock < MaxClock
  /\ clock' = clock + 1
  /\ UNCHANGED <<store, issued, pc, command, held, answer>>

Init ==
  /\ store = [id \in {} |-> Null]
  /\ issued = [id \in {} |-> 0]
  /\ clock = 0
  /\ pc = [c \in Calls |-> "idle"]
  /\ command = [c \in Calls |-> NoCommand]
  /\ held = [c \in Calls |-> {}]
  /\ answer = [c \in Calls |-> Fail("none")]

\* The segment of execute(cmd) up to the first await.
Execute(c, cmd) ==
  \/ CreateRefused(c, cmd)
  \/ CreateSaves(c, cmd)
  \/ IdRefused(c, cmd)
  \/ Lookup(c, cmd)
  \/ CheckExists(c, cmd)
  \/ ListReads(c, cmd)

\* A caller invokes a use case.
Invoke(c) == \E cmd \in Commands : Execute(c, cmd)

\* The promise a call waits for has settled: the segment up to the next await.
Resume(c) ==
  \/ NotFound(c)
  \/ PatchRefused(c)
  \/ PatchWrites(c)
  \/ CompleteWrites(c)
  \/ DeleteRemoves(c)
  \/ GetAnswers(c)
  \/ ListAnswers(c)
  \/ Written(c)

Next ==
  \/ Tick
  \/ \E c \in Calls : Invoke(c) \/ Resume(c)

\* Every promise of the repository settles, so a waiting call is resumed.
Fairness == \A c \in Calls : WF_vars(Resume(c))

Spec == Init /\ [][Next]_vars /\ Fairness

-----------------------------------------------------------------------------
(* Properties *)

\* Each variable has its type.
TypeOK ==
  /\ store \in [Stored -> Todo] /\ Stored \subseteq Ids
  /\ issued \in [DOMAIN issued -> Date] /\ DOMAIN issued \subseteq Ids
  /\ clock \in 0..MaxClock
  /\ pc \in [Calls -> Pc]
  /\ command \in [Calls -> Command \cup {NoCommand}]
  /\ held \in [Calls -> SUBSET Todo]
  /\ answer \in [Calls -> Answer]

\* The calls that may still write back the copy of a todo they read before.
Holders(id) ==
  {c \in Calls : /\ pc[c] = "found"
                 /\ command[c].op \in {"update", "complete"}
                 /\ command[c].id = id}

\* Every row of the Map passes the value objects' checks and is read back as
\* it was stored, so findById, findAll and findByStatus never throw and never
\* change a todo (InMemoryTodoRepository.toDomain re-creates the value objects
\* on every read).
StoredTodosReadable ==
  \A id \in Stored :
    /\ store[id].id = id
    /\ WellFormed(store[id])
    /\ Readable({id})
    /\ Read({id}) = {store[id]}

\* A todo keeps the creation time its id was issued with, through updates,
\* completions, deletion and a write that brings it back.
BirthFixed ==
  /\ \A id \in Stored :
       id \in DOMAIN issued /\ store[id].createdAt = issued[id]
  /\ \A c \in Calls : \A todo \in held[c] :
       todo.id \in DOMAIN issued /\ todo.createdAt = issued[todo.id]

\* A todo that was created is missing only if a delete of that very id found
\* it: neither a failed call nor a write to another todo loses it.
OnlyDeleteRemoves ==
  \A id \in DOMAIN issued :
    \/ id \in Stored
    \/ \E c \in Calls : /\ command[c].op = "delete"
                        /\ command[c].id = id
                        /\ pc[c] \in {"write", "answered"}
                        /\ answer[c].error = "none"

\* repository.update is an upsert, so an update in flight can bring a deleted
\* todo back; but once a todo is gone and no call holds a copy of it, it stays
\* gone.
GoneStaysGone ==
  [][\A id \in DOMAIN issued \ Stored :
       Holders(id) = {} => id \notin DOMAIN store']_vars

\* The time of a stored todo's last change moves back only when an update that
\* gives no field writes back the older copy it read.
UpdatedAtMovesForward ==
  [][\A id \in Stored \cap DOMAIN store' :
       \/ store'[id].updatedAt >= store[id].updatedAt
       \/ \E c \in Holders(id) : /\ pc'[c] = "write"
                                 /\ command[c].op = "update"
                                 /\ EmptyPatch(command[c])]_vars

\* A write that is based on the version now stored changes only the fields it
\* was given: what is lost in a lost update is lost to a stale copy, never to
\* the patch.
OnlyPatchedFieldsChange ==
  [][\A id \in Stored \cap DOMAIN store' : \A c \in Holders(id) :
       pc'[c] = "write" /\ held[c] = {store[id]} =>
         /\ store'[id].createdAt = store[id].createdAt
         /\ command[c].title = Undefined =>
              store'[id].title = store[id].title
         /\ command[c].description = Undefined =>
              store'[id].description = store[id].description
         /\ command[c].op = "update" /\ command[c].status = Undefined =>
              store'[id].status = store[id].status]_vars

\* A call that is refused, at whichever field or await, has written nothing;
\* and a call that has written is not refused any more.
RefusedCallChangesNothing ==
  [][\A c \in Calls :
       pc[c] # "answered" /\ pc'[c] = "answered" =>
         /\ answer'[c].error # "none" => UNCHANGED <<store, issued>>
         /\ pc[c] = "write" => answer'[c].error = "none"]_vars

\* The todo shows every field the command gave, in its normalised form.
Honours(cmd, todo) ==
  /\ cmd.op = "create" => todo.status = "PENDING"
  /\ cmd.op = "complete" => todo.status = "COMPLETED"
  /\ cmd.op = "update" /\ cmd.status # Undefined =>
       todo.status = UpperCase(cmd.status)
  /\ cmd.op \in {"create", "update"} =>
       /\ cmd.title # Undefined => todo.title = TitleValue(cmd.title)
       /\ cmd.description # Undefined =>
            todo.description = DescriptionValue(cmd.description)
  /\ cmd.op \in {"update", "complete", "get"} => todo.id = cmd.id

\* A successful answer shows every field the caller gave, and the todo the
\* caller named, whatever other calls did meanwhile.
AnswerHonoursCommand ==
  \A c \in Calls : \A todo \in answer[c].todos : Honours(command[c], todo)

\* Every call that is made is answered.
EveryCallAnswered ==
  \A c \in Calls : pc[c] # "idle" ~> pc[c] = "answered"
=============================================================================
