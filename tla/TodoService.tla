----------------------------- MODULE TodoService -----------------------------
(***************************************************************************)
(* What the todo service promises its callers, without awaits, a Map or     *)
(* rows: a call takes effect in one step.  What it decides is decided on    *)
(* the todos as they were at one moment between its invocation and that     *)
(* step; what it changes is one todo, in the todos as they are.  A call     *)
(* during which nothing is written is therefore atomic, and a get or a list *)
(* never shows a mixture of two moments.                                    *)
(*                                                                         *)
(* Outcomes are stated field by field, independently of the order in which  *)
(* the use cases take the fields.                                           *)
(***************************************************************************)
EXTENDS TodoDomain

CONSTANTS
  Calls,    \* the calls callers may make, each made at most once
  Commands  \* the commands and queries callers may pass

VARIABLES
  todos,   \* the todos there are: id -> todo
  issued,  \* id -> creation time, for every id that was ever given to a todo
  clock,   \* the time
  given,   \* what each call was given
  seen,    \* every state of the todos since a call was made, until it acts
  result   \* what each call has been told

vars == <<todos, issued, clock, given, seen, result>>

NotGiven == [op |-> "none"]

Waiting == [error |-> "waiting", todos |-> {}]

Refused(kind) == [error |-> kind, todos |-> {}]

Done(shown) == [error |-> "none", todos |-> shown]

-----------------------------------------------------------------------------
(* What a command asks for *)

Gives(value) == value # Undefined

BadTitle(cmd) == ~ TitleAccepts(cmd.title)

BadDescription(cmd) == ~ DescriptionAccepts(cmd.description)

BadStatus(cmd) == ~ StatusAccepts(cmd.status)

\* A create needs a title, every other command but a list needs an id.
Malformed(cmd) ==
  CASE cmd.op = "create" -> BadTitle(cmd) \/ BadDescription(cmd)
    [] cmd.op = "list"   -> FALSE
    [] OTHER             -> cmd.id \notin Ids

\* The fields of an update that are given and unacceptable.
BadFields(cmd) ==
  {field \in {"title", "description", "status"} :
     \/ field = "title" /\ Gives(cmd.title) /\ BadTitle(cmd)
     \/ field = "description" /\ BadDescription(cmd)
     \/ field = "status" /\ Gives(cmd.status) /\ BadStatus(cmd)}

\* A word that is no status is an error of its own, unless another field is
\* at fault too.
UpdateError(cmd) ==
  IF BadFields(cmd) = {"status"} /\ cmd.status # Null
    THEN "InvalidTodoStatusError"
    ELSE "TodoValidationError"

\* The fields given replace the todo's; an update that gives none leaves the
\* todo as it was, the time of its last change included.
Merge(todo, cmd, now) ==
  [todo EXCEPT
     !.title = IF Gives(cmd.title) THEN TitleValue(cmd.title) ELSE @,
     !.description =
        IF Gives(cmd.description) THEN DescriptionValue(cmd.description)
                                  ELSE @,
     !.status = IF Gives(cmd.status) THEN UpperCase(cmd.status) ELSE @,
     !.updatedAt = IF \E value \in {cmd.title, cmd.description, cmd.status} :
                        Gives(value)
                   THEN now ELSE @]

\* The todos a list asks for, among those of one moment.
Listed(moment, status) ==
  {moment[id] : id \in {i \in DOMAIN moment :
     \/ status \in {Undefined, Null}
     \/ moment[i].status = UpperCase(status)}}

-----------------------------------------------------------------------------
(* The steps *)

Put(todo) ==
  [id \in DOMAIN todos \cup {todo.id} |->
     IF id = todo.id THEN todo ELSE todos[id]]

Without(id) == [other \in DOMAIN todos \ {id} |-> todos[other]]

\* A call acts: it is told its result, and the calls that have not acted yet
\* may have seen what it leaves.
Act(c, told, left) ==
  /\ todos' = left
  /\ result' = [result EXCEPT ![c] = told]
  /\ seen' = [d \in Calls |-> IF d = c \/ seen[d] = {} THEN {}
                              ELSE seen[d] \cup {left}]

Give(c, cmd) ==
  /\ given[c] = NotGiven
  /\ given' = [given EXCEPT ![c] = cmd]
  /\ UNCHANGED clock

Refuse(c, cmd) ==
  /\ Give(c, cmd)
  /\ Malformed(cmd)
  /\ Act(c, Refused(IF cmd.op = "create" THEN "TodoValidationError"
                                         ELSE "Error"), todos)
  /\ UNCHANGED issued

Create(c, cmd) ==
  /\ cmd.op = "create"
  /\ Give(c, cmd)
  /\ ~ Malformed(cmd)
  /\ \E id \in Ids \ DOMAIN issued :
       LET todo == [id |-> id, title |-> TitleValue(cmd.title),
                    description |-> DescriptionValue(cmd.description),
                    status |-> "PENDING",
                    createdAt |-> clock, updatedAt |-> clock]
       IN  /\ Act(c, Done({todo}), Put(todo))
           /\ issued' = [i \in DOMAIN issued \cup {id} |->
                           IF i = id THEN clock ELSE issued[i]]

\* Any other call starts to look at the todos.
Begin(c, cmd) ==
  /\ cmd.op # "create"
  /\ Give(c, cmd)
  /\ ~ Malformed(cmd)
  /\ seen' = [seen EXCEPT ![c] = {todos}]
  /\ UNCHANGED <<todos, issued, result>>

\* The moments at which a call with this operation may have found its todo.
Found(c, op) ==
  {moment \in seen[c] : given[c].op = op /\ given[c].id \in DOMAIN moment}

NotFound(c) ==
  /\ \E moment \in seen[c] :
       given[c].op # "list" /\ given[c].id \notin DOMAIN moment
  /\ Act(c, Refused("TodoNotFoundError"), todos)

RefuseUpdate(c) ==
  /\ Found(c, "update") # {}
  /\ BadFields(given[c]) # {}
  /\ Act(c, Refused(UpdateError(given[c])), todos)

Update(c) ==
  \E moment \in Found(c, "update") :
    /\ BadFields(given[c]) = {}
    /\ LET todo == Merge(moment[given[c].id], given[c], clock)
       IN  Act(c, Done({todo}), Put(todo))

Complete(c) ==
  \E moment \in Found(c, "complete") :
    LET todo == [moment[given[c].id] EXCEPT !.status = "COMPLETED",
                                            !.updatedAt = clock]
    IN  Act(c, Done({todo}), Put(todo))

Delete(c) ==
  /\ Found(c, "delete") # {}
  /\ Act(c, Done({}), Without(given[c].id))

Get(c) ==
  \E moment \in Found(c, "get") :
    Act(c, Done({moment[given[c].id]}), todos)

List(c) ==
  /\ given[c].op = "list"
  /\ \E moment \in seen[c] :
       Act(c, Done(Listed(moment, given[c].status)), todos)

Answer(c) ==
  /\ NotFound(c) \/ RefuseUpdate(c) \/ Update(c) \/ Complete(c)
     \/ Delete(c) \/ Get(c) \/ List(c)
  /\ UNCHANGED <<issued, clock, given>>

\* Time passes.
Pass ==
  /\ clock' \in Date
  /\ clock' > clock
  /\ UNCHANGED <<todos, issued, given, seen, result>>

Init ==
  /\ todos = [id \in {} |-> Null]
  /\ issued = [id \in {} |-> 0]
  /\ clock = 0
  /\ given = [c \in Calls |-> NotGiven]
  /\ seen = [c \in Calls |-> {}]
  /\ result = [c \in Calls |-> Waiting]

Next ==
  \/ Pass
  \/ \E c \in Calls :
       \/ Answer(c)
       \/ \E cmd \in Commands :
            Refuse(c, cmd) \/ Create(c, cmd) \/ Begin(c, cmd)

Spec == Init /\ [][Next]_vars
=============================================================================
