------------------------------- MODULE Requests -------------------------------
(***************************************************************************)
(* REST and GraphQL requests from the socket to the response: express's body *)
(* parser, the global ValidationPipe, the mapper, the use case of           *)
(* TodoUseCases, and, when one of them throws, the filters and strategies of *)
(* ErrorResponses.  The requests of both entry points run concurrently over *)
(* one repository.                                                         *)
(*                                                                         *)
(* A GraphQL request stands for one field of an operation that the schema   *)
(* has already accepted.                                                   *)
(***************************************************************************)
EXTENDS TodoUseCases, ErrorResponses

CONSTANT Incoming  \* the requests clients may send

VARIABLES
  request,  \* what each call was asked for
  reply     \* what its client received

serverVars == <<vars, request, reply>>

\* The path and query parameters and the body, or the arguments of a field.  A
\* body may also have a property the DTO does not know ("extra"), be no JSON, or
\* be longer than the 100 kB express reads.
Request == [entry : {"REST", "GRAPHQL"},
            op : Ops \ {"complete"},
            id : Ids \cup {BlankId, Undefined},
            title : Text \cup {Undefined, Null},
            description : Text \cup {Undefined, Null},
            status : RawStatus \cup {Undefined, Null},
            body : {"plain", "extra", "malformed", "oversized"}]

NoRequest == [entry |-> "none"]
NoReply == [entry |-> "none"]

-----------------------------------------------------------------------------
(* The DTOs.  Their decorators look at the raw text, before any trim.       *)

\* @IsString() @MinLength(min) @MaxLength(max): class-validator counts a
\* surrogate pair once, unlike the length of a string.
IsLength(text, min, max) ==
  text \in Text /\ text.characters + text.padding \in min..max

\* @IsOptional() skips the other decorators for null as well as undefined.
Optional(field, decorators) == field \in {Undefined, Null} \/ decorators

\* Mutant: the DTO allows one character more than the value object.
CreateTodoRequestLoose(req) ==
  /\ IsLength(req.title, 1, 201)
  /\ Optional(req.description, IsLength(req.description, 0, 1000))

CreateTodoRequest(req) ==
  /\ IsLength(req.title, 1, 200)
  /\ Optional(req.description, IsLength(req.description, 0, 1000))

UpdateTodoRequest(req) ==
  /\ Optional(req.title, IsLength(req.title, 1, 200))
  /\ Optional(req.description, IsLength(req.description, 0, 1000))
  /\ Optional(req.status, req.status \in TodoStatus)

CreateTodoInput(req) ==
  /\ IsLength(req.title, 1, 200)
  /\ Optional(req.description, IsLength(req.description, 0, 1000))

\* Mutant: the status of the input is not optional.
UpdateTodoInputRequired(req) ==
  /\ Optional(req.title, IsLength(req.title, 1, 200))
  /\ Optional(req.description, IsLength(req.description, 0, 1000))
  /\ req.status \in TodoStatus

UpdateTodoInput(req) ==
  /\ Optional(req.title, IsLength(req.title, 1, 200))
  /\ Optional(req.description, IsLength(req.description, 0, 1000))
  /\ Optional(req.status, req.status \in TodoStatus)

\* GetTodoArgs and ListTodosArgs are classes, but without decorators: under
\* forbidNonWhitelisted their fields id and status (a class field is there even
\* when no status was given) are properties that should not exist.
UndecoratedArgs(req) == req.entry = "GRAPHQL" /\ req.op \in {"get", "list"}

\* What the ValidationPipe lets through.  Parameters of a path or a query string
\* and single arguments are plain strings, which it takes as they are.
PipeAccepts(req) ==
  /\ req.body # "extra"
  /\ ~ UndecoratedArgs(req)
  /\ req.op = "create" => IF req.entry = "REST" THEN CreateTodoRequest(req)
                                                ELSE CreateTodoInput(req)
  /\ req.op = "update" => IF req.entry = "REST" THEN UpdateTodoRequest(req)
                                                ELSE UpdateTodoInput(req)

\* What body-parser throws instead of a body.
ParserError ==
  [malformed |-> "MalformedBodyException", oversized |-> "PayloadTooLargeError"]

Parses(req) == req.body \notin DOMAIN ParserError

Admitted(req) == Parses(req) /\ PipeAccepts(req)

-----------------------------------------------------------------------------
(* The commands and queries *)

\* What a class does not take is not there.
Blanks == [op |-> "none", id |-> Undefined, title |-> Undefined,
           description |-> Undefined, status |-> Undefined]

CreateTodoCommand(title, description) ==
  [Blanks EXCEPT !.op = "create", !.title = title, !.description = description]

UpdateTodoCommand(id, title, description, status) ==
  [Blanks EXCEPT !.op = "update", !.id = id, !.title = title,
                 !.description = description, !.status = status]

DeleteTodoCommand(id) == [Blanks EXCEPT !.op = "delete", !.id = id]

GetTodoByIdQuery(id) == [Blanks EXCEPT !.op = "get", !.id = id]

ListTodosQuery(status) == [Blanks EXCEPT !.op = "list", !.status = status]

-----------------------------------------------------------------------------
(* The REST mappers *)

\* toISOString.
Iso(date) == [iso |-> date]

CreateRestToCommand(req) == CreateTodoCommand(req.title, req.description)

CreateRestToResponse(result) ==
  [id |-> result.id, title |-> result.title,
   description |-> result.description, status |-> result.status,
   createdAt |-> Iso(result.createdAt), updatedAt |-> Iso(result.updatedAt)]

UpdateRestToCommand(req) ==
  UpdateTodoCommand(req.id, req.title, req.description, req.status)

UpdateRestToResponse(result) ==
  [id |-> result.id, title |-> result.title,
   description |-> result.description, status |-> result.status,
   createdAt |-> Iso(result.createdAt), updatedAt |-> Iso(result.updatedAt)]

DeleteRestToCommand(req) == DeleteTodoCommand(req.id)

DeleteRestToResponse(result) ==
  [success |-> result.success, deletedId |-> result.deletedId]

GetRestToQuery(req) == GetTodoByIdQuery(req.id)

GetRestToResponse(result) ==
  [id |-> result.id, title |-> result.title,
   description |-> result.description, status |-> result.status,
   createdAt |-> Iso(result.createdAt), updatedAt |-> Iso(result.updatedAt)]

ListRestToQuery(req) == ListTodosQuery(req.status)

ListRestToResponse(item) ==
  [id |-> item.id, title |-> item.title,
   description |-> item.description, status |-> item.status,
   createdAt |-> Iso(item.createdAt), updatedAt |-> Iso(item.updatedAt)]

-----------------------------------------------------------------------------
(* The GraphQL mappers *)

CreateGraphqlToCommand(req) == CreateTodoCommand(req.title, req.description)

CreateGraphqlToType(result) ==
  [id |-> result.id, title |-> result.title,
   description |-> result.description, status |-> result.status,
   createdAt |-> result.createdAt, updatedAt |-> result.updatedAt]

\* Mutant: two arguments of one type have changed places.
UpdateGraphqlToCommandSwapped(req) ==
  UpdateTodoCommand(req.id, req.description, req.title, req.status)

UpdateGraphqlToCommand(req) ==
  UpdateTodoCommand(req.id, req.title, req.description, req.status)

UpdateGraphqlToType(result) ==
  [id |-> result.id, title |-> result.title,
   description |-> result.description, status |-> result.status,
   createdAt |-> result.createdAt, updatedAt |-> result.updatedAt]

DeleteGraphqlToCommand(req) == DeleteTodoCommand(req.id)

DeleteGraphqlToType(result) ==
  [success |-> result.success, deletedId |-> result.deletedId]

GetGraphqlToQuery(req) == GetTodoByIdQuery(req.id)

GetGraphqlToType(result) ==
  [id |-> result.id, title |-> result.title,
   description |-> result.description, status |-> result.status,
   createdAt |-> result.createdAt, updatedAt |-> result.updatedAt]

ListGraphqlToQuery(req) == ListTodosQuery(req.status)

ListGraphqlToType(item) ==
  [id |-> item.id, title |-> item.title,
   description |-> item.description, status |-> item.status,
   createdAt |-> item.createdAt, updatedAt |-> item.updatedAt]

-----------------------------------------------------------------------------
(* The handlers *)

\* The command or query a handler of the controller makes.
RestCommand(req) ==
  CASE req.op = "create" -> CreateRestToCommand(req)
    [] req.op = "update" -> UpdateRestToCommand(req)
    [] req.op = "delete" -> DeleteRestToCommand(req)
    [] req.op = "get"    -> GetRestToQuery(req)
    [] req.op = "list"   -> ListRestToQuery(req)

\* And the resolver's.
GraphQLCommand(req) ==
  CASE req.op = "create" -> CreateGraphqlToCommand(req)
    [] req.op = "update" -> UpdateGraphqlToCommand(req)
    [] req.op = "delete" -> DeleteGraphqlToCommand(req)
    [] req.op = "get"    -> GetGraphqlToQuery(req)
    [] req.op = "list"   -> ListGraphqlToQuery(req)

ToCommand(req) ==
  IF req.entry = "REST" THEN RestCommand(req) ELSE GraphQLCommand(req)

\* DeleteTodoUseCase's result is made of its command.
DeleteTodoResult(cmd) == [success |-> TRUE, deletedId |-> cmd.id]

\* What the use case of a call has returned.
Result(c) == IF command[c].op = "delete" THEN DeleteTodoResult(command[c])
                                         ELSE answer[c].todos

\* The response of each handler of the controller.  (Its status, 201 of a create
\* and 200 else, is left out.)
RestResponse(op, result) ==
  CASE op = "create" -> [todos |-> {CreateRestToResponse(t) : t \in result}]
    [] op = "update" -> [todos |-> {UpdateRestToResponse(t) : t \in result}]
    [] op = "delete" -> DeleteRestToResponse(result)
    [] op = "get"    -> [todos |-> {GetRestToResponse(t) : t \in result}]
    [] op = "list"   -> [todos |-> {ListRestToResponse(t) : t \in result}]

GraphQLType(op, result) ==
  CASE op = "create" -> [todos |-> {CreateGraphqlToType(t) : t \in result}]
    [] op = "update" -> [todos |-> {UpdateGraphqlToType(t) : t \in result}]
    [] op = "delete" -> DeleteGraphqlToType(result)
    [] op = "get"    -> [todos |-> {GetGraphqlToType(t) : t \in result}]
    [] op = "list"   -> [todos |-> {ListGraphqlToType(t) : t \in result}]

Success(req, result) ==
  IF req.entry = "REST" THEN RestResponse(req.op, result)
                        ELSE GraphQLType(req.op, result)

\* GraphQLAppModule's formatError: of the extensions the filter made, code and
\* timestamp are passed on, the rest is replaced.
FormatError(formatted) == [code |-> formatted.code, hidden |-> formatted.hidden]

Failure(req, error) ==
  IF req.entry = "REST" THEN RestProblem(error)
                        ELSE FormatError(GraphQLFormat(error))

-----------------------------------------------------------------------------
(* Handling a request *)

\* The body parser throws.  There is no route yet and no entry point but HTTP:
\* a GraphQL client is answered a problem document, too.
Unparsed(c, req) ==
  /\ request[c] = NoRequest
  /\ ~ Parses(req)
  /\ request' = [request EXCEPT ![c] = req]
  /\ reply' = [reply EXCEPT ![c] = RestProblem(ParserError[req.body])]
  /\ UNCHANGED vars

\* The pipe throws a BadRequestException; no use case is called.
Refuse(c, req) ==
  /\ request[c] = NoRequest
  /\ Parses(req)
  /\ ~ PipeAccepts(req)
  /\ request' = [request EXCEPT ![c] = req]
  /\ reply' = [reply EXCEPT ![c] = Failure(req, "ValidationPipeException")]
  /\ UNCHANGED vars

\* The handler maps the request and calls the use case.
Accept(c, req) ==
  /\ request[c] = NoRequest
  /\ Admitted(req)
  /\ Execute(c, ToCommand(req))
  /\ request' = [request EXCEPT ![c] = req]
  /\ UNCHANGED reply

Continue(c) ==
  /\ Resume(c)
  /\ UNCHANGED <<request, reply>>

\* Mutant: a rejected promise is nobody's to answer.
DeliverResults(c) ==
  /\ pc[c] = "answered"
  /\ reply[c] = NoReply
  /\ answer[c].error = "none"
  /\ reply' = [reply EXCEPT ![c] = Success(request[c], Result(c))]
  /\ UNCHANGED <<vars, request>>

\* The use case has settled: its result is mapped, its error filtered.
Deliver(c) ==
  /\ pc[c] = "answered"
  /\ reply[c] = NoReply
  /\ reply' = [reply EXCEPT ![c] =
                 IF answer[c].error = "none"
                 THEN Success(request[c], Result(c))
                 ELSE Failure(request[c], answer[c].error)]
  /\ UNCHANGED <<vars, request>>

Pass == Tick /\ UNCHANGED <<request, reply>>

ServerInit ==
  /\ Init
  /\ request = [c \in Calls |-> NoRequest]
  /\ reply = [c \in Calls |-> NoReply]

ServerNext ==
  \/ Pass
  \/ \E c \in Calls :
       \/ \E req \in Incoming :
            Unparsed(c, req) \/ Refuse(c, req) \/ Accept(c, req)
       \/ Continue(c)
       \/ Deliver(c)

\* The event loop gets round to every settled promise.
ServerFairness ==
  \A c \in Calls : WF_serverVars(Continue(c)) /\ WF_serverVars(Deliver(c))

ServerSpec == ServerInit /\ [][ServerNext]_serverVars /\ ServerFairness

ASSUME IncomingTyped == Incoming \subseteq Request

\* A handler is given what its operation takes: the id of the path or of the
\* schema's required argument, the fields of its body or arguments; whatever
\* else a body has is extra.
ASSUME IncomingShaped ==
  \A req \in Incoming :
    /\ req.op \in ByIdOps => req.id # Undefined
    /\ req.op \notin {"create", "update"} =>
         req.title = Undefined /\ req.description = Undefined
    /\ req.op \notin {"update", "list"} => req.status = Undefined

\* The commands callers may pass are those the mappers make.
ASSUME CommandsMapped ==
  \A req \in Incoming : Admitted(req) => ToCommand(req) \in Commands

-----------------------------------------------------------------------------
(* Properties *)

Failed(c) == "code" \in DOMAIN reply[c]

Shown(c) == IF "todos" \in DOMAIN reply[c] THEN reply[c].todos ELSE {}

\* Whether a reply shows the field as the request gave it, or it gave none.
Shows(value, asked) == asked \in {Undefined, Null} \/ value = asked

\* A todo in the form the client's protocol has for it.
InForm(entry, todo) ==
  IF entry = "REST" THEN [todo EXCEPT !.createdAt = Iso(todo.createdAt),
                                      !.updatedAt = Iso(todo.updatedAt)]
  ELSE todo

\* Through DTO, mapper, use case and mapper, at either entry point and whatever
\* runs at the same time, a client told of a success is shown the todo it
\* addressed, with the fields it gave, trimmed, and with every other field as
\* the use case left it: nothing swapped, dropped or another call's (the ten
\* mappers pass positional strings one way and copy fields the other).
RepliesFitRequests ==
  \A c \in Calls :
    LET req == request[c] IN
    /\ "deletedId" \in DOMAIN reply[c] =>
         reply[c].success /\ reply[c].deletedId = req.id
    /\ \A todo \in Shown(c) :
         /\ req.op \in ByIdOps => todo.id = req.id
         /\ Shows(todo.title,
                  IF req.title \in Text THEN TitleValue(req.title) ELSE Null)
         /\ Shows(todo.description,
                  IF req.description \in Text
                  THEN DescriptionValue(req.description) ELSE Null)
         /\ req.status \in RawStatus => todo.status = UpperCase(req.status)
    /\ "todos" \in DOMAIN reply[c] =>
         reply[c].todos = {InForm(req.entry, todo) : todo \in answer[c].todos}

\* Whose fault an error is said to be: the server's exactly where the body is
\* over the parser's limit (a PayloadTooLargeError is no HttpException), where
\* the pipe refuses a GraphQL field (its exception is one, but not on REST), and
\* where a blank id reaches TodoId.fromString, which throws a plain Error
\* outside every catch.  No other body, however incomplete, null or malformed,
\* is told as a fault of the server, and none of these as the client's.
FaultsAccountedFor ==
  \A c \in Calls :
    LET req == request[c] IN
    reply[c] # NoReply =>
      (Failed(c) /\ reply[c].code = "INTERNAL_ERROR" <=>
         \/ req.body = "oversized"
         \/ Parses(req) /\ req.entry = "GRAPHQL" /\ ~ PipeAccepts(req)
         \/ Admitted(req) /\ req.op \in ByIdOps /\ req.id = BlankId)

\* A text too long by its units but not by its characters.
Miscounted(text, limit) ==
  text \in Text /\ text.length > limit /\ text.characters < text.length

\* The limits of the DTOs imply those of the value objects, but for what they
\* count: of what the pipe lets through, the domain refuses only blanks, nulls
\* and texts whose surrogate pairs it counts twice.
LimitsAgreeButForPairs ==
  \A c \in Calls :
    LET req == request[c] IN
    /\ Failed(c)
    /\ reply[c].code \in {"TODO_VALIDATION_FAILED", "INVALID_TODO_STATUS"}
    => \/ req.title = Null
       \/ req.title \in Text /\ req.title.length = 0
       \/ req.status = Null
       \/ Miscounted(req.title, MaxTitleLength)
       \/ Miscounted(req.description, MaxDescriptionLength)

\* What was answered without a use case.
TurnedAway(c) == request[c] # NoRequest /\ pc[c] = "idle"

\* The DTOs of the two entry points stand for the same rules: of two requests
\* that differ in the entry point only, both reach their use case or neither
\* does.  (The queries of GraphQL never do.)
EntryPointsAdmitAlike ==
  \A c, d \in Calls :
    /\ request[c] # NoRequest /\ request[d] # NoRequest
    /\ [request[c] EXCEPT !.entry = "any"] = [request[d] EXCEPT !.entry = "any"]
    /\ request[c].op \in {"create", "update", "delete"}
    => (TurnedAway(c) <=> TurnedAway(d))

\* Every request is answered, whether it is refused, fails or succeeds.
EveryRequestAnswered ==
  \A c \in Calls : request[c] # NoRequest ~> reply[c] # NoReply

-----------------------------------------------------------------------------
(* What README.md and docs/error-handling.md say of the responses *)

\* README.md: "# Get todo by ID query { todo(id: ...) ... }": the query answers
\* with the todo, or that there is none.
GraphQLGetServed ==
  \A c \in Calls :
    /\ Failed(c)
    /\ request[c].entry = "GRAPHQL"
    /\ request[c].op = "get"
    /\ Parses(request[c])
    /\ request[c].id # BlankId
    => reply[c].code = "TODO_NOT_FOUND"

\* docs/error-handling.md, "GraphQL Response": "classification": "NOT_FOUND".
\* The error of a GraphQL field reaches the client with its classification.
GraphQLErrorsClassified ==
  \A c \in Calls :
    Failed(c) /\ request[c].entry = "GRAPHQL" /\ Parses(request[c]) =>
      "classification" \in DOMAIN reply[c]

\* docs/error-handling.md: a TODO_VALIDATION_FAILED problem with "errors" of the
\* field "title".  A REST validation error of the domain lists the fields it is about.
ValidationErrorsListed ==
  \A c \in Calls :
    /\ Failed(c)
    /\ request[c].entry = "REST"
    /\ reply[c].code = "TODO_VALIDATION_FAILED"
    => reply[c].fields # {}
=============================================================================
