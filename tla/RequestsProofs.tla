---------------------------- MODULE RequestsProofs ----------------------------
(***************************************************************************)
(* What a client is told, for any number of concurrent requests, ids and    *)
(* texts.  The server is the use cases with a reply for every call, so what *)
(* is proved of them is carried over; to it comes why a use case refuses    *)
(* what the pipe has let through, and which reply each answer becomes.      *)
(***************************************************************************)
EXTENDS Requests, TodoUseCasesProofs

-----------------------------------------------------------------------------
(* The codes of the errors a request can end with *)

\* The prototype chains of the errors a request can end with.
LEMMA Chains ==
  /\ Ancestry["Error"] = {"Error", "Object"}
  /\ Ancestry["TodoNotFoundError"] =
       {"TodoNotFoundError", "DomainError", "BaseError", "Error", "Object"}
  /\ Ancestry["TodoValidationError"] =
       {"TodoValidationError", "DomainError", "BaseError", "Error", "Object"}
  /\ Ancestry["InvalidTodoStatusError"] =
       {"InvalidTodoStatusError", "DomainError", "BaseError", "Error", "Object"}
  /\ Ancestry["ValidationPipeException"] =
       {"ValidationPipeException", "HttpException", "Error", "Object"}
  /\ Ancestry["MalformedBodyException"] =
       {"MalformedBodyException", "HttpException", "Error", "Object"}
  /\ Ancestry["PayloadTooLargeError"] =
       {"PayloadTooLargeError", "Error", "Object"}
<1>1. /\ \A class \in {"TodoNotFoundError", "TodoValidationError",
                        "InvalidTodoStatusError"} :
           Parent(class) = "DomainError"
      /\ \A class \in {"ValidationPipeException", "MalformedBodyException"} :
           Parent(class) = "HttpException"
      /\ \A class \in Layers : Parent(class) = "BaseError"
      /\ \A class \in {"BaseError", "HttpException", "PayloadTooLargeError",
                        "Error"} :
           Parent(class) = "Error"
  BY DEF Parent, Layers
<1>2. \A class \in {"Error", "TodoNotFoundError", "TodoValidationError",
                    "InvalidTodoStatusError", "ValidationPipeException",
                    "MalformedBodyException", "PayloadTooLargeError"} :
        class \in Throwable
  BY DEF Throwable
<1> QED
  BY <1>1, <1>2 DEF Ancestry, Layers

\* The code of each of them.
LEMMA Codes ==
  /\ ErrorCode("Error") = "INTERNAL_ERROR"
  /\ ErrorCode("TodoNotFoundError") = "TODO_NOT_FOUND"
  /\ ErrorCode("TodoValidationError") = "TODO_VALIDATION_FAILED"
  /\ ErrorCode("InvalidTodoStatusError") = "INVALID_TODO_STATUS"
  /\ ErrorCode("ValidationPipeException") = "INTERNAL_ERROR"
  /\ ErrorCode("PayloadTooLargeError") = "INTERNAL_ERROR"
<1>1. ErrorCode("Error") = "INTERNAL_ERROR"
  BY Chains DEF ErrorCode, FirstMatch, InstanceOf
<1>2. ErrorCode("TodoNotFoundError") = "TODO_NOT_FOUND"
  BY Chains DEF ErrorCode, FirstMatch, InstanceOf
<1>3. ErrorCode("TodoValidationError") = "TODO_VALIDATION_FAILED"
  BY Chains DEF ErrorCode, FirstMatch, InstanceOf
<1>4. ErrorCode("InvalidTodoStatusError") = "INVALID_TODO_STATUS"
  BY Chains DEF ErrorCode, FirstMatch, InstanceOf
<1>5. ErrorCode("ValidationPipeException") = "INTERNAL_ERROR"
  BY Chains DEF ErrorCode, FirstMatch, InstanceOf
<1>6. ErrorCode("PayloadTooLargeError") = "INTERNAL_ERROR"
  BY Chains DEF ErrorCode, FirstMatch, InstanceOf
<1> QED
  BY <1>1, <1>2, <1>3, <1>4, <1>5, <1>6

\* An HttpException that belongs to no layer is the catch-all filter's, which
\* answers it by itself.
LEMMA CaughtAsHttp ==
  ASSUME NEW error \in {"ValidationPipeException", "MalformedBodyException"}
  PROVE  HandledAsHttp(error)
<1> DEFINE chain ==
      [i \in 1..Len(Registered) |-> Registered[Len(Registered) + 1 - i]]
<1>1. /\ Len(chain) = 5
      /\ chain[5][2] = "GlobalExceptionFilter"
      /\ \A i \in 1..4 : chain[i][1] \in Layers
  BY DEF Registered, Layers
<1>2. FilterFor(error) = "GlobalExceptionFilter"
  <2>1. FilterFor(error) = FirstMatch(chain, error, "GlobalExceptionFilter")
    BY DEF FilterFor
  <2> HIDE DEF chain
  <2>2. \A i \in 1..4 : ~ InstanceOf(error, chain[i][1])
    BY <1>1, Chains DEF Layers, InstanceOf
  <2> DEFINE matches == {i \in 1..Len(chain) : InstanceOf(error, chain[i][1])}
  <2>3. matches = {} \/ matches = {5}
    BY <1>1, <2>2
  <2> QED
    BY <1>1, <2>1, <2>3 DEF FirstMatch
<1> QED
  BY <1>2, Chains DEF HandledAsHttp, InstanceOf

\* How an error that is no HttpException is told on REST.
LEMMA ToldByStrategy ==
  ASSUME NEW error \in ErrorKind \cup {"PayloadTooLargeError"}
  PROVE  RestProblem(error) =
           [status |-> RestStatus(error), code |-> ErrorCode(error),
            hidden |-> DetailHidden(RestStatus(error)),
            fields |-> ValidationFields(error)]
<1>1. InstanceOf(error, "Error") /\ ~ InstanceOf(error, "HttpException")
  BY Chains DEF ErrorKind, InstanceOf
<1>2. Caught(error) = error /\ ~ HandledAsHttp(error)
  BY <1>1 DEF Caught, HandledAsHttp
<1> QED
  BY <1>2 DEF RestProblem, RestFormat

\* How a failure is told at each entry point.
LEMMA FailureCode ==
  ASSUME NEW req \in Request, NEW error \in ErrorKind
  PROVE  /\ "code" \in DOMAIN Failure(req, error)
         /\ Failure(req, error).code = ErrorCode(error)
         /\ {"deletedId", "todos"} \cap DOMAIN Failure(req, error) = {}
<1>1. \E hidden : FormatError(GraphQLFormat(error)) =
                    [code |-> ErrorCode(error), hidden |-> hidden]
  BY DEF FormatError, GraphQLFormat
<1>2. CASE req.entry = "REST"
  BY <1>2, ToldByStrategy DEF Failure
<1>3. CASE req.entry # "REST"
  BY <1>1, <1>3 DEF Failure
<1> QED
  BY <1>2, <1>3

\* How what the pipe refuses is told: on REST as the client's mistake, on
\* GraphQL as the server's.
LEMMA RefusalCode ==
  ASSUME NEW req \in Request
  PROVE  LET failure == Failure(req, "ValidationPipeException") IN
         /\ "code" \in DOMAIN failure
         /\ failure.code = IF req.entry = "REST" THEN "BAD_REQUEST"
                                                 ELSE "INTERNAL_ERROR"
         /\ {"deletedId", "todos"} \cap DOMAIN failure = {}
<1>1. RestProblem("ValidationPipeException") =
        [status |-> 400, code |-> "BAD_REQUEST", hidden |-> FALSE,
         fields |-> {"unknown"}]
  BY CaughtAsHttp DEF RestProblem, HttpProblem
<1>2. \E hidden : FormatError(GraphQLFormat("ValidationPipeException")) =
                    [code |-> "INTERNAL_ERROR", hidden |-> hidden]
  BY Codes DEF FormatError, GraphQLFormat
<1>3. CASE req.entry = "REST"
  BY <1>1, <1>3 DEF Failure
<1>4. CASE req.entry # "REST"
  BY <1>2, <1>4 DEF Failure
<1> QED
  BY <1>3, <1>4

\* How what the body parser refuses is told: a body that is no JSON as the
\* client's mistake, one that is too large as the server's.
LEMMA UnparsedCode ==
  ASSUME NEW req \in Request, ~ Parses(req)
  PROVE  LET problem == RestProblem(ParserError[req.body]) IN
         /\ "code" \in DOMAIN problem
         /\ problem.code = IF req.body = "oversized" THEN "INTERNAL_ERROR"
                                                     ELSE "BAD_REQUEST"
         /\ {"deletedId", "todos"} \cap DOMAIN problem = {}
<1>1. CASE req.body = "malformed"
  <2>1. ParserError[req.body] = "MalformedBodyException"
    BY <1>1 DEF ParserError
  <2>2. RestProblem("MalformedBodyException") =
          [status |-> 400, code |-> "BAD_REQUEST", hidden |-> FALSE,
           fields |-> {}]
    BY CaughtAsHttp DEF RestProblem, HttpProblem
  <2> QED
    BY <1>1, <2>1, <2>2
<1>2. CASE req.body = "oversized"
  <2>1. ParserError[req.body] = "PayloadTooLargeError"
    BY <1>2 DEF ParserError
  <2> QED
    BY <1>2, <2>1, ToldByStrategy, Codes
<1> QED
  BY <1>1, <1>2 DEF Parses, ParserError

\* The mappers of the responses copy every field under its own name, the dates
\* in the form of the protocol.
LEMMA RowsMapped ==
  ASSUME NEW entry \in {"REST", "GRAPHQL"}, NEW rows \in SUBSET Todo
  PROVE  /\ {CreateRestToResponse(t) : t \in rows} = {InForm("REST", t) : t \in rows}
         /\ {UpdateRestToResponse(t) : t \in rows} = {InForm("REST", t) : t \in rows}
         /\ {GetRestToResponse(t) : t \in rows} = {InForm("REST", t) : t \in rows}
         /\ {ListRestToResponse(t) : t \in rows} = {InForm("REST", t) : t \in rows}
         /\ {CreateGraphqlToType(t) : t \in rows} = {InForm("GRAPHQL", t) : t \in rows}
         /\ {UpdateGraphqlToType(t) : t \in rows} = {InForm("GRAPHQL", t) : t \in rows}
         /\ {GetGraphqlToType(t) : t \in rows} = {InForm("GRAPHQL", t) : t \in rows}
         /\ {ListGraphqlToType(t) : t \in rows} = {InForm("GRAPHQL", t) : t \in rows}
<1>1. ASSUME NEW t \in rows
      PROVE  /\ CreateRestToResponse(t) = InForm("REST", t)
             /\ UpdateRestToResponse(t) = InForm("REST", t)
             /\ GetRestToResponse(t) = InForm("REST", t)
             /\ ListRestToResponse(t) = InForm("REST", t)
  BY <1>1 DEF InForm, Todo, CreateRestToResponse, UpdateRestToResponse,
              GetRestToResponse, ListRestToResponse
<1>2. ASSUME NEW t \in rows
      PROVE  /\ CreateGraphqlToType(t) = InForm("GRAPHQL", t)
             /\ UpdateGraphqlToType(t) = InForm("GRAPHQL", t)
             /\ GetGraphqlToType(t) = InForm("GRAPHQL", t)
             /\ ListGraphqlToType(t) = InForm("GRAPHQL", t)
  BY <1>2 DEF InForm, Todo, CreateGraphqlToType, UpdateGraphqlToType,
              GetGraphqlToType, ListGraphqlToType
<1> QED
  BY <1>1, <1>2

\* What a success shows.
LEMMA SuccessShows ==
  ASSUME NEW req \in Request, NEW result,
         req.op # "delete" => result \in SUBSET Todo
  PROVE  LET success == Success(req, result) IN
         /\ "code" \notin DOMAIN success
         /\ "todos" \in DOMAIN success =>
              /\ req.op # "delete"
              /\ success.todos = {InForm(req.entry, t) : t \in result}
         /\ "deletedId" \in DOMAIN success =>
              /\ req.op = "delete"
              /\ success.success = result.success
              /\ success.deletedId = result.deletedId
<1>1. CASE req.op = "delete"
  BY <1>1 DEF Success, RestResponse, GraphQLType, DeleteRestToResponse,
              DeleteGraphqlToType
<1>2. ASSUME req.op # "delete"
      PROVE  Success(req, result) =
               [todos |-> {InForm(req.entry, t) : t \in result}]
  <2>1. req.op \in {"create", "update", "get", "list"}
        /\ req.entry \in {"REST", "GRAPHQL"}
    BY <1>2 DEF Request, Ops
  <2>2. CASE req.entry = "REST"
    <3>1. RestResponse(req.op, result) =
            [todos |-> {InForm("REST", t) : t \in result}]
      BY <1>2, <2>1, RowsMapped DEF RestResponse
    <3> QED
      BY <2>2, <3>1 DEF Success
  <2>3. CASE req.entry = "GRAPHQL"
    <3>1. GraphQLType(req.op, result) =
            [todos |-> {InForm("GRAPHQL", t) : t \in result}]
      BY <1>2, <2>1, RowsMapped DEF GraphQLType
    <3> QED
      BY <2>3, <3>1 DEF Success
  <2> QED
    BY <2>1, <2>2, <2>3
<1> QED
  BY <1>1, <1>2

-----------------------------------------------------------------------------
(* Why a use case refuses, and what a list shows *)

\* The value objects refuse a text or a status of the command.
Refusable(cmd) ==
  \/ /\ cmd.op = "create"
     /\ ~ (TitleAccepts(cmd.title) /\ DescriptionAccepts(cmd.description))
  \/ /\ cmd.op = "update"
     /\ PatchError(cmd) # "none"

\* The plain Error is about an id that is none and the answer to it, a validation
\* error about a value the command gives.
Explained(c) ==
  /\ answer[c].error = "Error" =>
       command[c].op \in ByIdOps /\ ~ FromStringAccepts(command[c].id)
  /\ /\ pc[c] # "idle"
     /\ command[c].op \in ByIdOps
     /\ ~ FromStringAccepts(command[c].id)
     => answer[c].error = "Error"
  /\ answer[c].error \in {"TodoValidationError", "InvalidTodoStatusError"} =>
       Refusable(command[c])

\* A list by status holds and shows todos of that status.
OfStatus(c) ==
  command[c].op = "list" /\ command[c].status \notin {Undefined, Null} =>
    \A todo \in held[c] \cup answer[c].todos :
      todo.status = UpperCase(command[c].status)

\* The two are about the variables of one call.
LEMMA AboutOneCall ==
  ASSUME NEW c \in Calls, Explained(c), OfStatus(c), Untouched(c)
  PROVE  Explained(c)' /\ OfStatus(c)'
BY DEF Explained, OfStatus, Untouched

\* The first segment of a call: it refuses an id or a value of its command, or it
\* has not settled yet.
LEMMA ExecuteExplained ==
  ASSUME IInv, NEW c \in Calls, NEW cmd \in Commands, Execute(c, cmd)
  PROVE  /\ Explained(c)' /\ OfStatus(c)'
         /\ command'[c] = cmd /\ pc[c] = "idle" /\ pc'[c] # "idle"
<1>1. Given(c, cmd)
  BY DEF Execute, CreateRefused, CreateSaves, IdRefused, Lookup, CheckExists,
         ListReads
<1>2. pc[c] = "idle" /\ command'[c] = cmd /\ answer[c] = Fail("none")
  BY <1>1, GivenCommanded DEF Given, IInv, CallsInStep
<1>3. ASSUME NEW at, NEW todos, Suspend(c, at, todos)
      PROVE  answer'[c] = Fail("none") /\ held'[c] = todos /\ pc'[c] = at
  BY <1>2, <1>3 DEF Suspend, IInv, TypeOK
<1>4. ASSUME NEW outcome, Settle(c, outcome)
      PROVE  answer'[c] = outcome /\ pc'[c] = "answered"
  BY <1>4 DEF Settle, IInv, TypeOK
<1>5. CASE CreateRefused(c, cmd)
  <2>1. answer'[c] = Fail("TodoValidationError") /\ Refusable(cmd)
        /\ cmd.op = "create" /\ pc'[c] = "answered"
    BY <1>4, <1>5 DEF CreateRefused, Refusable
  <2> QED
    BY <1>2, <2>1 DEF Explained, OfStatus, Fail, ByIdOps
<1>6. CASE CreateSaves(c, cmd)
  <2>1. answer'[c] = Fail("none") /\ cmd.op = "create"
        /\ pc'[c] = "write"
    BY <1>3, <1>6 DEF CreateSaves
  <2> QED
    BY <1>2, <2>1 DEF Explained, OfStatus, Fail, ByIdOps
<1>7. CASE IdRefused(c, cmd)
  <2>1. answer'[c] = Fail("Error") /\ cmd.op \in ByIdOps
        /\ ~ FromStringAccepts(cmd.id) /\ pc'[c] = "answered"
    BY <1>4, <1>7 DEF IdRefused
  <2> QED
    BY <1>2, <2>1 DEF Explained, OfStatus, Fail, ByIdOps
<1>8. CASE Lookup(c, cmd)
  <2>1. Readable(WithId(cmd.id))
    BY ReadOK DEF WithId
  <2>2. answer'[c] = Fail("none") /\ cmd.op # "list"
        /\ FromStringAccepts(cmd.id) /\ pc'[c] \in {"found", "missing"}
    BY <1>3, <1>8, <2>1 DEF Lookup, FoundIf
  <2> QED
    BY <1>2, <2>2 DEF Explained, OfStatus, Fail, ByIdOps
<1>9. CASE CheckExists(c, cmd)
  <2>1. answer'[c] = Fail("none") /\ cmd.op # "list"
        /\ FromStringAccepts(cmd.id) /\ pc'[c] \in {"found", "missing"}
    BY <1>3, <1>9 DEF CheckExists, FoundIf
  <2> QED
    BY <1>2, <2>1 DEF Explained, OfStatus, Fail, ByIdOps
<1>10. CASE ListReads(c, cmd)
  <2> DEFINE ids == IF cmd.status \in {Undefined, Null} THEN Stored
                    ELSE WithStatus(UpperCase(cmd.status))
  <2>1. ids \in SUBSET Stored
    BY DEF WithStatus
  <2>2. Readable(ids) /\ Read(ids) = {store[id] : id \in ids}
    BY <2>1, ReadOK
  <2>3. answer'[c] = Fail("none") /\ held'[c] = {store[id] : id \in ids}
        /\ cmd.op = "list" /\ pc'[c] = "found"
    BY <1>3, <1>10, <2>2 DEF ListReads
  <2> QED
    BY <1>2, <2>3 DEF Explained, OfStatus, Fail, WithStatus, ByIdOps
<1> QED
  BY <1>2, <1>5, <1>6, <1>7, <1>8, <1>9, <1>10 DEF Execute

\* Its later segments: a patch is refused for a value of the command.
LEMMA ResumeExplained ==
  ASSUME IInv, NEW c \in Calls, Resume(c), Explained(c), OfStatus(c)
  PROVE  Explained(c)' /\ OfStatus(c)' /\ pc'[c] # "idle"
<1>1. pc[c] \in {"found", "missing", "write"} /\ command'[c] = command[c]
      /\ answer[c] = Fail("none")
  BY ResumeTouchesOne DEF IInv, CallsInStep
<1>2. ASSUME NEW todos, Suspend(c, "write", todos)
      PROVE  answer'[c] = Fail("none") /\ held'[c] = todos /\ pc'[c] = "write"
  BY <1>1, <1>2 DEF Suspend, IInv, TypeOK
<1>3. ASSUME NEW outcome, Settle(c, outcome)
      PROVE  answer'[c] = outcome /\ held'[c] = held[c] /\ pc'[c] = "answered"
  BY <1>3 DEF Settle, IInv, TypeOK
<1>4. CASE NotFound(c)
  BY <1>1, <1>3, <1>4 DEF NotFound, Explained, OfStatus, Fail
<1>5. CASE PatchRefused(c)
  <2>1. answer'[c] = Fail(PatchError(command[c])) /\ Refusable(command[c])
        /\ command[c].op = "update" /\ pc'[c] = "answered"
    BY <1>3, <1>5 DEF PatchRefused, Resumed, Refusable
  <2>2. PatchError(command[c]) # "Error"
    BY DEF PatchError
  <2> QED
    BY <1>1, <2>1, <2>2 DEF Explained, OfStatus, Fail
<1>6. CASE PatchWrites(c) \/ CompleteWrites(c) \/ DeleteRemoves(c)
  <2>1. answer'[c] = Fail("none") /\ command[c].op # "list"
        /\ pc'[c] = "write"
    BY <1>2, <1>6 DEF PatchWrites, CompleteWrites, DeleteRemoves, Resumed
  <2> QED
    BY <1>1, <2>1 DEF Explained, OfStatus, Fail
<1>7. CASE GetAnswers(c) \/ ListAnswers(c) \/ Written(c)
  <2>1. answer'[c] = Ok(held[c]) /\ held'[c] = held[c]
        /\ pc'[c] = "answered"
    BY <1>3, <1>7 DEF GetAnswers, ListAnswers, Written
  <2> QED
    BY <1>1, <2>1 DEF Explained, OfStatus, Ok, Fail
<1> QED
  BY <1>4, <1>5, <1>6, <1>7 DEF Resume

\* What the pipe lets through of a title and a description, the value objects
\* accept, but for a blank title and a text that is longer by its units.
LEMMA LimitsSuffice ==
  ASSUME NEW req \in Request
  PROVE  /\ IsLength(req.title, 1, 200) =>
              \/ TitleAccepts(req.title)
              \/ req.title.length = 0
              \/ Miscounted(req.title, MaxTitleLength)
         /\ Optional(req.description, IsLength(req.description, 0, 1000)) =>
              \/ DescriptionAccepts(req.description)
              \/ Miscounted(req.description, MaxDescriptionLength)
         /\ req.status \in TodoStatus => StatusAccepts(req.status)
<1>1. \A text \in Text : /\ Trim(text).length = text.length
                         /\ text.length \in Nat
                         /\ text.characters \in Nat
                         /\ text.padding \in Nat
                         /\ text \notin {Undefined, Null}
  BY AbsentValues DEF Text, Trim
<1>2. ASSUME IsLength(req.title, 1, 200),
             req.title.length # 0, ~ Miscounted(req.title, MaxTitleLength)
      PROVE  TitleAccepts(req.title)
  BY <1>1, <1>2 DEF TitleAccepts, IsLength, Miscounted, MaxTitleLength
<1>3. ASSUME Optional(req.description, IsLength(req.description, 0, 1000)),
             ~ Miscounted(req.description, MaxDescriptionLength)
      PROVE  DescriptionAccepts(req.description)
  <2>1. CASE req.description \in {Undefined, Null}
    BY <2>1 DEF DescriptionAccepts
  <2>2. CASE req.description \in Text
    <3>1. IsLength(req.description, 0, 1000)
      BY <1>1, <1>3, <2>2 DEF Optional
    <3>2. ~ (req.description.length > 1000
             /\ req.description.characters < req.description.length)
      BY <1>3, <2>2 DEF Miscounted, MaxDescriptionLength
    <3> PICK text \in Text : text = req.description
      BY <2>2
    <3>3. text.length <= 1000
      <4>1. text.length \in Nat /\ text.characters \in Nat /\ text.padding \in Nat
        BY <1>1
      <4>2. text.characters + text.padding <= 1000
        BY <3>1, <4>1 DEF IsLength
      <4>3. ~ (text.length > 1000 /\ text.characters < text.length)
        BY <3>2
      <4> QED
        BY <4>1, <4>2, <4>3
    <3> QED
      BY <1>1, <2>2, <3>3 DEF DescriptionAccepts, MaxDescriptionLength
  <2> QED
    BY <2>1, <2>2 DEF Request
<1>4. req.status \in TodoStatus => StatusAccepts(req.status)
  BY AbsentValues DEF StatusAccepts, UpperCase, TodoStatus, RawStatus
<1> QED
  BY <1>2, <1>3, <1>4

-----------------------------------------------------------------------------
(* The server *)

\* A step of the server is a step of the use cases or none of theirs.
LEMMA StepsAreUseCases ==
  [ServerNext]_serverVars => [Next]_vars
<1>1. ASSUME NEW c \in Calls, NEW req \in Incoming, Accept(c, req)
      PROVE  Next
  BY <1>1, CommandsMapped DEF Accept, Next, Invoke
<1> QED
  BY <1>1 DEF ServerNext, serverVars, vars, Pass, Unparsed, Refuse, Continue,
              Deliver, Next

\* A call runs for a request that was let through, as its mapper made it; a call
\* that does not run has a request that was not, or none.
Mapped(c) ==
  /\ pc[c] # "idle" =>
       /\ request[c] \in Incoming
       /\ Admitted(request[c])
       /\ command[c] = ToCommand(request[c])
  /\ TurnedAway(c) => ~ Admitted(request[c])

\* A reply is a refusal of the parser's or the pipe's, or what the call was
\* answered.
Told(c) ==
  \/ reply[c] = NoReply
  \/ /\ request[c] \in Incoming
     /\ ~ Parses(request[c])
     /\ reply[c] = RestProblem(ParserError[request[c].body])
  \/ /\ request[c] \in Incoming
     /\ Parses(request[c]) /\ ~ PipeAccepts(request[c])
     /\ reply[c] = Failure(request[c], "ValidationPipeException")
  \/ /\ pc[c] = "answered"
     /\ reply[c] = IF answer[c].error = "none"
                   THEN Success(request[c], Result(c))
                   ELSE Failure(request[c], answer[c].error)

\* The inductive invariant of the server.
ServerInv ==
  /\ IInv
  /\ request = [c \in Calls |-> request[c]]
  /\ reply = [c \in Calls |-> reply[c]]
  /\ \A c \in Calls :
       /\ request[c] = NoRequest \/ request[c] \in Incoming
       /\ request[c] = NoRequest => pc[c] = "idle"
       /\ Explained(c)
       /\ OfStatus(c)
       /\ Mapped(c)
       /\ Told(c)

\* The server starts without requests.
LEMMA InitServerInv ==
  ServerInit => ServerInv
<1> SUFFICES ASSUME ServerInit PROVE ServerInv
  OBVIOUS
<1>1. IInv
  BY InitIInv DEF ServerInit
<1>2. \A c \in Calls : Explained(c) /\ OfStatus(c)
  BY DEF ServerInit, Init, Explained, OfStatus, Fail, NoCommand
<1>3. \A c \in Calls : Mapped(c) /\ Told(c)
  BY DEF ServerInit, Init, Mapped, TurnedAway, Told
<1> QED
  BY <1>1, <1>2, <1>3 DEF ServerInv, ServerInit, Init

\* What holds of a call and its request holds of it when neither changes.
LEMMA NotConcerned ==
  ASSUME ServerInv, NEW c \in Calls, Untouched(c),
         request'[c] = request[c], reply'[c] = reply[c]
  PROVE  /\ request'[c] = NoRequest \/ request'[c] \in Incoming
         /\ request'[c] = NoRequest => pc'[c] = "idle"
         /\ Explained(c)'
         /\ OfStatus(c)'
         /\ Mapped(c)'
         /\ Told(c)'
<1>1. Explained(c)' /\ OfStatus(c)'
  BY AboutOneCall DEF ServerInv
<1> QED
  BY <1>1 DEF ServerInv, Untouched, Mapped, TurnedAway, Told, Result

\* A call without a request has neither started nor been replied to.
LEMMA Unrequested ==
  ASSUME ServerInv, NEW c \in Calls, request[c] = NoRequest
  PROVE  pc[c] = "idle" /\ reply[c] = NoReply
<1>1. NoRequest \notin Incoming
  BY IncomingTyped DEF NoRequest, Request
<1> QED
  BY <1>1 DEF ServerInv, Told

\* Every step of the server keeps its invariant.
LEMMA NextServerInv ==
  ServerInv /\ [ServerNext]_serverVars => ServerInv'
<1> SUFFICES ASSUME ServerInv, [ServerNext]_serverVars PROVE ServerInv'
  OBVIOUS
<1> DEFINE Good(c) ==
      /\ request[c] = NoRequest \/ request[c] \in Incoming
      /\ request[c] = NoRequest => pc[c] = "idle"
      /\ Explained(c)
      /\ OfStatus(c)
      /\ Mapped(c)
      /\ Told(c)
<1>1. IInv /\ IInv'
  BY NextIInv, StepsAreUseCases DEF ServerInv
<1>2. ASSUME UNCHANGED <<pc, command, held, answer, request, reply>>
      PROVE  ServerInv'
  <2>1. \A c \in Calls : Good(c)'
    BY <1>2, NotConcerned DEF Untouched
  <2> QED
    BY <1>1, <1>2, <2>1 DEF ServerInv
<1>3. ASSUME NEW c \in Calls, NEW req \in Incoming,
             Unparsed(c, req) \/ Refuse(c, req)
      PROVE  ServerInv'
  <2> PICK told : told = IF Parses(req)
                         THEN Failure(req, "ValidationPipeException")
                         ELSE RestProblem(ParserError[req.body])
    OBVIOUS
  <2>1. /\ request' = [request EXCEPT ![c] = req]
        /\ reply' = [reply EXCEPT ![c] = told]
        /\ request[c] = NoRequest
        /\ ~ Parses(req) \/ ~ PipeAccepts(req)
        /\ \A d \in Calls : Untouched(d)
    BY <1>3 DEF Unparsed, Refuse, vars, Untouched
  <2>2. request'[c] = req
        /\ reply'[c] = told
        /\ request' = [d \in Calls |-> request'[d]]
        /\ reply' = [d \in Calls |-> reply'[d]]
    BY <2>1 DEF ServerInv
  <2>3. pc'[c] = "idle"
    BY <2>1, Unrequested DEF Untouched
  <2>4. Explained(c)' /\ OfStatus(c)'
    BY <2>1, AboutOneCall DEF ServerInv
  <2>5. req # NoRequest
    BY IncomingTyped DEF NoRequest, Request
  <2>6. Mapped(c)' /\ Told(c)'
    BY <2>1, <2>2, <2>3 DEF Mapped, Told, Admitted
  <2>7. \A d \in Calls \ {c} : Good(d)'
    BY <2>1, NotConcerned DEF ServerInv
  <2> QED
    BY <1>1, <2>2, <2>3, <2>4, <2>5, <2>6, <2>7 DEF ServerInv
<1>4. ASSUME NEW c \in Calls, NEW req \in Incoming, Accept(c, req)
      PROVE  ServerInv'
  <2> DEFINE cmd == ToCommand(req)
  <2>1. /\ request' = [request EXCEPT ![c] = req] /\ UNCHANGED reply
        /\ Admitted(req) /\ request[c] = NoRequest
        /\ cmd \in Commands /\ Execute(c, cmd)
    BY <1>4, CommandsMapped DEF Accept
  <2> HIDE DEF cmd
  <2>2. Explained(c)' /\ OfStatus(c)' /\ command'[c] = cmd /\ pc'[c] # "idle"
    BY <1>1, <2>1, ExecuteExplained
  <2>3. \A d \in Calls \ {c} : Untouched(d)
    BY <1>1, <2>1, InvokeTouchesOne DEF Invoke
  <2>4. request'[c] = req /\ request' = [d \in Calls |-> request'[d]]
    BY <2>1 DEF ServerInv
  <2>5. reply'[c] = NoReply
    BY <2>1, Unrequested
  <2>6. req # NoRequest
    BY IncomingTyped DEF NoRequest, Request
  <2>7. Mapped(c)' /\ Told(c)'
    BY <2>1, <2>2, <2>4, <2>5 DEF Mapped, TurnedAway, Told, cmd
  <2>8. \A d \in Calls \ {c} : Good(d)'
    BY <2>1, <2>3, NotConcerned DEF ServerInv
  <2> QED
    BY <1>1, <2>1, <2>2, <2>4, <2>6, <2>7, <2>8 DEF ServerInv
<1>5. ASSUME NEW c \in Calls, Continue(c)
      PROVE  ServerInv'
  <2>1. Resume(c) /\ UNCHANGED <<request, reply>>
    BY <1>5 DEF Continue
  <2>2. /\ \A d \in Calls \ {c} : Untouched(d)
        /\ pc[c] \in {"found", "missing", "write"}
        /\ UNCHANGED command
    BY <1>1, <2>1, ResumeTouchesOne
  <2>3. Explained(c)' /\ OfStatus(c)' /\ pc'[c] # "idle"
    BY <1>1, <2>1, ResumeExplained DEF ServerInv
  <2>4. request[c] \in Incoming /\ request[c] # NoRequest
    BY <2>2 DEF ServerInv
  <2>5. Mapped(c)' /\ Told(c)'
    BY <2>1, <2>2, <2>3, <2>4 DEF ServerInv, Mapped, TurnedAway, Told
  <2>6. \A d \in Calls \ {c} : Good(d)'
    BY <2>1, <2>2, NotConcerned
  <2> QED
    BY <1>1, <2>1, <2>3, <2>4, <2>5, <2>6 DEF ServerInv
<1>6. ASSUME NEW c \in Calls, Deliver(c)
      PROVE  ServerInv'
  <2> PICK told : told = IF answer[c].error = "none"
                         THEN Success(request[c], Result(c))
                         ELSE Failure(request[c], answer[c].error)
    OBVIOUS
  <2>1. /\ reply' = [reply EXCEPT ![c] = told]
        /\ pc[c] = "answered"
        /\ UNCHANGED request
        /\ \A d \in Calls : Untouched(d)
    BY <1>6 DEF Deliver, vars, Untouched
  <2>2. reply'[c] = told
        /\ reply' = [d \in Calls |-> reply'[d]]
    BY <2>1 DEF ServerInv
  <2>3. Explained(c)' /\ OfStatus(c)'
    BY <2>1, AboutOneCall DEF ServerInv
  <2>4. request[c] \in Incoming /\ request[c] # NoRequest
    BY <2>1 DEF ServerInv
  <2>5. Mapped(c)' /\ Told(c)'
    BY <2>1, <2>2 DEF ServerInv, Mapped, TurnedAway, Told, Untouched, Result
  <2>6. \A d \in Calls \ {c} : Good(d)'
    BY <2>1, NotConcerned DEF ServerInv
  <2> QED
    BY <1>1, <2>1, <2>2, <2>3, <2>4, <2>5, <2>6 DEF ServerInv
<1> QED
  BY <1>2, <1>3, <1>4, <1>5, <1>6
  DEF ServerNext, serverVars, vars, Pass, Tick

\* Every reply can be traced to the request and to what the use case answered.
THEOREM ServerInvariance ==
  ServerSpec => []ServerInv
<1> QED
  BY InitServerInv, NextServerInv, PTL DEF ServerSpec

\* What is told of a request, and how it came about.
LEMMA RepliesTraced ==
  ASSUME ServerInv, NEW c \in Calls, reply[c] # NoReply
  PROVE  /\ request[c] \in Request /\ request[c] \in Incoming
         /\ \/ /\ ~ Parses(request[c])
               /\ reply[c] = RestProblem(ParserError[request[c].body])
            \/ /\ Parses(request[c]) /\ ~ PipeAccepts(request[c])
               /\ reply[c] = Failure(request[c], "ValidationPipeException")
            \/ /\ Admitted(request[c]) /\ pc[c] = "answered"
               /\ command[c] = ToCommand(request[c])
               /\ answer[c].error = "none"
               /\ reply[c] = Success(request[c], Result(c))
            \/ /\ Admitted(request[c]) /\ pc[c] = "answered"
               /\ command[c] = ToCommand(request[c])
               /\ answer[c].error \in ErrorKind
               /\ reply[c] = Failure(request[c], answer[c].error)
<1>1. answer[c].error \in ErrorKind \cup {"none"}
  BY DEF ServerInv, IInv, TypeOK, Answer
<1>2. pc[c] = "answered" => /\ request[c] \in Incoming
                            /\ Admitted(request[c])
                            /\ command[c] = ToCommand(request[c])
  BY DEF ServerInv, Mapped
<1> QED
  BY <1>1, <1>2, IncomingTyped DEF ServerInv, Told

\* The ten mappers hand on every field under its own name.
LEMMA MappersFaithful ==
  ASSUME NEW req \in Request
  PROVE  LET cmd == ToCommand(req) IN
         /\ cmd.op = req.op
         /\ req.op \in ByIdOps => cmd.id = req.id
         /\ req.op \in {"create", "update"} =>
              cmd.title = req.title /\ cmd.description = req.description
         /\ req.op \in {"update", "list"} => cmd.status = req.status
<1>1. CASE req.op = "create"
  <2>1. ToCommand(req) = CreateTodoCommand(req.title, req.description)
    BY <1>1 DEF ToCommand, RestCommand, GraphQLCommand, CreateRestToCommand,
                CreateGraphqlToCommand
  <2> QED
    BY <1>1, <2>1 DEF CreateTodoCommand, Blanks, ByIdOps
<1>2. CASE req.op = "update"
  <2>1. ToCommand(req) =
          UpdateTodoCommand(req.id, req.title, req.description, req.status)
    BY <1>2 DEF ToCommand, RestCommand, GraphQLCommand, UpdateRestToCommand,
                UpdateGraphqlToCommand
  <2> QED
    BY <1>2, <2>1 DEF UpdateTodoCommand, Blanks, ByIdOps
<1>3. CASE req.op = "delete"
  <2>1. ToCommand(req) = DeleteTodoCommand(req.id)
    BY <1>3 DEF ToCommand, RestCommand, GraphQLCommand, DeleteRestToCommand,
                DeleteGraphqlToCommand
  <2> QED
    BY <1>3, <2>1 DEF DeleteTodoCommand, Blanks, ByIdOps
<1>4. CASE req.op = "get"
  <2>1. ToCommand(req) = GetTodoByIdQuery(req.id)
    BY <1>4 DEF ToCommand, RestCommand, GraphQLCommand, GetRestToQuery,
                GetGraphqlToQuery
  <2> QED
    BY <1>4, <2>1 DEF GetTodoByIdQuery, Blanks, ByIdOps
<1>5. CASE req.op = "list"
  <2>1. ToCommand(req) = ListTodosQuery(req.status)
    BY <1>5 DEF ToCommand, RestCommand, GraphQLCommand, ListRestToQuery,
                ListGraphqlToQuery
  <2> QED
    BY <1>5, <2>1 DEF ListTodosQuery, Blanks, ByIdOps
<1> QED
  BY <1>1, <1>2, <1>3, <1>4, <1>5 DEF Request, Ops

\* A blank id, where an id is taken, is what the use case refuses.
LEMMA BlankRefused ==
  ASSUME NEW req \in Incoming
  PROVE  LET cmd == ToCommand(req) IN
         cmd.op \in ByIdOps /\ ~ FromStringAccepts(cmd.id)
         <=> req.op \in ByIdOps /\ req.id = BlankId
<1>1. req \in Request
  BY IncomingTyped
<1>2. req.op \in ByIdOps => req.id \in Ids \cup {BlankId}
  BY <1>1, IncomingShaped DEF Request
<1> QED
  BY <1>1, <1>2, MappersFaithful, AbsentValues DEF FromStringAccepts

\* What a success is made of: the rows the use case answered, or the id its
\* command named.
LEMMA SuccessTold ==
  ASSUME ServerInv, NEW c \in Calls, request[c] \in Request,
         command[c] = ToCommand(request[c]),
         reply[c] = Success(request[c], Result(c))
  PROVE  /\ "code" \notin DOMAIN reply[c]
         /\ "deletedId" \in DOMAIN reply[c] =>
              reply[c].success /\ reply[c].deletedId = request[c].id
         /\ "todos" \in DOMAIN reply[c] =>
              /\ request[c].op # "delete"
              /\ reply[c].todos =
                   {InForm(request[c].entry, t) : t \in answer[c].todos}
<1>1. answer[c].todos \in SUBSET Todo
  BY DEF ServerInv, IInv, TypeOK, Answer
<1>2. command[c].op = request[c].op
      /\ (request[c].op \in ByIdOps => command[c].id = request[c].id)
  BY MappersFaithful
<1>3. request[c].op # "delete" => Result(c) = answer[c].todos
  BY <1>2 DEF Result
<1>4. request[c].op = "delete" =>
        Result(c) = [success |-> TRUE, deletedId |-> request[c].id]
  BY <1>2 DEF Result, DeleteTodoResult, ByIdOps
<1> QED
  BY <1>1, <1>3, <1>4, SuccessShows

\* Only a success shows a todo or a deleted id.
LEMMA ShownBySuccess ==
  ASSUME ServerInv, NEW c \in Calls,
         {"deletedId", "todos"} \cap DOMAIN reply[c] # {}
  PROVE  /\ request[c] \in Request /\ request[c] \in Incoming
         /\ command[c] = ToCommand(request[c])
         /\ reply[c] = Success(request[c], Result(c))
<1> DEFINE req == request[c]
<1>1. reply[c] # NoReply
  BY DEF NoReply
<1>2. req \in Request /\ req \in Incoming
  BY <1>1, RepliesTraced
<1>3. ~ (~ Parses(req) /\ reply[c] = RestProblem(ParserError[req.body]))
  BY <1>2, UnparsedCode
<1>4. reply[c] # Failure(req, "ValidationPipeException")
  BY <1>2, RefusalCode
<1>5. ~ (answer[c].error \in ErrorKind /\ reply[c] = Failure(req, answer[c].error))
  BY <1>2, FailureCode
<1> QED
  BY <1>1, <1>2, <1>3, <1>4, <1>5, RepliesTraced

\* The server takes the blame exactly for an oversized body, for what the pipe
\* refuses on GraphQL, and for a blank id.
THEOREM FaultsAccounted ==
  ServerSpec => []FaultsAccountedFor
<1>1. ASSUME ServerInv, NEW c \in Calls, reply[c] # NoReply
      PROVE  LET req == request[c] IN
             Failed(c) /\ reply[c].code = "INTERNAL_ERROR" <=>
               \/ req.body = "oversized"
               \/ Parses(req) /\ req.entry = "GRAPHQL" /\ ~ PipeAccepts(req)
               \/ Admitted(req) /\ req.op \in ByIdOps /\ req.id = BlankId
  <2> DEFINE req == request[c]
  <2>1. req \in Request /\ req \in Incoming
    BY <1>1, RepliesTraced
  <2>2. Parses(req) => req.body # "oversized"
    BY DEF Parses, ParserError
  <2>3. CASE ~ Parses(req) /\ reply[c] = RestProblem(ParserError[req.body])
    BY <2>1, <2>3, UnparsedCode DEF Failed, Admitted
  <2>4. CASE /\ Parses(req) /\ ~ PipeAccepts(req)
             /\ reply[c] = Failure(req, "ValidationPipeException")
    <3>1. req.entry \in {"REST", "GRAPHQL"}
      BY <2>1 DEF Request
    <3> QED
      BY <2>1, <2>2, <2>4, <3>1, RefusalCode DEF Failed, Admitted
  <2>5. ASSUME Admitted(req), pc[c] = "answered", command[c] = ToCommand(req)
        PROVE  answer[c].error = "Error" <=>
                 req.op \in ByIdOps /\ req.id = BlankId
    BY <1>1, <2>1, <2>5, BlankRefused DEF ServerInv, Explained
  <2>6. CASE /\ Admitted(req) /\ pc[c] = "answered"
             /\ command[c] = ToCommand(req)
             /\ answer[c].error = "none"
             /\ reply[c] = Success(req, Result(c))
    <3>1. ~ Failed(c)
      BY <1>1, <2>1, <2>6, SuccessTold DEF Failed
    <3> QED
      BY <2>2, <2>5, <2>6, <3>1 DEF Admitted
  <2>7. CASE /\ Admitted(req) /\ pc[c] = "answered"
             /\ command[c] = ToCommand(req)
             /\ answer[c].error \in ErrorKind
             /\ reply[c] = Failure(req, answer[c].error)
    <3>1. Failed(c) /\ reply[c].code = ErrorCode(answer[c].error)
      BY <2>1, <2>7, FailureCode DEF Failed
    <3>2. reply[c].code = "INTERNAL_ERROR" <=> answer[c].error = "Error"
      BY <2>7, <3>1, Codes DEF ErrorKind
    <3> QED
      BY <2>2, <2>5, <2>7, <3>1, <3>2 DEF Admitted
  <2> QED
    BY <1>1, <2>3, <2>4, <2>6, <2>7, RepliesTraced
<1>2. ServerInv => FaultsAccountedFor
  BY <1>1 DEF FaultsAccountedFor
<1> QED
  BY <1>2, ServerInvariance, PTL

\* What the pipe lets through is refused for a blank title, a null or a text
\* longer by its units only.
LEMMA OnlyTheseRefusable ==
  ASSUME NEW req \in Request, PipeAccepts(req), Refusable(ToCommand(req))
  PROVE  \/ req.title = Null
         \/ req.title \in Text /\ req.title.length = 0
         \/ req.status = Null
         \/ Miscounted(req.title, MaxTitleLength)
         \/ Miscounted(req.description, MaxDescriptionLength)
<1> PICK cmd : cmd = ToCommand(req)
  OBVIOUS
<1>1. cmd.op = req.op /\ cmd.op \in {"create", "update"}
  BY MappersFaithful DEF Refusable
<1>2. cmd.title = req.title /\ cmd.description = req.description
  BY <1>1, MappersFaithful
<1>3. CASE cmd.op = "create"
  <2>1. /\ IsLength(req.title, 1, 200)
        /\ Optional(req.description, IsLength(req.description, 0, 1000))
    BY <1>1, <1>3 DEF PipeAccepts, CreateTodoRequest, CreateTodoInput
  <2>2. ~ (TitleAccepts(req.title) /\ DescriptionAccepts(req.description))
    BY <1>2, <1>3 DEF Refusable
  <2>3. req.title \in Text
    BY <2>1 DEF IsLength
  <2> QED
    BY <2>1, <2>2, <2>3, LimitsSuffice
<1>4. CASE cmd.op = "update"
  <2>1. /\ Optional(req.title, IsLength(req.title, 1, 200))
        /\ Optional(req.description, IsLength(req.description, 0, 1000))
        /\ Optional(req.status, req.status \in TodoStatus)
        /\ cmd.status = req.status
    BY <1>1, <1>4, MappersFaithful
    DEF PipeAccepts, UpdateTodoRequest, UpdateTodoInput
  <2>2. TitleRefused(cmd) \/ DescriptionRefused(cmd) \/ StatusRefused(cmd)
    BY <1>4 DEF Refusable, PatchError
  <2>3. CASE TitleRefused(cmd)
    <3>1. req.title # Undefined /\ ~ TitleAccepts(req.title)
      BY <1>2, <2>3 DEF TitleRefused
    <3>2. req.title = Null \/ IsLength(req.title, 1, 200)
      BY <2>1, <3>1 DEF Optional
    <3>3. IsLength(req.title, 1, 200) => req.title \in Text
      BY DEF IsLength
    <3> QED
      BY <3>1, <3>2, <3>3, LimitsSuffice
  <2>4. CASE DescriptionRefused(cmd)
    BY <1>2, <2>1, <2>4, LimitsSuffice DEF DescriptionRefused
  <2>5. CASE StatusRefused(cmd)
    BY <2>1, <2>5, LimitsSuffice DEF StatusRefused, Optional
  <2> QED
    BY <2>2, <2>3, <2>4, <2>5
<1> QED
  BY <1>1, <1>3, <1>4

\* Of what the pipe lets through, the domain refuses only blanks, nulls and
\* texts longer by their units.
THEOREM LimitsAgree ==
  ServerSpec => []LimitsAgreeButForPairs
<1>1. ASSUME ServerInv, NEW c \in Calls, Failed(c),
             reply[c].code \in {"TODO_VALIDATION_FAILED", "INVALID_TODO_STATUS"}
      PROVE  LET req == request[c] IN
             \/ req.title = Null
             \/ req.title \in Text /\ req.title.length = 0
             \/ req.status = Null
             \/ Miscounted(req.title, MaxTitleLength)
             \/ Miscounted(req.description, MaxDescriptionLength)
  <2> DEFINE req == request[c]
  <2>1. reply[c] # NoReply
    BY <1>1 DEF Failed, NoReply
  <2>2. req \in Request /\ req \in Incoming
    BY <1>1, <2>1, RepliesTraced
  <2>3. CASE ~ Parses(req) /\ reply[c] = RestProblem(ParserError[req.body])
    BY <1>1, <2>2, <2>3, UnparsedCode
  <2>4. CASE reply[c] = Failure(req, "ValidationPipeException")
    BY <1>1, <2>2, <2>4, RefusalCode
  <2>5. CASE command[c] = ToCommand(req) /\ reply[c] = Success(req, Result(c))
    BY <1>1, <2>2, <2>5, SuccessTold DEF Failed
  <2>6. CASE /\ Admitted(req)
             /\ command[c] = ToCommand(req)
             /\ answer[c].error \in ErrorKind
             /\ reply[c] = Failure(req, answer[c].error)
    <3>1. ErrorCode(answer[c].error) = reply[c].code
      BY <1>1, <2>2, <2>6, FailureCode
    <3>2. answer[c].error \in {"TodoValidationError", "InvalidTodoStatusError"}
      BY <1>1, <2>6, <3>1, Codes DEF ErrorKind
    <3>3. Refusable(ToCommand(req)) /\ PipeAccepts(req)
      BY <1>1, <2>6, <3>2 DEF ServerInv, Explained, Admitted
    <3> QED
      BY <2>2, <3>3, OnlyTheseRefusable
  <2> QED
    BY <1>1, <2>1, <2>3, <2>4, <2>5, <2>6, RepliesTraced
<1>2. ServerInv => LimitsAgreeButForPairs
  BY <1>1 DEF LimitsAgreeButForPairs
<1> QED
  BY <1>2, ServerInvariance, PTL

\* The entry point makes no difference to what is let through of the three
\* operations that change something.
LEMMA RulesAlike ==
  ASSUME NEW r \in Request, NEW s \in Request,
         [r EXCEPT !.entry = "any"] = [s EXCEPT !.entry = "any"],
         r.op \in {"create", "update", "delete"}
  PROVE  Admitted(r) <=> Admitted(s)
<1>1. ASSUME NEW req \in Request
      PROVE  LET bare == [req EXCEPT !.entry = "any"] IN
             /\ bare.op = req.op /\ bare.title = req.title
             /\ bare.description = req.description
             /\ bare.status = req.status /\ bare.body = req.body
  BY DEF Request
<1> PICK bare : bare = [r EXCEPT !.entry = "any"]
  OBVIOUS
<1>2. /\ r.op = s.op /\ r.title = s.title /\ r.description = s.description
      /\ r.status = s.status /\ r.body = s.body
  <2>1. /\ bare.op = r.op /\ bare.title = r.title
        /\ bare.description = r.description
        /\ bare.status = r.status /\ bare.body = r.body
    BY <1>1
  <2>2. bare = [s EXCEPT !.entry = "any"]
    OBVIOUS
  <2>3. /\ bare.op = s.op /\ bare.title = s.title
        /\ bare.description = s.description
        /\ bare.status = s.status /\ bare.body = s.body
    BY <1>1, <2>2
  <2> QED
    BY <2>1, <2>3
<1>3. Parses(r) <=> Parses(s)
  BY <1>2 DEF Parses
<1>4. ~ UndecoratedArgs(r) /\ ~ UndecoratedArgs(s)
  BY <1>2 DEF UndecoratedArgs
<1>5. \A req \in Request :
        /\ CreateTodoRequest(req) <=> CreateTodoInput(req)
        /\ UpdateTodoRequest(req) <=> UpdateTodoInput(req)
  BY DEF CreateTodoRequest, CreateTodoInput, UpdateTodoRequest, UpdateTodoInput
<1>6. /\ CreateTodoInput(r) <=> CreateTodoInput(s)
      /\ UpdateTodoInput(r) <=> UpdateTodoInput(s)
  BY <1>2 DEF CreateTodoInput, UpdateTodoInput
<1> QED
  BY <1>2, <1>3, <1>4, <1>5, <1>6 DEF Admitted, PipeAccepts

\* The two entry points turn away the same requests.
THEOREM EntryPointsAlike ==
  ServerSpec => []EntryPointsAdmitAlike
<1>1. ASSUME ServerInv, NEW c \in Calls, request[c] # NoRequest
      PROVE  request[c] \in Request /\ (TurnedAway(c) <=> ~ Admitted(request[c]))
  BY <1>1, IncomingTyped DEF ServerInv, Mapped, TurnedAway
<1>2. ServerInv => EntryPointsAdmitAlike
  BY <1>1, RulesAlike DEF EntryPointsAdmitAlike
<1> QED
  BY <1>2, ServerInvariance, PTL

\* A success shows the todo the request addressed, with the fields it gave.
THEOREM RepliesFit ==
  ServerSpec => []RepliesFitRequests
<1>1. ASSUME ServerInv, NEW c \in Calls, "deletedId" \in DOMAIN reply[c]
      PROVE  reply[c].success /\ reply[c].deletedId = request[c].id
  BY <1>1, ShownBySuccess, SuccessTold
<1>2. ASSUME ServerInv, NEW c \in Calls, NEW todo \in Shown(c)
      PROVE  LET req == request[c] IN
             /\ req.op \in ByIdOps => todo.id = req.id
             /\ Shows(todo.title,
                      IF req.title \in Text THEN TitleValue(req.title) ELSE Null)
             /\ Shows(todo.description,
                      IF req.description \in Text
                      THEN DescriptionValue(req.description) ELSE Null)
             /\ req.status \in RawStatus => todo.status = UpperCase(req.status)
  <2> PICK req : req = request[c]
    OBVIOUS
  <2>1. "todos" \in DOMAIN reply[c] /\ todo \in reply[c].todos
    BY <1>2 DEF Shown
  <2>2. /\ req \in Request /\ req \in Incoming
        /\ command[c] = ToCommand(req)
        /\ req.op # "delete"
        /\ reply[c].todos = {InForm(req.entry, t) : t \in answer[c].todos}
    BY <1>2, <2>1, ShownBySuccess, SuccessTold
  <2>3. PICK row \in answer[c].todos : todo = InForm(req.entry, row)
    BY <2>1, <2>2
  <2>4. row \in Todo /\ Honours(command[c], row)
    BY <1>2, <2>3 DEF ServerInv, IInv, TypeOK, Answer, AnswerHonoursCommand
  <2>10. /\ todo.id = row.id /\ todo.title = row.title
         /\ todo.description = row.description /\ todo.status = row.status
    BY <2>3, <2>4 DEF InForm, Todo
  <2>5. req.op \in {"create", "update", "get", "list"}
    BY <2>2 DEF Request, Ops
  <2>6. req.op \in ByIdOps => todo.id = req.id
    BY <2>2, <2>4, <2>5, <2>10, MappersFaithful DEF Honours, ByIdOps
  <2>7. Shows(todo.title,
              IF req.title \in Text THEN TitleValue(req.title) ELSE Null)
    <3>1. CASE req.op \in {"create", "update"} /\ req.title \in Text
      BY <2>2, <2>4, <2>10, <3>1, MappersFaithful, AbsentValues DEF Honours, Shows
    <3>2. CASE req.title \notin Text
      BY <3>2 DEF Shows
    <3>3. CASE req.op \notin {"create", "update"}
      BY <2>2, <3>2, <3>3, IncomingShaped, AbsentValues
    <3> QED
      BY <3>1, <3>2, <3>3
  <2>8. Shows(todo.description,
              IF req.description \in Text
              THEN DescriptionValue(req.description) ELSE Null)
    <3>1. CASE req.op \in {"create", "update"} /\ req.description \in Text
      BY <2>2, <2>4, <2>10, <3>1, MappersFaithful, AbsentValues DEF Honours, Shows
    <3>2. CASE req.description \notin Text
      BY <3>2 DEF Shows
    <3>3. CASE req.op \notin {"create", "update"}
      BY <2>2, <3>2, <3>3, IncomingShaped, AbsentValues
    <3> QED
      BY <3>1, <3>2, <3>3
  <2>9. req.status \in RawStatus => todo.status = UpperCase(req.status)
    <3>1. CASE req.op = "update"
      BY <2>2, <2>4, <2>10, <3>1, MappersFaithful, AbsentValues DEF Honours
    <3>2. CASE req.op = "list"
      <4>1. OfStatus(c) /\ command[c].op = "list" /\ command[c].status = req.status
        BY <1>2, <2>2, <3>2, MappersFaithful DEF ServerInv
      <4> QED
        BY <2>3, <2>10, <4>1, AbsentValues DEF OfStatus
    <3>3. CASE req.op \notin {"update", "list"}
      BY <2>2, <3>3, IncomingShaped, AbsentValues
    <3> QED
      BY <3>1, <3>2, <3>3
  <2> QED
    BY <2>6, <2>7, <2>8, <2>9
<1>3. ASSUME ServerInv, NEW c \in Calls, "todos" \in DOMAIN reply[c]
      PROVE  reply[c].todos =
               {InForm(request[c].entry, todo) : todo \in answer[c].todos}
  BY <1>3, ShownBySuccess, SuccessTold
<1>4. ServerInv => RepliesFitRequests
  BY <1>1, <1>2, <1>3 DEF RepliesFitRequests
<1> QED
  BY <1>4, ServerInvariance, PTL
=============================================================================
