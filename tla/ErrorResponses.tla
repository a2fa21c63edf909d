---------------------------- MODULE ErrorResponses ----------------------------
(***************************************************************************)
(* How an error becomes a response: the class hierarchy of src/core/errors  *)
(* and the four layers, the filter that catches each class, and the three   *)
(* response strategies.                                                    *)
(*                                                                         *)
(* An error is its class.  The strategies are chains of instanceof tests;   *)
(* they are modelled as sequences of pairs read from the front.            *)
(***************************************************************************)
EXTENDS Naturals, Sequences

\* The classes somebody can throw.  OtherDomainError and its three siblings
\* stand for a new subclass of a layer's base class, TypeError for every
\* built-in error but SyntaxError, Unthrowable for a value that is no Error.
Throwable ==
  {"TodoNotFoundError", "TodoValidationError", "InvalidTodoStatusError",
   "OtherDomainError", "ApplicationValidationError", "UseCaseExecutionError",
   "OtherApplicationError", "DatabaseError", "KafkaError",
   "OtherInfrastructureError", "BadRequestError", "OtherPresentationError",
   "ValidationPipeException", "UnknownRouteException",
   "MalformedBodyException", "PayloadTooLargeError", "SyntaxError",
   "TypeError", "Error", "Unthrowable"}

\* What is thrown before Nest has a handler to call, and so on HTTP alone: no
\* route matches, or body-parser does not give a body.  Its SyntaxError becomes
\* a BadRequestException of Nest; its PayloadTooLargeError stays what it is, an
\* error with a status that is no HttpException.
BeforeRouting ==
  {"UnknownRouteException", "MalformedBodyException", "PayloadTooLargeError"}

Layers == {"DomainError", "ApplicationError", "InfrastructureError",
           "PresentationError"}

Parent(class) ==
  CASE class \in {"TodoNotFoundError", "TodoValidationError",
                  "InvalidTodoStatusError", "OtherDomainError"}
         -> "DomainError"
    [] class \in {"ApplicationValidationError", "UseCaseExecutionError",
                  "OtherApplicationError"}
         -> "ApplicationError"
    [] class \in {"DatabaseError", "KafkaError", "OtherInfrastructureError"}
         -> "InfrastructureError"
    [] class \in {"BadRequestError", "OtherPresentationError"}
         -> "PresentationError"
    [] class \in {"ValidationPipeException", "UnknownRouteException",
                  "MalformedBodyException"}
         -> "HttpException"
    [] class \in Layers -> "BaseError"
    [] class \in {"BaseError", "HttpException", "PayloadTooLargeError",
                  "SyntaxError", "TypeError", "Error"}
         -> "Error"
    [] OTHER -> "Object"

\* The prototype chain of each class: at most three levels between it and Object.
Ancestry ==
  [class \in Throwable |->
     {class, Parent(class), Parent(Parent(class)),
      Parent(Parent(Parent(class))), "Object"}]

InstanceOf(error, class) == class \in Ancestry[error]

\* The value of the first pair whose class the error is an instance of.
FirstMatch(chain, error, default) ==
  LET matches == {i \in 1..Len(chain) : InstanceOf(error, chain[i][1])} IN
  IF matches = {} THEN default
  ELSE chain[CHOOSE i \in matches : \A j \in matches : i <= j][2]

-----------------------------------------------------------------------------
(* The filters *)

\* The APP_FILTER providers with the class each of them catches, as listed.
Registered ==
  << <<"Object", "GlobalExceptionFilter">>,
     <<"PresentationError", "PresentationExceptionFilter">>,
     <<"InfrastructureError", "InfrastructureExceptionFilter">>,
     <<"ApplicationError", "ApplicationExceptionFilter">>,
     <<"DomainError", "DomainExceptionFilter">> >>

\* Mutant: the filters are asked in the order they are listed.
FilterForUnreversed(error) ==
  FirstMatch(Registered, error, "GlobalExceptionFilter")

\* The filters are asked in reverse; @Catch() takes whatever is left.
FilterFor(error) ==
  FirstMatch([i \in 1..Len(Registered) |-> Registered[Len(Registered) + 1 - i]],
             error, "GlobalExceptionFilter")

\* GlobalExceptionFilter passes on a value that is no Error as new Error().
Caught(error) == IF InstanceOf(error, "Error") THEN error ELSE "Error"

-----------------------------------------------------------------------------
(* BaseErrorResponseStrategy *)

\* The code of a BaseError, INTERNAL_ERROR for any other error.
ErrorCode(error) ==
  FirstMatch(<< <<"TodoNotFoundError", "TODO_NOT_FOUND">>,
                <<"TodoValidationError", "TODO_VALIDATION_FAILED">>,
                <<"InvalidTodoStatusError", "INVALID_TODO_STATUS">>,
                <<"DomainError", "DOMAIN_ERROR">>,
                <<"ApplicationValidationError", "VALIDATION_FAILED">>,
                <<"UseCaseExecutionError", "USE_CASE_EXECUTION_FAILED">>,
                <<"ApplicationError", "APPLICATION_ERROR">>,
                <<"DatabaseError", "DATABASE_ERROR">>,
                <<"KafkaError", "KAFKA_ERROR">>,
                <<"InfrastructureError", "INFRASTRUCTURE_ERROR">>,
                <<"BadRequestError", "BAD_REQUEST">>,
                <<"PresentationError", "PRESENTATION_ERROR">> >>,
             error, "INTERNAL_ERROR")

\* The fields of errors[]: the string entries of the context of the two
\* validation errors of the domain.  A TodoValidationError is thrown without
\* a field, and an ApplicationValidationError has no property "details".
ValidationFields(error) ==
  IF error = "InvalidTodoStatusError" THEN {"status"} ELSE {}

-----------------------------------------------------------------------------
(* RestErrorResponseStrategy *)

RestStatus(error) ==
  FirstMatch(<< <<"TodoNotFoundError", 404>>,
                <<"TodoValidationError", 400>>,
                <<"InvalidTodoStatusError", 400>>,
                <<"DomainError", 422>>,
                <<"ApplicationValidationError", 400>>,
                <<"ApplicationError", 500>>,
                <<"InfrastructureError", 503>>,
                <<"BadRequestError", 400>>,
                <<"PresentationError", 400>> >>,
             error, 500)

\* Whether the error's own message is withheld from the client.
DetailHidden(status) == status >= 500

RestFormat(error) ==
  [status |-> RestStatus(error), code |-> ErrorCode(error),
   hidden |-> DetailHidden(RestStatus(error)),
   fields |-> ValidationFields(error)]

\* GlobalExceptionFilter answers an HttpException by itself, on REST.
HandledAsHttp(error) ==
  FilterFor(error) = "GlobalExceptionFilter" /\ InstanceOf(error, "HttpException")

\* GlobalExceptionFilter.handleHttpException, for the exceptions Nest throws
\* here: the pipe's list of messages, an unknown route, a body that is no JSON.
HttpProblem(error) ==
  CASE error = "ValidationPipeException" ->
         [status |-> 400, code |-> "BAD_REQUEST", hidden |-> FALSE,
          fields |-> {"unknown"}]
    [] error = "MalformedBodyException" ->
         [status |-> 400, code |-> "BAD_REQUEST", hidden |-> FALSE,
          fields |-> {}]
    [] OTHER ->
         [status |-> 404, code |-> "NOT_FOUND", hidden |-> FALSE,
          fields |-> {}]

\* What a failed REST request is answered, whichever filter caught the error.
RestProblem(error) ==
  IF HandledAsHttp(error) THEN HttpProblem(error) ELSE RestFormat(Caught(error))

-----------------------------------------------------------------------------
(* GraphQLErrorResponseStrategy *)

\* Mutant: infrastructure errors have no classification of their own.
ClassificationWithoutInfrastructure(error) ==
  FirstMatch(<< <<"TodoNotFoundError", "NOT_FOUND">>,
                <<"DomainError", "BAD_USER_INPUT">>,
                <<"ApplicationValidationError", "BAD_USER_INPUT">>,
                <<"PresentationError", "BAD_USER_INPUT">> >>,
             error, "INTERNAL_SERVER_ERROR")

Classification(error) ==
  FirstMatch(<< <<"TodoNotFoundError", "NOT_FOUND">>,
                <<"DomainError", "BAD_USER_INPUT">>,
                <<"ApplicationValidationError", "BAD_USER_INPUT">>,
                <<"ApplicationError", "INTERNAL_SERVER_ERROR">>,
                <<"InfrastructureError", "SERVICE_UNAVAILABLE">>,
                <<"PresentationError", "BAD_USER_INPUT">> >>,
             error, "INTERNAL_SERVER_ERROR")

GraphQLFormat(error) ==
  LET class == Classification(Caught(error)) IN
  [classification |-> class, code |-> ErrorCode(error),
   hidden |-> class \in {"INTERNAL_SERVER_ERROR", "SERVICE_UNAVAILABLE"},
   fields |-> ValidationFields(error)]

-----------------------------------------------------------------------------
(* KafkaErrorResponseStrategy *)

DefaultMaxRetries == 3

\* The retry after n retries is due in 5000 * 2^n ms.  Added to today's
\* 1.8 * 10^12 that is within the 8.64 * 10^15 ms a Date can hold up to here.
LastDatedRetry == 40

\* A DatabaseError is transient whatever its message says: what the test for
\* "connection" or "timeout" lets through is an InfrastructureError still.
ErrorType(error) ==
  FirstMatch(<< <<"SyntaxError", "POISON_PILL">>,
                <<"InfrastructureError", "TRANSIENT">> >>,
             error, "PERMANENT")

\* Mutant: one attempt more than the budget.
RetryableOnceMore(type, retryCount, maxRetries) ==
  type = "TRANSIENT" /\ retryCount <= maxRetries

\* Mutant: transient errors are always retryable.
RetryableForEver(type, retryCount, maxRetries) == type = "TRANSIENT"

Retryable(type, retryCount, maxRetries) ==
  type = "TRANSIENT" /\ retryCount < maxRetries

\* Mutant: the date is worked out first, and dropped if there is no retry.
DatedAlways(type, retryCount, maxRetries) == retryCount <= LastDatedRetry

\* toISOString throws on a date out of range, and only a retryable response
\* has a date.
Dated(type, retryCount, maxRetries) ==
  Retryable(type, retryCount, maxRetries) => retryCount <= LastDatedRetry

KafkaFormat(error, retryCount, maxRetries) ==
  LET type == ErrorType(Caught(error)) IN
  [type |-> type, code |-> ErrorCode(error),
   retryable |-> Retryable(type, retryCount, maxRetries)]
=============================================================================
