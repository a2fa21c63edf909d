------------------------- MODULE ErrorHandlingProofs -------------------------
(***************************************************************************)
(* What holds of failing exchanges for any number of them and any messages. *)
(*                                                                         *)
(* The first part unrolls the chains of instanceof tests into conditions    *)
(* read from the top and compares the strategies error by error; the second *)
(* is about the steps of an exchange.                                      *)
(***************************************************************************)
EXTENDS ErrorHandling, TLAPS

(* The chains *)

\* A chain returns the value of the first pair that matches.
LEMMA FirstMatchAt ==
  ASSUME NEW chain, Len(chain) \in Nat, NEW error, NEW default,
         NEW i \in 1..Len(chain), InstanceOf(error, chain[i][1]),
         \A j \in 1..Len(chain) : j < i => ~ InstanceOf(error, chain[j][1])
  PROVE  FirstMatch(chain, error, default) = chain[i][2]
<1> DEFINE matches == {j \in 1..Len(chain) : InstanceOf(error, chain[j][1])}
<1>1. i \in matches /\ \A j \in matches : i <= j
  OBVIOUS
<1>2. \A k \in matches : (\A j \in matches : k <= j) => k = i
  BY <1>1
<1>3. (CHOOSE k \in matches : \A j \in matches : k <= j) = i
  BY <1>1, <1>2
<1> QED
  BY <1>1, <1>3 DEF FirstMatch

\* A chain in which nothing matches returns the default.
LEMMA FirstMatchNone ==
  ASSUME NEW chain, NEW error, NEW default,
         \A j \in 1..Len(chain) : ~ InstanceOf(error, chain[j][1])
  PROVE  FirstMatch(chain, error, default) = default
BY DEF FirstMatch

\* The extends clauses, class by class.
LEMMA Parents ==
  /\ \A class \in {"TodoNotFoundError", "TodoValidationError",
                  "InvalidTodoStatusError", "OtherDomainError"} :
       Parent(class) = "DomainError"
  /\ \A class \in {"ApplicationValidationError", "UseCaseExecutionError",
                  "OtherApplicationError"} : Parent(class) = "ApplicationError"
  /\ \A class \in {"DatabaseError", "KafkaError", "OtherInfrastructureError"} :
       Parent(class) = "InfrastructureError"
  /\ \A class \in {"BadRequestError", "OtherPresentationError"} :
       Parent(class) = "PresentationError"
  /\ \A class \in {"ValidationPipeException", "UnknownRouteException",
                  "MalformedBodyException"} :
       Parent(class) = "HttpException"
  /\ \A class \in Layers : Parent(class) = "BaseError"
  /\ \A class \in {"BaseError", "HttpException", "PayloadTooLargeError",
                  "SyntaxError", "TypeError", "Error"} :
       Parent(class) = "Error"
  /\ Parent("Unthrowable") = "Object"
  /\ Parent("Object") = "Object"
BY DEF Parent, Layers

\* The prototype chain of every class somebody can throw.
LEMMA Lineage ==
  /\ \A e \in {"TodoNotFoundError", "TodoValidationError",
              "InvalidTodoStatusError", "OtherDomainError"} :
       Ancestry[e] = {e, "DomainError", "BaseError", "Error", "Object"}
  /\ \A e \in {"ApplicationValidationError", "UseCaseExecutionError",
              "OtherApplicationError"} :
       Ancestry[e] = {e, "ApplicationError", "BaseError", "Error", "Object"}
  /\ \A e \in {"DatabaseError", "KafkaError", "OtherInfrastructureError"} :
       Ancestry[e] = {e, "InfrastructureError", "BaseError", "Error", "Object"}
  /\ \A e \in {"BadRequestError", "OtherPresentationError"} :
       Ancestry[e] = {e, "PresentationError", "BaseError", "Error", "Object"}
  /\ \A e \in {"ValidationPipeException", "UnknownRouteException",
              "MalformedBodyException"} :
       Ancestry[e] = {e, "HttpException", "Error", "Object"}
  /\ \A e \in {"PayloadTooLargeError", "SyntaxError", "TypeError"} :
       Ancestry[e] = {e, "Error", "Object"}
  /\ Ancestry["Error"] = {"Error", "Object"}
  /\ Ancestry["Unthrowable"] = {"Unthrowable", "Object"}
<1>1. \A e \in Throwable :
        Ancestry[e] = {e, Parent(e), Parent(Parent(e)),
                       Parent(Parent(Parent(e))), "Object"}
  BY DEF Ancestry
<1>2. /\ Parent("DomainError") = "BaseError"
      /\ Parent("ApplicationError") = "BaseError"
      /\ Parent("InfrastructureError") = "BaseError"
      /\ Parent("PresentationError") = "BaseError"
  BY Parents DEF Layers
<1>3. /\ Parent("BaseError") = "Error"
      /\ Parent("HttpException") = "Error"
      /\ Parent("PayloadTooLargeError") = "Error"
      /\ Parent("SyntaxError") = "Error"
      /\ Parent("TypeError") = "Error"
      /\ Parent("Error") = "Error"
      /\ Parent("Object") = "Object"
      /\ Parent("Unthrowable") = "Object"
  BY Parents
<1> QED
  BY <1>1, <1>2, <1>3, Parents DEF Throwable

\* The filters are asked layer by layer; the global one takes what is left.
LEMMA FiltersInTurn ==
  ASSUME NEW error
  PROVE FilterFor(error) =
          IF InstanceOf(error, "DomainError") THEN "DomainExceptionFilter"
          ELSE IF InstanceOf(error, "ApplicationError") THEN "ApplicationExceptionFilter"
          ELSE IF InstanceOf(error, "InfrastructureError") THEN "InfrastructureExceptionFilter"
          ELSE IF InstanceOf(error, "PresentationError") THEN "PresentationExceptionFilter"
          ELSE "GlobalExceptionFilter"
<1> DEFINE chain == [i \in 1..Len(Registered) |-> Registered[Len(Registered) + 1 - i]]
<1>1. Len(chain) = 5 /\ 5 \in Nat
      /\ chain[1][1] = "DomainError" /\ chain[1][2] = "DomainExceptionFilter"
      /\ chain[2][1] = "ApplicationError" /\ chain[2][2] = "ApplicationExceptionFilter"
      /\ chain[3][1] = "InfrastructureError" /\ chain[3][2] = "InfrastructureExceptionFilter"
      /\ chain[4][1] = "PresentationError" /\ chain[4][2] = "PresentationExceptionFilter"
      /\ chain[5][1] = "Object" /\ chain[5][2] = "GlobalExceptionFilter"
  BY DEF Registered
<1> HIDE DEF chain
<1> DEFINE is(i) == InstanceOf(error, chain[i][1])
<1>2. \A i \in 1..5 : is(i) /\ (\A j \in 1..5 : j < i => ~ is(j)) =>
        FirstMatch(chain, error, "GlobalExceptionFilter") = chain[i][2]
  BY <1>1, FirstMatchAt
<1>3. (\A j \in 1..5 : ~ is(j)) =>
        FirstMatch(chain, error, "GlobalExceptionFilter") = "GlobalExceptionFilter"
  BY <1>1, FirstMatchNone
<1>4. FilterFor(error) = FirstMatch(chain, error, "GlobalExceptionFilter")
  BY DEF FilterFor, chain
<1> QED
  BY <1>1, <1>2, <1>3, <1>4

\* The type of a Kafka error, from the top.
LEMMA ErrorTypeInTurn ==
  ASSUME NEW error
  PROVE  ErrorType(error) =
           IF InstanceOf(error, "SyntaxError") THEN "POISON_PILL"
           ELSE IF InstanceOf(error, "InfrastructureError") THEN "TRANSIENT"
           ELSE "PERMANENT"
BY DEF ErrorType, FirstMatch

\* The classification of a GraphQL error, from the top.
LEMMA ClassificationInTurn ==
  ASSUME NEW error
  PROVE  Classification(error) =
           IF InstanceOf(error, "TodoNotFoundError") THEN "NOT_FOUND"
           ELSE IF InstanceOf(error, "DomainError") THEN "BAD_USER_INPUT"
           ELSE IF InstanceOf(error, "ApplicationValidationError")
             THEN "BAD_USER_INPUT"
           ELSE IF InstanceOf(error, "ApplicationError")
             THEN "INTERNAL_SERVER_ERROR"
           ELSE IF InstanceOf(error, "InfrastructureError")
             THEN "SERVICE_UNAVAILABLE"
           ELSE IF InstanceOf(error, "PresentationError") THEN "BAD_USER_INPUT"
           ELSE "INTERNAL_SERVER_ERROR"
<1> DEFINE chain == << <<"TodoNotFoundError", "NOT_FOUND">>,
                <<"DomainError", "BAD_USER_INPUT">>,
                <<"ApplicationValidationError", "BAD_USER_INPUT">>,
                <<"ApplicationError", "INTERNAL_SERVER_ERROR">>,
                <<"InfrastructureError", "SERVICE_UNAVAILABLE">>,
                <<"PresentationError", "BAD_USER_INPUT">> >>
<1> DEFINE default == "INTERNAL_SERVER_ERROR"
<1>1. /\ Len(chain) = 6 /\ 6 \in Nat
      /\ chain[1][1] = "TodoNotFoundError" /\ chain[1][2] = "NOT_FOUND"
      /\ chain[2][1] = "DomainError" /\ chain[2][2] = "BAD_USER_INPUT"
      /\ chain[3][1] = "ApplicationValidationError"
      /\ chain[3][2] = "BAD_USER_INPUT"
      /\ chain[4][1] = "ApplicationError"
      /\ chain[4][2] = "INTERNAL_SERVER_ERROR"
      /\ chain[5][1] = "InfrastructureError"
      /\ chain[5][2] = "SERVICE_UNAVAILABLE"
      /\ chain[6][1] = "PresentationError" /\ chain[6][2] = "BAD_USER_INPUT"
  OBVIOUS
<1>2. Classification(error) = FirstMatch(chain, error, default)
  BY DEF Classification
<1> HIDE DEF chain
<1> DEFINE is(i) == InstanceOf(error, chain[i][1])
<1>3. Len(chain) = 6 /\ Len(chain) \in Nat
  BY <1>1
<1>4. ASSUME NEW i \in 1..Len(chain), is(i),
             \A j \in 1..Len(chain) : j < i => ~ is(j)
      PROVE  FirstMatch(chain, error, default) = chain[i][2]
  BY <1>3, <1>4, FirstMatchAt
<1>5. (\A j \in 1..Len(chain) : ~ is(j)) => FirstMatch(chain, error, default) = default
  BY <1>3, FirstMatchNone
<1> QED
  BY <1>1, <1>2, <1>3, <1>4, <1>5

\* The status of a REST error, from the top.
LEMMA RestStatusInTurn ==
  ASSUME NEW error
  PROVE  RestStatus(error) =
           IF InstanceOf(error, "TodoNotFoundError") THEN 404
           ELSE IF InstanceOf(error, "TodoValidationError") THEN 400
           ELSE IF InstanceOf(error, "InvalidTodoStatusError") THEN 400
           ELSE IF InstanceOf(error, "DomainError") THEN 422
           ELSE IF InstanceOf(error, "ApplicationValidationError") THEN 400
           ELSE IF InstanceOf(error, "ApplicationError") THEN 500
           ELSE IF InstanceOf(error, "InfrastructureError") THEN 503
           ELSE IF InstanceOf(error, "BadRequestError") THEN 400
           ELSE IF InstanceOf(error, "PresentationError") THEN 400
           ELSE 500
<1> DEFINE chain == << <<"TodoNotFoundError", 404>>,
                <<"TodoValidationError", 400>>,
                <<"InvalidTodoStatusError", 400>>,
                <<"DomainError", 422>>,
                <<"ApplicationValidationError", 400>>,
                <<"ApplicationError", 500>>,
                <<"InfrastructureError", 503>>,
                <<"BadRequestError", 400>>,
                <<"PresentationError", 400>> >>
<1>1. /\ Len(chain) = 9 /\ 9 \in Nat
      /\ chain[1][1] = "TodoNotFoundError" /\ chain[1][2] = 404
      /\ chain[2][1] = "TodoValidationError" /\ chain[2][2] = 400
      /\ chain[3][1] = "InvalidTodoStatusError" /\ chain[3][2] = 400
      /\ chain[4][1] = "DomainError" /\ chain[4][2] = 422
      /\ chain[5][1] = "ApplicationValidationError" /\ chain[5][2] = 400
      /\ chain[6][1] = "ApplicationError" /\ chain[6][2] = 500
      /\ chain[7][1] = "InfrastructureError" /\ chain[7][2] = 503
      /\ chain[8][1] = "BadRequestError" /\ chain[8][2] = 400
      /\ chain[9][1] = "PresentationError" /\ chain[9][2] = 400
  OBVIOUS
<1> DEFINE default == 500
<1>2. RestStatus(error) = FirstMatch(chain, error, default)
  BY DEF RestStatus
<1> HIDE DEF chain, default
<1> DEFINE is(i) == InstanceOf(error, chain[i][1])
<1>3. Len(chain) = 9 /\ Len(chain) \in Nat
  BY <1>1
<1>4. ASSUME NEW i \in 1..Len(chain), is(i),
             \A j \in 1..Len(chain) : j < i => ~ is(j)
      PROVE  FirstMatch(chain, error, default) = chain[i][2]
  BY <1>3, <1>4, FirstMatchAt
<1>5. (\A j \in 1..Len(chain) : ~ is(j)) => FirstMatch(chain, error, default) = default
  BY <1>3, FirstMatchNone
<1> QED
  BY <1>1, <1>2, <1>3, <1>4, <1>5 DEF default

-----------------------------------------------------------------------------
(* The strategies side by side *)

\* A filter of a layer is picked for the errors of that layer and for no other.
LEMMA OwnFilter ==
  ASSUME NEW error \in Throwable
  PROVE  /\ FilterFor(error) = "GlobalExceptionFilter" <=>
              \A layer \in Layers : ~ InstanceOf(error, layer)
         /\ \A pair \in {Registered[i] : i \in 2..Len(Registered)} :
              FilterFor(error) = pair[2] => InstanceOf(error, pair[1])
<1>1. \A i \in 2..Len(Registered) :
        \/ Registered[i] = <<"PresentationError", "PresentationExceptionFilter">>
        \/ Registered[i] =
             <<"InfrastructureError", "InfrastructureExceptionFilter">>
        \/ Registered[i] = <<"ApplicationError", "ApplicationExceptionFilter">>
        \/ Registered[i] = <<"DomainError", "DomainExceptionFilter">>
  BY DEF Registered
<1>2. FilterFor(error) = "GlobalExceptionFilter" <=>
        \A layer \in Layers : ~ InstanceOf(error, layer)
  BY FiltersInTurn DEF Layers
<1>3. ASSUME NEW i \in 2..Len(Registered), FilterFor(error) = Registered[i][2]
      PROVE  InstanceOf(error, Registered[i][1])
  BY <1>1, <1>3, FiltersInTurn
<1> QED
  BY <1>2, <1>3

\* Status, classification and type are three views of one judgement.
LEMMA OneJudgement ==
  ASSUME NEW error \in Throwable
  PROVE  /\ RestStatus(error) \in StatusOf(Classification(error))
         /\ DetailHidden(RestStatus(error)) <=>
              Classification(error) \in
                {"INTERNAL_SERVER_ERROR", "SERVICE_UNAVAILABLE"}
         /\ ErrorType(error) = "TRANSIENT" <=>
              Classification(error) = "SERVICE_UNAVAILABLE"
<1>1. CASE InstanceOf(error, "DomainError")
  <2>1. ~ InstanceOf(error, "InfrastructureError")
    BY <1>1, Lineage DEF Throwable, InstanceOf
  <2>2. \/ /\ RestStatus(error) = 404
           /\ Classification(error) = "NOT_FOUND"
        \/ /\ RestStatus(error) \in {400, 422}
           /\ Classification(error) = "BAD_USER_INPUT"
    BY <1>1, RestStatusInTurn, ClassificationInTurn
  <2> QED
    BY <2>1, <2>2, ErrorTypeInTurn DEF StatusOf, DetailHidden
<1>2. CASE InstanceOf(error, "ApplicationError")
  <2>1. \A class \in {"TodoNotFoundError", "TodoValidationError",
                      "InvalidTodoStatusError", "DomainError",
                      "InfrastructureError"} : ~ InstanceOf(error, class)
    BY <1>2, Lineage DEF Throwable, InstanceOf
  <2>2. \/ /\ RestStatus(error) = 400
           /\ Classification(error) = "BAD_USER_INPUT"
        \/ /\ RestStatus(error) = 500
           /\ Classification(error) = "INTERNAL_SERVER_ERROR"
    BY <1>2, <2>1, RestStatusInTurn, ClassificationInTurn
  <2> QED
    BY <2>1, <2>2, ErrorTypeInTurn DEF StatusOf, DetailHidden
<1>3. CASE InstanceOf(error, "InfrastructureError")
  <2>1. \A class \in {"TodoNotFoundError", "TodoValidationError",
                      "InvalidTodoStatusError", "DomainError",
                      "ApplicationValidationError", "ApplicationError",
                      "SyntaxError"} : ~ InstanceOf(error, class)
    BY <1>3, Lineage DEF Throwable, InstanceOf
  <2>2. /\ RestStatus(error) = 503
        /\ Classification(error) = "SERVICE_UNAVAILABLE"
        /\ ErrorType(error) = "TRANSIENT"
    BY <1>3, <2>1, RestStatusInTurn, ClassificationInTurn, ErrorTypeInTurn
  <2> QED
    BY <2>2 DEF StatusOf, DetailHidden
<1>4. CASE InstanceOf(error, "PresentationError")
  <2>1. \A class \in {"TodoNotFoundError", "TodoValidationError",
                      "InvalidTodoStatusError", "DomainError",
                      "ApplicationValidationError", "ApplicationError",
                      "InfrastructureError"} : ~ InstanceOf(error, class)
    BY <1>4, Lineage DEF Throwable, InstanceOf
  <2>2. /\ RestStatus(error) = 400
        /\ Classification(error) = "BAD_USER_INPUT"
    BY <1>4, <2>1, RestStatusInTurn, ClassificationInTurn
  <2> QED
    BY <2>1, <2>2, ErrorTypeInTurn DEF StatusOf, DetailHidden
<1>5. CASE \A layer \in Layers : ~ InstanceOf(error, layer)
  <2>1. \A class \in {"TodoNotFoundError", "TodoValidationError",
                      "InvalidTodoStatusError", "DomainError",
                      "ApplicationValidationError", "ApplicationError",
                      "InfrastructureError", "BadRequestError",
                      "PresentationError"} : ~ InstanceOf(error, class)
    BY <1>5, Lineage DEF Throwable, InstanceOf, Layers
  <2>2. /\ RestStatus(error) = 500
        /\ Classification(error) = "INTERNAL_SERVER_ERROR"
    BY <2>1, RestStatusInTurn, ClassificationInTurn
  <2> QED
    BY <2>1, <2>2, ErrorTypeInTurn DEF StatusOf, DetailHidden
<1> QED
  BY <1>1, <1>2, <1>3, <1>4, <1>5 DEF Layers

\* What GlobalExceptionFilter passes on has the code and the fields of the
\* error that was thrown.
LEMMA CaughtAlike ==
  ASSUME NEW error \in Throwable
  PROVE  /\ Caught(error) \in Throwable
         /\ ErrorCode(Caught(error)) = ErrorCode(error)
         /\ ValidationFields(Caught(error)) = ValidationFields(error)
<1>1. CASE error # "Unthrowable"
  BY <1>1, Lineage DEF Throwable, InstanceOf, Caught
<1>2. CASE error = "Unthrowable"
  <2>1. Caught(error) = "Error" /\ "Error" \in Throwable
    BY <1>2, Lineage DEF InstanceOf, Caught, Throwable
  <2>2. ErrorCode("Error") = "INTERNAL_ERROR"
    BY Lineage DEF ErrorCode, FirstMatch, InstanceOf
  <2>3. ErrorCode("Unthrowable") = "INTERNAL_ERROR"
    BY Lineage DEF ErrorCode, FirstMatch, InstanceOf
  <2> QED
    BY <1>2, <2>1, <2>2, <2>3 DEF ValidationFields
<1> QED
  BY <1>1, <1>2

-----------------------------------------------------------------------------
(* The inductive invariant *)

\* The records Exchange draws from, for any number of retries.
AnyExchange ==
  [entry : {"REST"}, requestId : RequestIds \cup {Absent},
   traceId : TraceIds \cup {Absent}]
  \cup [entry : {"GRAPHQL"}]
  \cup [entry : {"KAFKA"}, retryCount : Nat, maxRetries : Nat \cup {Absent}]

\* Type correctness.
Typed ==
  /\ exchange \in [Exchanges -> AnyExchange]
  /\ stage \in [Exchanges ->
                  {"open", "failed", "caught", "answered", "unanswered"}]
  /\ thrown \in [Exchanges -> Throwable \cup {"nothing"}]
  /\ filter = [x \in Exchanges |-> filter[x]]
  /\ reply = [x \in Exchanges |-> reply[x]]

\* Where an exchange is tells what its filter and its reply were made of.
Handled(x) ==
  /\ stage[x] # "open" => thrown[x] \in Throwable
  /\ stage[x] = "caught" => filter[x] = FilterFor(thrown[x])
  /\ stage[x] = "answered" => reply[x] = Respond(exchange[x], thrown[x])
  /\ stage[x] = "unanswered" => ~ Formats(exchange[x], thrown[x])

\* The inductive invariant.
IInv == Typed /\ BudgetKept /\ \A x \in Exchanges : Handled(x)

\* The count and the budget of a message are numbers.
LEMMA Counts ==
  ASSUME NEW e \in AnyExchange, e.entry = "KAFKA"
  PROVE  e.retryCount \in Nat /\ MaxRetries(e) \in Nat
BY DEF AnyExchange, MaxRetries, DefaultMaxRetries

\* The three branches of Respond.
LEMMA Responses ==
  ASSUME NEW e, NEW error
  PROVE  /\ e.entry = "REST" =>
              Respond(e, error) =
                [trace |-> IF HandledAsHttp(error) THEN HttpExceptionTrace(e)
                                                   ELSE StrategyTrace(e),
                 body  |-> RestProblem(error)]
         /\ e.entry = "GRAPHQL" =>
              Respond(e, error) = [trace |-> Generated,
                                   body |-> GraphQLFormat(error)]
         /\ e.entry = "KAFKA" =>
              Respond(e, error) =
                [trace |-> Generated,
                 body |-> KafkaFormat(error, e.retryCount, MaxRetries(e))]
BY DEF Respond

\* An open exchange satisfies all of it.
LEMMA InitInv ==
  Init => IInv
<1> SUFFICES ASSUME Init PROVE IInv
  OBVIOUS
<1>1. \A e \in Exchange :
        /\ e \in AnyExchange
        /\ e.entry = "KAFKA" => e.retryCount <= MaxRetries(e)
  BY MessagesTyped, MessagesInBudget DEF Exchange, AnyExchange, MaxRetries
<1>2. Typed
  BY <1>1 DEF Init, Typed
<1>3. BudgetKept
  BY <1>1 DEF Init, BudgetKept
<1>4. \A x \in Exchanges : Handled(x)
  BY DEF Init, Handled
<1> QED
  BY <1>2, <1>3, <1>4 DEF IInv

\* A message is redelivered only while its budget lasts.
LEMMA RedeliverInBudget ==
  ASSUME IInv, NEW x \in Exchanges, Redeliver(x)
  PROVE  /\ exchange'[x] \in AnyExchange
         /\ exchange'[x].retryCount <= MaxRetries(exchange'[x])
<1> DEFINE e == exchange[x]
<1>1. e \in AnyExchange /\ e.entry = "KAFKA"
  BY DEF IInv, Typed, Redeliver
<1>2. e = [entry |-> "KAFKA", retryCount |-> e.retryCount,
           maxRetries |-> e.maxRetries]
      /\ e.maxRetries \in Nat \cup {Absent}
  BY <1>1 DEF AnyExchange
<1>3. exchange'[x] = [e EXCEPT !.retryCount = @ + 1]
  BY DEF Redeliver, IInv, Typed
<1>4. exchange'[x] = [entry |-> "KAFKA", retryCount |-> e.retryCount + 1,
                      maxRetries |-> e.maxRetries]
  BY <1>2, <1>3
<1>5. e.retryCount \in Nat /\ MaxRetries(e) \in Nat
  BY <1>1, Counts
<1>6. e.retryCount < MaxRetries(e)
  <2>1. reply[x].body.retryable
    BY DEF Redeliver
  <2>2. reply[x] = Respond(e, thrown[x])
    BY DEF IInv, Handled, Redeliver
  <2>3. reply[x].body.retryable =
          Retryable(ErrorType(Caught(thrown[x])), e.retryCount, MaxRetries(e))
    BY <1>1, <2>2, Responses DEF KafkaFormat
  <2> QED
    BY <2>1, <2>3 DEF Retryable
<1>7. MaxRetries(exchange'[x]) = MaxRetries(e)
  BY <1>2, <1>4 DEF MaxRetries
<1>8. exchange'[x] \in AnyExchange
  BY <1>2, <1>4, <1>5 DEF AnyExchange
<1> QED
  BY <1>4, <1>5, <1>6, <1>7, <1>8

\* Every step of an exchange keeps the invariant.
LEMMA NextInv ==
  IInv /\ [Next]_vars => IInv'
<1> SUFFICES ASSUME IInv, [Next]_vars PROVE IInv'
  OBVIOUS
<1>1. CASE UNCHANGED vars
  BY <1>1 DEF IInv, vars, Typed, BudgetKept, Handled
<1>2. CASE Next
  <2> PICK x \in Exchanges : Step(x)
    BY <1>2 DEF Next
  <2> USE DEF IInv
  <2>1. CASE Throw(x)
    <3>1. Typed'
      BY <2>1 DEF Throw, Typed
    <3>2. BudgetKept'
      BY <2>1 DEF Throw, BudgetKept
    <3>3. \A y \in Exchanges : Handled(y)'
      BY <2>1 DEF Throw, Typed, Handled
    <3> QED
      BY <3>1, <3>2, <3>3
  <2>2. CASE Catch(x)
    <3>1. Typed'
      BY <2>2 DEF Catch, Typed
    <3>2. BudgetKept'
      BY <2>2 DEF Catch, BudgetKept
    <3>3. \A y \in Exchanges : Handled(y)'
      BY <2>2 DEF Catch, Typed, Handled
    <3> QED
      BY <3>1, <3>2, <3>3
  <2>3. CASE Answer(x)
    <3>1. Typed'
      BY <2>3 DEF Answer, Typed
    <3>2. BudgetKept'
      BY <2>3 DEF Answer, BudgetKept
    <3>3. \A y \in Exchanges : Handled(y)'
      BY <2>3 DEF Answer, Typed, Handled
    <3> QED
      BY <3>1, <3>2, <3>3
  <2>4. CASE FilterThrows(x)
    <3>1. Typed'
      BY <2>4 DEF FilterThrows, Typed
    <3>2. BudgetKept'
      BY <2>4 DEF FilterThrows, BudgetKept
    <3>3. \A y \in Exchanges : Handled(y)'
      BY <2>4 DEF FilterThrows, Typed, Handled
    <3> QED
      BY <3>1, <3>2, <3>3
  <2>5. CASE Redeliver(x)
    <3>1. \A y \in Exchanges \ {x} : exchange'[y] = exchange[y]
      BY <2>5 DEF Redeliver, Typed
    <3>2. exchange'[x] \in AnyExchange
          /\ exchange'[x].retryCount <= MaxRetries(exchange'[x])
      BY <2>5, RedeliverInBudget
    <3>3. exchange' \in [Exchanges -> AnyExchange]
      BY <2>5, <3>1, <3>2 DEF Redeliver, Typed
    <3>4. Typed'
      BY <2>5, <3>3 DEF Redeliver, Typed
    <3>5. BudgetKept'
      BY <3>1, <3>2 DEF BudgetKept
    <3>6. \A y \in Exchanges : Handled(y)'
      BY <2>5, <3>1 DEF Redeliver, Typed, Handled
    <3> QED
      BY <3>4, <3>5, <3>6
  <2> QED
    BY <2>1, <2>2, <2>3, <2>4, <2>5 DEF Step
<1> QED
  BY <1>1, <1>2 DEF vars

\* Type correctness, and what filter and reply are made of, hold throughout.
THEOREM Invariance ==
  Spec => []IInv
<1> QED
  BY InitInv, NextInv, PTL DEF Spec

\* Every error of a layer is caught by that layer's filter, whatever is thrown.
THEOREM OwnLayerCatches ==
  Spec => []OwnLayerFilter
<1>1. IInv => OwnLayerFilter
  BY OwnFilter DEF IInv, Handled, OwnLayerFilter
<1> QED
  BY <1>1, Invariance, PTL

\* No message is delivered more often than its budget allows.
THEOREM RetriesInBudget ==
  Spec => []BudgetKept
<1>1. IInv => BudgetKept
  BY DEF IInv
<1> QED
  BY <1>1, Invariance, PTL

\* The only error a filter fails on is a transient one of a message whose budget
\* reaches beyond the range of dates.
THEOREM FiltersAnswer ==
  Spec => []FiltersDoNotFail
<1>1. ASSUME IInv, NEW x \in Exchanges, stage[x] = "unanswered"
      PROVE  /\ BudgetTooLarge(x)
             /\ ErrorType(Caught(thrown[x])) = "TRANSIENT"
  <2>1. ~ Formats(exchange[x], thrown[x]) /\ exchange[x] \in AnyExchange
    BY <1>1 DEF IInv, Handled, Typed
  <2>2. exchange[x].entry = "KAFKA"
    BY <2>1 DEF Formats
  <2>3. exchange[x].retryCount \in Nat /\ MaxRetries(exchange[x]) \in Nat
    BY <2>1, <2>2, Counts
  <2> QED
    BY <2>1, <2>2, <2>3
       DEF Formats, Dated, Retryable, BudgetTooLarge, LastDatedRetry
<1>2. IInv => FiltersDoNotFail
  BY <1>1 DEF FiltersDoNotFail
<1> QED
  BY <1>2, Invariance, PTL

\* The two paths read the headers alike.
LEMMA PathsAgree ==
  ASSUME NEW e
  PROVE  /\ HttpExceptionTrace(e) = StrategyTrace(e)
         /\ LET sent == {e.requestId, e.traceId} \ {Absent} IN
            sent # {} => StrategyTrace(e) \in sent
BY DEF HttpExceptionTrace, StrategyTrace, ContextTrace, FirstOf

\* A REST request that brought a trace id gets one it brought back, and always
\* the same one, whatever is thrown and whichever of the two paths answers it.
THEOREM TraceIdsKept ==
  Spec => []TraceKept
<1>1. ASSUME IInv, NEW x \in Answered("REST")
      PROVE  reply[x].trace = StrategyTrace(exchange[x])
  <2>1. reply[x].trace = IF HandledAsHttp(thrown[x])
                         THEN HttpExceptionTrace(exchange[x])
                         ELSE StrategyTrace(exchange[x])
    BY <1>1, Responses DEF IInv, Handled, Answered
  <2> QED
    BY <2>1, PathsAgree
<1>2. IInv => TraceKept
  BY <1>1, PathsAgree DEF TraceKept
<1> QED
  BY <1>2, Invariance, PTL

\* The three strategies judge every throwable class alike.
THEOREM StrategiesAgree ==
  Spec => []ProtocolsAgree
<1>1. ASSUME IInv, NEW y \in Answered("GRAPHQL")
      PROVE  /\ thrown[y] \in Throwable
             /\ reply[y].body = GraphQLFormat(thrown[y])
  BY <1>1, Responses DEF IInv, Handled, Answered
<1>2. ASSUME IInv, NEW x \in Answered("REST"),
             ~ InstanceOf(thrown[x], "HttpException")
      PROVE  reply[x].body = RestFormat(Caught(thrown[x]))
  BY <1>2, Responses DEF IInv, Handled, Answered, RestProblem, HandledAsHttp
<1>3. ASSUME IInv, NEW z \in Answered("KAFKA")
      PROVE  reply[z].body.type = ErrorType(Caught(thrown[z]))
  BY <1>3, Responses DEF IInv, Handled, Answered, KafkaFormat
<1>4. ASSUME IInv, NEW y \in Answered("GRAPHQL"), NEW x \in Answered("REST"),
             thrown[x] = thrown[y], ~ InstanceOf(thrown[x], "HttpException")
      PROVE  /\ reply[x].body.status \in StatusOf(reply[y].body.classification)
             /\ reply[x].body.code = reply[y].body.code
             /\ reply[x].body.hidden = reply[y].body.hidden
             /\ reply[x].body.fields = reply[y].body.fields
  <2> DEFINE error == thrown[y]
  <2>1. error \in Throwable
        /\ reply[y].body = GraphQLFormat(error)
        /\ reply[x].body = RestFormat(Caught(error))
    BY <1>1, <1>2, <1>4
  <2> HIDE DEF error
  <2>2. /\ reply[y].body.classification = Classification(Caught(error))
        /\ reply[y].body.code = ErrorCode(error)
        /\ reply[y].body.hidden =
             (Classification(Caught(error)) \in
                {"INTERNAL_SERVER_ERROR", "SERVICE_UNAVAILABLE"})
        /\ reply[y].body.fields = ValidationFields(error)
    BY <2>1 DEF GraphQLFormat
  <2>3. /\ reply[x].body.status = RestStatus(Caught(error))
        /\ reply[x].body.code = ErrorCode(Caught(error))
        /\ reply[x].body.hidden = DetailHidden(RestStatus(Caught(error)))
        /\ reply[x].body.fields = ValidationFields(Caught(error))
    BY <2>1 DEF RestFormat
  <2>4. Caught(error) \in Throwable
        /\ ErrorCode(Caught(error)) = ErrorCode(error)
        /\ ValidationFields(Caught(error)) = ValidationFields(error)
    BY <2>1, CaughtAlike
  <2>5. DetailHidden(RestStatus(Caught(error))) =
          (Classification(Caught(error)) \in
             {"INTERNAL_SERVER_ERROR", "SERVICE_UNAVAILABLE"})
    BY <2>4, OneJudgement DEF DetailHidden
  <2> QED
    BY <2>2, <2>3, <2>4, <2>5, OneJudgement
<1>5. ASSUME IInv, NEW y \in Answered("GRAPHQL"), NEW z \in Answered("KAFKA"),
             thrown[z] = thrown[y]
      PROVE  reply[z].body.type = "TRANSIENT" <=>
               reply[y].body.classification = "SERVICE_UNAVAILABLE"
  <2>1. /\ thrown[y] \in Throwable
        /\ Caught(thrown[y]) \in Throwable
        /\ reply[y].body = GraphQLFormat(thrown[y])
    BY <1>1, <1>5, CaughtAlike
  <2>2. reply[y].body.classification = Classification(Caught(thrown[y]))
    BY <2>1 DEF GraphQLFormat
  <2>3. reply[z].body.type = ErrorType(Caught(thrown[y]))
    BY <1>3, <1>5
  <2> QED
    BY <2>1, <2>2, <2>3, OneJudgement
<1>6. IInv => ProtocolsAgree
  BY <1>4, <1>5 DEF ProtocolsAgree
<1> QED
  BY <1>6, Invariance, PTL
=============================================================================
