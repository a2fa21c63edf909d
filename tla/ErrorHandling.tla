---------------------------- MODULE ErrorHandling ----------------------------
(***************************************************************************)
(* Failing exchanges going through the exception filters: a handler throws, *)
(* Nest picks a filter, the filter asks the strategy of the entry point for *)
(* a response and hands it over.                                           *)
(*                                                                         *)
(* The Kafka response carries instructions for whoever retries the message; *)
(* that retrier is not part of src/ and is modelled here by what it is told *)
(* to do: deliver a retryable message once more, with its count increased.  *)
(***************************************************************************)
EXTENDS ErrorResponses

CONSTANTS
  Exchanges,      \* requests and messages whose handler fails
  RequestIds,     \* ids a client may send as x-request-id
  TraceIds,       \* ids a client may send as x-trace-id
  Absent,         \* a header or a message field that is not there
  Messages,       \* retryCount and maxRetries a message may come with
  MaxOverrun      \* bound on the deliveries of a message beyond its budget

\* buildContext takes the two numbers over as they come.
ASSUME MessagesTyped ==
  \A m \in Messages : m.retryCount \in Nat /\ m.maxRetries \in Nat \cup {Absent}

\* Whoever sends a message has not yet spent more than its budget on it.
ASSUME MessagesInBudget ==
  \A m \in Messages :
    m.retryCount <= IF m.maxRetries = Absent THEN DefaultMaxRetries
                                             ELSE m.maxRetries

VARIABLES
  exchange,  \* where each exchange came from
  stage,     \* how far its handling is
  thrown,    \* what its handler threw
  filter,    \* the filter that caught it
  reply      \* the response that was prepared last

vars == <<exchange, stage, thrown, filter, reply>>

EntryPoint == {"REST", "GRAPHQL", "KAFKA"}

\* What detectEntryPoint and buildContext read from the host.
Exchange ==
  [entry : {"REST"}, requestId : RequestIds \cup {Absent},
   traceId : TraceIds \cup {Absent}]
  \cup [entry : {"GRAPHQL"}]
  \cup {[entry |-> "KAFKA", retryCount |-> m.retryCount,
         maxRetries |-> m.maxRetries] : m \in Messages}

NoReply == [trace |-> Absent]

-----------------------------------------------------------------------------

\* A trace id of the server's own, for a request that brought none.
Generated == "generated"

\* The first header that is there.
FirstOf(first, second) == IF first # Absent THEN first ELSE second

\* buildContext: the trace id of the context, if the request brought one.
ContextTrace(e) == FirstOf(e.requestId, e.traceId)

\* A strategy's trace id: the context's, or one of the server's own.
StrategyTrace(e) == FirstOf(ContextTrace(e), Generated)

\* Mutant: the filter's own path forgets the second header.
HttpExceptionTraceOneHeader(e) == FirstOf(e.requestId, Generated)

\* The trace id of a problem document GlobalExceptionFilter builds by itself,
\* without context or strategy.
HttpExceptionTrace(e) ==
  FirstOf(e.requestId, FirstOf(e.traceId, Generated))

MaxRetries(e) == IF e.maxRetries = Absent THEN DefaultMaxRetries
                                          ELSE e.maxRetries

Respond(e, error) ==
  CASE e.entry = "REST" ->
         [trace |-> IF HandledAsHttp(error) THEN HttpExceptionTrace(e)
                                            ELSE StrategyTrace(e),
          body  |-> RestProblem(error)]
    [] e.entry = "GRAPHQL" ->
         [trace |-> Generated, body |-> GraphQLFormat(error)]
    [] e.entry = "KAFKA" ->
         [trace |-> Generated,
          body |-> KafkaFormat(error, e.retryCount, MaxRetries(e))]

\* format returns; it does not for a Kafka response whose date is out of range.
Formats(e, error) ==
  e.entry = "KAFKA" =>
    Dated(ErrorType(Caught(error)), e.retryCount, MaxRetries(e))

\* The handler of the exchange throws, or Nest does before it has one.
Throw(x) ==
  /\ stage[x] = "open"
  /\ stage' = [stage EXCEPT ![x] = "failed"]
  /\ \E error \in Throwable :
       /\ error \in BeforeRouting => exchange[x].entry = "REST"
       /\ thrown' = [thrown EXCEPT ![x] = error]
  /\ UNCHANGED <<exchange, filter, reply>>

\* Nest asks the filters.
Catch(x) ==
  /\ stage[x] = "failed"
  /\ stage' = [stage EXCEPT ![x] = "caught"]
  /\ filter' = [filter EXCEPT ![x] = FilterFor(thrown[x])]
  /\ UNCHANGED <<exchange, thrown, reply>>

\* The filter that caught the error responds.
Answer(x) ==
  /\ stage[x] = "caught"
  /\ Formats(exchange[x], thrown[x])
  /\ stage' = [stage EXCEPT ![x] = "answered"]
  /\ reply' = [reply EXCEPT ![x] = Respond(exchange[x], thrown[x])]
  /\ UNCHANGED <<exchange, thrown, filter>>

\* The filter throws in its turn and there is no response.
FilterThrows(x) ==
  /\ stage[x] = "caught"
  /\ ~ Formats(exchange[x], thrown[x])
  /\ stage' = [stage EXCEPT ![x] = "unanswered"]
  /\ UNCHANGED <<exchange, thrown, filter, reply>>

\* The retrier follows the response.
Redeliver(x) ==
  /\ stage[x] = "answered"
  /\ exchange[x].entry = "KAFKA"
  /\ reply[x].body.retryable
  /\ exchange[x].retryCount < MaxRetries(exchange[x]) + MaxOverrun
  /\ stage' = [stage EXCEPT ![x] = "open"]
  /\ exchange' = [exchange EXCEPT ![x].retryCount = @ + 1]
  /\ thrown' = [thrown EXCEPT ![x] = "nothing"]
  /\ filter' = [filter EXCEPT ![x] = "none"]
  /\ reply' = [reply EXCEPT ![x] = NoReply]

Init ==
  /\ exchange \in [Exchanges -> Exchange]
  /\ stage = [x \in Exchanges |-> "open"]
  /\ thrown = [x \in Exchanges |-> "nothing"]
  /\ filter = [x \in Exchanges |-> "none"]
  /\ reply = [x \in Exchanges |-> NoReply]

Step(x) ==
  \/ Throw(x)
  \/ Catch(x)
  \/ Answer(x)
  \/ FilterThrows(x)
  \/ Redeliver(x)

Next == \E x \in Exchanges : Step(x)

\* The exchanges looked at fail whenever they are handled; filters are
\* synchronous, and the retrier does what it is told.
Fairness == \A x \in Exchanges : WF_vars(Step(x))

Spec == Init /\ [][Next]_vars /\ Fairness

-----------------------------------------------------------------------------
(* Properties *)

\* An error of a layer is caught by the filter of that layer and only what
\* belongs to none is left to the global filter, although the filters are
\* listed with the global one first.
OwnLayerFilter ==
  \A x \in Exchanges :
    stage[x] = "caught" =>
      /\ filter[x] = "GlobalExceptionFilter" <=>
           \A layer \in Layers : ~ InstanceOf(thrown[x], layer)
      /\ \A pair \in {Registered[i] : i \in 2..Len(Registered)} :
           filter[x] = pair[2] => InstanceOf(thrown[x], pair[1])

Answered(entry) ==
  {x \in Exchanges : stage[x] = "answered" /\ exchange[x].entry = entry}

\* What a status and a classification say about whose fault it was.
StatusOf(classification) ==
  CASE classification = "NOT_FOUND"             -> {404}
    [] classification = "BAD_USER_INPUT"        -> {400, 422}
    [] classification = "INTERNAL_SERVER_ERROR" -> {500}
    [] classification = "SERVICE_UNAVAILABLE"   -> {503}

\* The three strategies, written separately, judge an error alike: the same
\* error gets a status and a classification that agree, the same code, and its
\* message is withheld on both or on neither; and a message is worth a retry
\* exactly when a client would be told that the service is unavailable.  (An
\* HttpException is judged on REST alone.)
ProtocolsAgree ==
  \A y \in Answered("GRAPHQL") :
    /\ \A x \in Answered("REST") :
         thrown[x] = thrown[y] /\ ~ InstanceOf(thrown[x], "HttpException") =>
           /\ reply[x].body.status \in StatusOf(reply[y].body.classification)
           /\ reply[x].body.code = reply[y].body.code
           /\ reply[x].body.hidden = reply[y].body.hidden
           /\ reply[x].body.fields = reply[y].body.fields
    /\ \A z \in Answered("KAFKA") :
         thrown[z] = thrown[y] =>
           (reply[z].body.type = "TRANSIENT" <=>
              reply[y].body.classification = "SERVICE_UNAVAILABLE")

\* A problem document carries a trace id the request came with, and it is the
\* same one whatever went wrong: two requests with the same headers are
\* answered the same trace id, the one on the path of the strategies and the
\* other on GlobalExceptionFilter's own.
TraceKept ==
  \A x \in Answered("REST") :
    LET sent == {exchange[x].requestId, exchange[x].traceId} \ {Absent} IN
    sent # {} =>
      /\ reply[x].trace \in sent
      /\ \A y \in Answered("REST") :
           exchange[y] = exchange[x] => reply[y].trace = reply[x].trace

\* A message is never delivered more often than its budget of retries allows.
BudgetKept ==
  \A x \in Exchanges :
    exchange[x].entry = "KAFKA" =>
      exchange[x].retryCount <= MaxRetries(exchange[x])

\* A budget so large that the backoff can leave the range of dates.
BudgetTooLarge(x) ==
  exchange[x].entry = "KAFKA" /\ MaxRetries(exchange[x]) > LastDatedRetry + 1

\* The filters themselves never fail, except on a transient error of a message
\* that may be retried for longer than dates reach: with any other budget the
\* message that has come to its end is still answered, however often it was
\* retried.
FiltersDoNotFail ==
  \A x \in Exchanges :
    stage[x] = "unanswered" =>
      BudgetTooLarge(x) /\ ErrorType(Caught(thrown[x])) = "TRANSIENT"

\* Retrying comes to an end: an exchange that fails every time is answered at
\* last with a response that asks for nothing more.
EveryFailureSettles ==
  \A x \in Exchanges :
    stage[x] = "failed" /\ ~ BudgetTooLarge(x) ~>
      stage[x] = "answered" /\ (exchange[x].entry = "KAFKA" =>
                                  ~ reply[x].body.retryable)

\* docs/error-handling.md: "BAD_USER_INPUT | Validation errors, invalid input".
\* Input the ValidationPipe refuses on GraphQL is classified as the user's.
InvalidInputClassified ==
  \A x \in Answered("GRAPHQL") :
    thrown[x] = "ValidationPipeException" =>
      reply[x].body.classification = "BAD_USER_INPUT"
=============================================================================
