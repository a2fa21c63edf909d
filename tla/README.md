# TLA+ specifications of the Todo service

These modules model a NestJS Todo service built in layers: a domain model, six
use cases over a repository port, an in-memory repository, REST and GraphQL
entry points, a Kafka publisher and consumer, an exception-handling subsystem
that serves all entry points, and a pipeline library that wraps marked methods
in middlewares. TLC checks them on small instances; TLAPS proves their safety
properties, and that the use cases refine the service they promise, for every value of the
constants. Paths below are relative to the repository's own `src/`.

`PROJECT.json` maps every definition to the lines it translates and lists the
runs, the mutants (a plausible bug for each property, which its run detects),
the hazards and the theorems.

## 1. Inventory of the system

| Component | State | Operations |
|---|---|---|
| Domain model `domain/` | the fields of a `Todo` entity; value objects are immutable | create, updateTitle, updateDescription, updateStatus, markAsCompleted; validation and normalisation in `TodoTitle`, `TodoDescription`, `TodoId` |
| Use cases `application/todo` | none of their own; the entity a call holds across an `await` | create, update, complete, delete, get by id, list |
| In-memory repository `infrastructure/persistence` | one `Map` from id to row | save, update (both upserts), delete, findById, findAll, findByStatus, exists |
| REST `presentation/rest`, `app.setup.ts` | none | five routes; the global `ValidationPipe`; mappers |
| GraphQL `presentation/graphql` | none | two queries, three mutations; `formatError` |
| Exception handling `infrastructure/exception-handling`, `*/errors` | none, but a Kafka message carries its `retryCount` | five filters, three response strategies |
| Kafka `infrastructure/messaging/kafka`, `presentation/kafka` | three clients, the flag `isConnected`, the consumer's position | connect, disconnect, send, subscribe; publish; eachMessage |
| Pipeline `common/pipeline`, `infrastructure/pipeline` | a list of middlewares per pipeline; one context per execution; metadata; the wrapped methods | use, useAll, withTarget, execute; the start-up explorer; `LoggingMiddleware` |
| Domain events, `Result`, app stubs | none | nobody calls them |

How they interact. A request passes the `ValidationPipe`, its controller or
resolver maps it to a command and awaits the use case; the use case works on
entities and awaits the repository; an exception travels back until Nest hands
it to one of the filters, which asks the strategy of its entry point for a
response. `CreateTodoUseCase.execute` is the one method marked `@UsePipeline`;
`AppModule` registers `LoggingMiddleware` for it. Kafka stands beside this:
`KafkaService` connects when its module starts, the handler then subscribes,
and the publisher is ready for callers it does not have yet.

What is hard. There is one thread, but every `await` is a point where any other
call may run, and the entity a use case read before it is written back after
it: no version, lock or transaction guards it. The repository's `update` is an
upsert. The filters' order is decided by Nest, not by the list in the module.
Three strategies judge every error separately. Kafka's clients connect one by
one and fail one by one, while sends go on. One `Pipeline` object serves all
concurrent calls of a method. The explorer must find every mistake of a set-up
before it lets the application start.

What makes each component correct:

* use cases and repository: what is stored can be read back; an answer shows
  what its command asked for; a refused call changes nothing; only a delete
  loses a todo; what races may destroy is limited to what a stale copy holds;
* exception handling: the error's own layer answers, the entry points agree,
  both paths to a problem document keep the trace id, retries end;
* requests: each is answered, what comes back is what went in, the two entry points
  admit the same, and the cases in which the server takes the blame are known;
* Kafka: the flag speaks for all clients but where one failed, "published" means sent
  as long as the service is connected, the application starts without brokers, a bad
  message does not stop the consumer;
* pipeline: the onion order, private contexts, transparent logging, a start
  that wraps everything as declared or fails.

## 2. Modules

```
TodoDomain <-- TodoService
     ^              ^ refines
     |         TodoHistory
     |              v extends
     +-------- TodoUseCases <-- InMemoryTodos              (refines TodoUseCases!Spec)
                            <-- Requests --> ErrorResponses
                                                ^
                                         ErrorHandling
KafkaMessaging
Pipeline          PipelineStartup
```

Each of TodoUseCases, TodoHistory, InMemoryTodos, Requests, ErrorHandling,
KafkaMessaging, Pipeline and PipelineStartup has a module of theorems, named after it
with `Proofs`. Those of TodoHistory, InMemoryTodos and Requests extend TodoUseCasesProofs
too: the invariant of the use cases is part of theirs.

**TodoDomain** has no state: the entity, the value objects and the errors as
operators. A text is a record of a word (its trimmed, case-folded identity), the
length after trimming, the characters that length makes (a surrogate pair is two units of
length, and one character to class-validator) and the white space around it, which is what
`trim()` and the limits of value objects and DTOs tell apart; dates are natural numbers; `undefined` and
`null` are values distinct from every text. `ToDomain` re-validates a row as
the repository does on each read.

**TodoUseCases** is the core. `store` is the repository's Map; `pc[c]`,
`command[c]`, `held[c]` and `answer[c]` are one use-case call: where it is, its
argument, the entities in its local variables and how its promise settled.
`issued` remembers which ids `TodoId.create()` has given out, and when. Each
action is one segment of an async function, from one `await` to the next: for
`UpdateTodoUseCase` these are the refusal of a bad id, the read, the write or
the refusal after it, and the answer. A read or write of the in-memory Map
happens in the segment that calls it, as the repository's methods run
synchronously up to their returned promise. `Spec` lets waiting calls resume in
*any* order: that is the contract of the port, and what any repository that
does not look inside an entity may do. `Tick` is the wall clock; equal readings
and any delay are possible.

**TodoService** is what the use cases promise together, with no `await`, Map or
row in it: each call takes effect in one step, and decides on the todos as they
were at one moment since it was made. Its outcomes (which commands are refused and
with which error, what an update makes of a todo, what a list shows) are written
field by field, as a reader of the API would put them, and not in the order in which the
code tries the fields. **TodoHistory** shows that TodoUseCases implements it
(`ServiceKept`). The promise speaks of the states a call has lived through, which the
code does not remember; so a history variable `seen` collects them from a call's
read until it acts. It only watches: every behaviour of TodoUseCases
has one value of it. The rest of the mapping is direct: `todos` is `store`, `given` is
`command`, and a call has its `result` once the repository has what it wrote,
one `await` before the caller learns of it. What this says, and no property of a
single write does: a get, a list and every refusal is about one state that really
existed during the call; a write may be decided on an old one, but it changes
one todo and leaves those around it as they are; and a call nobody interferes with is atomic.
A use case that dropped its write when the todo had changed meanwhile, and answered
all the same, would break the promise: that is the mutant of this property.

**InMemoryTodos** adds the microtask queue: a settled promise resumes its
awaiter behind the continuations already queued. `PortContract` says that this
is one of the behaviours of `TodoUseCases!Spec`. On top of it one gets a
property the port's contract does not give: the last writer *invoked* wins.

**ErrorResponses** has no state: the class hierarchy of `core/errors` and its
layers, how Nest picks a filter, and the three strategies. **ErrorHandling** runs
exchanges through it: throw, catch, answer, and for Kafka the redelivery that
the response asks for. A problem document gets its trace id in one of two places, which read
the two headers each for itself: `BaseExceptionFilter` hands a context to the strategy
(`ContextTrace`, `StrategyTrace`), `GlobalExceptionFilter` answers an `HttpException` without
either (`HttpExceptionTrace`). What is thrown before there is a route, by the router or by the
body parser, is thrown on HTTP only (`BeforeRouting`). Nothing in `src/` obeys those instructions yet; the
retrier is modelled as an external one that does exactly what it is told. The
back-off doubles with each retry; its exact dates influence nobody, but
5000 * 2^retryCount milliseconds from now lie beyond the last date of JavaScript once
`retryCount` exceeds 40, and then `toISOString` throws inside the filter (`Dated`,
`FilterThrows`): the failure gets no response at all. `FiltersDoNotFail` says that this
happens to no other exchange, and `EveryFailureSettles` leaves out messages with such a budget.

**Requests** composes the body parser, the `ValidationPipe`, the DTOs, the mappers, TodoUseCases
and ErrorResponses into a server with several clients. A request is turned away by the
parser or by the pipe, or accepted; `Accept` invokes the use case in the same step, as the
handler does; `Continue` resumes a use case and `Deliver` maps its outcome to a
REST or GraphQL response. Each step of it is a step of TodoUseCases or none, so what is shown
of the use cases carries over. The parser is external: a body that is no JSON ends in a
`BadRequestException` of Nest, one over 100 kB in a `PayloadTooLargeError`, which is no
`HttpException`, so the filter answers it with 500. The DTOs of the two entry points are
four definitions, as they are four classes, and so are the twenty mapper methods: dates become
strings on REST only, a deleted id is the one in the use case's result.
The fields of a body are texts, `null` or absent: with `enableImplicitConversion`
whatever else JSON can hold is a string by the time the decorators look at it. The
`LoggingMiddleware` around a create adds awaits after the use case only: its
method runs in the segment that calls it, and `Deliver` may come as late as it likes, so these
behaviours are among those of Requests. Nothing calls `CompleteTodoUseCase` from an entry point, so no
request does.

**KafkaMessaging** has the lifecycle of `KafkaService` (one action per awaited
client call, each of which may fail), the start of `TodoEventHandler`, the
publications of `TodoEventPublisher` and `eachMessage`. The clients and the
brokers are external: a call settles at any time, well or badly, and a message that was
sent may arrive (`Delivered`) before or after its caller was told of a failure, and more than once.
While the flag is down `publish` and `send` return without a word to their caller, so a skipped
publication ends like a sent one (and is logged as "Published ..."): the model has one outcome
`"published"` for both, and `PublishedMeansSent` says when it means that the event is in the topic.

**Pipeline** is `core/pipeline.ts`: pipelines that are extended and copied while
executions are suspended in them. The chain is the closure `reduceRight`
builds; `stack` is the calls an execution is in. A middleware is unknown code,
so it is modelled by all it can do: replace `ctx.args`, call `next` several times
or never, settle with anything. It is assumed to await what `next` gave it before
it goes on. `LoggingMiddleware` is modelled as it is.

**PipelineStartup** is `PipelineExplorer.onModuleInit` over `PipelineResolver`
and the decorators' metadata. What an application declares is a constant record; the
entries know the place at which they are written, so that the reading order can be
stated independently of how `prependEntries` and `baseFirstChain` produce it.
`PipelineResolver.resolve`, with which a script can wrap a call by hand, may be asked at any
time after a successful start for the pipeline of any host, class and method, each of them given or not.
`ResolvedAsWrapped` compares it with what the explorer did, since the two take middlewares
from the container by different code.

The `MC*` modules give TLC its constants. Operators commented `Mutant:` are not part of a
specification; each is a bug that the property it is listed with must detect.

## 3. Runs

| Run | Shows |
|---|---|
| `todo_wide` | Every use case with every way a field can be given. `StoredTodosReadable`, `AnswerHonoursCommand`, `RefusedCallChangesNothing`, `TypeOK`. |
| `todo_races` | Four calls that fight for one todo. `BirthFixed`, `ServiceKept` (refinement), `OnlyDeleteRemoves`, `GoneStaysGone`, `UpdatedAtMovesForward`, `OnlyPatchedFieldsChange`. |
| `in_memory` | The event loop's order: `PortContract` (refinement), `LastInvokedWins`, `EveryCallAnswered`. |
| `error_handling` | `OwnLayerFilter`, `ProtocolsAgree`, `TraceKept`, `BudgetKept`, `FiltersDoNotFail`, `EveryFailureSettles`. |
| `requests` | `RepliesFitRequests`, `FaultsAccountedFor`, `LimitsAgreeButForPairs`, `EntryPointsAdmitAlike`, `EveryRequestAnswered`. |
| `kafka` | `FlagFollowsClients`, `PublishedMeansSent`, `StartupFinishes`, `EventsHandled`. |
| `pipeline` | `OnionOrder`, `ContextPrivate`, `LoggingTransparent`. |
| `pipeline_startup` | `WrappedAsDeclared`, `TransientsApart`, `ResolvedAsWrapped`, `StartJudged`. |
| `doc_bad_user_input`, `doc_graphql_queries`, `doc_classification`, `doc_validation_fields` | Four statements of the documentation the code does not keep; section 6. |

Some of the properties say what races *can* do, in the form of the weakest
statement that still holds:

* `GoneStaysGone`: a deleted todo comes back only through a call that had read it
  before (`update` is an upsert); without such a call it stays away.
* `UpdatedAtMovesForward`: the time of change goes back only when an update
  without any field writes its old copy, since such an update sets no new time.
* `OnlyPatchedFieldsChange`: lost updates lose what a stale copy lacks; a write
  over the version it read touches its own fields only.

Others say exactly where the code falls short of a simpler statement:

* `FaultsAccountedFor`: of what a client sends, three things are answered as a fault of the server:
  a body over the parser's limit, a GraphQL field the pipe refuses and a blank id (`TodoId.fromString`
  throws a plain `Error` outside every `catch`). Nothing else is, and these always are.
* `LimitsAgreeButForPairs`: the DTOs count characters and the value objects UTF-16 units, so a
  title of 150 emoji passes the pipe and is refused by the domain; apart from such texts the
  domain refuses only blanks and nulls of what the pipe lets through.
* `FlagFollowsClients`: after a failed `connect` the flag is down with some clients up, and
  `disconnect`, which believes the flag, abandons them; after a failed `disconnect` it is up with
  some down. A `disconnect` that runs through leaves none.
* `PublishedMeansSent`: a publication asked for before `connect` has succeeded, or after
  `disconnect` is through, claims a success nobody tried for; in between, success means sent.

Bounds, and why they are enough:

* `todo_wide`: three calls, two ids, two readings of the clock. A create, a call
  that works on its todo and one more that interferes are all a property of one
  read and one write can involve. The commands give each field as absent, `null`,
  blank, padded, at the limit (200 characters, which trimming keeps legal) and
  beyond both limits. `todo_races` has four calls (a create, two writers, a
  delete, or a get or a list that may fall between them) with fewer commands.
  Calls are interchangeable, so both use symmetry; `ServiceKept` is a safety property and
  treats all calls alike. The runs with liveness do not.
* `in_memory`: three calls, so that a create can be followed by two racing writers.
* `error_handling`: two exchanges, since `ProtocolsAgree` and `TraceKept` compare two; each of the
  two headers with one id or absent. Three messages: one before the last retry of the default
  budget of three, and two at the last retry that has a date, whose budgets end
  there and one beyond. `MaxOverrun` lets the retrier deliver once more than any budget
  allows, so that the budget and not the bound ends the retries.
* `requests`: two concurrent requests from either entry point, each field valid and at every edge of
  the DTOs and the value objects (texts of surrogate pairs between the two limits among them), bodies
  the parser refuses, two readings of the clock.
* `kafka`: two publications, one foreign message, two partitions. `MaxCopies` lets each message
  that was sent arrive twice.
* `pipeline`: two executions, lists of at most two middlewares, `next` called at
  most twice by each, two pipelines.
* `pipeline_startup`: 817 applications: each of five kinds of middleware in each
  of the four scopes (with inherited entries, stacked decorators and several
  entries in one of them), and every ordered pair of eight sorts of provider (an alias, the
  same instance under two tokens, two instances of a class, request scope,
  class-level mark only, a transport handler, unmarked) with three lists of
  controllers. Every combination of scopes of each, given or absent, is asked of `resolve`.

`CHECK_DEADLOCK FALSE` is given where the system stops: when every call the
constants allow has been made.

## 4. Fairness

* `InMemoryTodos`: `WF(RunMicrotask)`. Node runs queued microtasks before anything
  else. No fairness on invocations or on the clock: callers need not call.
* `Requests`: weak fairness of each request's `Continue` and `Deliver`: the
  repository's promises are settled, so the event loop reaches every
  continuation. Clients need not send.
* `ErrorHandling`: weak fairness of each exchange's steps. The exchanges looked at
  are those that fail each time they are handled; filters are synchronous. That the
  external retrier delivers what it is told to is an assumption.
* `KafkaMessaging`: weak fairness of the service's lifecycle, the handler's start,
  each partition's consumer and each send: every awaited client call settles,
  well or badly (kafkajs has time-outs on connections and requests). No fairness makes a call succeed,
  or a shutdown or publication happen.
* `Pipeline` and `PipelineStartup` have none: a middleware may never go on, and the start runs through finite lists.

## 5. Proofs

Every safety property of section 3 is a theorem, for any number of calls, ids, words,
exchanges, executions, middlewares, providers and entries. Each proof has the shape
`Init => IInv`, `IInv /\ [Next]_vars => IInv'` with one lemma per action, and
`IInv => property` (or, for an action property, `IInv /\ [Next]_vars` implies the step).
Most of the properties are not inductive by themselves; what the invariants add is told
below. TLC finds each of these invariants true of the instances of section 3.

| Module | Theorem | Property |
|---|---|---|
| `TodoUseCasesProofs` | `TypeCorrectness`, `RowsReadable`, `AnswersHonourCommands`, `CreationTimeFixed`, `OnlyDeletesRemove` | `TypeOK`, `StoredTodosReadable`, `AnswerHonoursCommand`, `BirthFixed`, `OnlyDeleteRemoves` |
| | `NoUpsertWithoutCopy`, `TimeMovesForward`, `PatchesKeepTheRest`, `RefusalsWriteNothing` | the action properties `GoneStaysGone`, `UpdatedAtMovesForward`, `OnlyPatchedFieldsChange`, `RefusedCallChangesNothing` |
| `TodoHistoryProofs` | `UseCasesImplementService` | `ServiceKept`: TodoUseCases implements TodoService |
| `InMemoryTodosProofs` | `LastWriterWins` | `LastInvokedWins` |
| `RequestsProofs` | `RepliesFit`, `FaultsAccounted`, `LimitsAgree`, `EntryPointsAlike` | `RepliesFitRequests`, `FaultsAccountedFor`, `LimitsAgreeButForPairs`, `EntryPointsAdmitAlike` |
| `ErrorHandlingProofs` | `OwnLayerCatches`, `RetriesInBudget`, `FiltersAnswer`, `TraceIdsKept`, `StrategiesAgree` | `OwnLayerFilter`, `BudgetKept`, `FiltersDoNotFail`, `TraceKept`, `ProtocolsAgree` |
| `KafkaMessagingProofs` | `FlagFollows`, `PublishedIsSent` | `FlagFollowsClients`, `PublishedMeansSent` |
| `PipelineProofs` | `OnionKept`, `ContextsPrivate`, `LoggingUnseen` | `OnionOrder`, `ContextPrivate`, `LoggingTransparent` |
| `PipelineStartupProofs` | `WrappedInOrder`, `TransientsAlone`, `ResolvedLikeWrapped`, `StartSound` | `WrappedAsDeclared`, `TransientsApart`, `ResolvedAsWrapped`, `StartJudged` |

**The use cases.** A row is written from a copy some call read earlier, so the copies
must be as good as the rows; an answer comes from such a copy, so the copy of a waiting
call must belong to the id and show the fields of that call's command. `IInv` says this:
`RowsCurrent` (each row is well formed, born when its id was issued, not changed in the
future), `CopiesCurrent` (so is each held copy), `CallsInStep` (a call's held todos fit
its position and command), the type invariant and `AnswerHonoursCommand` itself. The
lemmas go bottom up: the value objects accept what they produced (`TitleStable`,
`DescriptionStable`, `RowStable`: normalising is idempotent, which is why reads cannot
throw); each operation of the entity keeps a todo well formed; `MapSetOK`, `SettleOK` and
`SuspendOK` say when the three things a segment does keep `IInv`; each action then combines
these. The action properties follow from `IInv` and one step; `OnlyDeleteRemoves`
speaks of the past and is inductive relative to `IInv`: a delete that removed its todo is never refused
afterwards (`DeletedStays`).

**The refinement.** `HistoryInv` is what the mapping needs besides `IInv`: a call that
still reads has the present Map among the states it saw; one that found a todo, a list or
nothing has seen a state that showed just this. From it each segment is shown to be
its step of TodoService, or a stutter when the call only resumes.

**The event loop.** `QueueOK` says that the queue holds exactly the waiting calls, each once, in the
model's queue as in Node's. That the last writer *invoked* wins needs more: `InOrder` (calls still before their write are queued in the
order of invocation), and `WritersOK` (whoever has written was invoked before whoever will,
and the last of them decided what became of the todo).

**Requests.** `ServerInv` traces each reply: a running call has the command its request was
mapped to, and a call that does not run was turned away (`Mapped`); a reply is the parser's or the
pipe's refusal or the call's answer (`Told`); a refusal by the domain is about a value the command
gave, and a plain `Error` is the answer exactly to an id that is none (`Explained`); a list shows one
status (`OfStatus`). To this come lemmas about the parts: `MappersFaithful` and `RowsMapped` of the
mappers, `LimitsSuffice` of what the decorators leave to the value objects, `RulesAlike` of the DTOs
of the two entry points, `RefusalCode`, `UnparsedCode` and `FailureCode` of the filters.

**Exceptions.** `IInv` ties filter and reply of an exchange to what was thrown (`Handled`).
The chains of `instanceof` tests are unrolled into conditions read from the top; that the
strategies agree and own layers catch is shown error by error, for every entry point, budget and trace id; that
the two places in which a trace id is read come to the same is `PathsAgree`.

**Kafka.** `IInv` adds to the types `ClientsInOrder`: which clients are up follows from the
lifecycle and from which client is awaited; the flag alone does not say it. `PublishedIsSent` needs it
to know that the flag is up throughout `"ready"`, `"disconnecting"` and `"stuck"`.

**Pipeline.** The calls an execution is in are an initial segment of the chain of the
pipeline it *began* with (`Nested`), and all but the innermost have called `next` (`Awaiting`).
Where only `LoggingMiddleware` is, an execution is on its way in, with `next` not yet called by
the innermost, or on its way out, with `next` called by all (`Transparent`).

**The start.** For lineages, decorators and entries of any number, the entries of a method
come out sorted by place and complete: `Joined`, `FlattenContent`, `StoredContent`, `LevelContent`,
`LineageContent` and `EntriesContent` show it of concatenation, `flatMap`, the stacked decorators, one level of
inheritance, a lineage and the four scopes, in this order. `IInv` then follows the loops of the
explorer: the providers before the current one are in order and their marked methods wrapped
(`ProvidersPassed`), of the current one those before the current method (`MethodsPassed`), of
that one the entries before the pending ones (`EntriesPassed`); whatever is wrapped is a marked method of the *first*
provider with its instance (`WrappedMarked`: what the mark on a wrapped method is for); copies of transient middlewares are numbered
without repetition (`CopiesNumbered`), and `ResolvedFits` says what `resolve` gave last.

**Folds.** `Chain`, `Stored` and `BaseFirst` are folds over lists, and the induction theorems of the
library take the induction hypothesis as an operator, which cannot be instantiated here.
The proofs take the least number for which a claim fails instead (`LeastNatural`, from
`WFMin` and the well-foundedness of `<`): `FoldExists` shows with it that the recursive function
by which a fold is defined exists, `ChainLinks` and `StoredLinks` give its recursion, and the lemmas about content use it once more.

Assumptions on the constants, each checked by TLC for the constants of the runs:

* `CommandsTyped`, `MaxClockIsNat` (TodoUseCases), `AbsentValues` (TodoDomain): commands have the
  shape of the TypeScript types; `undefined` and `null` are no texts.
* `IncomingTyped`, `IncomingShaped`, `CommandsMapped` (Requests): a request has the id of its
  path or required argument and only the fields its operation takes, and its command is among those considered.
* `MessagesTyped`, `MessagesInBudget` (ErrorHandling): `retryCount` is a number, `maxRetries` one or
  absent, and no message arrives with more retries behind it than its budget.
* `GarbageIsNoEvent` (KafkaMessaging): foreign messages are not ours.
* `LoggingAndRoot`, `FunctionApart` (Pipeline): the wrapped function is no middleware.
* `ApplicationsDeclared` (PipelineStartup): what decorators can have written: entries that know their places,
  providers whose class and module exist, methods that the class has. `InstancesHaveOneClass`: an
  instance has one `constructor`.

Only model-checked: liveness (`EveryCallAnswered`, `EveryRequestAnswered`, `EveryFailureSettles`,
`StartupFinishes`, `EventsHandled`), and `PortContract`, whose steps are those of the port by
definition and whose fairness is what could fail. Liveness under fairness and `ENABLED` are beyond the prover. The four runs of
section 6 show that a statement is false and need one behaviour only.

## 6. Where the documentation and the code differ

* `doc_graphql_queries`: README shows the query `todo(id: ...)` answering with a todo. `GetTodoArgs`
  and `ListTodosArgs` have no class-validator decorators, and the global pipe
  forbids properties without any, so it refuses both queries before their use case.
* `doc_bad_user_input`: `docs/error-handling.md` classifies invalid input as
  `BAD_USER_INPUT`. What the pipe refuses on GraphQL is an `HttpException`, which
  `GlobalExceptionFilter` treats specially on REST only; it becomes
  `INTERNAL_SERVER_ERROR` with its message withheld.
* `doc_classification`: the documented GraphQL error has a `classification`;
  `formatError` rebuilds the extensions without it.
* `doc_validation_fields`: the documented validation problem lists its fields;
  the use cases throw `TodoValidationError` without a context, so the list is absent.

## 7. Not modelled, and why

* Domain events, `Result`, `app.controller.ts`, `app.service.ts`: nothing calls them.
  Of the entity: `markAsInProgress`, `markAsPending`, `equals`.
* The types by which decorators refuse wrong middlewares at compile time.
* `main.ts` and the module lists, except for the order in which Nest starts modules and lists filters.
* Kafka: committed offsets, rebalances and partitions moving between consumers
  (inside kafkajs); the dead-letter queue the Kafka response speaks of (nobody
  publishes to it: `respondKafka` logs).
* The GraphQL schema's own validation; HTTP parsing; OpenAPI documents.
* A caller that publishes an event again after a failure: there is none in `src/`. kafkajs's own
  repetition is modelled, and what the handlers swallow counts as handled, since they only log.
* A client of kafkajs or a container that never settles a call: `connect` and the start would wait for it.
* Wording, time stamps, logging, titles and `type` URLs of problem documents.
* The exact dates of the Kafka back-off: only whether there is one.

## 8. Plan

Done, most important first: the use cases over the port; the event loop; exception
handling; requests end to end; Kafka; the pipeline; the first theorems; the
abstract service and the refinement; the resolver; the end of the back-off.

Then the proofs: the action properties and `OnlyDeleteRemoves` of the use cases, the
refinement of the service, the event loop, requests, exception handling, the pipeline and its
start. Then closer to the code: the body parser, texts of surrogate pairs, every mapper and DTO for itself,
the two paths of a trace id, late and repeated messages and silent skips of Kafka. No safety property of a run is left without a theorem.

Next, in proofs: the consequences of the theorems together. `IInv` of the use cases is a
conjunct of `ServerInv` and `LoopInv`, so `StoredTodosReadable`, `BirthFixed` and the action
properties hold behind the entry points and on the event loop as well; stated there, they would
be theorems about Requests and InMemoryTodos.

Modelling that waits for the code: Kafka's redelivery after a restart of the
consumer (committed offsets live inside kafkajs) and publication composed with the use
cases, once something calls the publisher.
