---------------------------- MODULE KafkaMessaging ----------------------------
(***************************************************************************)
(* KafkaService, TodoEventPublisher and TodoEventHandler over the clients of *)
(* kafkajs: the service connects three clients when its module starts and    *)
(* disconnects them when it is destroyed, the handler starts a consumer, and *)
(* publications run concurrently with both.                                 *)
(*                                                                         *)
(* The clients and the topic are external: a call of a client settles at   *)
(* any time, well or badly, and a message that was sent may reach the      *)
(* topic late, when the caller has long been told that it failed, or       *)
(* twice, as kafkajs sends again on its own when an acknowledgement is     *)
(* late.  Offsets committed by earlier runs of the consumer group and      *)
(* rebalances are left out.                                                *)
(***************************************************************************)
EXTENDS Naturals, Sequences, FiniteSets

CONSTANTS
  Publications,  \* calls of publish* callers may make
  Garbage,       \* messages of other producers that are no event
  Partitions,    \* partitions of the topic todo.events
  MaxCopies      \* bound on the times a message that was sent once arrives

VARIABLES
  isConnected,  \* the flag of KafkaService
  up,           \* the clients that are connected
  lifecycle,    \* what KafkaService is doing
  awaited,      \* the client whose connect or disconnect it awaits
  handler,      \* how far TodoEventHandler has started
  publication,  \* where each publication is
  topic,        \* the messages in each partition
  position,     \* the next message the consumer gets from each partition
  handled       \* the messages eachMessage is through with

serviceVars == <<isConnected, up, lifecycle, awaited>>
topicVars == <<topic, position, handled>>
vars == <<serviceVars, handler, publication, topicVars>>

\* In the order in which they are connected and disconnected.
Clients == <<"producer", "consumer", "admin">>
ClientSet == {Clients[i] : i \in 1..3}

Messages == Publications \cup Garbage

\* A publication is not garbage.
ASSUME GarbageIsNoEvent == Garbage \cap Publications = {}

\* Closed is what disconnect leaves when it ran through, abandoned when it
\* found the flag down and returned.
Lifecycle == {"new", "connecting", "ready", "degraded", "disconnecting",
              "stuck", "closed", "abandoned"}

Handler == {"new", "subscribing", "starting", "consuming", "skipped", "failed"}

\* Published is a promise that was resolved, and logged as "Published ...".
Publication == {"idle", "sending", "published", "failed"}

-----------------------------------------------------------------------------
(* KafkaService *)

OnModuleInit ==
  /\ lifecycle = "new"
  /\ lifecycle' = "connecting"
  /\ awaited' = 1
  /\ UNCHANGED <<isConnected, up, handler, publication, topicVars>>

\* One await of connect() after the other; the flag comes last.
ClientConnects ==
  /\ lifecycle = "connecting"
  /\ up' = up \cup {Clients[awaited]}
  /\ IF awaited = Len(Clients)
     THEN isConnected' = TRUE /\ lifecycle' = "ready" /\ UNCHANGED awaited
     ELSE awaited' = awaited + 1 /\ UNCHANGED <<isConnected, lifecycle>>
  /\ UNCHANGED <<handler, publication, topicVars>>

\* Mutant: onModuleInit passes the KafkaError on and Nest gives up.
ConnectFailsUncaught ==
  /\ lifecycle = "connecting"
  /\ lifecycle' = "closed"
  /\ UNCHANGED <<isConnected, up, awaited, handler, publication, topicVars>>

\* connect() throws a KafkaError, which onModuleInit swallows.  The clients
\* that were connected stay so.
ConnectFails ==
  /\ lifecycle = "connecting"
  /\ lifecycle' = "degraded"
  /\ UNCHANGED <<isConnected, up, awaited, handler, publication, topicVars>>

Started == handler \in {"consuming", "skipped", "failed"}

\* app.close(), once every module has started.
OnModuleDestroy ==
  /\ lifecycle \in {"ready", "degraded"}
  /\ Started
  /\ IF isConnected
     THEN lifecycle' = "disconnecting" /\ awaited' = 1
     ELSE lifecycle' = "abandoned" /\ UNCHANGED awaited
  /\ UNCHANGED <<isConnected, up, handler, publication, topicVars>>

\* Mutant: disconnect forgets the consumer.
ClientDisconnectsButConsumer ==
  /\ lifecycle = "disconnecting"
  /\ up' = up \ ({Clients[awaited]} \ {"consumer"})
  /\ IF awaited = Len(Clients)
     THEN isConnected' = FALSE /\ lifecycle' = "closed" /\ UNCHANGED awaited
     ELSE awaited' = awaited + 1 /\ UNCHANGED <<isConnected, lifecycle>>
  /\ UNCHANGED <<handler, publication, topicVars>>

ClientDisconnects ==
  /\ lifecycle = "disconnecting"
  /\ up' = up \ {Clients[awaited]}
  /\ IF awaited = Len(Clients)
     THEN isConnected' = FALSE /\ lifecycle' = "closed" /\ UNCHANGED awaited
     ELSE awaited' = awaited + 1 /\ UNCHANGED <<isConnected, lifecycle>>
  /\ UNCHANGED <<handler, publication, topicVars>>

\* disconnect() logs the error and returns; the flag stays up.
DisconnectFails ==
  /\ lifecycle = "disconnecting"
  /\ lifecycle' = "stuck"
  /\ UNCHANGED <<isConnected, up, awaited, handler, publication, topicVars>>

-----------------------------------------------------------------------------
(* TodoEventHandler *)

\* Nest starts the handler's module when KafkaService has started.
HandlerInit ==
  /\ handler = "new"
  /\ lifecycle \in {"ready", "degraded"}
  /\ handler' = IF isConnected THEN "subscribing" ELSE "skipped"
  /\ UNCHANGED <<serviceVars, publication, topicVars>>

Subscribed ==
  /\ handler = "subscribing"
  /\ handler' = "starting"
  /\ UNCHANGED <<serviceVars, publication, topicVars>>

\* fromBeginning is false: the consumer starts at the end of each partition.
Consuming ==
  /\ handler = "starting"
  /\ handler' = "consuming"
  /\ position' = [part \in Partitions |-> Len(topic[part]) + 1]
  /\ UNCHANGED <<serviceVars, publication, topic, handled>>

\* subscribe or run fails; onModuleInit logs the error.
HandlerFails ==
  /\ handler \in {"subscribing", "starting"}
  /\ handler' = "failed"
  /\ UNCHANGED <<serviceVars, publication, topicVars>>

\* Mutant: what eachMessage cannot parse it throws back at the consumer, which
\* delivers it again.
EachMessageUncaught(part) ==
  /\ handler = "consuming"
  /\ "consumer" \in up
  /\ position[part] <= Len(topic[part])
  /\ topic[part][position[part]] \notin Garbage
  /\ handled' = handled \cup {topic[part][position[part]]}
  /\ position' = [position EXCEPT ![part] = @ + 1]
  /\ UNCHANGED <<serviceVars, handler, publication, topic>>

\* eachMessage logs an event and logs and swallows every error, so that the
\* consumer moves on in either case.
EachMessage(part) ==
  /\ handler = "consuming"
  /\ "consumer" \in up
  /\ position[part] <= Len(topic[part])
  /\ handled' = handled \cup {topic[part][position[part]]}
  /\ position' = [position EXCEPT ![part] = @ + 1]
  /\ UNCHANGED <<serviceVars, handler, publication, topic>>

-----------------------------------------------------------------------------
(* TodoEventPublisher and KafkaService.send *)

InTopic(message) ==
  \E part \in Partitions : \E i \in 1..Len(topic[part]) :
    topic[part][i] = message

\* The key of a message is the id of the event: any partition may get it.
AppendTo(part, message) == topic' = [topic EXCEPT ![part] = Append(@, message)]

SetPublication(p, to) == publication' = [publication EXCEPT ![p] = to]

\* The publisher and send test the flag and call the producer in one segment.
\* When the flag is down both return, and the caller's promise is resolved as
\* if the event had been sent.
Publish(p) ==
  /\ publication[p] = "idle"
  /\ SetPublication(p, IF isConnected THEN "sending" ELSE "published")
  /\ UNCHANGED <<serviceVars, handler, topicVars>>

Places == UNION {{part} \X (1..Len(topic[part])) : part \in Partitions}

Copies(p) == Cardinality({at \in Places : topic[at[1]][at[2]] = p})

\* The brokers append a message the producer has sent.  (What is still on its
\* way when the producer is disconnected is taken for lost.)
Delivered(p) ==
  /\ publication[p] \in {"sending", "failed"}
  /\ "producer" \in up
  /\ Copies(p) < MaxCopies
  /\ \E part \in Partitions : AppendTo(part, p)
  /\ UNCHANGED <<serviceVars, handler, publication, position, handled>>

Acknowledged(p) ==
  /\ publication[p] = "sending"
  /\ "producer" \in up
  /\ InTopic(p)
  /\ SetPublication(p, "published")
  /\ UNCHANGED <<serviceVars, handler, topicVars>>

\* Mutant: send swallows the error of the producer as disconnect does.
SendFailsQuietly(p) ==
  /\ publication[p] = "sending"
  /\ SetPublication(p, "published")
  /\ UNCHANGED <<serviceVars, handler, topicVars>>

\* send throws a KafkaError.  The message may be in the topic all the same, or
\* get there later.
SendFails(p) ==
  /\ publication[p] = "sending"
  /\ SetPublication(p, "failed")
  /\ UNCHANGED <<serviceVars, handler, topicVars>>

\* Somebody else writes to the topic.
Pollute(message) ==
  /\ ~ InTopic(message)
  /\ \E part \in Partitions : AppendTo(part, message)
  /\ UNCHANGED <<serviceVars, handler, publication, position, handled>>

-----------------------------------------------------------------------------

Init ==
  /\ isConnected = FALSE
  /\ up = {}
  /\ lifecycle = "new"
  /\ awaited = 1
  /\ handler = "new"
  /\ publication = [p \in Publications |-> "idle"]
  /\ topic = [part \in Partitions |-> <<>>]
  /\ position = [part \in Partitions |-> 1]
  /\ handled = {}

ServiceStep ==
  \/ OnModuleInit
  \/ ClientConnects
  \/ ConnectFails
  \/ ClientDisconnects
  \/ DisconnectFails

HandlerStep ==
  \/ HandlerInit
  \/ Subscribed
  \/ Consuming
  \/ HandlerFails

Next ==
  \/ ServiceStep
  \/ OnModuleDestroy
  \/ HandlerStep
  \/ \E part \in Partitions : EachMessage(part)
  \/ \E p \in Publications :
       Publish(p) \/ Delivered(p) \/ Acknowledged(p) \/ SendFails(p)
  \/ \E message \in Garbage : Pollute(message)

\* Nest starts the modules, kafkajs settles every call in the end, its request
\* timeouts see to that, and fetches from every partition.
Fairness ==
  /\ WF_vars(ServiceStep)
  /\ WF_vars(HandlerStep)
  /\ \A part \in Partitions : WF_vars(EachMessage(part))
  /\ \A p \in Publications : WF_vars(Acknowledged(p) \/ SendFails(p))

Spec == Init /\ [][Next]_vars /\ Fairness

-----------------------------------------------------------------------------
(* Properties *)

\* The flag tells of every client, not of some: they are all connected or none
\* is, but while connect or disconnect is under way and where one of them has
\* failed.  After connect has failed the flag is down with some clients up, and
\* disconnect, which believes it, abandons them so; after disconnect has failed
\* it is up with some clients down.  A disconnect that runs through leaves none.
FlagFollowsClients ==
  /\ \/ isConnected /\ up = ClientSet
     \/ ~ isConnected /\ up = {}
     \/ /\ ~ isConnected /\ up # ClientSet
        /\ lifecycle \in {"connecting", "degraded", "abandoned"}
     \/ isConnected /\ lifecycle \in {"disconnecting", "stuck"}
  /\ lifecycle = "ready" => isConnected
  /\ lifecycle = "closed" => ~ isConnected

\* From the end of connect to the end of disconnect, success is claimed only of
\* an event that is in the topic; whoever is in doubt is told of a failure.
\* Before and after that, and without brokers, success is claimed of an event
\* nobody tries to send.
PublishedMeansSent ==
  [][\A p \in Publications :
       publication[p] # "published" /\ publication'[p] = "published" =>
         \/ InTopic(p)
         \/ /\ publication[p] = "idle"
            /\ lifecycle \notin {"ready", "disconnecting", "stuck"}]_vars

\* The application starts, with or without Kafka.
StartupFinishes == <>Started

\* Whatever else is in the topic, an event that gets there while the handler
\* consumes is handled, unless the service shuts down first.
EventsHandled ==
  \A p \in Publications :
    handler = "consuming" /\ publication[p] = "sending" /\ ~ InTopic(p)
      ~> \/ p \in handled
         \/ ~ InTopic(p) /\ publication[p] = "failed"
         \/ lifecycle \in {"disconnecting", "stuck", "closed"}
=============================================================================
