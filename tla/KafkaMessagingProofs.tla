------------------------- MODULE KafkaMessagingProofs -------------------------
(***************************************************************************)
(* Proofs about KafkaMessaging, for any publications, garbage and           *)
(* partitions: whatever fails and in whichever order, the flag follows the  *)
(* clients, and while the service is up a publication that claims success   *)
(* was sent.                                                               *)
(***************************************************************************)
EXTENDS KafkaMessaging, TLAPS

TypeOK ==
  /\ isConnected \in BOOLEAN
  /\ up \in SUBSET ClientSet
  /\ lifecycle \in Lifecycle
  /\ awaited \in 1..3
  /\ handler \in Handler
  /\ publication \in [Publications -> Publication]
  /\ topic \in [Partitions -> Seq(Messages)]

\* The clients are connected and disconnected one by one: awaited tells how far.
ClientsInOrder ==
  /\ lifecycle = "new" => ~ isConnected /\ up = {} /\ awaited = 1
  /\ lifecycle \in {"connecting", "degraded", "abandoned"} =>
       /\ ~ isConnected
       /\ "producer" \in up <=> awaited > 1
       /\ "consumer" \in up <=> awaited > 2
       /\ "admin" \notin up
  /\ lifecycle = "ready" => isConnected /\ up = ClientSet
  /\ lifecycle \in {"disconnecting", "stuck"} =>
       /\ isConnected
       /\ "producer" \in up <=> awaited = 1
       /\ "consumer" \in up <=> awaited < 3
       /\ "admin" \in up
  /\ lifecycle = "closed" => ~ isConnected /\ up = {}

IInv == TypeOK /\ ClientsInOrder

-----------------------------------------------------------------------------

LEMMA ClientsAre ==
  /\ Clients[1] = "producer" /\ Clients[2] = "consumer" /\ Clients[3] = "admin"
  /\ Len(Clients) = 3
  /\ ClientSet = {"producer", "consumer", "admin"}
  BY DEF Clients, ClientSet

-----------------------------------------------------------------------------

LEMMA Initially == Init => IInv
<1> SUFFICES ASSUME Init
             PROVE  IInv
  OBVIOUS
<1>1. topic \in [Partitions -> Seq(Messages)]
  BY DEF Init
<1>2. publication \in [Publications -> Publication]
  BY DEF Init, Publication
<1>3. isConnected \in BOOLEAN /\ up \in SUBSET ClientSet
  BY Zenon DEF Init
<1>7. awaited \in 1..3
  BY DEF Init
<1>4. lifecycle \in Lifecycle /\ handler \in Handler
  BY DEF Init, Lifecycle, Handler
<1>5. ClientsInOrder
  BY DEF Init, ClientsInOrder
<1> QED BY <1>1, <1>2, <1>3, <1>4, <1>5, <1>7 DEF IInv, TypeOK

\* The steps of KafkaService touch neither the publications nor the topic.
LEMMA ServiceSteps ==
  ASSUME IInv, ServiceStep \/ OnModuleDestroy
  PROVE  IInv'
<1> USE DEF IInv, TypeOK, ClientsInOrder, Lifecycle
<1>0. awaited = 1 \/ awaited = 2 \/ awaited = 3
  OBVIOUS
<1>1. handler' = handler /\ publication' = publication /\ topic' = topic
  BY DEF ServiceStep, OnModuleInit, ClientConnects, ConnectFails,
     ClientDisconnects, DisconnectFails, OnModuleDestroy, topicVars
<1>3. CASE OnModuleInit
  BY <1>1, <1>3, ClientsAre DEF OnModuleInit
<1>4. CASE ClientConnects
  <2>1. CASE awaited = 3
    <3>1. up' = up \cup {"admin"} /\ isConnected' = TRUE /\ lifecycle' = "ready"
          /\ awaited' = awaited
      BY <1>4, <2>1, ClientsAre DEF ClientConnects
    <3>2. "producer" \in up /\ "consumer" \in up /\ lifecycle = "connecting"
      BY <1>4, <2>1 DEF ClientConnects
    <3>3. up' = ClientSet
      BY <3>1, <3>2, ClientsAre
    <3> QED BY <1>1, <3>1, <3>3
  <2>2. CASE awaited = 2
    BY <1>1, <1>4, <2>2, ClientsAre DEF ClientConnects
  <2>3. CASE awaited = 1
    BY <1>1, <1>4, <2>3, ClientsAre DEF ClientConnects
  <2> QED BY <1>0, <2>1, <2>2, <2>3
<1>5. CASE ConnectFails
  BY <1>1, <1>5 DEF ConnectFails
<1>6. CASE ClientDisconnects
  <2>1. CASE awaited = 3
    <3>1. /\ up' = up \ {"admin"} /\ isConnected' = FALSE
          /\ lifecycle' = "closed" /\ awaited' = awaited
      BY <1>6, <2>1, ClientsAre DEF ClientDisconnects
    <3>2. "producer" \notin up /\ "consumer" \notin up
      BY <1>6, <2>1 DEF ClientDisconnects
    <3>3. up' = {}
      BY <3>1, <3>2, ClientsAre
    <3> QED BY <1>1, <3>1, <3>3
  <2>2. CASE awaited = 2
    BY <1>1, <1>6, <2>2, ClientsAre DEF ClientDisconnects
  <2>3. CASE awaited = 1
    BY <1>1, <1>6, <2>3, ClientsAre DEF ClientDisconnects
  <2> QED BY <1>0, <2>1, <2>2, <2>3
<1>7. CASE DisconnectFails
  BY <1>1, <1>7 DEF DisconnectFails
<1>8. CASE OnModuleDestroy
  BY <1>0, <1>1, <1>8, ClientsAre DEF OnModuleDestroy
<1> QED BY <1>3, <1>4, <1>5, <1>6, <1>7, <1>8 DEF ServiceStep

\* The steps of the handler touch neither the service nor the topic.
LEMMA HandlerSteps ==
  ASSUME IInv, HandlerStep \/ \E part \in Partitions : EachMessage(part)
  PROVE  IInv'
<1>1. handler' \in Handler /\ UNCHANGED <<serviceVars, publication, topic>>
  BY DEF IInv, TypeOK, HandlerStep, HandlerInit, Subscribed, Consuming,
     HandlerFails, EachMessage, Handler, topicVars
<1> QED BY <1>1 DEF IInv, TypeOK, ClientsInOrder, serviceVars

\* The steps of a publication, and those of other producers, touch only the
\* topic and the publication itself.
LEMMA MessageSteps ==
  ASSUME IInv,
         \/ \E p \in Publications :
              Publish(p) \/ Delivered(p) \/ Acknowledged(p) \/ SendFails(p)
         \/ \E message \in Garbage : Pollute(message)
  PROVE  IInv'
<1> USE DEF IInv, TypeOK
<1>1. UNCHANGED <<serviceVars, handler>>
  BY DEF Publish, Delivered, Acknowledged, SendFails, Pollute
<1>2. ClientsInOrder'
  BY <1>1 DEF ClientsInOrder, serviceVars
<1>3. publication' \in [Publications -> Publication]
  BY DEF Publish, Delivered, Acknowledged, SendFails, Pollute,
     SetPublication, Publication
<1>4. topic' \in [Partitions -> Seq(Messages)]
  <2>1. \/ topic' = topic
        \/ \E part \in Partitions, message \in Messages : AppendTo(part, message)
    BY DEF Publish, Delivered, Acknowledged, SendFails, Pollute, topicVars,
       Messages
  <2>2. ASSUME NEW part \in Partitions, NEW message \in Messages,
               AppendTo(part, message)
        PROVE  topic' \in [Partitions -> Seq(Messages)]
    <3>1. Append(topic[part], message) \in Seq(Messages)
      OBVIOUS
    <3> QED
      BY <2>2, <3>1 DEF AppendTo
  <2> QED
    BY <2>1, <2>2
<1> QED BY <1>1, <1>2, <1>3, <1>4 DEF serviceVars

\* The inductive invariant behind the two theorems below.
THEOREM Invariance == Spec => []IInv
<1>1. IInv /\ [Next]_vars => IInv'
  <2> SUFFICES ASSUME IInv, [Next]_vars
               PROVE  IInv'
    OBVIOUS
  <2>1. CASE Next
    BY <2>1, ServiceSteps, HandlerSteps, MessageSteps DEF Next
  <2>2. CASE UNCHANGED vars
    BY <2>2 DEF vars, serviceVars, topicVars, IInv, TypeOK, ClientsInOrder
  <2> QED BY <2>1, <2>2
<1> QED BY Initially, <1>1, PTL DEF Spec

\* The flag of KafkaService tells of all its clients, but while connect or
\* disconnect is under way and after one of them has failed; a disconnect that
\* runs through leaves no client connected.
THEOREM FlagFollows == Spec => []FlagFollowsClients
<1>1. IInv => FlagFollowsClients
  <2> SUFFICES ASSUME IInv
               PROVE  FlagFollowsClients
    OBVIOUS
  <2>1. awaited = 1 \/ awaited = 2 \/ awaited = 3
    BY DEF IInv, TypeOK
  <2> QED BY <2>1, ClientsAre DEF IInv, TypeOK, ClientsInOrder, Lifecycle,
          FlagFollowsClients
<1> QED BY Invariance, <1>1, PTL

\* From the end of connect to the end of disconnect a promise of
\* TodoEventPublisher is resolved only when the event is in the topic.
THEOREM PublishedIsSent == Spec => PublishedMeansSent
<1>1. ASSUME IInv, [Next]_vars, NEW p \in Publications,
             publication[p] # "published", publication'[p] = "published"
      PROVE  \/ InTopic(p)
             \/ /\ publication[p] = "idle"
                /\ lifecycle \notin {"ready", "disconnecting", "stuck"}
  <2>1. publication' # publication
    BY <1>1
  <2>2. PICK q \in Publications : Publish(q) \/ Acknowledged(q) \/ SendFails(q)
    BY <1>1, <2>1
       DEF Next, vars, ServiceStep, OnModuleInit, ClientConnects, ConnectFails,
           ClientDisconnects, DisconnectFails, OnModuleDestroy, HandlerStep,
           HandlerInit, Subscribed, Consuming, HandlerFails, EachMessage,
           Delivered, Pollute
  <2>3. publication \in [Publications -> Publication]
    BY <1>1 DEF IInv, TypeOK
  <2>4. CASE Publish(q)
    <3>1. q = p /\ publication[p] = "idle" /\ ~ isConnected
      BY <1>1, <2>3, <2>4 DEF Publish, SetPublication
    <3> QED
      BY <1>1, <3>1 DEF IInv, ClientsInOrder
  <2>5. CASE Acknowledged(q)
    BY <1>1, <2>3, <2>5 DEF Acknowledged, SetPublication
  <2>6. CASE SendFails(q)
    BY <1>1, <2>3, <2>6 DEF SendFails, SetPublication
  <2> QED
    BY <2>2, <2>4, <2>5, <2>6
<1>2. IInv /\ [Next]_vars => PublishedMeansSent!1
  BY <1>1
<1> QED BY Invariance, <1>2, PTL DEF Spec, PublishedMeansSent
=============================================================================
