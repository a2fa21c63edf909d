-------------------------- MODULE TodoHistoryProofs --------------------------
(***************************************************************************)
(* The use cases implement TodoService, for any number of calls, ids and    *)
(* commands.  Every segment of a use case maps to one step of the service,  *)
(* or to none: a refusal to Refuse, the read of the first segment to Begin, *)
(* the second segment to the act it decides on, the answer of a write to a  *)
(* stutter.  What has to be carried along is that the copies a waiting call *)
(* holds were all read at one moment the call has lived through.            *)
(***************************************************************************)
EXTENDS TodoHistory, TodoUseCasesProofs

-----------------------------------------------------------------------------
(* The two ways to say the same thing *)

\* The service looks at values through the same value objects.
LEMMA SameDomain ==
  ASSUME NEW raw
  PROVE  /\ Service!TitleAccepts(raw) = TitleAccepts(raw)
         /\ Service!TitleValue(raw) = TitleValue(raw)
         /\ Service!DescriptionAccepts(raw) = DescriptionAccepts(raw)
         /\ Service!DescriptionValue(raw) = DescriptionValue(raw)
         /\ Service!StatusAccepts(raw) = StatusAccepts(raw)
         /\ Service!UpperCase(raw) = UpperCase(raw)
BY DEF Service!TitleAccepts, TitleAccepts, Service!TitleValue, TitleValue,
  Service!DescriptionAccepts, DescriptionAccepts,
  Service!DescriptionValue, DescriptionValue,
  Service!StatusAccepts, StatusAccepts, Service!UpperCase, UpperCase,
  Service!Trim, Trim, Service!MaxTitleLength, MaxTitleLength,
  Service!MaxDescriptionLength, MaxDescriptionLength,
  Service!TodoStatus, TodoStatus

\* The field an update stumbles over in its fixed order is a bad field, and
\* the error it makes of it is the one the service states without an order.
LEMMA PatchErrorIsUpdateError ==
  ASSUME NEW cmd \in Command
  PROVE  /\ PatchError(cmd) = "none" <=> Service!BadFields(cmd) = {}
         /\ PatchError(cmd) # "none" => PatchError(cmd) = Service!UpdateError(cmd)
<1> DEFINE bad == Service!BadFields(cmd)
<1>1. /\ "title" \in bad <=> TitleRefused(cmd)
      /\ "description" \in bad <=> DescriptionRefused(cmd)
      /\ "status" \in bad <=> StatusRefused(cmd)
      /\ bad \subseteq {"title", "description", "status"}
  BY SameDomain
  DEF Service!BadFields, Service!BadTitle, Service!BadDescription,
      Service!BadStatus, Service!Gives, TitleRefused, DescriptionRefused,
      StatusRefused
<1> HIDE DEF bad
<1>2. bad = {} <=> "title" \notin bad /\ "description" \notin bad
                   /\ "status" \notin bad
  BY <1>1
<1>3. bad = {"status"} <=> "title" \notin bad /\ "description" \notin bad
                           /\ "status" \in bad
  <2>1. ASSUME "title" \notin bad, "description" \notin bad, "status" \in bad
        PROVE  bad = {"status"}
    BY <1>1, <2>1
  <2> QED
    BY <2>1
<1> QED
  BY <1>1, <1>2, <1>3 DEF PatchError, Service!UpdateError, bad

\* Three conditional updates of an entity are one update of its fields.
LEMMA PatchedIsMerge ==
  ASSUME NEW todo \in Todo, NEW cmd \in Command, NEW now
  PROVE  Patched(todo, cmd, now) = Service!Merge(todo, cmd, now)
BY SameDomain
DEF Patched, UpdateTitle, UpdateDescription, UpdateStatus, Service!Merge,
    Service!Gives, Todo

\* Completing an entity is an update of its status.
LEMMA CompletedIsMerge ==
  ASSUME NEW todo \in Todo, NEW now
  PROVE  MarkAsCompleted(todo, now) =
           [todo EXCEPT !.status = "COMPLETED", !.updatedAt = now]
BY DEF MarkAsCompleted, UpdateStatus, UpperCase, Todo

-----------------------------------------------------------------------------
(***************************************************************************)
(* The invariant the mapping needs besides IInv: a waiting call has lived   *)
(* through the present state of the Map and through the one it read, and    *)
(* what it holds is what that one shows.                                    *)
(***************************************************************************)

SawMissing(c, moment) ==
  /\ command[c].op \notin {"create", "list"}
  /\ command[c].id \notin DOMAIN moment

SawFound(c, moment) ==
  \/ /\ command[c].op \in {"update", "complete", "get"}
     /\ command[c].id \in DOMAIN moment
     /\ held[c] = {moment[command[c].id]}
  \/ /\ command[c].op = "delete"
     /\ command[c].id \in DOMAIN moment
  \/ /\ command[c].op = "list"
     /\ held[c] = Service!Listed(moment, command[c].status)

Witnessed(c) ==
  /\ pc[c] = "idle" => command[c] = NoCommand
  /\ pc[c] \in Reading => store \in seen[c]
  /\ pc[c] \notin Reading => seen[c] = {}
  /\ pc[c] = "missing" => \E moment \in seen[c] : SawMissing(c, moment)
  /\ pc[c] = "found" => \E moment \in seen[c] : SawFound(c, moment)

HistoryInv ==
  /\ seen = [c \in Calls |-> seen[c]]
  /\ \A c \in Calls : Witnessed(c)

\* The history variable records the state a step leaves for the calls that
\* still read.
Recorded ==
  seen' = [c \in Calls |-> IF pc'[c] \in Reading THEN seen[c] \cup {store'}
                                                ELSE {}]

-----------------------------------------------------------------------------
(* The invariant is kept *)

\* A call that is left where it was still has its witnesses.
LEMMA UntouchedWitnessed ==
  ASSUME HistoryInv, Recorded, NEW d \in Calls, Untouched(d)
  PROVE  Witnessed(d)'
<1>1. /\ pc'[d] = pc[d] /\ command'[d] = command[d] /\ held'[d] = held[d]
      /\ seen'[d] = IF pc[d] \in Reading THEN seen[d] \cup {store'} ELSE {}
  BY DEF Untouched, Recorded
<1>2. Witnessed(d)
  BY DEF HistoryInv
<1>3. \A moment : SawMissing(d, moment) => SawMissing(d, moment)'
  BY <1>1 DEF SawMissing
<1>4. \A moment : SawFound(d, moment) => SawFound(d, moment)'
  BY <1>1 DEF SawFound, Service!Listed, Service!UpperCase
<1> QED
  BY <1>1, <1>2, <1>3, <1>4 DEF Witnessed, Reading

\* A segment that leaves its call writing or answered needs no witness.
LEMMA DoneWitnessed ==
  ASSUME HistoryInv, Recorded, NEW c \in Calls,
         pc'[c] \in {"write", "answered"}
  PROVE  Witnessed(c)'
BY DEF Recorded, Witnessed, Reading

LEMMA OneCallKeepsHistory ==
  ASSUME HistoryInv, Recorded, NEW c \in Calls,
         \A d \in Calls \ {c} : Untouched(d), Witnessed(c)'
  PROVE  HistoryInv'
<1>1. \A d \in Calls : Witnessed(d)'
  BY UntouchedWitnessed
<1> QED
  BY <1>1 DEF HistoryInv, Recorded

\* The segments that read.
LEMMA LookupWitnessed ==
  ASSUME IInv, HistoryInv, Recorded, NEW c \in Calls, NEW cmd \in Commands,
         Lookup(c, cmd)
  PROVE  /\ Witnessed(c)'
         /\ pc'[c] \in Reading
<1> DEFINE ids == WithId(cmd.id)
<1>1. ids \in SUBSET Stored /\ UNCHANGED store
  BY DEF WithId, Lookup
<1>2. Readable(ids) /\ Read(ids) = {store[id] : id \in ids}
  BY <1>1, ReadOK
<1>3. Suspend(c, FoundIf(ids # {}), Read(ids))
  BY <1>2 DEF Lookup
<1>4. /\ command'[c] = cmd /\ cmd.op \in {"update", "complete", "get"}
      /\ pc'[c] = FoundIf(ids # {}) /\ held'[c] = {store[id] : id \in ids}
      /\ pc[c] = "idle"
  BY <1>2, <1>3 DEF Lookup, Given, Suspend, IInv, TypeOK
<1>5. FoundIf(ids # {}) \in Reading
  BY DEF FoundIf, Reading
<1>6. store \in seen'[c] /\ store' \in seen'[c]
  BY <1>1, <1>4, <1>5 DEF Recorded
<1>7. CASE cmd.id \in Stored
  <2>1. ids = {cmd.id} /\ FoundIf(ids # {}) = "found"
    BY <1>7 DEF WithId, FoundIf
  <2>2. SawFound(c, store)'
    BY <1>1, <1>4, <1>7, <2>1 DEF SawFound, Stored
  <2> QED
    BY <1>1, <1>4, <1>5, <1>6, <2>1, <2>2 DEF Witnessed
<1>8. CASE cmd.id \notin Stored
  <2>1. FoundIf(ids # {}) = "missing"
    BY <1>8 DEF WithId, FoundIf
  <2>2. SawMissing(c, store)'
    BY <1>1, <1>4, <1>8 DEF SawMissing, Stored
  <2> QED
    BY <1>1, <1>4, <1>5, <1>6, <2>1, <2>2 DEF Witnessed
<1> QED
  BY <1>4, <1>5, <1>7, <1>8

LEMMA CheckExistsWitnessed ==
  ASSUME IInv, HistoryInv, Recorded, NEW c \in Calls, NEW cmd \in Commands,
         CheckExists(c, cmd)
  PROVE  /\ Witnessed(c)'
         /\ pc'[c] \in Reading
<1>1. /\ command'[c] = cmd /\ cmd.op = "delete" /\ UNCHANGED store
      /\ pc'[c] = FoundIf(cmd.id \in Stored)
  BY DEF CheckExists, Given, Suspend, IInv, TypeOK
<1>2. pc'[c] \in Reading /\ store' \in seen'[c]
  BY <1>1 DEF FoundIf, Reading, Recorded
<1>3. CASE cmd.id \in Stored
  BY <1>1, <1>2, <1>3 DEF Witnessed, SawFound, FoundIf, Stored
<1>4. CASE cmd.id \notin Stored
  BY <1>1, <1>2, <1>4 DEF Witnessed, SawMissing, FoundIf, Stored
<1> QED
  BY <1>2, <1>3, <1>4

LEMMA ListReadsWitnessed ==
  ASSUME IInv, HistoryInv, Recorded, NEW c \in Calls, NEW cmd \in Commands,
         ListReads(c, cmd)
  PROVE  /\ Witnessed(c)'
         /\ pc'[c] \in Reading
<1> DEFINE ids == IF cmd.status \in {Undefined, Null} THEN Stored
                  ELSE WithStatus(UpperCase(cmd.status))
<1>1. ids \in SUBSET Stored /\ UNCHANGED store
  BY DEF WithStatus, ListReads
<1>2. Readable(ids) /\ Read(ids) = {store[id] : id \in ids}
  BY <1>1, ReadOK
<1>3. Suspend(c, "found", Read(ids))
  BY <1>2 DEF ListReads
<1>4. /\ command'[c] = cmd /\ cmd.op = "list" /\ pc'[c] = "found"
      /\ held'[c] = {store[id] : id \in ids}
  BY <1>2, <1>3 DEF ListReads, Given, Suspend, IInv, TypeOK
<1>5. store \in seen'[c] /\ store' \in seen'[c]
  BY <1>1, <1>4 DEF Recorded, Reading
<1>6. ids = {i \in DOMAIN store : \/ cmd.status \in {Undefined, Null}
                                  \/ store[i].status = UpperCase(cmd.status)}
  BY DEF WithStatus, Stored
<1>7. held'[c] = Service!Listed(store, cmd.status)
  BY <1>4, <1>6, SameDomain DEF Service!Listed
<1>8. SawFound(c, store)'
  <2>1. Service!Listed(store, command[c].status)'
          = Service!Listed(store, cmd.status)
    BY <1>1, <1>4 DEF Service!Listed, Service!UpperCase
  <2> QED
    BY <1>1, <1>4, <1>7, <2>1 DEF SawFound
<1> QED
  BY <1>1, <1>4, <1>5, <1>8 DEF Witnessed, Reading

LEMMA InitHistoryInv == HistoryInit => HistoryInv
BY DEF HistoryInit, Init, HistoryInv, Witnessed, Reading

LEMMA NextHistoryInv ==
  IInv /\ HistoryInv /\ [HistoryNext]_historyVars => HistoryInv'
<1> SUFFICES ASSUME IInv, HistoryInv, [HistoryNext]_historyVars
             PROVE  HistoryInv'
  OBVIOUS
<1>1. CASE UNCHANGED historyVars
  BY <1>1 DEF historyVars, vars, HistoryInv, Witnessed, SawFound, SawMissing,
              Service!Listed, Service!UpperCase
<1>2. CASE HistoryNext
  <2>1. Recorded /\ Next
    BY <1>2 DEF HistoryNext, Recorded
  <2>2. CASE Tick
    <3>1. \A d \in Calls : Untouched(d)
      BY <2>2 DEF Tick, Untouched
    <3> QED
      BY <2>1, <3>1, UntouchedWitnessed DEF HistoryInv, Recorded
  <2>3. ASSUME NEW c \in Calls, Resume(c) PROVE HistoryInv'
    BY <2>1, <2>3, ResumeTouchesOne, ActsAreDone, DoneWitnessed,
       OneCallKeepsHistory
  <2>4. ASSUME NEW c \in Calls, NEW cmd \in Commands, Execute(c, cmd)
        PROVE  HistoryInv'
    <3>1. \A d \in Calls \ {c} : Untouched(d)
      BY <2>4, InvokeTouchesOne DEF Invoke
    <3>2. Witnessed(c)'
      BY <2>1, <2>4, ActsAreDone, DoneWitnessed, LookupWitnessed,
         CheckExistsWitnessed, ListReadsWitnessed DEF Execute
    <3> QED
      BY <2>1, <3>1, <3>2, OneCallKeepsHistory
  <2> QED
    BY <2>1, <2>2, <2>3, <2>4 DEF Next, Invoke
<1> QED
  BY <1>1, <1>2

-----------------------------------------------------------------------------
(* How the segments map *)

\* What the other calls have been told does not change.
LEMMA OthersTold ==
  ASSUME NEW d \in Calls, Untouched(d)
  PROVE  Told(d)' = Told(d)
BY DEF Untouched, Told, Ok

\* A segment after which its call no longer reads is an act of the service, on
\* the state of the Map it leaves.
LEMMA ActMapped ==
  ASSUME IInv, HistoryInv, Recorded, NEW c \in Calls,
         \A d \in Calls \ {c} : Untouched(d),
         pc'[c] \in {"write", "answered"},
         NEW told, Told(c)' = told,
         NEW left, store' = left
  PROVE  Service!Act(c, told, left)
<1>1. [d \in Calls |-> Told(d)]' = [[d \in Calls |-> Told(d)] EXCEPT ![c] = told]
  <2>1. \A d \in Calls : Told(d)' = IF d = c THEN told ELSE Told(d)
    BY OthersTold
  <2> HIDE DEF Told
  <2> QED
    BY <2>1
<1>2. \A d \in Calls : seen[d] = {} <=> pc[d] \notin Reading
  BY DEF HistoryInv, Witnessed
<1>3. \A d \in Calls \ {c} : pc'[d] = pc[d]
  BY DEF Untouched
<1>4. pc'[c] \notin Reading
  BY DEF Reading
<1>5. seen' = [d \in Calls |-> IF d = c \/ seen[d] = {} THEN {}
                               ELSE seen[d] \cup {left}]
  BY <1>2, <1>3, <1>4 DEF Recorded
<1> QED
  BY <1>1, <1>5 DEF Service!Act

\* The first segment of a call that now reads starts to look at the todos.
LEMMA BeginMapped ==
  ASSUME IInv, HistoryInv, Recorded, NEW c \in Calls, NEW cmd \in Commands,
         Given(c, cmd), cmd.op # "create", ~ Service!Malformed(cmd),
         \A d \in Calls \ {c} : Untouched(d),
         pc'[c] \in Reading, UNCHANGED <<store, issued>>
  PROVE  Service!Begin(c, cmd)
<1>1. pc[c] = "idle" /\ command[c] = NoCommand
  BY DEF Given, HistoryInv, Witnessed
<1>2. Service!Give(c, cmd)
  BY <1>1 DEF Given, Service!Give, Service!NotGiven, NoCommand
<1>3. Told(c)' = Told(c)
  BY <1>1 DEF Told, Reading
<1>4. [d \in Calls |-> Told(d)]' = [d \in Calls |-> Told(d)]
  <2>1. \A d \in Calls : Told(d)' = Told(d)
    BY <1>3, OthersTold
  <2> QED
    BY <2>1
<1>5. seen[c] = {}
  BY <1>1 DEF HistoryInv, Witnessed, Reading
<1>6. ASSUME NEW d \in Calls \ {c} PROVE seen'[d] = seen[d]
  BY DEF Untouched, Recorded, HistoryInv, Witnessed
<1>7. seen' = [seen EXCEPT ![c] = {store}]
  <2>1. seen'[c] = {store}
    BY <1>5 DEF Recorded
  <2> QED
    BY <1>6, <2>1 DEF HistoryInv, Recorded
<1> QED
  BY <1>2, <1>4, <1>7 DEF Service!Begin

\* The first segment that refuses.
LEMMA RefuseMapped ==
  ASSUME IInv, HistoryInv, Recorded, NEW c \in Calls, NEW cmd \in Commands,
         CreateRefused(c, cmd) \/ IdRefused(c, cmd)
  PROVE  Service!Refuse(c, cmd)
<1>1. /\ \A d \in Calls \ {c} : Untouched(d)
      /\ pc'[c] \in {"write", "answered"}
  BY InvokeTouchesOne, ActsAreDone DEF Invoke, Execute
<1>2. pc[c] = "idle" /\ command[c] = NoCommand
  BY DEF CreateRefused, IdRefused, Given, HistoryInv, Witnessed
<1>3. Service!Give(c, cmd)
  BY <1>2 DEF CreateRefused, IdRefused, Given, Service!Give,
              Service!NotGiven, NoCommand
<1>4. Service!Malformed(cmd)
  BY SameDomain DEF CreateRefused, IdRefused, ByIdOps, FromStringAccepts,
     Service!Malformed, Service!BadTitle, Service!BadDescription
<1>5. Told(c)' = Service!Refused(IF cmd.op = "create"
                                 THEN "TodoValidationError" ELSE "Error")
  BY DEF CreateRefused, IdRefused, ByIdOps, Settle, Fail, Told,
         Service!Refused, IInv, TypeOK
<1>6. UNCHANGED <<store, issued>>
  BY DEF CreateRefused, IdRefused
<1> QED
  BY <1>1, <1>3, <1>4, <1>5, <1>6, ActMapped DEF Service!Refuse

LEMMA CreateMapped ==
  ASSUME IInv, HistoryInv, Recorded, NEW c \in Calls, NEW cmd \in Commands,
         CreateSaves(c, cmd)
  PROVE  Service!Create(c, cmd)
<1>1. /\ \A d \in Calls \ {c} : Untouched(d)
      /\ pc'[c] \in {"write", "answered"}
  BY InvokeTouchesOne, ActsAreDone DEF Invoke, Execute
<1>2. pc[c] = "idle" /\ command[c] = NoCommand /\ cmd.op = "create"
  BY DEF CreateSaves, Given, HistoryInv, Witnessed
<1>3. Service!Give(c, cmd)
  BY <1>2 DEF CreateSaves, Given, Service!Give, Service!NotGiven, NoCommand
<1>4. ~ Service!Malformed(cmd)
  BY SameDomain DEF CreateSaves, Service!Malformed, Service!BadTitle,
     Service!BadDescription
<1>5. PICK id \in Ids \ DOMAIN issued :
        LET todo == CreateTodo(id, cmd.title, cmd.description, clock) IN
        /\ issued' = [i \in DOMAIN issued \cup {id} |->
                        IF i = id THEN clock ELSE issued[i]]
        /\ MapSet(todo)
        /\ Suspend(c, "write", {todo})
  BY DEF CreateSaves
<1>6. PICK todo : todo = CreateTodo(id, cmd.title, cmd.description, clock)
  OBVIOUS
<1>7. todo = [id |-> id, title |-> Service!TitleValue(cmd.title),
              description |-> Service!DescriptionValue(cmd.description),
              status |-> "PENDING", createdAt |-> clock, updatedAt |-> clock]
  BY <1>6, SameDomain DEF CreateTodo
<1>8. store' = Service!Put(todo)
  BY <1>5, <1>6 DEF MapSet, Stored, Service!Put
<1>9. Told(c)' = Service!Done({todo})
  BY <1>5, <1>6 DEF Suspend, Told, Ok, Service!Done, IInv, TypeOK
<1>10. Service!Act(c, Service!Done({todo}), Service!Put(todo))
  BY <1>1, <1>8, <1>9, ActMapped
<1> QED
  BY <1>2, <1>3, <1>4, <1>5, <1>7, <1>10 DEF Service!Create

LEMMA ReadMapped ==
  ASSUME IInv, HistoryInv, Recorded, NEW c \in Calls, NEW cmd \in Commands,
         Lookup(c, cmd) \/ CheckExists(c, cmd) \/ ListReads(c, cmd)
  PROVE  Service!Begin(c, cmd)
<1>1. /\ \A d \in Calls \ {c} : Untouched(d)
      /\ pc'[c] \in Reading
  BY InvokeTouchesOne, LookupWitnessed, CheckExistsWitnessed,
     ListReadsWitnessed DEF Invoke, Execute
<1>2. /\ Given(c, cmd) /\ UNCHANGED <<store, issued>>
      /\ cmd.op # "create" /\ (cmd.op # "list" => cmd.id \in Ids)
  BY DEF Lookup, CheckExists, ListReads, FromStringAccepts
<1>3. ~ Service!Malformed(cmd)
  BY <1>2 DEF Service!Malformed
<1> QED
  BY <1>1, <1>2, <1>3, BeginMapped

\* The second segments.  Each decides on a moment the call has lived through:
\* the one it read.
LEMMA NotFoundMapped ==
  ASSUME IInv, HistoryInv, Recorded, NEW c \in Calls, NotFound(c)
  PROVE  Service!NotFound(c)
<1>1. /\ \A d \in Calls \ {c} : Untouched(d)
      /\ pc'[c] \in {"write", "answered"}
  BY ResumeTouchesOne, ActsAreDone DEF Resume
<1>2. \E moment \in seen[c] :
        command[c].op # "list" /\ command[c].id \notin DOMAIN moment
  BY DEF NotFound, HistoryInv, Witnessed, SawMissing
<1>3. Told(c)' = Service!Refused("TodoNotFoundError") /\ UNCHANGED store
  BY DEF NotFound, Settle, Fail, Told, Service!Refused, IInv, TypeOK
<1> QED
  BY <1>1, <1>2, <1>3, ActMapped DEF Service!NotFound

\* A call that resumes to act on what it found has a moment at which it was so.
LEMMA FoundMoment ==
  ASSUME HistoryInv, NEW c \in Calls, pc[c] = "found",
         command[c].op \in {"update", "complete", "get"}
  PROVE  \E moment \in Service!Found(c, command[c].op) :
           held[c] = {moment[command[c].id]}
<1>1. PICK moment \in seen[c] : SawFound(c, moment)
  BY DEF HistoryInv, Witnessed
<1> QED
  BY <1>1 DEF SawFound, Service!Found

LEMMA PatchRefusedMapped ==
  ASSUME IInv, HistoryInv, Recorded, NEW c \in Calls, PatchRefused(c)
  PROVE  Service!RefuseUpdate(c)
<1>1. /\ \A d \in Calls \ {c} : Untouched(d)
      /\ pc'[c] \in {"write", "answered"}
  BY ResumeTouchesOne, ActsAreDone DEF Resume
<1>2. /\ pc[c] = "found" /\ command[c].op = "update"
      /\ command[c] \in Command
  BY DEF PatchRefused, Resumed, IInv, CallsInStep
<1>3. Service!Found(c, "update") # {}
  BY <1>2, FoundMoment
<1>4. /\ Service!BadFields(command[c]) # {}
      /\ PatchError(command[c]) = Service!UpdateError(command[c])
  BY <1>2, PatchErrorIsUpdateError DEF PatchRefused
<1>5. /\ Told(c)' = Service!Refused(Service!UpdateError(command[c]))
      /\ UNCHANGED store
  BY <1>4 DEF PatchRefused, Settle, Fail, Told, Service!Refused, IInv, TypeOK
<1> QED
  BY <1>1, <1>3, <1>4, <1>5, ActMapped DEF Service!RefuseUpdate

LEMMA PatchWritesMapped ==
  ASSUME IInv, HistoryInv, Recorded, NEW c \in Calls, PatchWrites(c)
  PROVE  Service!Update(c)
<1>1. /\ \A d \in Calls \ {c} : Untouched(d)
      /\ pc'[c] \in {"write", "answered"}
  BY ResumeTouchesOne, ActsAreDone DEF Resume
<1>2. /\ pc[c] = "found" /\ command[c].op = "update"
      /\ command[c] \in Command /\ held[c] \subseteq Todo
  BY DEF PatchWrites, Resumed, IInv, CallsInStep, TypeOK
<1>3. PICK moment \in Service!Found(c, "update") :
        held[c] = {moment[command[c].id]}
  BY <1>2, FoundMoment
<1>4. Service!BadFields(command[c]) = {}
  BY <1>2, PatchErrorIsUpdateError DEF PatchWrites
<1>5. PICK old : old = moment[command[c].id]
  OBVIOUS
<1>6. PICK todo : todo = Patched(old, command[c], clock)
  OBVIOUS
<1>7. MapSet(todo) /\ Suspend(c, "write", {todo})
  BY <1>3, <1>5, <1>6 DEF PatchWrites
<1>8. todo = Service!Merge(old, command[c], clock)
  BY <1>2, <1>3, <1>5, <1>6, PatchedIsMerge
<1>9. store' = Service!Put(todo)
  BY <1>7 DEF MapSet, Stored, Service!Put
<1>10. Told(c)' = Service!Done({todo})
  BY <1>7 DEF Suspend, Told, Ok, Service!Done, IInv, TypeOK
<1>11. Service!Act(c, Service!Done({todo}), Service!Put(todo))
  BY <1>1, <1>9, <1>10, ActMapped
<1> QED
  BY <1>4, <1>5, <1>8, <1>11 DEF Service!Update

LEMMA CompleteWritesMapped ==
  ASSUME IInv, HistoryInv, Recorded, NEW c \in Calls, CompleteWrites(c)
  PROVE  Service!Complete(c)
<1>1. /\ \A d \in Calls \ {c} : Untouched(d)
      /\ pc'[c] \in {"write", "answered"}
  BY ResumeTouchesOne, ActsAreDone DEF Resume
<1>2. /\ pc[c] = "found" /\ command[c].op = "complete" /\ held[c] \subseteq Todo
  BY DEF CompleteWrites, Resumed, IInv, TypeOK
<1>3. PICK moment \in Service!Found(c, "complete") :
        held[c] = {moment[command[c].id]}
  BY <1>2, FoundMoment
<1>4. PICK old : old = moment[command[c].id]
  OBVIOUS
<1>5. PICK todo : todo = MarkAsCompleted(old, clock)
  OBVIOUS
<1>6. MapSet(todo) /\ Suspend(c, "write", {todo})
  BY <1>3, <1>4, <1>5 DEF CompleteWrites
<1>7. todo = [old EXCEPT !.status = "COMPLETED", !.updatedAt = clock]
  BY <1>2, <1>3, <1>4, <1>5, CompletedIsMerge
<1>8. store' = Service!Put(todo)
  BY <1>6 DEF MapSet, Stored, Service!Put
<1>9. Told(c)' = Service!Done({todo})
  BY <1>6 DEF Suspend, Told, Ok, Service!Done, IInv, TypeOK
<1>10. Service!Act(c, Service!Done({todo}), Service!Put(todo))
  BY <1>1, <1>8, <1>9, ActMapped
<1> QED
  BY <1>4, <1>7, <1>10 DEF Service!Complete

LEMMA DeleteRemovesMapped ==
  ASSUME IInv, HistoryInv, Recorded, NEW c \in Calls, DeleteRemoves(c)
  PROVE  Service!Delete(c)
<1>1. /\ \A d \in Calls \ {c} : Untouched(d)
      /\ pc'[c] \in {"write", "answered"}
  BY ResumeTouchesOne, ActsAreDone DEF Resume
<1>2. PICK moment \in seen[c] : SawFound(c, moment)
  BY DEF DeleteRemoves, Resumed, HistoryInv, Witnessed
<1>3. Service!Found(c, "delete") # {}
  BY <1>2 DEF DeleteRemoves, Resumed, SawFound, Service!Found
<1>4. store' = Service!Without(command[c].id)
  BY DEF DeleteRemoves, MapDelete, Stored, Service!Without
<1>5. Told(c)' = Service!Done({})
  BY DEF DeleteRemoves, Suspend, Told, Ok, Service!Done, IInv, TypeOK
<1> QED
  BY <1>1, <1>3, <1>4, <1>5, ActMapped DEF Service!Delete

LEMMA GetAnswersMapped ==
  ASSUME IInv, HistoryInv, Recorded, NEW c \in Calls, GetAnswers(c)
  PROVE  Service!Get(c)
<1>1. /\ \A d \in Calls \ {c} : Untouched(d)
      /\ pc'[c] \in {"write", "answered"}
  BY ResumeTouchesOne, ActsAreDone DEF Resume
<1>2. PICK moment \in Service!Found(c, "get") :
        held[c] = {moment[command[c].id]}
  BY FoundMoment DEF GetAnswers, Resumed
<1>3. Told(c)' = Service!Done(held[c]) /\ UNCHANGED store
  BY DEF GetAnswers, Settle, Ok, Told, Service!Done, IInv, TypeOK
<1> QED
  BY <1>1, <1>2, <1>3, ActMapped DEF Service!Get

LEMMA ListAnswersMapped ==
  ASSUME IInv, HistoryInv, Recorded, NEW c \in Calls, ListAnswers(c)
  PROVE  Service!List(c)
<1>1. /\ \A d \in Calls \ {c} : Untouched(d)
      /\ pc'[c] \in {"write", "answered"}
  BY ResumeTouchesOne, ActsAreDone DEF Resume
<1>2. PICK moment \in seen[c] :
        held[c] = Service!Listed(moment, command[c].status)
  BY DEF ListAnswers, Resumed, HistoryInv, Witnessed, SawFound
<1>3. Told(c)' = Service!Done(held[c]) /\ UNCHANGED store
  BY DEF ListAnswers, Settle, Ok, Told, Service!Done, IInv, TypeOK
<1> QED
  BY <1>1, <1>2, <1>3, ActMapped DEF ListAnswers, Resumed, Service!List

\* The answer of a write was fixed when the write was.
LEMMA WrittenMapped ==
  ASSUME IInv, HistoryInv, Recorded, NEW c \in Calls, Written(c)
  PROVE  UNCHANGED Service!vars
<1>1. \A d \in Calls \ {c} : Untouched(d)
  BY ResumeTouchesOne DEF Resume
<1>2. Told(c)' = Told(c)
  BY DEF Written, Settle, Ok, Told, IInv, TypeOK
<1>3. [d \in Calls |-> Told(d)]' = [d \in Calls |-> Told(d)]
  <2>1. \A d \in Calls : Told(d)' = Told(d)
    BY <1>1, <1>2, OthersTold
  <2> QED
    BY <2>1
<1>4. ASSUME NEW d \in Calls PROVE seen'[d] = seen[d]
  BY <1>1 DEF Written, Settle, Untouched, Recorded, HistoryInv, Witnessed,
     Reading, IInv, TypeOK
<1>5. seen' = seen
  BY <1>4 DEF HistoryInv, Recorded
<1> QED
  BY <1>3, <1>5 DEF Written, Service!vars

\* The wall clock is the service's time.
LEMMA TickMapped ==
  ASSUME IInv, HistoryInv, Recorded, Tick
  PROVE  Service!Pass
<1>1. clock' \in Date /\ clock' > clock
  BY MaxClockIsNat DEF Tick, IInv, TypeOK, Date
<1>2. [d \in Calls |-> Told(d)]' = [d \in Calls |-> Told(d)]
  BY DEF Tick, Told, Ok
<1>3. ASSUME NEW d \in Calls PROVE seen'[d] = seen[d]
  BY DEF Tick, Recorded, HistoryInv, Witnessed
<1>4. seen' = seen
  BY <1>3 DEF HistoryInv, Recorded
<1> QED
  BY <1>1, <1>2, <1>4 DEF Tick, Service!Pass, Service!Date, Date

-----------------------------------------------------------------------------
(* The refinement *)

LEMMA InitMapped == HistoryInit => Service!Init
BY DEF HistoryInit, Init, Service!Init, Service!NotGiven, NoCommand,
       Service!Waiting, Told

LEMMA NextMapped ==
  IInv /\ HistoryInv /\ [HistoryNext]_historyVars
    => [Service!Next]_(Service!vars)
<1> SUFFICES ASSUME IInv, HistoryInv, [HistoryNext]_historyVars
             PROVE  Service!Next \/ UNCHANGED Service!vars
  OBVIOUS
<1>1. CASE UNCHANGED historyVars
  BY <1>1 DEF historyVars, vars, Service!vars, Told, Ok
<1>2. CASE HistoryNext
  <2>1. Recorded /\ Next
    BY <1>2 DEF HistoryNext, Recorded
  <2>2. CASE Tick
    BY <2>1, <2>2, TickMapped DEF Service!Next
  <2>3. ASSUME NEW c \in Calls, NEW cmd \in Commands, Execute(c, cmd)
        PROVE  Service!Next
    BY <2>1, <2>3, RefuseMapped, CreateMapped, ReadMapped
    DEF Execute, Service!Next
  <2>4. ASSUME NEW c \in Calls, Resume(c), ~ Written(c)
        PROVE  Service!Next
    <3>1. UNCHANGED <<issued, clock, command>>
      BY <2>4, ResumeTouchesOne
    <3>2. Service!Answer(c)
      BY <2>1, <2>4, <3>1, NotFoundMapped, PatchRefusedMapped,
         PatchWritesMapped, CompleteWritesMapped, DeleteRemovesMapped,
         GetAnswersMapped, ListAnswersMapped DEF Resume, Service!Answer
    <3> QED
      BY <3>2 DEF Service!Next
  <2> QED
    BY <2>1, <2>2, <2>3, <2>4, WrittenMapped DEF Next, Invoke
<1> QED
  BY <1>1, <1>2

\* The mapping's invariants hold with the history variable in place.
THEOREM HistoryInvariance == HistorySpec => [](IInv /\ HistoryInv)
<1>1. HistoryInit => IInv /\ HistoryInv
  BY InitIInv, InitHistoryInv DEF HistoryInit
<1>2. IInv /\ HistoryInv /\ [HistoryNext]_historyVars => IInv' /\ HistoryInv'
  <2>1. [HistoryNext]_historyVars => [Next]_vars
    BY DEF HistoryNext, historyVars
  <2> QED
    BY <2>1, NextIInv, NextHistoryInv
<1> QED
  BY <1>1, <1>2, PTL DEF HistorySpec

\* The use cases, interleaved in any way across their awaits, do what the
\* service promises.
THEOREM UseCasesImplementService == HistorySpec => ServiceKept
BY InitMapped, NextMapped, HistoryInvariance, PTL
DEF HistorySpec, ServiceKept, Service!Spec
=============================================================================
