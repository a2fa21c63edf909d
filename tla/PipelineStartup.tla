---------------------------- MODULE PipelineStartup ----------------------------
(***************************************************************************)
(* PipelineExplorer.onModuleInit: the controllers are examined, then each    *)
(* provider in turn; every marked method is wrapped in a pipeline of the     *)
(* global, module, class and method entries, whose middlewares are taken     *)
(* from the container one await after the other.  A set-up that cannot work  *)
(* ends the start with a PipelineConfigurationError.  Once it has started,   *)
(* PipelineResolver.resolve may be asked for the pipeline of any scopes.     *)
(***************************************************************************)
EXTENDS Naturals, Sequences, SequencesExt

CONSTANTS
  Applications,  \* the applications to start
  Absent         \* an argument that is not given

VARIABLES
  app,       \* the application that starts
  phase,     \* what the explorer is doing
  provider,  \* the provider it is at
  methods,   \* the marked methods of it that are left
  pending,   \* the entries of the current method that are left
  layers,    \* the middlewares of the current method so far
  wrapped,   \* <<instance, method>> -> the middlewares around it
  made,      \* how many transient middlewares were made
  resolved   \* what PipelineResolver.resolve was asked last and gave

vars ==
  <<app, phase, provider, methods, pending, layers, wrapped, made, resolved>>

-----------------------------------------------------------------------------
(* What an application declares.                                            *)
(*                                                                         *)
(* An entry is known by its place: scope (1 global, 2 module, 3 class,       *)
(* 4 method), level of inheritance (1 the most basic), decorator (1 the      *)
(* top-most) and index in it.  A decorated thing has a lineage: for itself   *)
(* and each of its bases, in this order, the decorators from top to bottom,  *)
(* each a sequence of entries.  A provider is passed over when it is an       *)
(* alias or nothing tells its class.                                        *)

Kind == {"instance", "singleton", "transient", "request", "unregistered"}

Entry == [place : Nat \X Nat \X Nat \X Nat, kind : Kind]

\* The entries of a lineage know where in it they stand.
LineageOf(lineage, scope) ==
  /\ lineage \in Seq(Seq(Seq(Entry)))
  /\ \A i \in 1..Len(lineage) : \A d \in 1..Len(lineage[i]) :
       \A k \in 1..Len(lineage[i][d]) :
         lineage[i][d][k].place = <<scope, Len(lineage) + 1 - i, d, k>>

ClassDeclared(a, class) ==
  /\ LineageOf(a.classes[class].lineage, 3)
  /\ a.classes[class].methods \in Seq(DOMAIN a.methods[class])
  /\ \A method \in DOMAIN a.methods[class] :
       method # Absent /\ LineageOf(a.methods[class][method].lineage, 4)

ASSUME ApplicationsDeclared ==
  \A a \in Applications :
    /\ a.global \in Seq(Entry)
    /\ \A k \in 1..Len(a.global) : a.global[k].place = <<1, 1, 1, k>>
    /\ \A host \in DOMAIN a.modules :
         host # Absent /\ LineageOf(a.modules[host], 2)
    /\ \A class \in DOMAIN a.classes : class # Absent /\ ClassDeclared(a, class)
    /\ Len(a.providers) \in Nat
    /\ \A p \in 1..Len(a.providers) :
         ~ a.providers[p].passedOver =>
           /\ a.providers[p].class \in DOMAIN a.classes
           /\ a.providers[p].host \in DOMAIN a.modules

\* instance.constructor: an instance has one class.
ASSUME InstancesHaveOneClass ==
  \A a \in Applications : \A p, q \in 1..Len(a.providers) :
    /\ ~ a.providers[p].passedOver /\ ~ a.providers[q].passedOver
    /\ a.providers[p].instance = a.providers[q].instance
    => a.providers[p].class = a.providers[q].class

Marked(lineage) == \E i \in 1..Len(lineage) : lineage[i] # <<>>

\* Mutant: a decorator appends to what is there.
PrependEntriesAfter(entries, own) == own \o entries

\* One decorator: its entries go in front of those already stored.
PrependEntries(entries, own) == entries \o own

\* Decorators are applied from the bottom up.
Stored(decorators) == FoldRight(PrependEntries, decorators, <<>>)

\* The own entries of a thing and its bases, base first.
BaseFirst(lineage) ==
  FlattenSeq([i \in 1..Len(lineage) |-> Stored(lineage[Len(lineage) + 1 - i])])

Class(p) == app.providers[p].class

Instance(p) == app.providers[p].instance

IsClassMarked(class) == Marked(app.classes[class].lineage)

\* The methods of a class that pass the filter, in their order.
MarkedMethods(class) ==
  LET names == app.classes[class].methods IN
  FlattenSeq([i \in 1..Len(names) |->
                IF Marked(app.methods[class][names[i]].lineage)
                THEN <<names[i]>> ELSE <<>>])

\* PipelineResolver.entries: an argument that is not given leaves out its
\* scope, and a method without a class says nothing.
Entries(host, class, method) ==
  app.global
  \o (IF host = Absent THEN <<>> ELSE BaseFirst(app.modules[host]))
  \o (IF class = Absent THEN <<>> ELSE BaseFirst(app.classes[class].lineage))
  \o (IF Absent \in {class, method} THEN <<>>
      ELSE BaseFirst(app.methods[class][method].lineage))

-----------------------------------------------------------------------------
(* PipelineExplorer *)

Reject ==
  /\ phase' = "failed"
  /\ UNCHANGED <<app, provider, methods, pending, layers, wrapped, made, resolved>>

\* rejectMarkedController: the first marked controller ends the start.
ExamineControllers ==
  /\ phase = "controllers"
  /\ IF \E i \in 1..Len(app.controllers) :
          \/ IsClassMarked(app.controllers[i])
          \/ MarkedMethods(app.controllers[i]) # <<>>
     THEN Reject
     ELSE /\ phase' = "providers"
          /\ UNCHANGED <<app, provider, methods, pending, layers, wrapped, made, resolved>>

Skip ==
  /\ provider' = provider + 1
  /\ UNCHANGED <<app, phase, methods, pending, layers, wrapped, made, resolved>>

\* Mutant: a class-level mark without marked methods goes unnoticed.
ExamineProviderLenient ==
  /\ phase = "providers"
  /\ provider <= Len(app.providers)
  /\ IF app.providers[provider].passedOver THEN Skip
     ELSE IF MarkedMethods(Class(provider)) = <<>> THEN Skip
     ELSE IF app.providers[provider].scope # "singleton" THEN Reject
     ELSE /\ phase' = "methods"
          /\ methods' = MarkedMethods(Class(provider))
          /\ UNCHANGED <<app, provider, pending, layers, wrapped, made, resolved>>

\* wrapProvider up to its loop.
ExamineProvider ==
  /\ phase = "providers"
  /\ provider <= Len(app.providers)
  /\ IF app.providers[provider].passedOver THEN Skip
     ELSE IF MarkedMethods(Class(provider)) = <<>>
     THEN IF IsClassMarked(Class(provider)) THEN Reject ELSE Skip
     ELSE IF app.providers[provider].scope # "singleton" THEN Reject
     ELSE /\ phase' = "methods"
          /\ methods' = MarkedMethods(Class(provider))
          /\ UNCHANGED <<app, provider, pending, layers, wrapped, made, resolved>>

NextProvider ==
  /\ phase = "methods"
  /\ methods = <<>>
  /\ phase' = "providers"
  /\ provider' = provider + 1
  /\ UNCHANGED <<app, methods, pending, layers, wrapped, made, resolved>>

Method == Head(methods)

\* original[WRAPPED]
IsWrapped(method) == <<Instance(provider), method>> \in DOMAIN wrapped

\* wrapMethod up to its loop.
ExamineMethod ==
  /\ phase = "methods"
  /\ methods # <<>>
  /\ IF IsWrapped(Method)
     THEN /\ methods' = Tail(methods)
          /\ UNCHANGED <<app, phase, provider, pending, layers, wrapped, made, resolved>>
     ELSE IF app.methods[Class(provider)][Method].transport THEN Reject
     ELSE /\ phase' = "wrapping"
          /\ pending' = Entries(app.providers[provider].host,
                                Class(provider), Method)
          /\ layers' = <<>>
          /\ UNCHANGED <<app, provider, methods, wrapped, made, resolved>>

\* Mutant: a transient middleware is made once.
CopyShared(kind) == IF kind = "transient" THEN 1 ELSE 0

\* Which object stands for an entry: a new one for a transient middleware,
\* else the only one there is.
Copy(kind) == IF kind = "transient" THEN made + 1 ELSE 0

\* instantiate, for the next entry.
InstantiateEntry ==
  /\ phase = "wrapping"
  /\ pending # <<>>
  /\ LET entry == Head(pending) IN
     IF entry.kind \in {"unregistered", "request"} THEN Reject
     ELSE /\ layers' = Append(layers, [place |-> entry.place,
                                       copy |-> Copy(entry.kind)])
          /\ made' = IF entry.kind = "transient" THEN made + 1 ELSE made
          /\ pending' = Tail(pending)
          /\ UNCHANGED <<app, phase, provider, methods, wrapped, resolved>>

\* The wrapped method takes the place of the method on the instance.
Wrap ==
  /\ phase = "wrapping"
  /\ pending = <<>>
  /\ LET key == <<Instance(provider), Method>> IN
     wrapped' = [k \in DOMAIN wrapped \cup {key} |->
                   IF k = key THEN layers ELSE wrapped[k]]
  /\ methods' = Tail(methods)
  /\ phase' = "methods"
  /\ UNCHANGED <<app, provider, pending, layers, made, resolved>>

Finish ==
  /\ phase = "providers"
  /\ provider > Len(app.providers)
  /\ phase' = "started"
  /\ UNCHANGED <<app, provider, methods, pending, layers, wrapped, made, resolved>>

-----------------------------------------------------------------------------
(* PipelineResolver.resolve *)

NotResolved == [outcome |-> "not asked"]

\* Mutant: the container hands out a transient middleware like any other.
GettableUnscoped(kind) == kind \in {"instance", "singleton", "transient"}

\* Instances stand for themselves; moduleRef.get gives the singletons that are
\* registered and throws for every other class.
Gettable(kind) == kind \in {"instance", "singleton"}

\* resolve maps the entries of the scopes it is given and throws if one of them
\* cannot be had; it changes nothing.
Resolve(host, class, method) ==
  /\ phase = "started"
  /\ LET entries == Entries(host, class, method)
         got == \A i \in 1..Len(entries) : Gettable(entries[i].kind)
     IN  resolved' = [outcome |-> IF got THEN "resolved" ELSE "thrown",
                      asked |-> <<host, class, method>>,
                      layers |-> IF got
                                 THEN [i \in 1..Len(entries) |->
                                         [place |-> entries[i].place, copy |-> 0]]
                                 ELSE <<>>]
  /\ UNCHANGED <<app, phase, provider, methods, pending, layers, wrapped, made>>

Classes == DOMAIN app.classes

MethodsOf(class) ==
  {app.classes[class].methods[i] : i \in 1..Len(app.classes[class].methods)}

\* Anyone who has the application may ask, with any scopes, as often as they
\* like.
ResolveAny ==
  \E host \in DOMAIN app.modules \cup {Absent} :
    \/ Resolve(host, Absent, Absent)
    \/ \E class \in Classes : \E method \in MethodsOf(class) \cup {Absent} :
         Resolve(host, class, method)

-----------------------------------------------------------------------------

Init ==
  /\ app \in Applications
  /\ phase = "controllers"
  /\ provider = 1
  /\ methods = <<>>
  /\ pending = <<>>
  /\ layers = <<>>
  /\ wrapped = [k \in {} |-> <<>>]
  /\ made = 0
  /\ resolved = NotResolved

\* onModuleInit
Start ==
  \/ ExamineControllers
  \/ ExamineProvider
  \/ NextProvider
  \/ ExamineMethod
  \/ InstantiateEntry
  \/ Wrap
  \/ Finish

Next == Start \/ ResolveAny

Spec == Init /\ [][Next]_vars

-----------------------------------------------------------------------------
(* Properties *)

Examined == {p \in 1..Len(app.providers) : ~ app.providers[p].passedOver}

\* The marked methods of every instance, by the first provider that has it:
\* where an instance stands under two tokens, it is that one's host that counts.
ToWrap ==
  UNION {{<<p, MarkedMethods(Class(p))[i]>> : i \in 1..Len(MarkedMethods(Class(p)))}
           : p \in {p \in Examined :
                      \A q \in Examined : Instance(q) = Instance(p) => p <= q}}

\* Every entry in the lineage of something.
Declared(lineage) ==
  UNION {UNION {{lineage[i][d][k] : k \in 1..Len(lineage[i][d])}
                  : d \in 1..Len(lineage[i])} : i \in 1..Len(lineage)}

DeclaredFor(p, method) ==
  {app.global[i] : i \in 1..Len(app.global)}
  \cup Declared(app.modules[app.providers[p].host])
  \cup Declared(app.classes[Class(p)].lineage)
  \cup Declared(app.methods[Class(p)][method].lineage)

\* Reading order: the first component in which two places differ decides.
Before(a, b) ==
  \E i \in 1..Len(a) : a[i] < b[i] /\ \A j \in 1 .. i - 1 : a[j] = b[j]

\* Once the application has started, exactly the marked methods are wrapped,
\* each once, in all the entries declared for it, in reading order: global,
\* module, class, method, and within each scope base class first and top-most
\* decorator first.
WrappedAsDeclared ==
  phase = "started" =>
    /\ DOMAIN wrapped = {<<Instance(pm[1]), pm[2]>> : pm \in ToWrap}
    /\ \A pm \in ToWrap :
         LET around == wrapped[<<Instance(pm[1]), pm[2]>>] IN
         /\ {around[i].place : i \in 1..Len(around)}
              = {entry.place : entry \in DeclaredFor(pm[1], pm[2])}
         /\ \A i, j \in 1..Len(around) :
              i < j => Before(around[i].place, around[j].place)

\* No transient middleware serves two methods.
TransientsApart ==
  \A k, l \in DOMAIN wrapped :
    \A i \in 1..Len(wrapped[k]) : \A j \in 1..Len(wrapped[l]) :
      wrapped[k][i].copy # 0 /\ wrapped[k][i].copy = wrapped[l][j].copy =>
        k = l /\ i = j

\* The pipeline resolve gives for a wrapped method is the one the explorer put
\* around it, the same objects in the same order, so that a use case made by
\* hand runs as the application's own; unless a transient middleware is
\* declared for it: then there is none.
ResolvedAsWrapped ==
  \A pm \in ToWrap :
    /\ resolved.outcome # "not asked"
    /\ resolved.asked = <<app.providers[pm[1]].host, Class(pm[1]), pm[2]>>
    =>  IF \E entry \in DeclaredFor(pm[1], pm[2]) : entry.kind = "transient"
        THEN resolved.outcome = "thrown"
        ELSE /\ resolved.outcome = "resolved"
             /\ resolved.layers = wrapped[<<Instance(pm[1]), pm[2]>>]

\* A set-up the explorer must not let start.
Misconfigured ==
  \/ \E i \in 1..Len(app.controllers) :
       LET class == app.controllers[i] IN
       IsClassMarked(class) \/ MarkedMethods(class) # <<>>
  \/ \E p \in Examined :
       LET class == Class(p) IN
       \/ IsClassMarked(class) /\ MarkedMethods(class) = <<>>
       \/ MarkedMethods(class) # <<>> /\ app.providers[p].scope # "singleton"
  \/ \E pm \in ToWrap :
       \/ app.methods[Class(pm[1])][pm[2]].transport
       \/ \E entry \in DeclaredFor(pm[1], pm[2]) :
            entry.kind \in {"unregistered", "request"}

\* The start ends with an error exactly when the set-up cannot work, wherever
\* in it the mistake is.
StartJudged ==
  /\ phase = "started" => ~ Misconfigured
  /\ phase = "failed" => Misconfigured
=============================================================================
