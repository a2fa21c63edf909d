--------------------------- MODULE MCPipelineStartup ---------------------------
(* Applications for PipelineStartup: every kind of middleware in every scope,
   and every arrangement of up to two providers and of some controllers. *)
EXTENDS PipelineStartup

E(place, kind) == [place |-> place, kind |-> kind]

Unmarked == << <<>> >>

\* @UsePipeline() on the method of the base class only.
MarkedInBase == << <<>>, << <<>> >> >>

\* Two decorators on the thing itself, the upper one with two entries, and one
\* on its base.
Rich(scope, kind) ==
  << << << E(<<scope, 2, 1, 1>>, kind), E(<<scope, 2, 1, 2>>, "transient") >>,
        << E(<<scope, 2, 2, 1>>, "singleton") >> >>,
     << << E(<<scope, 1, 1, 1>>, "instance") >> >> >>

Provider(class, instance, scope, host) ==
  [class |-> class, instance |-> instance, scope |-> scope,
   passedOver |-> FALSE, host |-> host]

CreateTodo == Provider("CreateTodo", "create", "singleton", "Todos")

Providers ==
  {CreateTodo,
   [CreateTodo EXCEPT !.passedOver = TRUE],
   [CreateTodo EXCEPT !.host = "Core"],
   [CreateTodo EXCEPT !.instance = "create too"],
   [CreateTodo EXCEPT !.scope = "request"],
   Provider("Repository", "repository", "singleton", "Core"),
   Provider("Audited", "audited", "singleton", "Todos"),
   Provider("Resolver", "resolver", "singleton", "Core")}

\* Kinds for the global, module, class and method entries.
App(kinds, providers, controllers) ==
  [global |-> << E(<<1, 1, 1, 1>>, kinds[1]), E(<<1, 1, 1, 2>>, "singleton") >>,
   modules |-> [Core |-> Unmarked, Todos |-> Rich(2, kinds[2])],
   classes |->
     [CreateTodo |-> [lineage |-> Rich(3, kinds[3]),
                      methods |-> <<"execute", "describe", "undo">>],
      Repository |-> [lineage |-> Unmarked, methods |-> <<"save">>],
      Audited |-> [lineage |-> MarkedInBase, methods |-> <<"record">>],
      Resolver |-> [lineage |-> Unmarked, methods |-> <<"todos">>]],
   methods |->
     [CreateTodo |->
        [execute |-> [lineage |-> Rich(4, kinds[4]), transport |-> FALSE],
         describe |-> [lineage |-> Unmarked, transport |-> FALSE],
         undo |-> [lineage |-> MarkedInBase, transport |-> FALSE]],
      Repository |-> [save |-> [lineage |-> Unmarked, transport |-> FALSE]],
      Audited |-> [record |-> [lineage |-> Unmarked, transport |-> FALSE]],
      Resolver |-> [todos |-> [lineage |-> Rich(4, "instance"), transport |-> TRUE]]],
   providers |-> providers,
   controllers |-> controllers]

AllInstances == [scope \in 1..4 |-> "instance"]

MCApplications ==
  {App(kinds, <<CreateTodo>>, <<>>) : kinds \in [1..4 -> Kind]}
  \cup {App(AllInstances, providers, controllers) :
          providers \in {<<p, q>> : p, q \in Providers},
          controllers \in {<<"Repository">>, <<"Repository", "Audited">>,
                           <<"Resolver">>}}
=============================================================================
