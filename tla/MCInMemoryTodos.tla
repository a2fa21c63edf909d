---------------------------- MODULE MCInMemoryTodos ----------------------------
(* Small instances of InMemoryTodos, with the commands of MCTodoUseCases.   *)
EXTENDS MCTodoUseCases, InMemoryTodos
=============================================================================
