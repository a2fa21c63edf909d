---------------------------- MODULE MCTodoHistory ----------------------------
(* Small instances of TodoHistory, with the commands of MCTodoUseCases.     *)
EXTENDS MCTodoUseCases, TodoHistory
=============================================================================
