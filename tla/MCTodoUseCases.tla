---------------------------- MODULE MCTodoUseCases ----------------------------
(* Small instances of TodoUseCases: the texts, commands and ids TLC tries.  *)
EXTENDS TodoUseCases, TLC

CONSTANTS c1, c2, c3, c4, id1, id2

\* A text that says w, of n characters after trimming, in p of white space.
MCText(w, n, p) ==
  [word |-> w, length |-> n, characters |-> n, padding |-> p]

Milk   == MCText("milk", 4, 0)
Eggs   == MCText("eggs", 200, 2)
Blank  == MCText("", 0, 3)
TooLongTitle == MCText("long", 201, 0)
Essay  == MCText("essay", 1001, 0)

MCWords == {"milk", "eggs", "", "long", "essay"}

NoFields == [op |-> "list", id |-> Undefined, title |-> Undefined,
             description |-> Undefined, status |-> Undefined]

CreateCmd(title, description) ==
  [NoFields EXCEPT !.op = "create", !.title = title,
                   !.description = description]

UpdateCmd(id, title, description, status) ==
  [op |-> "update", id |-> id, title |-> title,
   description |-> description, status |-> status]

ByIdCmd(op, id) == [NoFields EXCEPT !.op = op, !.id = id]

ListCmd(status) == [NoFields EXCEPT !.status = status]

\* Every way a single field can be given, on two todos.
WideCommands ==
  {CreateCmd(t, d) : t \in {Eggs, Blank, TooLongTitle, Null},
                     d \in {Undefined, Blank, Essay}}
  \cup {UpdateCmd(id1, t, Undefined, Undefined) :
           t \in {Undefined, Milk, Blank, Null}}
  \cup {UpdateCmd(id1, Undefined, d, Undefined) : d \in {Null, Milk, Essay}}
  \cup {UpdateCmd(id1, Milk, Undefined, s) :
           s \in {"in_progress", "archived", Null}}
  \cup {ByIdCmd(op, id) : op \in ByIdOps \ {"update"},
                          id \in {id1, BlankId}}
  \cup {ListCmd(s) : s \in {Undefined, "completed", "archived"}}

\* The commands that can lose, revive or outdate one todo, and the reads that
\* may find it before or after.
RaceCommands ==
  {CreateCmd(Milk, Milk),
   UpdateCmd(id1, Eggs, Undefined, Undefined),
   UpdateCmd(id1, Undefined, Eggs, "archived"),
   UpdateCmd(id1, Undefined, Undefined, "in_progress"),
   UpdateCmd(id1, Undefined, Undefined, Undefined),
   ByIdCmd("complete", id1), ByIdCmd("delete", id1), ByIdCmd("get", id1),
   ListCmd("completed")}

\* Calls are interchangeable.
CallSymmetry == Permutations(Calls)
=============================================================================
