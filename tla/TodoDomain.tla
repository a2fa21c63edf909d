------------------------------ MODULE TodoDomain ------------------------------
(***************************************************************************)
(* The domain layer (src/domain): the value objects TodoTitle,             *)
(* TodoDescription and TodoId, the immutable entity Todo, and the mapping   *)
(* the repository applies between an entity and a row of its Map.           *)
(*                                                                         *)
(* A text is abstracted to the word it spells, its length once trim() has  *)
(* taken the white space around it, and how much of that there is: that is *)
(* all the value objects look at.  Their length counts UTF-16 units; how   *)
(* many characters these make is for the DTOs, which count them.  A        *)
(* constructor that may throw is a pair: a predicate ...Accepts (it        *)
(* returns) and an operator ...Value (what it returns).                    *)
(***************************************************************************)
EXTENDS Naturals

CONSTANTS
  Words,      \* what a text can say
  Ids,        \* the non-blank strings a todo's id can be
  BlankId,    \* an empty or white-space id
  Undefined,  \* JavaScript's undefined: the field is not given
  Null        \* JavaScript's null

\* A surrogate pair is two units of length and one character.
Text == [word : Words, length : Nat, characters : Nat, padding : Nat]

Trim(text) == [text EXCEPT !.padding = 0]

TodoStatus == {"PENDING", "IN_PROGRESS", "COMPLETED"}

\* The spelling-insensitive part of a status string.  "archived" and
\* "ARCHIVED" stand for every word that is no status.
UpperCase(status) ==
  CASE status = "pending"     -> "PENDING"
    [] status = "in_progress" -> "IN_PROGRESS"
    [] status = "completed"   -> "COMPLETED"
    [] status = "archived"    -> "ARCHIVED"
    [] OTHER                  -> status

RawStatus == TodoStatus \cup
             {"pending", "in_progress", "completed", "archived", "ARCHIVED"}

-----------------------------------------------------------------------------
(* TodoTitle *)

MaxTitleLength == 200

\* Mutant: the length is checked before the text is trimmed.
TitleAcceptsUntrimmed(raw) ==
  /\ raw \notin {Undefined, Null}
  /\ raw.length + raw.padding \in 1..MaxTitleLength

TitleAccepts(raw) ==
  /\ raw \notin {Undefined, Null}
  /\ Trim(raw).length \in 1..MaxTitleLength

\* Mutant: the title is stored as it was typed.
TitleValueUntrimmed(raw) == raw

TitleValue(raw) == Trim(raw)

TitleOK(title) ==
  /\ title \in Text
  /\ title.length \in 1..MaxTitleLength
  /\ title.padding = 0

-----------------------------------------------------------------------------
(* TodoDescription *)

MaxDescriptionLength == 1000

DescriptionAccepts(raw) ==
  raw \notin {Undefined, Null} => Trim(raw).length <= MaxDescriptionLength

\* Mutant: a description that is not given stays undefined.
DescriptionValueKeepingUndefined(raw) ==
  IF raw \in {Undefined, Null} THEN raw
  ELSE IF Trim(raw).length = 0 THEN Null ELSE Trim(raw)

DescriptionValue(raw) ==
  IF raw \in {Undefined, Null} \/ Trim(raw).length = 0 THEN Null ELSE Trim(raw)

DescriptionOK(description) ==
  \/ description = Null
  \/ /\ description \in Text
     /\ description.length \in 1..MaxDescriptionLength
     /\ description.padding = 0

-----------------------------------------------------------------------------
(* TodoId and the status enumeration *)

\* TodoId.fromString throws on an empty, blank or missing id and trims nothing.
FromStringAccepts(id) == id \in Ids

\* parseStatus: null has no toUpperCase (a TypeError), any other word is
\* looked up in the enumeration.
StatusAccepts(raw) == raw # Null /\ UpperCase(raw) \in TodoStatus

-----------------------------------------------------------------------------
(* Todo: every operation returns a new entity *)

\* A Date, in ticks of the wall clock.
Date == Nat

Todo == [id : Ids, title : Text, description : Text \cup {Null},
         status : TodoStatus, createdAt : Date, updatedAt : Date]

CreateTodo(id, title, description, now) ==
  [id |-> id, title |-> TitleValue(title),
   description |-> DescriptionValue(description),
   status |-> "PENDING", createdAt |-> now, updatedAt |-> now]

\* Mutant: the entity is built anew, with a creation time of its own.
UpdateTitleAnew(todo, title, now) ==
  [todo EXCEPT !.title = TitleValue(title), !.createdAt = now,
               !.updatedAt = now]

UpdateTitle(todo, title, now) ==
  [todo EXCEPT !.title = TitleValue(title), !.updatedAt = now]

UpdateDescription(todo, description, now) ==
  [todo EXCEPT !.description = DescriptionValue(description),
               !.updatedAt = now]

UpdateStatus(todo, status, now) ==
  [todo EXCEPT !.status = UpperCase(status), !.updatedAt = now]

\* Mutant: completing forgets the time of the change.
MarkAsCompletedSilently(todo, now) == [todo EXCEPT !.status = "COMPLETED"]

MarkAsCompleted(todo, now) == UpdateStatus(todo, "COMPLETED", now)

-----------------------------------------------------------------------------
(* The row of a todo.  toEntity unwraps the value objects, so a row has the *)
(* fields of the entity; toDomain runs their checks again on every read.    *)

ToDomainAccepts(row) ==
  /\ FromStringAccepts(row.id)
  /\ TitleAccepts(row.title)
  /\ DescriptionAccepts(row.description)

ToDomain(row) ==
  [row EXCEPT !.title = TitleValue(row.title),
              !.description = DescriptionValue(row.description)]

\* What the value objects promise of every Todo that exists.
WellFormed(todo) ==
  /\ todo \in Todo
  /\ TitleOK(todo.title)
  /\ DescriptionOK(todo.description)
  /\ todo.createdAt <= todo.updatedAt

-----------------------------------------------------------------------------
\* undefined and null are values of their own.
ASSUME AbsentValues ==
  /\ Undefined # Null
  /\ {Undefined, Null} \cap Text = {}
  /\ {Undefined, Null} \cap RawStatus = {}
  /\ Null \notin Todo
  /\ {BlankId, Undefined} \cap Ids = {}
=============================================================================
