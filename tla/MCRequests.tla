------------------------------ MODULE MCRequests ------------------------------
(* Small instances of Requests: the requests clients of both entry points send. *)
EXTENDS Requests, TLC

CONSTANTS c1, c2, id1, id2

\* A text that says w, of n characters after trimming, in p of white space.
MCText(w, n, p) ==
  [word |-> w, length |-> n, characters |-> n, padding |-> p]

\* The same with n surrogate pairs for its characters.
Emoji(w, n, p) == [MCText(w, n, p) EXCEPT !.length = 2 * n]

Milk   == MCText("milk", 4, 0)
Longest == MCText("longest", 200, 0)   \* the longest title
TooLong == MCText("too long", 201, 0)
Padded == MCText("padded", 199, 2)     \* fits once it is trimmed
Blank  == MCText("", 0, 3)
Empty  == MCText("", 0, 0)
Essay  == MCText("essay", 1001, 0)
Party  == Emoji("party", 150, 0)       \* a title for the pipe, not for the domain
Diary  == Emoji("diary", 600, 0)       \* a description of the same kind

MCWords == {"milk", "longest", "too long", "padded", "", "essay", "party",
            "diary"}

Plain == [entry |-> "REST", op |-> "list", id |-> Undefined,
          title |-> Undefined, description |-> Undefined,
          status |-> Undefined, body |-> "plain"]

Create(entry, title, description) ==
  [Plain EXCEPT !.entry = entry, !.op = "create", !.title = title,
                !.description = description]

Update(entry, title, description, status) ==
  [Plain EXCEPT !.entry = entry, !.op = "update", !.id = id1,
                !.title = title, !.description = description,
                !.status = status]

ById(entry, op, id) == [Plain EXCEPT !.entry = entry, !.op = op, !.id = id]

FromEither(entry) ==
  {Create(entry, t, Undefined) :
     t \in {Longest, TooLong, Padded, Blank, Empty, Party}}
  \cup {Create(entry, Milk, d) : d \in {Null, Padded, Essay, Diary}}
  \cup {Update(entry, Milk, Padded, "COMPLETED")}
  \cup {Update(entry, t, Undefined, Undefined) :
          t \in {Undefined, Null, TooLong, Blank, Empty, Party}}
  \cup {Update(entry, Undefined, d, Undefined) : d \in {Null, Essay}}
  \cup {Update(entry, Undefined, Undefined, s) : s \in {Null, "completed"}}
  \cup {ById(entry, op, id) : op \in {"get", "delete"}, id \in {id1, BlankId}}
  \cup {[Plain EXCEPT !.entry = entry, !.status = s] :
          s \in {Undefined, "pending", "archived"}}
  \cup {[Create(entry, Milk, Undefined) EXCEPT !.body = b] :
          b \in {"malformed", "oversized"}}

\* A REST body can leave the title out or give null, and have a property the DTO
\* does not know; the GraphQL schema has a create's title a String! and knows
\* every field.
MCIncoming ==
  FromEither("REST") \cup FromEither("GRAPHQL")
  \cup {Create("REST", t, Undefined) : t \in {Undefined, Null}}
  \cup {[Create("REST", Milk, Undefined) EXCEPT !.body = "extra"],
        [Update("REST", Milk, Undefined, Undefined) EXCEPT !.body = "extra"]}

MCCommands == {ToCommand(req) : req \in MCIncoming}
=============================================================================
