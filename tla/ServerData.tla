------------------------------ MODULE ServerData ------------------------------
(***************************************************************************)
(* What every web route of the server shares (Server/include/Network.h,    *)
(* Database.h, Shared/include/Query.h): the fields of a request body, the  *)
(* permission levels and the test every handler makes of them, the HTTP    *)
(* codes, how a handler ends, and how SQLite numbers rows.                 *)
(*                                                                         *)
(* The server is one thread and a handler runs to its end before the next  *)
(* request is looked at, so a handler is one step.  It is not one          *)
(* transaction: every statement commits on its own, so a handler that      *)
(* stops early leaves the statements before that point in the tables.      *)
(***************************************************************************)
EXTENDS Integers, FiniteSets

CONSTANTS
  Absent,      \* a body field whose name does not occur in the body
  Empty,       \* a body field with a name and no text ("name=")
  NoSession,   \* the caller of a request without a live session
  NoReply      \* the connection dropped before any answer

VARIABLES
  up,          \* the server process is running
  reply        \* status code of the last request, or NoReply

(* HTTPCodes *)
OK            == 200
BADREQUEST    == 400
UNAUTHORISED  == 401
FORBIDDEN     == 403
NOTFOUND      == 404
CONFLICT      == 409
INTERNALERROR == 500
HTTPCodes == {OK, BADREQUEST, UNAUTHORISED, FORBIDDEN, NOTFOUND, CONFLICT,
              INTERNALERROR}

(* authLevel: lower bounds, a user may hold any larger number. *)
client    == 0
employee  == 1
manager   == 2
superuser == 3

ASSUME MarkerAssumption ==
  /\ Absent # Empty
  /\ {Absent, Empty} \cap Nat = {}
  /\ NoReply \notin HTTPCodes
  /\ NoSession \notin [level : Int, user : Nat]

-----------------------------------------------------------------------------
(* Body fields.  A field without text counts as missing. *)
hasElement(f) == f \notin {Absent, Empty}

containsAll(fs) == \A f \in fs : hasElement(f)

(* getElement is unordered_map::at: it throws for a name that is not there, *)
(* nothing catches the exception, and the process ends.                     *)
getElementThrows(f) == f = Absent

-----------------------------------------------------------------------------
(* The session a request comes with, as authenticator sees it: NoSession or *)
(* the level and the user recorded when the session was made.  A user's     *)
(* number is compared once as text and once as a number; it is the same for *)
(* a number written the usual way.                                          *)
Sessions == [level : Int, user : Nat]

verify(c, checkLevel) == c # NoSession /\ c.level >= checkLevel

isSessionUser(c, UID) == c # NoSession /\ c.user = UID

isSessionUserFromID(c, userID) == c # NoSession /\ c.user = userID

-----------------------------------------------------------------------------
(* How a handler ends. *)
Answer(code) == up' = up /\ reply' = code

Die == up' = FALSE /\ reply' = NoReply

(* A statement that does not complete: SQLite reports an error and the      *)
(* handler answers 500, or the process is stopped before the statement.     *)
Broken == Answer(INTERNALERROR) \/ Die

-----------------------------------------------------------------------------
(* A table whose rows can be deleted is a function from ID to row.  ID is   *)
(* INTEGER PRIMARY KEY without AUTOINCREMENT: a new row gets one more than  *)
(* the largest ID present, so the ID of a deleted last row is given again.  *)
IsNextRowId(t, n) ==
  /\ \A id \in DOMAIN t : id < n
  /\ n = 1 \/ n - 1 \in DOMAIN t

NextRowId(t) == CHOOSE n \in {1} \cup {id + 1 : id \in DOMAIN t} : IsNextRowId(t, n)

insertRow(t, row) ==
  [id \in DOMAIN t \cup {NextRowId(t)} |->
     IF id = NextRowId(t) THEN row ELSE t[id]]

deleteRow(t, gone) == [id \in DOMAIN t \ {gone} |-> t[id]]

(* generateUpdateStatement is empty when none of the fields it looks for    *)
(* has a text; no statement is then run.                                    *)
nothingToUpdate(fs) == \A f \in fs : ~hasElement(f)

(* generateUpdateStatement puts the new text of a column between double     *)
(* quotes, and SQLite takes such a text for a column when one has that      *)
(* name.  columns holds the texts for which that happens.                   *)
sqlValue(columns, row, text) ==
  IF text \in DOMAIN columns THEN row[columns[text]] ELSE text
=============================================================================
