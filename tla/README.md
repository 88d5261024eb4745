# A model of the garage server

TLA+ modules that model the two processes of this repository, the server
(`src/Server`) and the translator (`src/Translator`), with the formats they
share (`src/Shared`); the TLC configurations that check them on small instances;
and TLAPS proofs about the service book, accounts and sessions, vehicles, the
inventory, the forwarding of requests, and the loops that read requests and
conditions. `PROJECT.json` lists the runs, the
mutants, the correspondence of definitions with source lines, the findings and
the hazards.

## The system

Two processes. The **server** (`src/Server`) owns a SQLite database and answers
HTTP requests on port 9001. The **translator** (`src/Translator`) serves web
pages on port 9002, forwards each request to the server with libcurl and fills a
page template from the answer. `src/Shared` holds the two formats both use.

| Component | Source | State | Operations | What makes it correct |
|---|---|---|---|---|
| Service book | `WebRoutes/Services.h` | six tables | request, authorise, update, close, add and remove parts; search, select | a service moves forward only, is never lost silently, is authorised once; quantities stay positive |
| Accounts and sessions | `Network.h` (`authenticator`), `Auth.h`, `User.h` | `USERS`, the map of sessions, the browsers' cookies | log in, register, log out, check, add, change, delete, show | names are unique, sessions do not pile up, accounts change only under a session of their level |
| Vehicles | `Vehicle.h` | `VEHICLES`, `VEHICLESHAREDDATA` | add, change, delete, select | plates unique, owner and model fixed |
| Inventory | `Parts.h` | `SUPPLIERS`, `PARTGROUPS`, `PARTS` | add, change, search, select | names identify rows, parts stay listed |
| Database wrapper | `Database.h`, `Database.cpp`, `sqlcrt.txt` | the connection | query, build update statements | how a statement that fails is reported |
| Request fields | `Shared/include/Query.h`, `cookieManager` | none | parse, look up | a handler sees the fields and cookies that were sent |
| Response format | `Shared/include/Response.h` | a tree of values | `add`, `toData`, `fromData` | the two are inverse, and where a comma breaks that the damage is confined |
| Routing, bodies | `Network.cpp`, `HttpCallWrapper` | a buffer per request | collect a body, call the handler | the handler runs once, with the whole body, for its own caller |
| Start-up, console | `Server/src/Source.cpp` | | load a database, add the administrator | |
| Translator: templates | `Translator/src/Source.cpp` (`translation...`) | parsed pages | parse, fill in | a page is taken apart as it was written and never ends the translator when it fits the response |
| Translator: forwarding | `Translator/src/Source.cpp` (`forwardingWrapper`), `Curl.h` | a buffer and a curl object per request | collect a body, call the server, show the answer | the page tells the handler's answer; nobody waits for ever |

**Interaction.** Handlers share the database and the sessions and nothing else.
The server is one thread and a handler runs to its end before the next request
is looked at, so a handler is one step of the model: there is no interleaving
*inside* one. What is hard is between handlers and inside one that stops early:

* every SQL statement commits on its own, so a handler whose second statement
  fails leaves the first in the tables;
* exceptions from `unordered_map::at` and `optional::value`, and reads of row 0
  of an empty answer, end the process with all sessions in it;
* answers get lost and browsers keep cookies that the server forgot;
* IDs of deleted last rows are given again, foreign keys are not enforced, and
  two numberings of services exist side by side;
* numbers arrive as texts that are read by `std::from_chars` in one place and by
  SQLite in another;
* bodies come in pieces, to the translator and again to the server, and the
  callback that gets the last piece still uses the request object of the first;
* the translator blocks in `curl_easy_perform` and drops its result.

`PROJECT.json` lists these hazards at their lines, with the properties that
would catch each going wrong.

## Modules

| Module | Models | Remarks |
|---|---|---|
| `ServerData` | fields, levels, HTTP codes, how a handler ends, row numbers, update statements | extended by the four components |
| `Services` | the handlers of `Services.h` that change tables | |
| `ServiceLifecycle` | what the book promises for one service | abstract specification of `Services` |
| `Accounts` | `authenticator`, `Auth.h`, `User.h` | |
| `Vehicles` | `Vehicle.h` | |
| `Inventory` | `Parts.h` | |
| `Garage` | one server: `Accounts`, `Vehicles` and `Services` over one database, and the handlers that show services | composes the three with `INSTANCE` |
| `Forwarding` | both processes between a browser and a handler: body collection, the blocking call, crash and restart of the server | with fairness |
| `Positions` | searching a text | extended by the five below |
| `Elements` | the values of a response (`responseWrapper`) and looking one up | |
| `RequestFields` | a browser that sends a form or cookies, `parseURLValues` and `getCookies` | a turn of a loop is a step |
| `Conditions` | `translationCondition`: `parse` and `check` | a turn of a loop is a step |
| `ResponseFormat` | `Response.h`: writing and reading | pure, recursive |
| `Htmt` | the pages: parsing and filling in | pure, recursive; extends the three above |
| `MC...` | values for TLC; `MCPages` is the one for the last six | |
| `ServerDataProofs`, `ServicesProofs`, `AccountsProofs`, `VehiclesProofs`, `InventoryProofs`, `ForwardingProofs` | theorems about the module they are named for | `ServicesProofs` also proves the refinement |
| `GarageProofs` | theorems about `Garage` | instantiates the proofs of the three components it composes |
| `ReadingProofs` | theorems about `RequestFields` and `Conditions` | loop invariants |

**Conventions.** An action has the name of its handler. Its parameters are the
caller's session (or, in `Accounts`, the browser), the body as a record with one
component per field, and `fault`, the number of the SQL statement, counted from
1, that does not complete in this call (0: all do). A statement that does not
complete is either an SQLite error, which the handler answers with 500, or the
end of the process at that point (`Broken`). After that `up` is FALSE and only
`Restart` is possible. `reply` is the status of the last answer.

A body field is a value, `Empty` ("name=") or `Absent`; `hasElement`,
`containsAll` and `getElementThrows` tell them apart as `Query.h` does. An ID is
the number the text stands for or some other text. A quantity carries both
readings of its text, `chars` (what `from_chars` takes) and `sql` (what SQLite
takes); a permission likewise. A password is a word or its bitwise complement,
which is all `hash` does. `generateUpdateStatement` writes texts between double
quotes, and SQLite reads such a text as a column when one has that name:
`ColumnOf` says which texts do. In `Inventory` any column may be named, also one
that only the other table has (a text "PRICE" is a column of a part and a plain
text for a supplier) and `ID`; `Vehicles` and `Services` leave out `ID`,
`Accounts` also `PERMISSIONS`.

**Services.** `shared` and `active` are sequences because their rows are never
deleted, so the ID is the place. `unauthorised`, `open` and `closed` are the
`SERVICE` columns of the three lists, all UNIQUE. `parts` is a function from ID
to row. `told` is history: the services some caller was told are authorised, and
those whose handler stopped half-way. The owner that `createRequest` reads is an
input (`OwnerAnswers`); `Vehicles` models the table it comes from, and `Garage`
reads it there.

**Accounts.** `cookie` is what each browser sends. `Deliveries` says whether
answers may get lost on the way: the runs that check `NoOrphanSessions` and
`SessionsKept` have all answers arrive, which both need, and `ProtectionCorrect`
covers lost ones. `updateUser` tests the field "permission" and stores the field
"permissions", as the code does; `UncheckedLevels` are the levels that get into
`USERS` this way, or because `from_chars` and SQLite read one text differently.
uWebSockets is external: its rule that the
first status written is the one sent, and that writing a header writes status
200 first, is `statusSent`.

**Garage.** A handler's caller is the session of the browser that calls it
(`A!caller`), and a handler of any component that ends the process takes the
sessions with it (`KeepSessions`). `loggedAs`, `placed` and `deletions` are
history: the name behind each session, who placed each service and for whose
vehicle, and how many times a name was taken from a number, by deleting an
account or a vehicle or by giving an account another name. `rowsOf` is the set of
services that the three inner joins of `searchServices` find. `selectShows` is
what the chain of statements in `selectService` may show: the heading, and of a
closed service the number in `CLOSEDSERVICES` whose completer, date and payment
are shown with it. "WHERE S.ID + :ID" (`Services.h:862`) is true of every row, so
that may be any of them. The first failing statement of these handlers stands for
any of them: they write nothing. The components are instantiated with what their
handlers can get here: any session or none as caller, any number or no row as
owner, and no failing statement in a handler that writes. `GarageAssumption`
states of `Garage`'s own parameters what the components' assumptions need; that
it implies theirs is proved (`AccountsAssumed`, `VehiclesAssumed`,
`ServicesAssumed`). All handlers of the three components are steps, but for
`searchUsers` and `selectUser`, which change nothing and end no process here;
the handlers of `Inventory`, whose tables the joins use only for prices, are left
to that module.

**Forwarding.** `front` and `back` are a request as the translator and as the
server have it: not there, collecting a body, its callback called, or ended.
`alive` says that the callback runs within the read that brought the head; once
it is FALSE, reading the request object gives anything (`readRequest`), which is
what use after its lifetime may do. `calling` is the request whose
`curl_easy_perform` has not returned: while it is set the translator takes no
other step. `ran` and `answer` are history. A handler is one step that answers
with some code or throws; which, the other modules say.

**Texts.** A text is a sequence of tokens: the marks the reader looks for are
tokens of their own, everything else is a word. `draft`, `form`, `parts` and
`page` are what a handler, a browser and a page author (of a condition, of a
page) have built so far, so that TLC enumerates every small response, form,
condition and page; the properties compare what is read back with what was built.
In `RequestFields` and `Conditions` the text is then read as the code reads it,
one turn of the loop after the other: `it` and `leftAt` are the position, `ret`
and `condition` what has been read, `checked` and `currentState` the loop of
`check`. Where a field or a test was written is recorded with it (`at`), which is
history. `Htmt` uses the same turns, one after the other, as a recursive
operator. A page carries, next to its text, the tree it is meant to be, which is
the reference for `parse`.
Positions are those of the source's iterators, and reading past the data is an
outcome of its own (`undefined`).

Names ending in `_Something` are mutated forms of the definition that follows
them, each a plausible slip in that code; replacing the definition by its form
must violate the property `PROJECT.json` names.

## Runs

| Run | Result | Shows |
|---|---|---|
| `services_lifecycle` | pass | references, single authorisation, no silent loss, refinement of `ServiceLifecycle` |
| `services_parts` | pass | one entry for each part, positive quantities, refusals change nothing, history is never rewritten |
| `services_negative` | violation | a quantity becomes negative when the two readers disagree |
| `services_close_page` | violation | two requests authorised out of order: the form of one service closes the other |
| `accounts_sessions` | pass | unique names, no session left behind or taken from a browser by another, accounts changed only under a session of their level, no level that was not tested or stored unchecked |
| `accounts_levels` | violation | an update raises an account above everybody who is logged in |
| `vehicles` | pass | plates, models and fixed details |
| `inventory` | pass | names identify rows, whatever column a text reads; a listed part leaves the list only by an update that names no supplier |
| `garage` | pass | services of two owners are listed to, placed by and shown to the right people |
| `garage_hidden` | violation | a waiting request is listed to nobody |
| `forwarding` | pass | whole bodies, true answers, right callers, everybody served |
| `pages` | pass | round trips of the formats, pages parsed and filled in as meant |

Each violation quotes the line of the repository it contradicts under
"findings".

**Known divergences.** The models also show, without a run of their own:

* Accounts: a permission of which `from_chars` and SQLite read different numbers
  ("1e1") is tested as the one and stored as the other (`UncheckedLevels`).
  A browser with a cookie
  that gives a wrong password is answered 200, because clearing its cookie
  commits the status line (`Network.h:217`, `statusSent`). `checkSession` ends
  the process on a cookie that no session has (`Auth.h:67`). `registerUser`
  stores the password as typed and the log-in that follows compares its hash, so
  it fails. `getLocalUserData` ends the process in a session whose account
  `deleteUser` removed.
* Reused numbers: a session outlives its account and then acts for the account
  that gets its number; the services of a deleted vehicle pass to the vehicle
  that gets its number. `PlacedByItsOwner` and `ListedToItsOwner` hold up to the
  first deletion and not beyond.
* Services: a number closed before it is authorised is later open and closed at
  once. `searchServices` ends the process for a caller below employee without
  "UID", and the link on the home page sends none. The statement of
  `selectService` for such callers does not compile, so they are answered 500.
  Where the two numberings differ, `selectService` looks in the wrong rows;
  `SelectedAsListed` is about the case where they agree. Even then the completer,
  date and payment shown of a closed service are those of the first row in
  `CLOSEDSERVICES` (`Services.h:858-872`, "S.ID + :ID"), so with two closed
  services the page of one shows the other's; the property claims them only
  while one number is closed.
* Inventory: a part with an unknown supplier is stored and never listed;
  `updatePart` writes a supplier although its page says it cannot be changed;
  `selectPart` joins without a condition and shows an arbitrary supplier.
* Formats: a comma in a value is read as a separator. `getCookies` passes over
  pieces without a name or a `=` and stores a cookie with an empty value, although
  its comment says "Empty names/values are ignored" (`Network.h:93`);
  `CookiesArrive` states what the code does. After a nameless piece the
  next cookie is read with a space in its name (nameless ones are not among the
  cookies considered: the server sets none); a `=` in what a `!` test compares
  with makes it a `=` test, because `parseSubCondition` looks for `=` first.
* Forwarding: when a body comes later than its head, the server's handler reads
  its cookie from an object that is gone (`ActsForItsCaller` excludes exactly
  this case), and so does the translator with the query of its page.

**Bounds.** Three requests are needed for the two service numberings to differ
in more than a swap and for one to be closed before another is authorised. Two
part entries and a largest quantity just past `MaxInteger` make entry IDs come
back and quantities overflow into REAL. In `Accounts`, two browsers and two
session numbers let a session be taken over, released and drawn again; accounts
0 to 2 let one be deleted and its ID reused; `LevelLimit` stands for 2^31 and is
small so that both halves of the range occur. Two vehicles and two models give a
shared model, a plate conflict and a reused ID. In `Inventory`, two rows of each
table and a text that names a column of one table only make a renaming collide
with another row or take over its own price or phone number, and supplier 2 may be
named before it is there. In `Garage`, two accounts, two vehicles of two owners and
two services are enough for services of two people to stand side by side, for a
number to change hands and for requests to be authorised out of order; one browser
logs in as each of them in turn (two would not fit; `garage_hidden` has two, and
the theorems any number). The run leaves the field "permissions" out, which
`accounts_levels` and the theorems have. One deletion or renaming
(`MaxDeletions`) is enough because the properties speak of none, and allowing it
keeps the actions in the system. In `Forwarding` there is a GET, a POST without a body and a POST of two
pieces, the least that can come head first, cut in two or whole. In `pages`, three
values in up to three open objects give lists of objects in objects, and four
pieces give a tag nested in one of its own kind with something before or after
it; three fields give one name twice with another between, and three tests are
the least in which the order of `&` and `|` matters. All bounds are guards named `Max...`, and `Sids`.

`services_parts`, `accounts_sessions` and `inventory` use a `VIEW` that leaves out
`reply`: no guard and no invariant reads it, and an action property that does is
evaluated on every step TLC generates from the states it keeps. The garage runs
also leave out who was told what, the hours of a service and, once something was
deleted, the history, which neither a guard nor an invariant reads then. `SYMMETRY`
exchanges the browsers, the session numbers and the plates, which no definition
tells apart; it is used with invariants and properties of single steps, never with
liveness.

**Fairness.** Liveness is claimed for `Forwarding` only (`Served`): a request
that was sent whole is answered or its connection was given up. Each process is
an event loop that turns as long as it runs, so a step it can take for a request
is taken at some time: weak fairness of `TranslatorStep(r)` and `ServerStep(r)`
for each request. Weak is enough, because nothing but the call that is open can
hold such a step up, and that call returns: a handler has no loop without an end,
so it answers or ends the process, and a connection to a process that has ended
is refused or reset. Nothing is asked of browsers, who may stop in the middle of
a body, nor of the operator, who need not start the server again. What is
assumed away is a server that runs and takes no step (a stopped process that
keeps its sockets): without a time limit in `Curl.h` the translator then waits
with it; and a translator that ends on a page that does not fit its response
(`FittingPageShown`). In the other modules nothing is bound to happen: the
server acts on requests that nobody has to send.

## Proofs

All theorems hold for every value of the constants allowed by the `ASSUME`s,
which TLC evaluates in every run: any number of services, browsers, accounts and
sessions, any body fields, any choice of failing statements.

* `ServerDataProofs`: the next row ID exists, is above all IDs present and
  fresh (`NextRowIdIsNext`), by the least-number principle.
* `ServicesProofs`: `TypeCorrect`. `BookCorrect` proves the four parts of the
  book's invariant (`BookInv`) together, since they need each other: that a
  request is authorised once rests on the references, and that a told service is
  tracked on both. `OneEntryCorrect` uses that entry IDs are fresh.
  `PositiveQuantities` assumes `PlainQuantities` (both readers agree), which is
  exactly what `services_negative` violates. `RefusalsCorrect` and
  `HistoryCorrect` are action properties. `LifecycleImplemented`: every step of
  `Services` is a step of `ServiceLifecycle` or a stutter under the mapping
  `statusOf`. It rests on `BookInv`: `closeService` moves one service because
  `AuthorisedOnce` gives a service at most one active row, and
  `authoriseRequest` starts from "waiting" because a waiting service has none.
* `AccountsProofs`: `StepsOfNext` reduces the eleven actions to five ways in which
  `USERS` changes and four in which sessions change; the theorems argue over
  those. `TypeCorrect`; `NamesCorrect` (unique names); `SessionsHeld` (no session
  without a browser, assuming `AllDelivered`); `LevelsCorrect` (with every field an
  update may carry, no level above the administrator but up to one that was stored
  unchecked; the bounds on accounts and on sessions are proved together because
  each feeds the other);
  `ProtectionCorrect` (accounts change only under a session of their level);
  `SessionsStay` (nobody loses a session to another browser, again assuming
  `AllDelivered`).
* `VehiclesProofs`: `TypeCorrect`; `ModelsCorrect` and `PlatesCorrect`, each
  inductive together with the types; `DetailsCorrect`, an action property that
  needs `ModelsHold`, since the model of a vehicle is looked up by a number.
* `InventoryProofs`: `TypeCorrect`; `NamesCorrect` (names identify rows);
  `ListedCorrect` (a listed part leaves the list only by an update of that part
  which names a supplier that is not there). Both hold for texts that name any
  column.
* `ForwardingProofs`: the inductive invariant ties the three places of a request
  together: a buffer never holds more than was sent, a callback was called only
  with the whole, a handler ran exactly when the server's side has ended with a
  run, and the cookie in the translator's hands is always the request's own.
  `TypeCorrect`, `BodiesWhole`, `AnswersTrue` and `CallerTrue` follow.
* `GarageProofs`: the composed server. `StepKinds` shows that every step is a
  step of one component that leaves the others' tables alone (but may end all
  sessions), or a handler that only shows something; for that the caller and the
  owner a handler sees must be ones the component allows, which follows from the
  types of the other components' tables. So the step lemmas of `AccountsProofs`,
  `VehiclesProofs` and `ServicesProofs`, instantiated with `Garage`'s
  parameters, carry over: `ComponentsCorrect` (all their invariants),
  `LevelsBounded`, `ChangesCorrect` (their action properties) and
  `ServerImplementsLifecycle` (the refinement, in which handlers of other
  components and restarts are stutters).
  `PlacedCorrect`, `ListedCorrect` and `SelectedCorrect` are about what no
  component can state alone. A session, a vehicle and an active service name an
  account only by a number, so `PlacedByItsOwner` is not inductive. `GarageInv`
  adds what a number stands for: as long as nothing was deleted, a session's
  number is that of an account with the name the session was given for
  (`SessionsNamed`), an authoriser is an account (`AuthorisersKnown`), and a
  placed service's vehicle still belongs to the account it was placed for
  (`OwnersKnown`); and always, names are plain, so that `NamesUnique` makes one
  word one account (`NamesPlain`), and no service was lost (`NothingLost`).
  The lemmas `AccountsKept`, `FleetKept`, `SessionChanges` and `BookChanges` say
  what a step can do to each table before the first deletion (an update in place
  keeps an account's name, a vehicle's owner and a service's authoriser), and the
  invariant follows from those four. Its parts were checked with TLC on an instance of the
  garage run's size before they were proved.

* `ReadingProofs`: the loops over texts, for texts of any length. Nothing here is
  an induction over the text: because a turn of a loop is a step, the induction is
  the one over the behaviour, and what is needed is the loop invariant.
  `FormInv` says that every field stands in the text where it was written, that
  only the marks between two fields are behind one (`FormLayout`), and that the
  reader is at the start of field k + 1, or at the end, with exactly the first k
  fields in its map, the later of two with one name (`ReadSoFar`). A turn keeps
  it because the name has no mark in it and the value none that ends the field:
  escaping takes them out of a form, and of cookies it has to be assumed
  (`NoSemicolon`), so the first mark `std::find` meets is the one behind the field
  (`FieldFound`; that a first one exists is the least-number principle, `LeastExists`). Then
  `FieldsArriveAlways` and `CookiesArriveAlways`; and `ReadingEnds`, an action
  property that holds also where the invariant says nothing of the position (a
  ';' in a cookie): every turn goes forward and none leaves the text.
  `CondInv` is the same for `parse`, with the tests read so far in `condition`,
  and for `check` it says that `currentState` is what the first `checked` tests
  say together (`CheckedSoFar`). `DivisorFound` and `TestFound` give what a turn of
  `parse` finds, `CheckTestIs` that `checkTest` on it decides what the author's
  test says (of two values with one key both take the first), and `TogetherNext`
  how one test more changes what all say. So `ConditionsLeftToRightAlways`;
  `OneConjunctionFewer`, the `assert` at the end of `parse`; and
  `ConditionTurnsWithin`, that `parse` goes forward and `check` reads no
  conjunction that is not there. Both invariants were checked with TLC on
  the instance of the pages run before they were proved.

The assumption `AllDelivered` of two account theorems is needed: a lost answer
leaves a session that no browser holds.

The assumptions on texts are those of the code's use: names of fields, cookies
and keys are words without marks, a browser escapes what it sends in a form (a
value holds characters, not escapes), a page author puts no `&` or `|` into an
operand and no `=` behind a `!`. Responses are any.

Only model-checked: `Served`, since liveness under fairness is outside the
prover's reach; and the six properties of `ResponseFormat` and `Htmt`
(`RoundTrip`, `PaddedRoundTrip`, `CommasConfined`, `ParsedAsWritten`,
`FittingPageShown`, `FailedCallShown`). Those are about objects in objects and
tags in tags: what a recursive definition computes for a tree of any depth would
take an induction over the tree that the prover cannot instantiate, and unlike
the loops above it cannot be had from the steps of a behaviour without a stack in
place of the recursion.

## Not modelled, and limits

* `reopenService` has no route; `fromUnformattedData` of `Response.h` has no caller
  (it is modelled as the reader of padded text all the same); `forward`, `forwardPost` and `writeBack` of
  `Forwarding.h` and `multicurlwrapper` have no caller.
* The tables of routes (`net`, `linkPages`), static pages, the debug and ping
  routes, the console commands, the binding of SQL parameters: tables and I/O.
* Texts with a double quote in a field of an update statement: they change the
  statement itself.
* The loss of precision of a REAL quantity; dates; prices; log output.
* Brackets and quotes in values of a response, and escapes that are no
  characters: what is read then depends on memory past the text.
* `tryEnd` may send only part of a large page; how much is the socket's matter.
* `Garage` leaves out `searchUsers`, `selectUser` and the handlers of `Parts.h`; the
  list of parts under warranty that `selectService` shows with a service is not
  modelled either.
* A page that ends with the first characters of a tag: `tagSearch` compares only
  the characters there are. Tags are single tokens in `Htmt`.
* `Restart` takes for granted that the operator loads the same database file.

## Plan

1. Done: the server's components and their proofs, the refinement of
   `ServiceLifecycle`, the composition `Garage`, the two processes
   (`Forwarding`) with liveness, and the pure algorithms.
2. Done: the proofs of the composed server (`GarageProofs`).
3. Done: the loops of `Query.h`, `getCookies` and `translationCondition` as steps
   over a position, with their loop invariants proved (`ReadingProofs`).
4. Left: the nested readers of `Response.h` and of the pages with the recursion
   made a stack, which would open them to the same kind of proof; a model of
   `linkPages` if the link file is ever written by hand again.
