---------------------------- MODULE Authorization ----------------------------
(* Who may do what, as operators: the guards, gates and registries, and the admin panel,      *)
(* with what it does to the tables of those it lets in.                                        *)
EXTENDS Naturals, Sequences, FiniteSets, SequencesExt, TLC

-----------------------------------------------------------------------------
(* The guards of one request, the gate and the registries, as operators.  A request     *)
(* carries a user cache when the middleware put one in: [cache, loaded, user, header,      *)
(* query]; a token is a name, "" when there is none; users maps tokens to users.             *)
Nobody == "nobody"

(* TokenGuard: a bearer header that is there hides the query, also an empty one.              *)
getToken(request) == IF request.header # "none" THEN request.header ELSE request.query
cacheUser(request, user) ==
  IF request.cache THEN [request EXCEPT !.loaded = TRUE, !.user = user] ELSE request
User(users, request) ==
  IF request.cache /\ request.loaded THEN [request |-> request, user |-> request.user]
  ELSE LET token == getToken(request)
           user == IF token # "" /\ token \in DOMAIN users THEN users[token] ELSE Nobody
       IN [request |-> cacheUser(request, user), user |-> user]
Check(users, request) == User(users, request).user # Nobody
Login(request, user) == cacheUser(request, user)
Logout(request) == cacheUser(request, Nobody)

(* The calls a handler makes on its guard, one after another.                                   *)
Call(users, request, call) ==
  CASE call.op = "user" -> User(users, request).request
    [] call.op = "login" -> Login(request, call.user)
    [] call.op = "logout" -> Logout(request)
Calls(users, request, calls) == FoldLeft(LAMBDA r, call : Call(users, r, call), request, calls)

(* The gate: a defined ability decides alone; otherwise the policy of the resource's type,        *)
(* which is not told the ability; otherwise no.  Policies answer for pairs of user and model.      *)
Define(gate, ability, allows) == [gate EXCEPT !.abilities = ability :> allows @@ @]
RegisterPolicy(gate, resource, allows) == [gate EXCEPT !.policies = resource :> allows @@ @]
Allows(gate, user, ability, args) ==
  \/ ability \in DOMAIN gate.abilities /\ user \in gate.abilities[ability]
  \/ /\ ability \notin DOMAIN gate.abilities /\ args # <<>>
     /\ args[1] \in DOMAIN gate.policies /\ user \in gate.policies[args[1]]
Denies(gate, user, ability, args) == ~Allows(gate, user, ability, args)

(* AuthManager: "" is the default guard; a guard that is not registered panics.                     *)
Guard(guards, default, name) ==
  LET n == IF name = "" THEN default ELSE name IN IF n \in DOMAIN guards THEN guards[n] ELSE "panic"
RegisterGuard(guards, name, guard) == name :> guard @@ guards
(* The driver registry: a nil constructor and a second registration panic; 1, 2 .. are constructors.  *)
Nil == 0
RegisterDriver(drivers, name, f) ==
  IF f = Nil \/ name \in DOMAIN drivers THEN [panics |-> TRUE, drivers |-> drivers]
  ELSE [panics |-> FALSE, drivers |-> name :> f @@ drivers]
GetDriver(drivers, name) == IF name \in DOMAIN drivers THEN drivers[name] ELSE "error"

-----------------------------------------------------------------------------
(* With a cache the last login or logout decides who the user is, and without one it is the         *)
(* token's; what the token says is looked up at most once.  Without a cache a login is lost.          *)
GuardSound(users, request, calls) ==
  LET after == Calls(users, request, calls)
      said == {i \in DOMAIN calls : calls[i].op # "user"}
      token == IF getToken(request) \in DOMAIN users THEN users[getToken(request)] ELSE Nobody
  IN /\ User(users, after).user =
          IF ~request.cache \/ said = {} THEN token
          ELSE IF calls[Max(said)].op = "login" THEN calls[Max(said)].user ELSE Nobody
     /\ request.cache /\ calls # <<>> => User([t \in {} |-> ""], after).user = User(users, after).user

(* The registration that comes last decides an ability, whatever the policies; a policy says the     *)
(* same of every ability that is not defined, and what nobody registered is denied.                    *)
GateSound(registrations, user, ability, args) ==
  LET gate == FoldLeft(LAMBDA g, r : IF r.ability THEN Define(g, r.name, r.users)
                                     ELSE RegisterPolicy(g, r.name, r.users),
                       [abilities |-> <<>>, policies |-> <<>>], registrations)
      of(isAbility, name) == {i \in DOMAIN registrations :
                                registrations[i].ability = isAbility /\ registrations[i].name = name}
      mine == of(TRUE, ability)
      theirs == IF args = <<>> THEN {} ELSE of(FALSE, args[1])
      decides == IF mine # {} THEN mine ELSE theirs
  IN Denies(gate, user, ability, args) <=>
       decides = {} \/ user \notin registrations[Max(decides)].users

(* A driver keeps the constructor it got first; a guard the strategy it got last.                       *)
RegistrySound(names) ==
  LET drivers == FoldLeft(LAMBDA d, i : RegisterDriver(d, names[i], i).drivers,
                          <<>>, [i \in DOMAIN names |-> i])
      guards == FoldLeft(LAMBDA g, i : RegisterGuard(g, names[i], i), <<>>, [i \in DOMAIN names |-> i])
  IN \A n \in ToSet(names) :
       LET at == {i \in DOMAIN names : names[i] = n} IN
       /\ GetDriver(drivers, n) = Min(at) /\ Guard(guards, n, "") = Max(at)

-----------------------------------------------------------------------------
(* The admin panel, as operators: which handler a path reaches, and what it does to the       *)
(* table of a registered model.  A field is [tag, rel]; a row maps the table's columns to        *)
(* texts; NULL is one no form sends.  A request is [path: a sequence of segments, host, user,          *)
(* form, post]; a guard is the AuthGuard of the moment Mount ran: [set, admits: users].                *)
NULL == "NULL"

(* Register: the fields that are columns, in order.                                                  *)
Columns(fields) ==
  LET own == SelectSeq(fields, LAMBDA f : f.tag \notin {"", "-"} /\ ~f.rel)
  IN [i \in DOMAIN own |-> own[i].tag]
Editable(columns) == SelectSeq(columns, LAMBDA c : c # "id")

(* Names are registered and looked up in lower case.                                                 *)
Lowered == [Users |-> "users", Sequence |-> "sequence"]
Lower(name) == IF name \in DOMAIN Lowered THEN Lowered[name] ELSE name
Find(entries, name) == Lower(name) \in entries

(* Mount: AuthGuard, or LocalOnlyGuard when none is set, before its switch; a handler of a model       *)
(* first looks it up.                                                                                    *)
Admitted(guard, request) ==
  IF guard.set THEN request.user \in guard.admits
  ELSE request.host \in {"127.0.0.1", "::1", "localhost"}
Reserved == {<<"sequence">>, <<"sequence", "retry">>, <<"sequence", "delete">>}
Handler(guard, entries, request) ==
  LET path == request.path
      found(handler) == IF Find(entries, path[1]) THEN handler ELSE "not found"
  IN IF ~Admitted(guard, request) THEN "forbidden"
     ELSE CASE path = <<>> -> "dashboard"
            [] path \in Reserved -> Last(path)
            [] Len(path) = 1 /\ path \notin Reserved -> found("list")
            [] Len(path) = 2 /\ path \notin Reserved ->
                 found(IF path[2] = "create" THEN "create" ELSE "edit")
            [] Len(path) = 3 /\ path[3] = "delete" -> found("destroy")
            [] OTHER -> "not found"

(* What a form field holds when it is not sent, and what a value is shown as: a NULL and, with a     *)
(* driver that returns text as bytes, a text.                                                          *)
Sent(form, column) == IF column \in DOMAIN form THEN form[column] ELSE ""
Shown(driver, value) == IF value = NULL THEN "<nil>" ELSE IF driver = "mysql" THEN "[bytes]" ELSE value
(* The statements are written with `?': Postgres refuses them, and nobody looks at the error.          *)
Runs(driver) == driver # "postgres"

Written(columns, row, form) ==
  [c \in DOMAIN row |-> IF c \in ToSet(Editable(columns)) THEN Sent(form, c) ELSE row[c]]
handleEdit(driver, columns, table, id, form) ==
  [i \in DOMAIN table |-> IF Runs(driver) /\ table[i]["id"] = id
                          THEN Written(columns, table[i], form) ELSE table[i]]
handleCreate(driver, columns, table, blank, form) ==
  IF Runs(driver) /\ Editable(columns) # <<>> THEN Append(table, Written(columns, blank, form)) ELSE table
handleDestroy(driver, table, id) ==
  IF Runs(driver) THEN SelectSeq(table, LAMBDA row : row["id"] # id) ELSE table

(* The form of the edit page: SELECT * goes into as many values as the model has columns, by          *)
(* position; when the table has more or fewer, or the record or the driver is missing, every field     *)
(* shows a nil.                                                                                          *)
EditPage(driver, columns, order, table, id) ==
  LET rows == SelectSeq(table, LAMBDA row : row["id"] = id)
      scanned == Runs(driver) /\ rows # <<>> /\ Len(order) = Len(columns)
      at(c) == Max({i \in DOMAIN columns : columns[i] = c})
  IN [c \in ToSet(Editable(columns)) |->
        IF scanned THEN Shown(driver, rows[1][order[at(c)]]) ELSE "<nil>"]

(* handleSequenceDashboard, handleSequenceRetry and handleSequenceDelete: the status, and whether the       *)
(* queue was called.                                                                                       *)
Sequence(page, queue, id, errs) ==
  CASE queue \in {"none", "no inspector"} -> [status |-> IF page = "sequence" THEN 200 ELSE 400, called |-> FALSE]
    [] queue = "inspector" /\ page # "sequence" /\ id = "" -> [status |-> 400, called |-> FALSE]
    [] OTHER -> [status |-> IF errs THEN 500 ELSE IF page = "sequence" THEN 200 ELSE 302, called |-> TRUE]

(* What a request is answered: the error of the list's SELECT is, those of the statements that write are     *)
(* not looked at.                                                                                             *)
Answer(guard, entries, request, queue, errs) ==
  LET reached == Handler(guard, entries, request)
      plain(status) == [status |-> status, called |-> FALSE]
  IN CASE reached = "forbidden" -> plain(403)
       [] reached = "not found" -> plain(404)
       [] reached \in {"sequence", "retry", "delete"} ->
            Sequence(reached, queue, Sent(request.form, "id"), errs)
       [] reached = "list" -> plain(IF errs THEN 500 ELSE 200)
       [] reached \in {"create", "edit"} -> plain(IF request.post THEN 302 ELSE 200)
       [] reached = "destroy" -> plain(302)
       [] reached = "dashboard" -> plain(200)

-----------------------------------------------------------------------------
(* Opening a record's edit page and saving it changes nothing: when the table has the model's          *)
(* columns in its order, the driver returns text as text, and the record holds no NULL.  Saving           *)
(* changes no other record, and no column the model does not have; deleting and creating keep              *)
(* every other record.                                                                                       *)
EditingSound(driver, fields, order, table, id, form) ==
  LET columns == Columns(fields)
      page == EditPage(driver, columns, order, table, id)
      saved == handleEdit(driver, columns, table, id, form)
      blank == [c \in ToSet(order) |-> IF c = "id" THEN "new" ELSE NULL]
      created == handleCreate(driver, columns, table, blank, form)
      fits == /\ columns = order /\ driver = "sqlite"
              /\ \A i \in DOMAIN table : NULL \notin {table[i][c] : c \in DOMAIN table[i]}
  IN /\ fits => handleEdit(driver, columns, table, id, page) = table
     /\ \A i \in DOMAIN table : \A c \in ToSet(order) :
          saved[i][c] # table[i][c] => table[i]["id"] = id /\ c \in ToSet(Editable(columns))
     /\ SubSeq(created, 1, Len(table)) = table
     /\ handleDestroy(driver, created, "new") = table \/ ~Runs(driver)

(* Nobody whom the guard does not admit sees a page, has a record written or a job retried.  A         *)
(* model's handlers are reached for registered models only, and the list, the forms and the deletions     *)
(* of every registered model are reached, in any casing: unless it is called sequence, or a record create.   *)
(* The queue is called for a job that was named, and a retry or deletion is answered by a redirect exactly     *)
(* when the queue did it.                                                                                         *)
PanelSound(guard, entries, request, queue, errs) ==
  LET path == request.path
      reached == Handler(guard, entries, request)
      out == Answer(guard, entries, request, queue, errs)
      registered == path # <<>> /\ Lower(path[1]) \in entries
      model == CASE Len(path) = 1 -> "list"
                 [] Len(path) = 2 -> IF path[2] = "create" THEN "create" ELSE "edit"
                 [] Len(path) = 3 /\ path[3] = "delete" -> "destroy"
                 [] OTHER -> "none"
  IN /\ out.called \/ out.status \in {200, 302} => Admitted(guard, request)
     /\ reached \in {"list", "create", "edit", "destroy"} => registered
     /\ Admitted(guard, request) /\ registered /\ model # "none" =>
          reached = model \/ path \in Reserved
     /\ out.called /\ path # <<"sequence">> => Sent(request.form, "id") # ""
     /\ reached \in {"retry", "delete"} => (out.status = 302 <=> out.called /\ ~errs)
=============================================================================
