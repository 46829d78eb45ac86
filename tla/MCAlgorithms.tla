---------------------------- MODULE MCAlgorithms ----------------------------
(* The pure algorithms on bounded inputs: a behaviour is one step, which picks a      *)
(* probe, the arguments of one of them; the properties say what it must compute.        *)
EXTENDS Integers, Sequences, FiniteSets, TLC, SequencesExt

CONSTANT AChain        \* the longest chain of calls of the query builder
VARIABLE probe

Builder == INSTANCE QueryBuilder
Rel == INSTANCE Relations
Lang == INSTANCE Texts
Auth == INSTANCE Authorization
Post == INSTANCE Delivery
Views == INSTANCE Templates

Upto(S, n) == UNION {[1 .. k -> S] : k \in 0 .. n}
Is(kind) == probe.kind = kind

-----------------------------------------------------------------------------
(* Chains of calls over six rows with NULLs and deletions; records; hooks; tables.         *)
Query(name, col, op, vals) == [name |-> name, col |-> col, op |-> op, vals |-> vals]
Queries == {Query(n, "v", "=", <<1>>) : n \in {"Where", "OrWhere"}}
           \cup {Query(n, "deleted_at", ">", <<2>>) : n \in {"Where", "OrWhere"}}
           \cup {Query("WhereNull", "deleted_at", "", <<>>), Query("WhereNotNull", "v", "", <<>>),
                 Query("WhereBetween", "v", "", <<1, 2>>), Query("WhereLike", "v", "", <<2>>),
                 Query("WhereIn", "v", "", <<>>), Query("WhereIn", "v", "", <<0, 2>>)}
Row(id, v, deleted) == [id |-> id, v |-> v, deleted_at |-> deleted]
Table == << Row(1, Builder!NULL, Builder!NULL), Row(2, 1, Builder!NULL), Row(3, 1, 3),
            Row(4, 2, Builder!NULL), Row(5, 2, 3), Row(6, 0, 3) >>
Update == << [col |-> "v", val |-> 2], [col |-> "deleted_at", val |-> Builder!NULL] >>
Answers == {"none", "ok", "err"}
Column(name, kind) == [name |-> name, kind |-> kind, nullable |-> FALSE, unique |-> FALSE,
                       default |-> "none"]
Columns == {Column("id", "id"), Column("a", "string"), Column("b", "boolean")}
Field(tag, upper, kind) == [tag |-> tag, upper |-> upper, kind |-> kind, rel |-> FALSE]
Fields == {Field("a", FALSE, "string"), Field("b", FALSE, "bool"), Field("C", TRUE, "int"),
           Field("d", FALSE, "int"), [Field("e", FALSE, "int") EXCEPT !.rel = TRUE], Field("-", FALSE, "int")}
Drivers == {"postgres", "mysql"}
Models == {<<[tag |-> "id", rel |-> FALSE], [tag |-> "n", rel |-> FALSE], [tag |-> "", rel |-> TRUE]>>,
           <<[tag |-> "id", rel |-> FALSE], [tag |-> "n", rel |-> FALSE], [tag |-> "m", rel |-> FALSE]>>}
Records == [id : {"1", "2"}, n : {"x", Auth!NULL}, m : {"y"}]

QueryProbe ==
  \/ \E driver \in Drivers, calls \in Upto(Queries, AChain) :
       probe' = [kind |-> "chain", driver |-> driver, calls |-> calls]
  \/ \E driver \in Drivers, rows \in 0 .. 6, perPage \in -1 .. 4 :
       probe' = [kind |-> "page", driver |-> driver, table |-> SubSeq(Table, 1, rows), size |-> perPage]
  \/ \E driver \in Drivers, soft \in BOOLEAN, id \in 1 .. 7 :
       probe' = [kind |-> "record", driver |-> driver, soft |-> soft, id |-> id]
  \/ \E calls \in Upto(Queries, 1), before, after \in Answers, fails \in BOOLEAN,
        row \in {<<>>, Row(7, 1, Builder!NULL)} :
       probe' = [kind |-> "hooks", calls |-> calls, row |-> row, fails |-> fails,
                 hooks |-> [before |-> before, after |-> after]]
  \/ \E driver \in Drivers, has, new \in Upto(Columns, 2), fields \in Upto(Fields, 3) :
       /\ Len(has) = Cardinality(ToSet(has))
       /\ probe' = [kind |-> "schema", driver |-> driver, new |-> new, fields |-> fields,
                    db |-> "t" :> Builder!Compile(driver, has)]
  \/ \E driver \in Drivers \cup {"sqlite"}, fields \in Models, order \in {<<"id", "n", "m">>, <<"m", "id", "n">>},
        table \in Upto(Records, 2), id \in {"1", "3"}, form \in {<<>>, "n" :> "z", "m" :> "z"} :
       probe' = [kind |-> "admin", driver |-> driver, fields |-> fields, order |-> order,
                 table |-> table, id |-> id, form |-> form]


(* query_builder.go:423 shows Table("users").Where("id", "=", 1).Update(...) as the way to     *)
(* update rows, on any driver (lines 6-9): the update changes the rows of its filters.           *)
UpdatesMeanTheirChain ==
  Is("chain") => Builder!UpdateSound(probe.driver, probe.calls, Table, Update)

(* hooks.go:22 and query_builder.go:419: the BeforeSave hook of a model runs before any UPDATE   *)
(* as well, so that an update whose hook fails writes nothing.                                     *)
SavesAreGuarded ==
  Is("hooks") /\ probe.hooks.before = "err" =>
    Builder!UpdateModel(Builder!Chain("mysql", probe.calls), Table, Update).table = Table

-----------------------------------------------------------------------------
(* Users with posts, comments and tags; rows to hydrate; nested structs.                      *)
Relation(rel, table, fk) == [rel |-> rel, table |-> table, fk |-> fk]
Through(rel, table, fk, via, farFK) == Relation(rel, table, fk) @@ [via |-> via, farFK |-> farFK]
Relatives == [users |-> [posts |-> Relation("has_many", "posts", "user_id"),
                      latest |-> Relation("has_one", "posts", "user_id"),
                      tags |-> Through("many_to_many", "tags", "user_id", "pivot", "tag_id"),
                      comments |-> Through("has_many_through", "comments", "user_id", "posts", "post_id")],
           posts |-> [author |-> Relation("belongs_to", "users", "user_id"),
                      comments |-> Relation("has_many", "comments", "post_id")],
           tags |-> <<>>, comments |-> <<>>]
DB(scans, users, owners, posts, pivot) ==
  [scans |-> scans, users |-> [i \in 1 .. users |-> [id |-> i]], tags |-> <<[id |-> 1], [id |-> 2]>>, pivot |-> pivot,
   posts |-> [i \in DOMAIN owners |-> [id |-> i, user_id |-> owners[i]]],
   comments |-> [i \in DOMAIN posts |-> [id |-> i, post_id |-> posts[i]]]]
Scans == {"value", "bytes"}
UserPaths == << <<"posts">>, <<"latest">>, <<"tags">>, <<"comments">>, <<"posts", "comments">>,
                <<"posts", "author">> >>
PostPaths == << <<"author", "tags">>, <<"comments">> >>
Kinds == [a |-> "int", c |-> "string"]
Structs(inner) == Upto([tag : {"a", "b"}, embedded : inner], 2)
(* An int field does not take the value 2.                                                      *)
Read == [kind \in {"int", "string"} |-> [value \in 1 .. 2 |->
           IF kind = "int" /\ value = 2 THEN Rel!NULL ELSE value]]

RelationProbe ==
  \/ \E scans \in Scans, users \in 0 .. 2, owners \in Upto({Rel!NULL, 0, 1, 2}, 2), posts \in Upto({1, 2}, 2) :
       probe' = [kind |-> "relations", db |-> DB(scans, users, owners, posts, <<>>)]
  \/ \E scans \in Scans, users \in 0 .. 2, pivot \in Upto([user_id : {1, 2}, tag_id : {1, 2, 3}], 2) :
       probe' = [kind |-> "relations", db |-> DB(scans, users, <<1, 2>>, <<>>, pivot)]
  \/ \E rows \in Upto([a : {Rel!NULL, 1, 2}, b : {1}], 2), held \in 0 .. 1 :
       probe' = [kind |-> "hydrate", rows |-> rows, dest |-> [i \in 1 .. held |-> [a |-> 7, c |-> 7]]]
  \/ \E struct \in Structs(Upto([tag : {"a", "c"}, embedded : {<<>>}], 2)) :
       probe' = [kind |-> "struct", struct |-> struct]

(* What eager loading, hydration and the search for a field put where.                           *)
RelationsSound ==
  /\ Is("relations") => /\ Rel!EagerLoadingSound(probe.db, Relatives, "users", UserPaths)
                        /\ Rel!EagerLoadingSound(probe.db, Relatives, "posts", PostPaths)
  /\ Is("hydrate") => Rel!HydrationSound(probe.rows, Kinds, [a |-> 0, c |-> 0], probe.dest, Read)
  /\ Is("struct") => \A tag \in {"a", "c"} : Rel!FieldSearchSound(probe.struct, tag)

(* query_builder.go:518-519: Get takes a "destination pointer (struct or slice of structs)", with       *)
(* relations too (query_relations.go:55-58).                                                             *)
StructsAreDestinations ==
  Is("relations") => Rel!Gets(probe.db, Relatives, "users", "struct", << <<"posts">> >>)

-----------------------------------------------------------------------------
(* Cron fields of units of three values; texts of two locales; guards, gates, mail.              *)
Units == << <<0, 2>>, <<0, 1>>, <<1, 2>>, <<1, 1>>, <<0, 1>> >>
EveryTime == [kind |-> "any"]
CronFields == {EveryTime, [kind |-> "step", n |-> 0], [kind |-> "step", n |-> 2],
               [kind |-> "list", items |-> <<<<"n", 0>>, <<"junk">>, <<"n", 2>>>>],
               [kind |-> "list", items |-> <<<<"range", 0, 1>>, <<"n", 2>>>>],
               [kind |-> "range", low |-> 1, high |-> 2], [kind |-> "exact", n |-> 1], [kind |-> "bad"]}
Dictionaries == UNION {[ls -> {[key |-> "x"], [key |-> "y"], [other |-> "z"]}] : ls \in SUBSET {"en", "fr"}}
Tokens == {Lang!Word("w"), Lang!Holder(<<"n">>), Lang!Holder(<<"n", "o">>)}
Values == {<<>>} \cup {<<"n">> :> "1", <<"n", "o">> :> "2", <<"n">> :> "1" @@ <<"n", "o">> :> "2"}
PluralGuards == {[kind |-> "none"], [kind |-> "bad"], [kind |-> "is", low |-> 1],
                 [kind |-> "from", low |-> 1, high |-> 2], [kind |-> "from", low |-> 2, high |-> 99]}
Requests == {r \in [context : {"", "aa"}, query : {"", "bb"}, session : {"", "cc"}, cookie : {"", "dd"},
                    accept : {"", "ee"}, hasSession : BOOLEAN, answered : {""}] : r.hasSession \/ r.session = ""}
Lines == [kind : {"pair"}, key : {"k", "", "l"}, value : {"", "1", "no", "x"}, hash : {"no"}]
         \cup [kind : {"pair"}, key : {"k"}, value : {"1"}, hash : {"comment", "inside", "glued"}]
         \cup [kind : {"comment", "no equals"}, key : {"k"}, value : {"1"}, hash : {"no"}]
Users == [t1 |-> "ann", t2 |-> "bob"]
GuardRequests == [cache : BOOLEAN, loaded : {FALSE}, user : {"nobody"}, header : {"none", "", "t1", "bad"},
                  query : {"", "t2"}]
GuardCalls == {[op |-> "user"], [op |-> "logout"], [op |-> "login", user |-> "ann"],
               [op |-> "login", user |-> "bob"]}
Registrations == [ability : BOOLEAN, name : {"edit", "post"}, users : SUBSET {"ann", "bob"}]
Addresses == Upto({"", "x", "y"}, 1)
Messages == [to : Upto({"x", "y"}, 2), cc : Addresses, bcc : Addresses, body : {"", "text"},
             html : {"", "markup"}, isHTML : BOOLEAN, attachments : Upto({"f"}, 1)]
Receiver(name, notifiable, email) == [name |-> name, notifiable |-> notifiable, email |-> email]
Receivers == {Receiver("ann", TRUE, "a"), Receiver("bob", TRUE, ""), Receiver("cat", FALSE, "")}
Notifications == {n \in [via : Upto({"mail", "database", "sms"}, 2), toMail : {"none", "ok", "error", "nil"},
                         toDatabase : {"none", "ok", "error", "unencodable"}, mailTo : {"", "m"}] :
                    n.toMail = "ok" \/ n.mailTo = ""}
Dispatchers == [channels : {{"mail", "database"}}, db : {"none", "mysql", "postgres", "down"},
                mailer : {"none", "up", "down"}]
AdminPaths == Upto({"sequence", "Sequence", "Users", "posts", "create", "retry", "delete", "1"}, 3)
AdminGuards == {[set |-> FALSE, admits |-> {}], [set |-> TRUE, admits |-> {"ann"}]}
AdminVisitors == {[host |-> "::1", user |-> "bob"], [host |-> "10.0.0.9", user |-> "ann"]}
Leaves == {Views!Text("t"), Views!Expr(<<"a">>, <<"up", "none">>), Views!Expr(<<"x", "a">>, <<>>),
           Views!Expr(<<"$parent", "a">>, <<>>)}
Choice(path, then, or, orThen, else) ==
  [t |-> "choice", path |-> path, then |-> then, or |-> or, orThen |-> orThen, else |-> else]
Loop(body) == [t |-> "loop", list |-> <<"l">>, var |-> "x", body |-> body]
Nodes == Leaves \cup {Choice(<<"a">>, <<a>>, <<"l">>, <<b>>, <<>>) : a, b \in Leaves} \cup {Loop(<<a>>) : a \in Leaves}
Trees == {<<Choice(<<"l">>, <<a>>, <<"m">>, <<>>, <<b>>), Views!Text("u")>> : a, b \in Nodes}
         \cup {<<Loop(<<a, b>>), b>> : a, b \in Nodes}
MapOf(fields) == [is |-> "map", fields |-> fields]
ListOf(items) == [is |-> "list", items |-> items]
ViewData == {MapOf("a" :> a @@ "l" :> ListOf(items)) :
               a \in {Views!Str("0"), [is |-> "int", n |-> 1]},
               items \in {<<>>, <<MapOf("a" :> Views!Str("e")), Views!Str("f")>>}}
DocTokens == {Views!Text("t"), Views!Include("p"), Views!Extends("lay"), Views!Extends("none"), Views!Yield("s"),
              Views!Section("s", <<Views!Text("u")>>), Views!Section("s", <<>>),
              Views!Section("r", <<Views!Text("v"), Views!Text("w")>>)}
ViewFiles == [p |-> <<Views!Text("inc")>>,
              lay |-> <<Views!Text("h"), Views!Yield("s"), Views!Yield("r"), Views!Yield("s"), Views!Yield("q")>>]

LookupProbe ==
  \/ \E fields \in [{1, 3, 5} -> CronFields] :
       probe' = [kind |-> "cron", expr |-> <<fields[1], EveryTime, fields[3], EveryTime, fields[5]>>]
  \/ \E core, custom \in Dictionaries, locale \in {"en", "fr", "de"} :
       probe' = [kind |-> "trans", core |-> core, custom |-> custom, locale |-> locale]
  \/ \E tokens \in Upto(Tokens, 2), values \in Values :
       probe' = [kind |-> "tokens", tokens |-> tokens, replace |-> values]
  \/ \E guards \in Upto(PluralGuards, 3), count \in 0 .. 3 :
       /\ guards # <<>>
       /\ probe' = [kind |-> "plural", parts |-> [i \in DOMAIN guards |-> [guard |-> guards[i]]],
                    count |-> count]
  \/ \E request \in Requests, locale \in {"bb", "ff"} :
       probe' = [kind |-> "locale", request |-> request, locale |-> locale]
  \/ \E lines \in Upto(Lines, 2) : probe' = [kind |-> "config", lines |-> lines]
  \/ \E request \in GuardRequests, calls \in Upto(GuardCalls, 2) :
       probe' = [kind |-> "guard", request |-> request, calls |-> calls]
  \/ \E registrations \in Upto(Registrations, 2), args \in {<<>>, <<"post">>} :
       probe' = [kind |-> "gate", registrations |-> registrations, args |-> args]
  \/ \E names \in Upto({"m", "n"}, 3) : probe' = [kind |-> "registry", names |-> names]
  \/ \E msg \in Messages : probe' = [kind |-> "mail", msg |-> msg]
  \/ \E d \in Dispatchers, receivers \in Upto(Receivers, 2), notification \in Notifications :
       probe' = [kind |-> "notify", d |-> d, receivers |-> receivers, notification |-> notification]
  \/ \E guard \in AdminGuards, path \in AdminPaths, visitor \in AdminVisitors, form \in {<<>>, "id" :> "1"},
        post, errs \in BOOLEAN, queue \in {"none", "no inspector", "inspector"} :
       probe' = [kind |-> "panel", guard |-> guard, queue |-> queue, errs |-> errs,
                 request |-> [path |-> path, form |-> form, post |-> post] @@ visitor]
  \/ \E tree \in Trees, data \in ViewData : probe' = [kind |-> "view", tree |-> tree, data |-> data]
  \/ \E doc \in Upto(DocTokens, 3) : probe' = [kind |-> "layout", doc |-> doc]

(* What is looked up, chosen, decided, delivered and rendered is what the sources together say.     *)
LookupsSound ==
  /\ Is("cron") => Lang!CronSound(probe.expr, Units)
  /\ Is("trans") => Lang!TransSound(probe.core, probe.custom, probe.locale, "key")
  /\ Is("tokens") => Lang!InterpolationSound(probe.tokens, probe.replace)
  /\ Is("plural") => Lang!PluralSound(probe.parts, probe.count)
  /\ Is("locale") => Lang!LocaleSound(probe.request, probe.locale)
  /\ Is("config") => Lang!ConfigSound(probe.lines, "k")
  /\ Is("guard") => Auth!GuardSound(Users, probe.request, probe.calls)
  /\ Is("gate") => \A user \in {"ann", "bob"} :
                     Auth!GateSound(probe.registrations, user, "edit", probe.args)
  /\ Is("registry") => Auth!RegistrySound(probe.names)
  /\ Is("mail") => Post!MailSound(probe.msg)
  /\ Is("notify") => Post!DispatchSound(probe.d, probe.receivers, probe.notification)
  /\ Is("panel") => Auth!PanelSound(probe.guard, {"users", "sequence"}, probe.request, probe.queue,
                                        probe.errs)
  /\ Is("view") => Views!RenderSound(probe.tree, probe.data, {"up"})
  /\ Is("layout") => Views!LayoutSound(ViewFiles, probe.doc)

(* scheduler.go:119: Cron registers a task with "a standard 5-field cron expression", which fires  *)
(* at the times the standard gives it.                                                               *)
CronIsStandard == Is("cron") => Lang!CronStandard(probe.expr, Units)

-----------------------------------------------------------------------------
AInit == probe = [kind |-> "none"]
ANext == /\ Is("none")
         /\ QueryProbe \/ RelationProbe \/ LookupProbe
ASpec == AInit /\ [][ANext]_probe
=============================================================================
