------------------------------ MODULE Requests ------------------------------
(* What becomes of a request: the route its path has, the layers it enters, the form it     *)
(* sends.  The router, the pipeline and the validation are operators; a behaviour is one      *)
(* request, of which one of the three is asked.                                                *)
EXTENDS Naturals, Sequences, FiniteSets, SequencesExt

-----------------------------------------------------------------------------
(* The router, the engine's dispatch and the middleware pipeline, as operators.  *)
(* A segment of a pattern is a literal, a parameter (`:id' and `{id}' are one     *)
(* form here) or the star; a path is its segments and whether it ends in a slash; *)
(* a router is the sequence of its registrations.                                 *)
Lit(s) == <<"lit", s>>
Param(s) == <<"param", s>>
Star == <<"star", "*">>

(* parsePattern: whether a segment is not a literal.                              *)
HasParams(pattern) == \E i \in DOMAIN pattern : pattern[i][1] # "lit"
Name(seg) == seg[2]

(* matchRoute.  The loop ends at the first star, which takes the rest of the path. *)
(* A parameter used twice keeps its last value.                                    *)
FirstStar(pattern) == LET stars == {i \in DOMAIN pattern : pattern[i] = Star} IN
                      IF stars = {} THEN Len(pattern) + 1 ELSE Min(stars)
\* Mutant of matchRoute: a longer path matches as well.
matchRoutePrefix(pattern, path) ==
  /\ Len(pattern) <= Len(path)
  /\ \A i \in 1 .. FirstStar(pattern) - 1 : pattern[i][1] = "lit" => Name(pattern[i]) = path[i]
matchRoute(pattern, path) ==
  LET star == FirstStar(pattern)
      hasWildcard == pattern # <<>> /\ Last(pattern) = Star
  IN /\ hasWildcard \/ Len(pattern) = Len(path)
     /\ \A i \in 1 .. star - 1 :
          i <= Len(path) /\ (pattern[i][1] = "lit" => Name(pattern[i]) = path[i])
Params(pattern, path) ==
  LET star == FirstStar(pattern)
      at(n) == {i \in 1 .. star - 1 : pattern[i] = Param(n)}
      names == {n \in {Name(pattern[i]) : i \in 1 .. star - 1} : at(n) # {}}
  IN [n \in names \cup {Name(pattern[i]) : i \in DOMAIN pattern \cap {star}} |->
        IF n = "*" THEN SubSeq(path, star, Len(path)) ELSE <<path[Max(at(n))]>>]

(* Route registration: every route joins dynamicRoutes in order; one without        *)
(* parameters is also stored under its exact path, where the last one wins.          *)
Route(method, pattern, slash) == [method |-> method, pattern |-> pattern, slash |-> slash]
Literals(pattern) == [i \in DOMAIN pattern |-> Name(pattern[i])]
Exact(routes, method, path) ==
  {i \in DOMAIN routes : /\ ~HasParams(routes[i].pattern) /\ routes[i].method = method
                         /\ Literals(routes[i].pattern) = path.segs
                         /\ routes[i].slash = path.slash}
(* Match: the first registered route of the method that matches.                     *)
Matching(routes, path) == {i \in DOMAIN routes : matchRoute(routes[i].pattern, path.segs)}
Match(routes, method, path) == {i \in Matching(routes, path) : routes[i].method = method}

(* Engine.ServeHTTP.                                                                 *)
ServeHTTP(routes, method, path) ==
  CASE Exact(routes, method, path) # {} ->
         [status |-> 200, route |-> Max(Exact(routes, method, path)), params |-> <<>>]
    [] Exact(routes, method, path) = {} /\ Match(routes, method, path) # {} ->
         LET i == Min(Match(routes, method, path)) IN
         [status |-> 200, route |-> i, params |-> Params(routes[i].pattern, path.segs)]
    [] OTHER -> [status |-> IF Matching(routes, path) # {} THEN 405 ELSE 404]

(* Router.URL: the pattern with its parameters replaced; a missing one is an error.   *)
URLError(pattern, params) ==
  \E i \in DOMAIN pattern : pattern[i][1] # "lit" /\ Name(pattern[i]) \notin DOMAIN params
URL(pattern, params) ==
  FlattenSeq([i \in DOMAIN pattern |->
    IF pattern[i][1] = "lit" THEN <<Name(pattern[i])>> ELSE params[Name(pattern[i])]])

(* What a match must mean: the path is a URL of the pattern.  Segs are the segments    *)
(* a path is made of, up to Longest of them.                                           *)
IsURLOf(pattern, path, Segs, Longest) ==
  LET names == {Name(pattern[i]) : i \in {j \in DOMAIN pattern : pattern[j][1] # "lit"}}
      values == UNION {[1 .. n -> Segs] : n \in 0 .. Longest}
  IN \E params \in [names -> values] :
       /\ \A n \in names \ {"*"} : Len(params[n]) = 1
       /\ URL(pattern, params) = path

(* The handler that runs is one whose URLs include the path, under its own method, and *)
(* the parameters it is given build that path again; an exact registration goes first  *)
(* and the last of two wins, otherwise the pattern registered first; 405 is answered    *)
(* exactly when only other methods have the path, 404 when no route has it.  When one    *)
(* pattern with parameters is registered again this does not say which of the two         *)
(* handlers it is: see RepeatsAreOverwritten.                                              *)
SameRoute(first, second) == first.method = second.method /\ first.pattern = second.pattern
DispatchSound(routes, method, path, Segs, Longest) ==
  LET out == ServeHTTP(routes, method, path)
      has == {i \in DOMAIN routes : IsURLOf(routes[i].pattern, path.segs, Segs, Longest)}
      own == {i \in has : routes[i].method = method}
      same == {i \in own : ~HasParams(routes[i].pattern) /\ routes[i].slash = path.slash}
  IN /\ out.status = IF own # {} THEN 200 ELSE IF has # {} THEN 405 ELSE 404
     /\ own # {} =>
          /\ IF same # {} THEN out.route = Max(same)
             ELSE out.route \in own /\ SameRoute(routes[out.route], routes[Min(own)])
          /\ out.route \in same \/ URL(routes[out.route].pattern, out.params) = path.segs

-----------------------------------------------------------------------------
(* The middleware.  A layer passes the request on, or answers it (with a status or an  *)
(* error) and does not; "wraps" also replaces the error of the inner layers by nil.    *)
TrailingSlashRedirect(path) == IF path.slash /\ path.segs # <<>> THEN "301" ELSE "pass"
RequireAuth(session) == CASE session = "none" -> "401"
                          [] session = "guest" -> "401"
                          [] session = "user" -> "pass"
Logger == "pass"
Stops(layer) == layer \notin {"pass", "wraps"}

(* Pipeline.Run: nexter(index) calls the layer at index with nexter(index + 1).        *)
Run(layers) ==
  LET nexter[index \in 1 .. Len(layers) + 1] ==
        IF index > Len(layers)
        THEN [trace |-> <<"handler">>, status |-> "200", err |-> FALSE]
        ELSE IF Stops(layers[index])
        THEN [trace |-> <<index>>, status |-> IF layers[index] = "error" THEN "200" ELSE layers[index],
              err |-> layers[index] = "error"]
        ELSE LET inner == nexter[index + 1] IN
             [trace |-> <<index>> \o inner.trace \o <<index>>, status |-> inner.status,
              err |-> inner.err /\ layers[index] # "wraps"]
  IN nexter[1]
(* RouteGroup: the group's layers come before the route's own.                          *)
GroupLayers(group, extra) == group \o extra

(* The layers are entered in the order of registration, group first, and left in the    *)
(* reverse order; the first layer that does not pass the request on is the last one      *)
(* entered and decides the status; the handler runs exactly when there is none.          *)
OnionSound(group, extra) ==
  LET layers == GroupLayers(group, extra)
      stop == {i \in DOMAIN layers : Stops(layers[i])}
      depth == IF stop = {} THEN Len(layers) ELSE Min(stop)
      down == [i \in 1 .. depth |-> i]
      out == Run(layers)
  IN /\ out.trace = IF stop = {} THEN down \o <<"handler">> \o Reverse(down)
                    ELSE down \o Tail(Reverse(down))
     /\ out.err = /\ stop # {} /\ layers[depth] = "error"
                  /\ \A i \in 1 .. depth : layers[i] # "wraps"
     /\ stop # {} /\ layers[depth] # "error" => out.status = layers[depth]

-----------------------------------------------------------------------------
(* What becomes of a request: the route that its path has, the layers it enters, the form  *)
(* it sends.  A behaviour is one request, of which one of the three is asked.               *)
(* Request validation, as operators.  A field is [kind, zero, text]; its text has a       *)
(* length and is in the classes its rules tell apart.  A rule is [name] with the number      *)
(* it takes, or the database's answer for IsUnique; a message is the name of its rule.        *)
EmptyText == [len |-> 0, classes |-> {"blank"}]

(* The value the rules see: the zero value of any kind but string is the empty string.         *)
Coerced(field) == IF field.zero /\ field.kind # "string" THEN EmptyText ELSE field.text

(* The built-in rules; Matches is a class of its own pattern.  IsUnique: the count of            *)
(* the rows that hold the value, "error" when the query fails, "none" when no row comes.           *)
Required(value) == "blank" \notin value.classes
IsNumeric(value) == "numeric" \in value.classes
IsEmail(value) == "email" \in value.classes
MinLength(value, n) == value.len >= n
MaxLength(value, n) == value.len <= n
IsUnique(safe, answer) == safe /\ answer # "error" /\ answer \notin {"one", "many"}
Passes(rule, value) ==
  CASE rule.name = "Required" -> Required(value)
    [] rule.name = "IsNumeric" -> IsNumeric(value)
    [] rule.name = "IsEmail" -> IsEmail(value)
    [] rule.name = "Matches" -> rule.class \in value.classes
    [] rule.name = "MinLength" -> MinLength(value, rule.n)
    [] rule.name = "MaxLength" -> MaxLength(value, rule.n)
    [] rule.name = "IsUnique" -> IsUnique(rule.safe, rule.answer)

(* Rules: the error map.  The first rule of a field that fails names its message.                  *)
Failing(rules, value) == {i \in DOMAIN rules : ~Passes(rules[i], value)}
Rules(src, set) ==
  LET fails(f) == IF f \notin DOMAIN src THEN {0} ELSE Failing(set[f], Coerced(src[f]))
      bad == {f \in DOMAIN set : fails(f) # {}}
  IN [f \in bad |-> IF f \notin DOMAIN src THEN "unrecognised" ELSE set[f][Min(fails(f))].name]

(* ValidateRequest: what it answers, and whether the handler runs and with validated data.          *)
ValidateRequest(decodes, body, isValidator, set) ==
  CASE ~decodes -> [status |-> 400, runs |-> FALSE]
    [] decodes /\ isValidator /\ Rules(body, set) # <<>> -> [status |-> 422, runs |-> FALSE]
    [] OTHER -> [status |-> 200, runs |-> TRUE]

(* The handler runs only on data that decoded and that breaks no rule of its set; a field is         *)
(* reported exactly when some rule of it fails, and under the message of the rule that comes            *)
(* first; adding a rule never takes a report away.                                                        *)
ValidationSound(decodes, body, set) ==
  LET out == ValidateRequest(decodes, body, TRUE, set)
      errors == Rules(body, set)
      broken(f) == \E i \in DOMAIN set[f] : ~Passes(set[f][i], Coerced(body[f]))
  IN /\ out.runs <=> decodes /\ \A f \in DOMAIN set : f \in DOMAIN body /\ ~broken(f)
     /\ \A f \in DOMAIN set \cap DOMAIN body :
          /\ f \in DOMAIN errors <=> broken(f)
          /\ f \in DOMAIN errors =>
               \E i \in DOMAIN set[f] : /\ set[f][i].name = errors[f]
                                        /\ ~Passes(set[f][i], Coerced(body[f]))
                                        /\ \A j \in 1 .. i - 1 : Passes(set[f][j], Coerced(body[f]))
          /\ \A n \in 0 .. Len(set[f]) :
               f \in DOMAIN Rules(body, [set EXCEPT ![f] = SubSeq(@, 1, n)]) => f \in DOMAIN errors

-----------------------------------------------------------------------------
CONSTANTS QMethods,  \* methods of routes and of requests
          QSegs,     \* the segments of a path, and the texts of a pattern
          QNames,    \* the names of parameters
          QLongest,  \* the longest path
          QPaths, QTables,  \* paths, and tables of routes
          QLayers,   \* layers of the middleware
          QStacks,   \* the layers of a group and those of a route of it
          QRules,    \* rules of validation
          QForms     \* what a body decodes to, and the rules of its fields

(* A pattern has each parameter once, and a star at most at its end: the code takes any      *)
(* other for what it can match of it, and two parameters of one name for one value.           *)
Patterns == {p \in Seq({Lit(s) : s \in QSegs} \cup {Param(n) : n \in QNames} \cup {Star}) :
               /\ \A i \in DOMAIN p : p[i] = Star => i = Len(p)
               /\ \A i, j \in DOMAIN p : p[i][1] = "param" /\ p[i] = p[j] => i = j}
ASSUME RequestsAssumption ==
  /\ QLongest \in Nat /\ "*" \notin QNames
  /\ \A path \in QPaths : path.segs \in Seq(QSegs) /\ Len(path.segs) <= QLongest
  /\ QTables \subseteq Seq([method : QMethods, pattern : Patterns, slash : BOOLEAN])
  /\ QStacks \subseteq [group : Seq(QLayers), extra : Seq(QLayers)]
  /\ \A form \in QForms : form.decodes \in BOOLEAN
  /\ \A form \in QForms : \A f \in DOMAIN form.set : form.set[f] \in Seq(QRules)

VARIABLE qAsked
Asks(kind) == qAsked.kind = kind

QInit == qAsked = [kind |-> "none"]
AskRoute == \E routes \in QTables, method \in QMethods, path \in QPaths :
              qAsked' = [kind |-> "route", routes |-> routes, method |-> method, path |-> path]
AskLayers == \E stack \in QStacks : qAsked' = [kind |-> "layers", stack |-> stack]
AskForm == \E form \in QForms : qAsked' = [kind |-> "form", form |-> form]
QNext == Asks("none") /\ (AskRoute \/ AskLayers \/ AskForm)
QSpec == QInit /\ [][QNext]_qAsked

-----------------------------------------------------------------------------
(* A request runs a handler whose pattern its path fits, through all of its layers, on      *)
(* data that broke no rule: else it is answered and no handler runs.                         *)
RequestsReachTheirHandlers ==
  /\ Asks("route") => DispatchSound(qAsked.routes, qAsked.method, qAsked.path, QSegs, QLongest)
  /\ Asks("layers") => OnionSound(qAsked.stack.group, qAsked.stack.extra)
  /\ Asks("form") => ValidationSound(qAsked.form.decodes, qAsked.form.body, qAsked.form.set)

(* router.go:82 warns of a route with parameters that is registered twice, "previous          *)
(* registration overwritten": the last registration of the route answers its requests.         *)
RepeatsAreOverwritten ==
  Asks("route") =>
    LET routes == qAsked.routes
        out == ServeHTTP(routes, qAsked.method, qAsked.path)
    IN out.status = 200 =>
         \A i \in DOMAIN routes : HasParams(routes[i].pattern) /\ routes[i] = routes[out.route]
                                   => i <= out.route
=============================================================================
