-------------------------------- MODULE Texts --------------------------------
(* What texts mean to the framework, as operators: the scheduler's cron expressions, the    *)
(* translator's texts and the locale of a request, the lines of a configuration.             *)
EXTENDS Naturals, Sequences, FiniteSets, SequencesExt, TLC

-----------------------------------------------------------------------------
(* A cron field is a record: kind "any" (an asterisk), "step" (n), "list" (items:           *)
(* <<"n", k>>, <<"range", low, high>> or <<"junk">>), "range" (low, high), "exact" (n) or    *)
(* "bad".  A list takes its numbers only; val%0 panics.                                       *)

(* matchField *)
matchField(field, val) ==
  CASE field.kind = "any" -> "yes"
    [] field.kind = "step" -> IF field.n = 0 THEN "panic" ELSE IF val % field.n = 0 THEN "yes" ELSE "no"
    [] field.kind = "list" -> IF \E i \in DOMAIN field.items : field.items[i] = <<"n", val>>
                              THEN "yes" ELSE "no"
    [] field.kind = "range" -> IF field.low <= val /\ val <= field.high THEN "yes" ELSE "no"
    [] field.kind = "exact" -> IF field.n = val THEN "yes" ELSE "no"
    [] field.kind = "bad" -> "no"

(* matchCron: five fields or never; the first that does not match decides, so a field         *)
(* that panics does so only when those before it match.                                        *)
matchCron(expr, time) ==
  LET decides == {i \in 1 .. 5 : matchField(expr[i], time[i]) # "yes"}
  IN IF Len(expr) # 5 THEN "no"
     ELSE IF decides = {} THEN "yes" ELSE matchField(expr[Min(decides)], time[Min(decides)])

(* What a field of a standard expression denotes: values of the unit, which goes from first    *)
(* to last.  A step begins at the first; a list is of numbers and of ranges.                      *)
Items(items) == UNION {CASE items[i][1] = "n" -> {items[i][2]}
                         [] items[i][1] = "range" -> items[i][2] .. items[i][3]
                         [] items[i][1] = "junk" -> {} : i \in DOMAIN items}
Denotes(field, first, last) ==
  CASE field.kind = "any" -> first .. last
    [] field.kind = "step" -> {first + k * field.n : k \in 0 .. last} \cap (first .. last)
    [] field.kind = "list" -> Items(field.items) \cap (first .. last)
    [] field.kind = "range" -> (field.low .. field.high) \cap (first .. last)
    [] field.kind = "exact" -> {field.n} \cap (first .. last)
    [] field.kind = "bad" -> {}

(* Of the day of the month and the weekday one is enough when both are restricted.                 *)
Restricted(field) == field.kind \notin {"any", "step"}
Standard(expr, units, time) ==
  LET denotes(i) == time[i] \in Denotes(expr[i], units[i][1], units[i][2])
  IN /\ denotes(1) /\ denotes(2) /\ denotes(4)
     /\ IF Restricted(expr[3]) /\ Restricted(expr[5]) THEN denotes(3) \/ denotes(5)
                                                      ELSE denotes(3) /\ denotes(5)

Times(units) == {<<a, b, c, d, e>> : a \in units[1][1] .. units[1][2], b \in units[2][1] .. units[2][2],
                                     c \in units[3][1] .. units[3][2], d \in units[4][1] .. units[4][2],
                                     e \in units[5][1] .. units[5][2]}
Zeroes(expr) == {i \in 1 .. 5 : expr[i].kind = "step" /\ expr[i].n = 0}

(* Where the two readings agree: steps in units that begin at zero, no range inside a list, and      *)
(* no more than one of the two kinds of days restricted.                                              *)
Plain(expr, units) ==
  /\ \A i \in 1 .. 5 : expr[i].kind = "step" => units[i][1] = 0
  /\ \A i \in 1 .. 5 : expr[i].kind = "list" =>
       \A k \in DOMAIN expr[i].items : expr[i].items[k][1] # "range"
  /\ ~(Restricted(expr[3]) /\ Restricted(expr[5]))

(* A plain expression fires at its standard times and at no others.  Whatever the expression, a tick    *)
(* panics in a step of zero alone, and only when the fields before it match.                             *)
CronSound(expr, units) ==
  \A time \in Times(units) :
    /\ Plain(expr, units) /\ Zeroes(expr) = {} =>
         (matchCron(expr, time) = "yes" <=> Standard(expr, units, time))
    /\ (matchCron(expr, time) = "panic" <=>
          Zeroes(expr) # {}
          /\ \A i \in 1 .. Min(Zeroes(expr)) - 1 : matchField(expr[i], time[i]) = "yes")

(* The whole of it, for every well-formed expression.                                                      *)
WellFormed(expr) == \A i \in 1 .. 5 : /\ expr[i].kind # "bad" /\ i \notin Zeroes(expr)
                                      /\ expr[i].kind = "list" => <<"junk">> \notin ToSet(expr[i].items)
CronStandard(expr, units) ==
  WellFormed(expr) =>
    \A time \in Times(units) : (matchCron(expr, time) = "yes" <=> Standard(expr, units, time))

-----------------------------------------------------------------------------
(* A dictionary maps locales to maps from keys to texts.  A text is a sequence of parts      *)
(* separated by pipes; a part is its guard and its tokens; a token is a word or the           *)
(* placeholder of a name, a sequence of letters.                                               *)
Word(w) == <<"word", w>>
Holder(name) == <<"holder", name>>

(* loadCore and loadCustom: the custom texts go over the core ones, locale by locale.            *)
loadCustom(core, custom) ==
  [l \in DOMAIN core \cup DOMAIN custom |->
     (IF l \in DOMAIN custom THEN custom[l] ELSE <<>>) @@ (IF l \in DOMAIN core THEN core[l] ELSE <<>>)]

(* Trans: the text of the locale, or of "en", or none, when the key itself is returned.            *)
\* Mutant of Lookup: a locale that lacks the key does not fall back.
LookupOwn(dict, locale, key) ==
  LET from == IF locale \in DOMAIN dict THEN locale ELSE "en" IN
  IF from \in DOMAIN dict /\ key \in DOMAIN dict[from] THEN <<dict[from][key]>> ELSE <<>>
Lookup(dict, locale, key) ==
  LET from == IF locale \in DOMAIN dict THEN locale ELSE "en" IN
  IF from \notin DOMAIN dict THEN <<>>
  ELSE IF key \in DOMAIN dict[from] THEN <<dict[from][key]>>
  ELSE IF locale # "en" /\ "en" \in DOMAIN dict /\ key \in DOMAIN dict["en"] THEN <<dict["en"][key]>>
  ELSE <<>>

(* strings.ReplaceAll(val, ":"+k, v): also the beginning of a longer name is replaced.               *)
ReplacePrefix(tokens, k, v) ==
  FlattenSeq([i \in DOMAIN tokens |->
    IF tokens[i][1] = "holder" /\ IsPrefix(k, tokens[i][2])
    THEN <<Word(v)>> \o (IF tokens[i][2] = k THEN <<>>
                         ELSE <<Word(SubSeq(tokens[i][2], Len(k) + 1, Len(tokens[i][2])))>>)
    ELSE <<tokens[i]>>])
(* The map is walked in any order: the outcomes.                                                      *)
Interpolated(tokens, replace) ==
  {FoldLeft(LAMBDA text, k : ReplacePrefix(text, k, replace[k]), tokens, order) :
     order \in SetToSeqs(DOMAIN replace)}

(* choosePlural: guards [kind: "none", "is" (n), "from" (low, high) or "bad"], high 99 for *.          *)
Admits(guard, count) ==
  CASE guard.kind = "is" -> guard.low = count
    [] guard.kind = "from" -> guard.low <= count /\ count <= guard.high
    [] guard.kind \in {"none", "bad"} -> FALSE
choosePlural(parts, count) ==
  LET admitting == {i \in DOMAIN parts : Admits(parts[i].guard, count)}
      guarded == \E i \in DOMAIN parts : parts[i].guard.kind # "none"
  IN CASE Len(parts) = 1 -> [part |-> 1, guardShown |-> parts[1].guard.kind # "none"]
       [] Len(parts) > 1 /\ ~guarded ->
            [part |-> IF count = 1 THEN 1 ELSE Len(parts), guardShown |-> FALSE]
       [] Len(parts) > 1 /\ guarded /\ admitting # {} -> [part |-> Min(admitting), guardShown |-> FALSE]
       [] Len(parts) > 1 /\ guarded /\ admitting = {} ->
            [part |-> Len(parts), guardShown |-> Last(parts).guard.kind # "none"]

-----------------------------------------------------------------------------
(* Context.Locale: the first source that has one, by priority; "en" without.  SetLocale goes              *)
(* over it for the request and into the session; the middleware fixes it for the request and              *)
(* answers a cookie for the query's.  Locale is never empty, so its default is never taken.                 *)
Sources == <<"context", "query", "session", "cookie", "accept">>
Locale(request) ==
  LET named == {i \in DOMAIN Sources : request[Sources[i]] # ""}
  IN IF named = {} THEN "en" ELSE request[Sources[Min(named)]]
SetLocale(request, locale) ==
  [request EXCEPT !.context = locale, !.session = IF request.hasSession THEN locale ELSE @]
TransiosMiddleware(request, defaultLocale) ==
  [request EXCEPT !.context = IF Locale(request) = "" THEN defaultLocale ELSE Locale(request),
                  !.answered = request.query]

(* Load, Get, GetOrDefault, GetInt, GetBool.  A line is [kind, key, value, hash]: whether it has a #         *)
(* after its value and a blank ("comment"), after a blank inside the quotes of its value ("inside"), or       *)
(* in its value with no blank before ("glued").  It ends at the first " #": the second value is cut and         *)
(* keeps its opening quote; the third is whole.                                                                  *)
LoadLine(values, line) ==
  IF line.kind \in {"blank", "comment", "no equals"} \/ line.key = "" THEN values
  ELSE line.key :> (CASE line.hash = "inside" -> "cut"
                      [] line.hash = "glued" -> "glued"
                      [] line.hash \in {"no", "comment"} -> line.value) @@ values
LoadConfig(values, lines) == FoldLeft(LoadLine, values, lines)
GetOrDefault(values, key, fallback) ==
  IF key \in DOMAIN values /\ values[key] # "" THEN values[key] ELSE fallback
GetBool(values, key, fallback) ==
  LET v == GetOrDefault(values, key, "") IN
  CASE v \in {"true", "1", "yes"} -> TRUE
    [] v \in {"false", "0", "no"} -> FALSE
    [] OTHER -> fallback
GetInt(values, key, fallback) ==
  LET v == GetOrDefault(values, key, "") IN
  IF v = "1" THEN 1 ELSE IF v = "0" THEN 0 ELSE fallback

-----------------------------------------------------------------------------
(* A key has the custom text of its locale, else the core one, else what "en" has, else none.               *)
TransSound(core, custom, locale, key) ==
  LET dict == loadCustom(core, custom)
      tiers == <<<<custom, locale>>, <<core, locale>>, <<custom, "en">>, <<core, "en">>>>
      has(t) == t[2] \in DOMAIN t[1] /\ key \in DOMAIN t[1][t[2]]
      first == {i \in DOMAIN tiers : has(tiers[i])}
  IN Lookup(dict, locale, key) =
       IF first = {} THEN <<>> ELSE <<tiers[Min(first)][1][tiers[Min(first)][2]][key]>>

(* Every placeholder that has a value gets it, whatever the order the map is walked in, when no              *)
(* name begins with another.                                                                                  *)
InterpolationSound(tokens, replace) ==
  (\A j, k \in DOMAIN replace \cup {tokens[i][2] : i \in {n \in DOMAIN tokens : tokens[n][1] = "holder"}} :
     IsPrefix(j, k) => j = k)
  => Interpolated(tokens, replace) =
       {[i \in DOMAIN tokens |-> IF tokens[i][1] = "holder" /\ tokens[i][2] \in DOMAIN replace
                                 THEN Word(replace[tokens[i][2]]) ELSE tokens[i]]}

(* The form that is shown is the first whose guard admits the count; without any guard, the first             *)
(* for one and the last otherwise; when no guard admits it, the last form with its guard.                       *)
PluralSound(parts, count) ==
  LET out == choosePlural(parts, count)
      admits(i) == Admits(parts[i].guard, count)
  IN /\ \A i \in DOMAIN parts : Len(parts) > 1 /\ admits(i) => admits(out.part) /\ out.part <= i
     /\ out.guardShown => parts[out.part].guard.kind # "none" /\ (Len(parts) = 1 \/ ~admits(out.part))
     /\ (\A i \in DOMAIN parts : parts[i].guard.kind = "none") =>
          out.part = IF count = 1 THEN 1 ELSE Len(parts)

(* A request that names a locale keeps it: a handler behind the middleware sees what the request               *)
(* asked for, in order of priority, until it sets another; the next request of its session sees that.            *)
Named(request) == {i \in DOMAIN Sources : request[Sources[i]] # ""}
LocaleSound(request, locale) ==
  LET inner == TransiosMiddleware(request, "fr")
      later == SetLocale(inner, locale)
      next == [request EXCEPT !.context = "", !.query = "", !.session = later.session]
  IN /\ Named(request) # {} =>
          \E i \in Named(request) : /\ Locale(inner) = request[Sources[i]]
                                    /\ \A j \in Named(request) : i <= j
     /\ Locale(later) = locale
     /\ request.hasSession => Locale(next) = locale

(* The last line of a key decides, when it has no # but that of a comment; a value the type does not take      *)
(* is the fallback.                                                                                               *)
ConfigSound(lines, key) ==
  LET values == LoadConfig(<<>>, lines)
      of == {i \in DOMAIN lines : lines[i].kind = "pair" /\ lines[i].key = key /\ key # ""}
      raw == GetOrDefault(values, key, "default")
      line == lines[Max(of)]
  IN /\ of = {} => raw = "default"
     /\ of # {} /\ line.hash \in {"no", "comment"} => raw = IF line.value = "" THEN "default" ELSE line.value
     /\ GetBool(values, key, TRUE) # GetBool(values, key, FALSE) <=>
          raw \notin {"true", "1", "yes", "false", "0", "no"}
     /\ GetInt(values, key, 7) = 7 <=> raw \notin {"0", "1"}
=============================================================================
