---------------------------- MODULE QueryBuilder ----------------------------
(* The statements of the database layer: those of the query builder and the active record,   *)
(* and those of the schema builder.                                                             *)
EXTENDS Integers, Sequences, FiniteSets, SequencesExt, Slices, TLC

-----------------------------------------------------------------------------
(* The query builder and the active record over it, as operators: the chain of       *)
(* calls that builds a statement, the statement, and what a database makes of it.     *)
(* Values are integers, NULL one that no column holds; a row maps columns to values;   *)
(* a table is a sequence of rows; a placeholder is the number of the binding it takes  *)
(* ($n) or 0 (?), which takes the next one.                                            *)
NULL == -1
Numbered(driver) == driver \in {"postgres", "cockroach", "cockroachdb"}
Placeholder(driver, n) == IF Numbered(driver) THEN n ELSE 0

(* QueryBuilder: withTrashed is stored and never read, the column list, the joins and   *)
(* the relations play no part here.                                                      *)
New(driver) == [driver |-> driver, where |-> <<>>, bindings |-> <<>>,
                orderBy |-> "none", limit |-> 0, offset |-> 0]

Filter(qb, or, col, op, vals) ==
  [qb EXCEPT !.where = Append(@, [or |-> or, col |-> col, op |-> op,
                                  marks |-> [k \in DOMAIN vals |->
                                     Placeholder(qb.driver, Len(qb.bindings) + k)]]),
             !.bindings = @ \o vals]
Where(qb, col, op, val) == Filter(qb, FALSE, col, op, <<val>>)
OrWhere(qb, col, op, val) == Filter(qb, qb.where # <<>>, col, op, <<val>>)
WhereNull(qb, col) == Filter(qb, FALSE, col, "is null", <<>>)
WhereNotNull(qb, col) == Filter(qb, FALSE, col, "is not null", <<>>)
WhereBetween(qb, col, low, high) == Filter(qb, FALSE, col, "between", <<low, high>>)
WhereLike(qb, col, pattern) == Filter(qb, FALSE, col, "like", <<pattern>>)
WhereIn(qb, col, vals) == IF vals = <<>> THEN Filter(qb, FALSE, col, "1 = 0", <<>>)
                          ELSE Filter(qb, FALSE, col, "in", vals)
OrderBy(qb, col) == [qb EXCEPT !.orderBy = col]
Limit(qb, n) == [qb EXCEPT !.limit = n]
Offset(qb, n) == [qb EXCEPT !.offset = n]

(* A chain: the calls one after another.                                                 *)
Apply(qb, call) ==
  CASE call.name = "Where" -> Where(qb, call.col, call.op, call.vals[1])
    [] call.name = "OrWhere" -> OrWhere(qb, call.col, call.op, call.vals[1])
    [] call.name = "WhereNull" -> WhereNull(qb, call.col)
    [] call.name = "WhereNotNull" -> WhereNotNull(qb, call.col)
    [] call.name = "WhereBetween" -> WhereBetween(qb, call.col, call.vals[1], call.vals[2])
    [] call.name = "WhereLike" -> WhereLike(qb, call.col, call.vals[1])
    [] call.name = "WhereIn" -> WhereIn(qb, call.col, call.vals)
Chain(driver, calls) ==
  LET built[n \in 0 .. Len(calls)] ==
        IF n = 0 THEN New(driver) ELSE Apply(built[n - 1], calls[n])
  IN built[Len(calls)]

(* The clauses whereSQL writes: the first one loses its OR.                               *)
whereSQL(qb) == [i \in DOMAIN qb.where |-> [qb.where[i] EXCEPT !.or = i > 1 /\ @]]

-----------------------------------------------------------------------------
(* The database.  A comparison with NULL is not true; AND binds tighter than OR.           *)
Holds(x, op, vals) ==
  CASE op = "is null" -> x = NULL
    [] op = "1 = 0" -> FALSE
    [] op = "is not null" -> x # NULL
    [] op \in {"=", "like"} -> x # NULL /\ vals[1] # NULL /\ x = vals[1]
    [] op = ">" -> x # NULL /\ vals[1] # NULL /\ x > vals[1]
    [] op = "between" -> x # NULL /\ vals[1] <= x /\ x <= vals[2]
    [] op = "in" -> x # NULL /\ x \in ToSet(vals)
Disjunction(conditions) ==   \* of the groups that begin at 1 and at every OR
  \/ conditions = <<>>
  \/ \E i \in DOMAIN conditions :
       /\ i = 1 \/ conditions[i].or
       /\ \A j \in i .. Len(conditions) :
            conditions[j].holds \/ \E k \in i + 1 .. j : conditions[k].or

(* The arguments the placeholders of the clauses take, after `before' ?s.                   *)
Marks(where) == FlattenSeq([i \in DOMAIN where |-> where[i].marks])
Taken(where, i, args, before) ==
  LET first == before + Len(Marks(SubSeq(where, 1, i - 1)))
  IN [k \in DOMAIN where[i].marks |->
        args[IF where[i].marks[k] = 0 THEN first + k ELSE where[i].marks[k]]]
Matches(where, args, before, row) ==
  Disjunction([i \in DOMAIN where |->
     [or |-> where[i].or,
      holds |-> Holds(row[where[i].col], where[i].op, Taken(where, i, args, before))]])
(* Every argument must be one a placeholder takes, or the statement is refused.             *)
Refused(marks, args) ==
  IF \E k \in DOMAIN marks : marks[k] # 0
  THEN ToSet(marks) # DOMAIN args
  ELSE Len(marks) # Len(args)

(* The rows of a table that the clauses find.                                               *)
Found(where, args, before, table) == {row \in ToSet(table) : Matches(where, args, before, row)}
Sorted(rows, col) == IF col = "none" THEN rows
                     ELSE SortSeq(rows, LAMBDA a, b : a[col] < b[col])
(* The rows a SELECT of the builder returns before its LIMIT and OFFSET.                     *)
Selected(qb, table) ==
  Sorted(Keep(table, Found(whereSQL(qb), qb.bindings, 0, table)), qb.orderBy)
Window(rows, limit, offset) ==
  SubSeq(rows, offset + 1, IF limit = 0 THEN Len(rows) ELSE Min({offset + limit, Len(rows)}))

-----------------------------------------------------------------------------
(* ToSQL and Get; First, whose LIMIT 1 knows no offset; Count; the aggregates.                 *)
Get(qb, table) == Window(Selected(qb, table), qb.limit, qb.offset)
First(qb, table) == Window(Selected(qb, table), 1, 0)
Count(qb, table) == Len(Selected(qb, table))
Values(qb, table, col) == SelectSeq([i \in DOMAIN Selected(qb, table) |-> Selected(qb, table)[i][col]],
                                    LAMBDA x : x # NULL)
SumOf(qb, table, col) == FoldLeft(LAMBDA sum, x : sum + x, 0, Values(qb, table, col))
MinOf(qb, table, col) == LET vals == ToSet(Values(qb, table, col)) IN
                         IF vals = {} THEN NULL ELSE Min(vals)
MaxOf(qb, table, col) == LET vals == ToSet(Values(qb, table, col)) IN
                         IF vals = {} THEN NULL ELSE Max(vals)

Paginate(qb, table, page, perPage) ==
  LET p == IF page < 1 THEN 1 ELSE page
      size == IF perPage < 1 THEN 15 ELSE perPage
      total == Count(qb, table)
      lastPage == IF total > 0 THEN (total + size - 1) \div size ELSE 1
  IN [rows |-> Window(Selected(qb, table), size, (p - 1) * size),
      total |-> total, page |-> p, perPage |-> size, lastPage |-> lastPage,
      hasNext |-> p < lastPage, hasPrev |-> p > 1]

(* UpdateModel: data is the columns in the order the map is walked.  The numbers of the         *)
(* SET start again at 1, and the bindings of the filters follow the data.                        *)
Assign(row, data) == [col \in DOMAIN row |->
                        IF \E i \in DOMAIN data : data[i].col = col
                        THEN data[CHOOSE i \in DOMAIN data : data[i].col = col].val
                        ELSE row[col]]
UpdateModel(qb, table, data) ==
  LET set == [i \in DOMAIN data |-> Placeholder(qb.driver, i)]
      args == [i \in DOMAIN data |-> data[i].val] \o qb.bindings
  IN IF data = <<>> THEN [err |-> FALSE, table |-> table]
     ELSE IF Refused(set \o Marks(qb.where), args) THEN [err |-> TRUE, table |-> table]
     ELSE [err |-> FALSE,
           table |-> [i \in DOMAIN table |->
              IF Matches(whereSQL(qb), args, Len(data), table[i])
              THEN Assign(table[i], data) ELSE table[i]]]

(* DeleteModel and InsertModel with the hooks of a model: "none", "ok" or "err" each; a            *)
(* statement may fail.  UpdateModel never looks at its model, so no hook runs there.                *)
Wrote(table, hooks) == [err |-> hooks.after = "err", table |-> table, after |-> hooks.after # "none"]
Left(table, err) == [err |-> err, table |-> table, after |-> FALSE]
DeleteModel(qb, table, hooks, fails) ==
  IF hooks.before = "err" \/ fails THEN Left(table, TRUE)
  ELSE Wrote(Keep(table, ToSet(table) \ Found(whereSQL(qb), qb.bindings, 0, table)), hooks)
InsertModel(table, row, hooks, fails) ==
  CASE row = <<>> -> Left(table, FALSE)
    [] row # <<>> /\ (hooks.before = "err" \/ fails) -> Left(table, TRUE)
    [] row # <<>> /\ hooks.before # "err" /\ ~fails -> Wrote(Append(table, row), hooks)

-----------------------------------------------------------------------------
(* The active record of a model with or without a DeletedAt field.                                *)
Scope(driver, soft) == IF soft THEN WhereNull(New(driver), "deleted_at") ELSE New(driver)
ById(qb, id) == Where(qb, "id", "=", id)
Find(driver, soft, table, id) == First(ById(Scope(driver, soft), id), table)
All(driver, soft, table) == Get(Scope(driver, soft), table)
UpdateRecord(driver, soft, table, id, data) == UpdateModel(ById(Scope(driver, soft), id), table, data)
DeleteRecord(driver, soft, table, id, now) ==
  IF soft THEN UpdateModel(ById(New(driver), id), table, <<[col |-> "deleted_at", val |-> now]>>)
  ELSE DeleteModel(ById(New(driver), id), table, [before |-> "none", after |-> "none"], FALSE)

-----------------------------------------------------------------------------
(* What the calls say: a row is meant when it satisfies every call from the first, or   *)
(* from some OrWhere, to the next OrWhere, each call with its own values.                *)
OpOf(call) == CASE call.name \in {"Where", "OrWhere"} -> call.op
                [] call.name = "WhereNull" -> "is null"
                [] call.name = "WhereNotNull" -> "is not null"
                [] call.name = "WhereBetween" -> "between"
                [] call.name = "WhereLike" -> "like"
                [] call.name = "WhereIn" -> "in"
Meant(calls, row) ==
  Disjunction([i \in DOMAIN calls |->
     [or |-> calls[i].name = "OrWhere",
      holds |-> Holds(row[calls[i].col], OpOf(calls[i]), calls[i].vals)]])

MeantOf(calls, table) == {row \in ToSet(table) : Meant(calls, row)}

(* A statement finds the rows its calls mean, on every driver, each placeholder the      *)
(* value of its own call; First is the first of them.                                    *)
SelectSound(driver, calls, table) ==
  LET qb == Chain(driver, calls)
      meant == Keep(table, MeantOf(calls, table))
  IN /\ ~Refused(Marks(whereSQL(qb)), qb.bindings)
     /\ Get(qb, table) = meant
     /\ First(qb, table) = SubSeq(meant, 1, Min({1, Len(meant)}))

(* The aggregates see the same rows, in a table in the order of its ids.                 *)
AggregatesSound(driver, calls, table) ==
  LET qb == Chain(driver, calls)
      meant == Keep(table, MeantOf(calls, table))
  IN /\ SumOf(qb, table, "id") = FoldLeft(LAMBDA sum, row : sum + row["id"], 0, meant)
     /\ MinOf(qb, table, "id") = IF meant = <<>> THEN NULL ELSE meant[1]["id"]
     /\ MaxOf(qb, table, "id") = IF meant = <<>> THEN NULL ELSE Last(meant)["id"]

(* The pages 1 .. lastPage together are the rows, in order, and none is empty unless all  *)
(* are; there is a next page exactly when a row follows, and a page out of range or of no   *)
(* size is the first one or one of 15.                                                      *)
PaginationSound(driver, calls, table, perPage) ==
  LET qb == OrderBy(Chain(driver, calls), "v")
      page(n) == Paginate(qb, table, n, perPage)
      last == page(1).lastPage
  IN /\ FlattenSeq([n \in 1 .. last |-> page(n).rows]) = Selected(qb, table)
     /\ last > 1 => page(last).rows # <<>>
     /\ \A n \in 0 .. last + 1 :
          /\ page(n).hasNext <=> page(Max({n, 1}) + 1).rows # <<>>
          /\ page(n).hasPrev <=> n > 1
          /\ page(n).total = Len(Selected(qb, table))

(* An update changes the rows its calls mean, in the columns of its data, and no other.      *)
(* On a driver that numbers its placeholders this fails: see UpdatesMeanTheirChain.           *)
UpdateSound(driver, calls, table, data) ==
  UpdateModel(Chain(driver, calls), table, data)
    = [err |-> FALSE,
       table |-> [i \in DOMAIN table |-> IF Meant(calls, table[i]) THEN Assign(table[i], data)
                                         ELSE table[i]]]

(* After a record is deleted no finder returns it; a soft deletion keeps its row, and both     *)
(* leave every other row alone.  Updating a soft-deleted record changes nothing.                *)
RecordSound(driver, soft, table, id) ==
  LET deleted == DeleteRecord(driver, soft, table, id, 9).table
      others(rows) == Keep(rows, {row \in ToSet(rows) : row["id"] # id})
      rename == <<[col |-> "v", val |-> 9]>>
  IN /\ Find(driver, soft, deleted, id) = <<>>
     /\ \A i \in DOMAIN All(driver, soft, deleted) : All(driver, soft, deleted)[i]["id"] # id
     /\ others(deleted) = others(table)
     /\ soft => Len(deleted) = Len(table)
     /\ UpdateRecord(driver, soft, deleted, id, rename).table = deleted

(* An insert or a delete writes nothing when the hook that runs first or the statement fails,      *)
(* and the hook that runs last runs only after the write; an error means that nothing was written,  *)
(* or that this hook failed.  Of an update nothing is said here: see SavesAreGuarded.                *)
HooksSound(driver, calls, table, row, hooks, fails) ==
  LET inserted == InsertModel(table, row, hooks, fails)
      deleted == DeleteModel(Chain(driver, calls), table, hooks, fails)
      more == table \o (IF row = <<>> THEN <<>> ELSE <<row>>)
      fewer == Keep(table, ToSet(table) \ MeantOf(calls, table))
  IN /\ hooks.before = "err" \/ fails => inserted.table = table /\ deleted.table = table
     /\ inserted.after => row # <<>> /\ inserted.table = more
     /\ deleted.after => deleted.table = fewer
     /\ inserted.err => inserted.table = table \/ (inserted.after /\ hooks.after = "err")
     /\ deleted.err => deleted.table = table \/ (deleted.after /\ hooks.after = "err")
     /\ ~inserted.err => inserted.table = more
     /\ ~deleted.err => deleted.table = fewer

-----------------------------------------------------------------------------
(* The schema builder and the differ, as operators.  A column is [name, kind, nullable,   *)
(* unique, default]; a table of the database maps the lower-cased names of its columns to     *)
(* their definitions; a field of a model is [tag, upper, kind, rel]: upper when its db tag      *)
(* is not in lower case.                                                                         *)
Postgres(driver) == driver \in {"postgres", "cockroach", "cockroachdb"}
SQLite(driver) == driver \in {"sqlite", "sqlite3"}

(* compileColumn: an id ignores its modifiers.                                                    *)
SQLType(driver, kind) ==
  CASE kind = "id" -> IF Postgres(driver) THEN "BIGSERIAL"
                      ELSE IF SQLite(driver) THEN "INTEGER" ELSE "BIGINT UNSIGNED"
    [] kind = "string" -> "VARCHAR(255)"
    [] kind = "integer" -> "INT"
    [] kind = "boolean" -> IF Postgres(driver) THEN "BOOLEAN" ELSE "TINYINT(1)"
    [] kind = "text" -> "TEXT"
    [] kind = "timestamp" -> IF Postgres(driver) THEN "TIMESTAMPTZ" ELSE "DATETIME"
compileColumn(driver, col) ==
  [type |-> SQLType(driver, col.kind), primary |-> col.kind = "id",
   null |-> col.kind # "id" /\ col.nullable,
   unique |-> col.kind # "id" /\ col.unique,
   default |-> IF col.kind = "id" THEN "none" ELSE col.default]
Timestamps == << [name |-> "created_at", kind |-> "timestamp", nullable |-> FALSE, unique |-> FALSE,
                  default |-> "none"],
                 [name |-> "updated_at", kind |-> "timestamp", nullable |-> TRUE, unique |-> FALSE,
                  default |-> "none"] >>
(* Builder.Create and Drop on the tables of a database: IF NOT EXISTS, IF EXISTS.                  *)
Compile(driver, columns) ==
  [n \in {columns[i].name : i \in DOMAIN columns} |->
     compileColumn(driver, columns[CHOOSE i \in DOMAIN columns : columns[i].name = n])]
Create(db, driver, table, columns) ==
  IF table \in DOMAIN db THEN db ELSE table :> Compile(driver, columns) @@ db
Drop(db, table) == [t \in DOMAIN db \ {table} |-> db[t]]

(* goTypeToSQL knows no driver; the types a database does not have make its statement fail.          *)
goTypeToSQL(kind) == CASE kind = "int" -> "BIGINT"
                       [] kind = "uint" -> "BIGINT UNSIGNED"
                       [] kind = "float" -> "DOUBLE"
                       [] kind = "bool" -> "TINYINT(1)"
                       [] OTHER -> "VARCHAR(255)"
Accepts(driver, type) == ~Postgres(driver) \/ type \in {"BIGINT", "VARCHAR(255)"}

(* Diff: fetchColumns lower-cases what the table has, the tag is compared as it is written.            *)
fetchColumns(db, table) == IF table \in DOMAIN db THEN DOMAIN db[table] ELSE {}
Persistent(field) == field.tag \notin {"", "-"} /\ ~field.rel
Diff(db, table, fields) ==
  LET missing == SelectSeq(fields, LAMBDA field :
                   Persistent(field) /\ (field.upper \/ field.tag \notin fetchColumns(db, table)))
  IN [i \in DOMAIN missing |-> [column |-> missing[i].tag, type |-> goTypeToSQL(missing[i].kind)]]
(* ApplyDiff stops at the first statement that fails: a table or type the database lacks, or a column   *)
(* it has, whatever its case.                                                                             *)
Alter(out, driver, table, stmt) ==
  IF out.err \/ table \notin DOMAIN out.db THEN [out EXCEPT !.err = TRUE]
  ELSE IF stmt.column \in DOMAIN out.db[table] \/ ~Accepts(driver, stmt.type)
  THEN [out EXCEPT !.err = TRUE]
  ELSE [out EXCEPT !.db[table] = stmt.column :> [type |-> stmt.type] @@ @]
ApplyDiff(db, driver, table, stmts) ==
  FoldLeft(LAMBDA out, stmt : Alter(out, driver, table, stmt), [err |-> FALSE, db |-> db], stmts)

-----------------------------------------------------------------------------
(* Creating a table twice is creating it once, dropping it undoes that, and the other tables stay.     *)
CreateSound(db, driver, table, columns) ==
  LET once == Create(db, driver, table, columns) IN
  /\ Create(once, driver, table, <<>>) = once
  /\ table \notin DOMAIN db => Drop(once, table) = db
  /\ \A t \in DOMAIN db : once[t] = db[t]

(* A diff that is applied settles: the model then has a column for every persistent field, the next      *)
(* diff is empty, and no column was lost or changed.  This holds for tags in lower case, each once, on      *)
(* types the driver accepts; of a tag in upper case every diff names its column again.                       *)
DiffSettles(db, driver, table, fields) ==
  LET applied == ApplyDiff(db, driver, table, Diff(db, table, fields))
      fit == \A i \in DOMAIN fields :
               /\ ~fields[i].upper /\ Accepts(driver, goTypeToSQL(fields[i].kind))
               /\ \A j \in DOMAIN fields : fields[i].tag = fields[j].tag => i = j
  IN /\ \A c \in DOMAIN db[table] : c \in DOMAIN applied.db[table] /\ applied.db[table][c] = db[table][c]
     /\ fit => ~applied.err
     /\ ~applied.err => \A i \in DOMAIN fields :
                          Persistent(fields[i]) => fields[i].tag \in fetchColumns(applied.db, table)
     /\ fit => Diff(applied.db, table, fields) = <<>>
=============================================================================
