----------------------------- MODULE Relations -----------------------------
(* Hydration and eager loading, as operators.  A database maps a table to the sequence *)
(* of its rows, a row maps columns to integers (NULL is one no key has), and its `scans'   *)
(* says what a key becomes that is scanned into an `any': "value", or "bytes" ([]byte), as  *)
(* MySQL's driver makes of every text; `schema' says                                         *)
(* for each table which relations its structs have: [rel, table, fk] and, for the two      *)
(* that go through another table, `via' and `farFK'.  A hydrated struct is its row; a       *)
(* relation that is loaded is one more field of it, and one that is left alone is none.      *)
EXTENDS Integers, Sequences, FiniteSets, SequencesExt, TLC

NULL == -1

(* Hydrate.  mapRowToStruct: a NULL column, a column without a field and a value the type     *)
(* of the field does not take leave the field as it was; a slice is appended to, a struct       *)
(* written over.  reads[kind][value] is what a field of a kind takes; fields maps a field to its kind.      *)
mapRowToStruct(row, fields, old, reads) ==
  [f \in DOMAIN fields |->
     IF f \in DOMAIN row /\ row[f] # NULL /\ reads[fields[f]][row[f]] # NULL
     THEN reads[fields[f]][row[f]] ELSE old[f]]
HydrateSlice(rows, fields, zero, dest, reads) ==
  dest \o [i \in DOMAIN rows |-> mapRowToStruct(rows[i], fields, zero, reads)]
HydrateStruct(rows, fields, dest, reads) ==
  IF rows = <<>> THEN [err |-> TRUE, dest |-> dest]
  ELSE [err |-> FALSE, dest |-> mapRowToStruct(rows[1], fields, dest, reads)]

(* findFieldIndexByTagName: a struct is a sequence of fields [tag, embedded]; the path to       *)
(* the first field with the tag, depth first, an embedded struct searched where it stands.        *)
RECURSIVE findFieldIndexByTagName(_, _)
findFieldIndexByTagName(struct, tag) ==
  LET path(i) == IF struct[i].tag = tag THEN <<i>>
                 ELSE LET sub == findFieldIndexByTagName(struct[i].embedded, tag) IN
                      IF sub = <<>> THEN <<>> ELSE <<i>> \o sub
      found == {i \in DOMAIN struct : path(i) # <<>>}
  IN IF found = {} THEN <<>> ELSE path(Min(found))

-----------------------------------------------------------------------------
(* The keys of the structs, each once, in order of appearance: the bindings of WHERE IN.            *)
Distinct(keys) == FoldLeft(LAMBDA seen, key : IF key \in ToSet(seen) THEN seen ELSE Append(seen, key),
                           <<>>, keys)
Keys(structs, col) == Distinct([i \in DOMAIN structs |-> structs[i][col]])
WhereIn(rows, col, keys) ==
  SelectSeq(rows, LAMBDA row : row[col] # NULL /\ row[col] \in ToSet(keys))
SetField(struct, name, value) == name :> value @@ struct

(* normalizeKey: what %v prints of a key, [97 98] of a []byte.  The fields of a struct are of      *)
(* the key's own type; the keys of a pivot or a through table are scanned into `any'.               *)
normalizeKey(form, key) == <<form, key>>
OfField(key) == normalizeKey("value", key)
OfPair(db, key) == normalizeKey(db.scans, key)

(* The loaders.  Each queries the rows the keys of all structs reach, loads the nested                *)
(* relations of what it found, and gives every struct its share.  Load is eagerLoadRelations.          *)
RECURSIVE Load(_, _, _, _, _)
loadHasOne(db, schema, structs, name, r, nested) ==
  LET children == Load(db, schema, r.table, WhereIn(db[r.table], r.fk, Keys(structs, "id")), nested)
      of(s) == SelectSeq(children, LAMBDA child : child[r.fk] = s["id"])
  IN [i \in DOMAIN structs |-> IF of(structs[i]) = <<>> THEN structs[i]
                               ELSE SetField(structs[i], name, <<of(structs[i])[1]>>)]
\* Mutant of loadHasMany: every struct gets what the query found for all of them.
loadHasManyForAll(db, schema, structs, name, r, nested) ==
  LET children == Load(db, schema, r.table, WhereIn(db[r.table], r.fk, Keys(structs, "id")), nested)
  IN [i \in DOMAIN structs |-> SetField(structs[i], name, children)]
loadHasMany(db, schema, structs, name, r, nested) ==
  LET children == Load(db, schema, r.table, WhereIn(db[r.table], r.fk, Keys(structs, "id")), nested)
  IN [i \in DOMAIN structs |->
        SetField(structs[i], name,
                 SelectSeq(children, LAMBDA child : child[r.fk] = structs[i]["id"]))]
loadBelongsTo(db, schema, structs, name, r, nested) ==
  LET keys == SelectSeq(Keys(structs, r.fk), LAMBDA key : key # 0)
      owners == Load(db, schema, r.table, WhereIn(db[r.table], "id", keys), nested)
      of(s) == SelectSeq(owners, LAMBDA owner : owner["id"] = s[r.fk])
  IN IF keys = <<>> THEN structs
     ELSE [i \in DOMAIN structs |-> IF of(structs[i]) = <<>> THEN structs[i]
                                    ELSE SetField(structs[i], name, <<Last(of(structs[i]))>>)]
loadManyToMany(db, schema, structs, name, r, nested) ==
  LET pairs == WhereIn(db[r.via], r.fk, Keys(structs, "id"))
      children == Load(db, schema, r.table, WhereIn(db[r.table], "id", Keys(pairs, r.farFK)), nested)
      of(pair) == LET rows == SelectSeq(children, LAMBDA child :
                                          OfField(child["id"]) = OfPair(db, pair[r.farFK])) IN
                  IF rows = <<>> THEN <<>> ELSE <<Last(rows)>>
      own(s) == SelectSeq(pairs, LAMBDA pair : OfPair(db, pair[r.fk]) = OfField(s["id"]))
  IN IF pairs = <<>> THEN structs
     ELSE [i \in DOMAIN structs |->
             SetField(structs[i], name,
               FlattenSeq([k \in DOMAIN own(structs[i]) |-> of(own(structs[i])[k])]))]
loadHasManyThrough(db, schema, structs, name, r, nested) ==
  LET pairs == WhereIn(db[r.via], r.fk, Keys(structs, "id"))
      children == Load(db, schema, r.table, WhereIn(db[r.table], r.farFK, Keys(pairs, "id")), nested)
      of(pair) == SelectSeq(children, LAMBDA child : OfField(child[r.farFK]) = OfPair(db, pair["id"]))
      own(s) == SelectSeq(pairs, LAMBDA pair : OfPair(db, pair[r.fk]) = OfField(s["id"]))
  IN IF pairs = <<>> THEN structs
     ELSE [i \in DOMAIN structs |->
             SetField(structs[i], name,
               FlattenSeq([k \in DOMAIN own(structs[i]) |-> of(own(structs[i])[k])]))]

(* eagerLoadRelationForSlice: by the `rel' tag of the field.                                           *)
LoadOne(db, schema, table, structs, name, nested) ==
  LET r == schema[table][name] IN
  CASE r.rel = "has_one" -> loadHasOne(db, schema, structs, name, r, nested)
    [] r.rel = "has_many" -> loadHasMany(db, schema, structs, name, r, nested)
    [] r.rel = "belongs_to" -> loadBelongsTo(db, schema, structs, name, r, nested)
    [] r.rel = "many_to_many" -> loadManyToMany(db, schema, structs, name, r, nested)
    [] r.rel = "has_many_through" -> loadHasManyThrough(db, schema, structs, name, r, nested)

(* eagerLoadRelations and recursiveEagerLoad: the paths are grouped by their first name, and          *)
(* the rest of each is loaded on what that relation finds.  No struct, nothing to do.                   *)
Tops(paths) == {paths[i][1] : i \in DOMAIN paths}
Nested(paths, top) ==
  LET under == SelectSeq(paths, LAMBDA path : path[1] = top /\ Len(path) > 1)
  IN [i \in DOMAIN under |-> Tail(under[i])]
Load(db, schema, table, structs, paths) ==
  IF structs = <<>> THEN structs
  ELSE FoldLeft(LAMBDA loaded, top : LoadOne(db, schema, table, loaded, top, Nested(paths, top)),
                structs, SetToSeq(Tops(paths)))

(* Get with relations, into a slice or a struct: reflect's Len, asked of every destination           *)
(* before its kind is looked at, panics on a struct that was read.                                     *)
Get(db, schema, table, kind, rows, paths) ==
  [panics |-> kind = "struct" /\ rows # <<>>, structs |-> Load(db, schema, table, rows, paths)]

-----------------------------------------------------------------------------
(* The relations by their meaning: for one row at a time, the rows it is joined with.                   *)
RECURSIVE Joined(_, _, _, _, _)
Related(db, r, row) ==
  CASE r.rel \in {"has_one", "has_many"} ->
         SelectSeq(db[r.table], LAMBDA child : child[r.fk] = row["id"])
    [] r.rel = "belongs_to" -> SelectSeq(db[r.table], LAMBDA owner : owner["id"] = row[r.fk])
    [] r.rel \in {"many_to_many", "has_many_through"} ->
         FlattenSeq([k \in DOMAIN db[r.via] |->
           IF db[r.via][k][r.fk] # row["id"] THEN <<>>
           ELSE SelectSeq(db[r.table], LAMBDA child :
                  IF r.rel = "many_to_many" THEN child["id"] = db[r.via][k][r.farFK]
                  ELSE child[r.farFK] = db[r.via][k]["id"])])
Joined(db, schema, table, row, paths) ==
  row @@ [top \in Tops(paths) |->
    LET r == schema[table][top]
        rows == Related(db, r, row)
        some == IF r.rel = "has_one" THEN SubSeq(rows, 1, Min({1, Len(rows)})) ELSE rows
    IN [k \in DOMAIN some |-> Joined(db, schema, r.table, some[k], Nested(paths, top))]]

(* A relation no row is joined with may be left out of the struct.                                        *)
RECURSIVE SameStruct(_, _, _, _)
SameStruct(schema, table, struct, joined) ==
  \A f \in DOMAIN joined :
    IF f \notin DOMAIN schema[table] THEN struct[f] = joined[f]
    ELSE IF f \notin DOMAIN struct THEN joined[f] = <<>>
    ELSE /\ Len(struct[f]) = Len(joined[f])
         /\ \A k \in DOMAIN joined[f] :
              SameStruct(schema, schema[table][f].table, struct[f][k], joined[f][k])

Gets(db, schema, table, kind, paths) ==
  LET rows == IF kind = "slice" THEN db[table] ELSE SubSeq(db[table], 1, Min({1, Len(db[table])}))
      out == Get(db, schema, table, kind, rows, paths)
  IN /\ ~out.panics /\ Len(out.structs) = Len(rows)
     /\ \A i \in DOMAIN rows :
          SameStruct(schema, table, out.structs[i], Joined(db, schema, table, rows[i], paths))

(* Every struct of a slice gets the rows its own keys join, nested relations included, in the order      *)
(* of the tables, whatever the other structs of the batch are: no row is lost, moved or given twice.       *)
(* Where keys are scanned as []byte this is said of the relations that go through no other table only.     *)
RECURSIVE Direct(_, _, _)
Direct(schema, table, path) ==
  \/ path = <<>>
  \/ LET r == schema[table][path[1]] IN
     r.rel \notin {"many_to_many", "has_many_through"} /\ Direct(schema, r.table, Tail(path))
EagerLoadingSound(db, schema, table, paths) ==
  Gets(db, schema, table, "slice",
       SelectSeq(paths, LAMBDA path : db.scans = "value" \/ Direct(schema, table, path)))

(* A slice keeps what it held and gets one struct per row, read as a fresh struct would be; a         *)
(* struct that is written over keeps only the fields no column of the row fills.                          *)
HydrationSound(rows, fields, zero, dest, reads) ==
  LET slice == HydrateSlice(rows, fields, zero, dest, reads)
      fresh == HydrateStruct(rows, fields, zero, reads)
      again == HydrateStruct(rows, fields, fresh.dest, reads)
  IN /\ Len(slice) = Len(dest) + Len(rows) /\ SubSeq(slice, 1, Len(dest)) = dest
     /\ fresh.err <=> rows = <<>>
     /\ again = fresh
     /\ rows # <<>> =>
          /\ fresh.dest = slice[Len(dest) + 1]
          /\ \A f \in DOMAIN fields : fresh.dest[f] # zero[f] => f \in DOMAIN rows[1]

(* The path leads to a field with the tag, and there is none before it.                                       *)
RECURSIVE Flat(_)
Flat(struct) == FlattenSeq([i \in DOMAIN struct |-> <<struct[i].tag>> \o Flat(struct[i].embedded)])
RECURSIVE Passed(_, _)
Passed(struct, path) ==   \* how many fields a walk sees up to and including the one at path
  IF path = <<>> THEN 0
  ELSE LET i == path[1] IN
       Len(Flat(SubSeq(struct, 1, i - 1))) + 1 + Passed(struct[i].embedded, Tail(path))
FieldSearchSound(struct, tag) ==
  LET path == findFieldIndexByTagName(struct, tag)
      tags == Flat(struct)
      at == {i \in DOMAIN tags : tags[i] = tag}
  IN IF at = {} THEN path = <<>> ELSE path # <<>> /\ Passed(struct, path) = Min(at)
=============================================================================
