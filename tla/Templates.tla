------------------------------ MODULE Templates ------------------------------
(* The component compiler, as operators: layouts and includes, the Go statements a           *)
(* template becomes, and what they write.  A template is a sequence of tokens: text, "{{",       *)
(* "}}", an expression inside them, and the directives; a value is a str, int, bool (v, n, b),     *)
(* list (items) or map (fields), as `is' says; a field path is a sequence of names.                  *)
EXTENDS Integers, Sequences, FiniteSets, SequencesExt, TLC

Str(s) == [is |-> "str", v |-> s]
Nothing == Str("")
Text(s) == [t |-> "text", s |-> s]
Open == [t |-> "open"]
Close == [t |-> "close"]
Expr(path, filters) == [t |-> "expr", path |-> path, filters |-> filters]
IfDir(path) == [t |-> "if", path |-> path]
ElseIfDir(path) == [t |-> "elseif", path |-> path]
ForEach(list, var) == [t |-> "foreach", list |-> list, var |-> var]
Else == [t |-> "else"]
EndIf == [t |-> "endif"]
EndForEach == [t |-> "endforeach"]
Include(file) == [t |-> "include", file |-> file]
Extends(file) == [t |-> "extends", file |-> file]
Section(name, body) == [t |-> "section", name |-> name, body |-> body]
Yield(name) == [t |-> "yield", name |-> name]

(* preprocessLayouts: includes once, not inside what they bring in; a layout gets the last          *)
(* section of each name at its yields, and what is outside the sections goes.  Without the           *)
(* layout's file compileHTML takes the template as it was, its includes unresolved.                    *)
Substituted(doc, new) == FlattenSeq([i \in DOMAIN doc |-> new[doc[i]]])
preprocessLayouts(files, doc) ==
  LET included == Substituted(doc, [tok \in ToSet(doc) |->
                    IF tok.t # "include" THEN <<tok>>
                    ELSE IF tok.file \in DOMAIN files THEN files[tok.file] ELSE <<Text("not found")>>])
      layouts == SelectSeq(included, LAMBDA tok : tok.t = "extends")
      bodies(name) == SelectSeq(included, LAMBDA tok : tok.t = "section" /\ tok.name = name)
  IN IF layouts = <<>> THEN included
     ELSE IF layouts[1].file \notin DOMAIN files THEN doc
     ELSE Substituted(files[layouts[1].file], [tok \in ToSet(files[layouts[1].file]) |->
            IF tok.t # "yield" THEN <<tok>>
            ELSE IF bodies(tok.name) = <<>> THEN <<>> ELSE Last(bodies(tok.name)).body])

(* compileTextSegment: between two directives.  What follows a "{{" up to the next one must hold        *)
(* a "}}" or is dropped, and what follows a second "}}" is.                                               *)
Cut(seq, t) == LET at == {i \in DOMAIN seq : seq[i].t = t} IN IF at = {} THEN Len(seq) + 1 ELSE Min(at)
Echo(tok) == [go |-> "echo", path |-> tok.path, filters |-> tok.filters]
Write(seq) == [i \in DOMAIN seq |-> [go |-> "write", s |-> seq[i].s]]
RECURSIVE compileTextSegment(_)
compileTextSegment(seg) ==
  LET open == Cut(seg, "open")
      later == SubSeq(seg, open + 1, Len(seg))
      part == SubSeq(later, 1, Cut(later, "open") - 1)
      close == Cut(part, "close")
      rest == SubSeq(part, close + 1, Len(part))
  IN Write(SubSeq(seg, 1, open - 1))
     \o (IF close > Len(part) THEN <<>>
         ELSE <<Echo(part[1])>> \o Write(SubSeq(rest, 1, Cut(rest, "close") - 1)))
     \o (IF open > Len(seg) THEN <<>> ELSE compileTextSegment(SubSeq(later, Len(part) + 1, Len(later))))

(* compileDirective: both endings are one brace, whatever they close.                                       *)
compileDirective(tok) ==
  CASE tok.t = "if" -> [go |-> "if", path |-> tok.path]
    [] tok.t = "elseif" -> [go |-> "else", path |-> tok.path]
    [] tok.t = "else" -> [go |-> "else", path |-> <<"true">>]
    [] tok.t = "foreach" -> [go |-> "for", list |-> tok.list, var |-> tok.var]
    [] tok.t \in {"endif", "endforeach"} -> [go |-> "end"]
IsText(tok) == tok.t \in {"text", "open", "close", "expr"}
RECURSIVE compileHTML(_)
compileHTML(doc) ==
  LET dirs == {i \in DOMAIN doc : ~IsText(doc[i])}
      next == IF dirs = {} THEN Len(doc) + 1 ELSE Min(dirs)
  IN compileTextSegment(SubSeq(doc, 1, next - 1))
     \o (IF dirs = {} THEN <<>>
         ELSE <<compileDirective(doc[next])>> \o compileHTML(SubSeq(doc, next + 1, Len(doc))))

-----------------------------------------------------------------------------
(* Evaluate, EvaluateBool and EvaluateSlice on a value, by a path.                                             *)
evaluateSingle(value, name) ==
  IF value.is = "map" /\ name \in DOMAIN value.fields THEN <<value.fields[name]>> ELSE <<>>
Evaluate(data, path) ==
  LET at == FoldLeft(LAMBDA found, name : IF found = <<>> THEN <<>> ELSE evaluateSingle(found[1], name),
                     <<data>>, path)
  IN IF at = <<>> THEN Nothing ELSE at[1]
EvaluateBool(data, path) ==
  LET x == Evaluate(data, path) IN
  CASE x.is = "bool" -> x.b
    [] x.is = "str" -> x.v \notin {"", "false", "0"}
    [] x.is = "int" -> x.n # 0
    [] x.is = "list" -> x.items # <<>>
    [] x.is = "map" -> DOMAIN x.fields # {}
EvaluateSlice(data, path) ==
  LET x == Evaluate(data, path) IN IF x.is = "list" THEN x.items ELSE <<>>
(* A filter that is not registered leaves the value; a chain goes from left to right.                            *)
ApplyFilter(value, filter, known) == IF filter \in known THEN [is |-> "filtered", by |-> filter, of |-> value] ELSE value
FilterChain(value, filters, known) == FoldLeft(LAMBDA v, f : ApplyFilter(v, f, known), value, filters)
(* Inside a loop the data is the element and the data outside, under its own name.                                 *)
Inner(data, var, item) == [is |-> "map", fields |-> "$parent" :> data @@ var :> item]

(* The Go statements run: a block ends at its brace, an if has the arms its elses begin.                           *)
Depth(code, i) == Cardinality({j \in 1 .. i : code[j].go \in {"if", "for"}})
                  - Cardinality({j \in 1 .. i : code[j].go = "end"})
EndOf(code) == LET ends == {i \in DOMAIN code : Depth(code, i) = 0} IN
               IF ends = {} THEN Len(code) + 1 ELSE Min(ends)
True(data, path) == path = <<"true">> \/ EvaluateBool(data, path)
RECURSIVE Exec(_, _, _)
Exec(code, data, known) ==
  IF code = <<>> THEN <<>>
  ELSE LET end == EndOf(code)
           first == code[1]
           block == SubSeq(code, 2, end - 1)
           after == Exec(SubSeq(code, end + 1, Len(code)), data, known)
           cuts == {0, Len(block) + 1}
                     \cup {i \in DOMAIN block : block[i].go = "else" /\ Depth(block, i) = 0}
           arm(from) == SubSeq(block, from + 1, Min({i \in cuts : i > from}) - 1)
           taken == {i \in cuts \ {Len(block) + 1} :
                       True(data, IF i = 0 THEN first.path ELSE block[i].path)}
       IN CASE first.go = "write" -> <<Str(first.s)>> \o Exec(Tail(code), data, known)
            [] first.go = "echo" -> <<FilterChain(Evaluate(data, first.path), first.filters, known)>>
                                      \o Exec(Tail(code), data, known)
            [] first.go = "for" ->
                 LET items == EvaluateSlice(data, first.list) IN
                 FlattenSeq([i \in DOMAIN items |-> Exec(block, Inner(data, first.var, items[i]), known)])
                   \o after
            [] first.go = "if" -> (IF taken = {} THEN <<>> ELSE Exec(arm(Min(taken)), data, known)) \o after

-----------------------------------------------------------------------------
(* A template by its meaning is a tree: text, an echo, a choice of arms or a loop.                                  *)
RECURSIVE Source(_)
Source(tree) ==
  FlattenSeq([i \in DOMAIN tree |->
    LET node == tree[i] IN
    CASE node.t = "text" -> <<node>>
      [] node.t = "expr" -> <<Open, node, Close>>
      [] node.t = "choice" -> <<IfDir(node.path)>> \o Source(node.then)
                                \o <<ElseIfDir(node.or)>> \o Source(node.orThen)
                                \o <<Else>> \o Source(node.else) \o <<EndIf>>
      [] node.t = "loop" -> <<ForEach(node.list, node.var)>> \o Source(node.body) \o <<EndForEach>>])
RECURSIVE Meaning(_, _, _)
Meaning(tree, data, known) ==
  FlattenSeq([i \in DOMAIN tree |->
    LET node == tree[i] IN
    CASE node.t = "text" -> <<Str(node.s)>>
      [] node.t = "expr" -> <<FilterChain(Evaluate(data, node.path), node.filters, known)>>
      [] node.t = "choice" -> Meaning(IF EvaluateBool(data, node.path) THEN node.then
                                      ELSE IF EvaluateBool(data, node.or) THEN node.orThen ELSE node.else,
                                      data, known)
      [] node.t = "loop" ->
           LET items == EvaluateSlice(data, node.list) IN
           FlattenSeq([k \in DOMAIN items |->
             Meaning(node.body, [is |-> "map", fields |-> [n \in {"$parent", node.var} |->
                                   IF n = node.var THEN items[k] ELSE data]], known)])])

(* The statements a template compiles to write what its tree means, whatever the nesting, on any               *)
(* data; a field that is missing writes nothing.                                                                *)
RenderSound(tree, data, known) == Exec(compileHTML(Source(tree)), data, known) = Meaning(tree, data, known)

(* With the layout's file there, what is left of a template that extends it is the layout with the                *)
(* bodies of the sections at its yields: no yield or section of the template's own, and each body as                *)
(* often as the layout yields it.  Without it, and without "extends", nothing of the template is lost.                *)
LayoutSound(files, doc) ==
  LET out == preprocessLayouts(files, doc)
      count(seq, t, name) == Cardinality({i \in DOMAIN seq : seq[i].t = t /\ seq[i].name = name})
      names == {doc[i].name : i \in {j \in DOMAIN doc : doc[j].t = "section"}}
      extended == {i \in DOMAIN doc : doc[i].t = "extends"}
  IN IF extended = {} \/ doc[Min(extended)].file \notin DOMAIN files
     THEN \A i \in DOMAIN doc : doc[i].t # "include" => doc[i] \in ToSet(out)
     ELSE LET layout == files[doc[Min(extended)].file]
              body(name) == SelectSeq(doc, LAMBDA tok : tok.t = "section" /\ tok.name = name)
              yields(name) == count(layout, "yield", name)
              kept == Cardinality({i \in DOMAIN layout : layout[i].t # "yield"})
          IN Len(out) = kept + MapThenFoldSet(+, 0, LAMBDA name : yields(name) * Len(Last(body(name)).body),
                                              LAMBDA S : CHOOSE x \in S : TRUE, names)
=============================================================================
