------------------------------ MODULE MCServices ------------------------------
(* The services side by side, a request, and the other pure algorithms: a behaviour is one  *)
(* of a service, or one request, or one probe of an algorithm.                              *)
EXTENDS Services, Requests, TLC

CONSTANT AChain         \* of MCAlgorithms
VARIABLE probe

Algorithms == INSTANCE MCAlgorithms

vars == <<servicesVars, qAsked, probe>>
Init == which \in ServiceNames \cup {"requests", "algorithms"} /\ AllBegin /\ QInit /\ Algorithms!AInit
ServiceStep == ServicesNext /\ UNCHANGED <<qAsked, probe>>
RequestStep == which = "requests" /\ QNext /\ UNCHANGED <<servicesVars, probe>>
AlgorithmsStep == which = "algorithms" /\ Algorithms!ANext /\ UNCHANGED <<servicesVars, qAsked>>
Next == ServiceStep \/ RequestStep \/ AlgorithmsStep
Spec == Init /\ [][Next]_vars

-----------------------------------------------------------------------------
(* The small instances.                                                              *)
MaxAttempts == [j \in RJobs |-> 2]
Needs == [key \in CKeys |-> IF key = "b" THEN <<"a">> ELSE <<>>]
Nests(phase, p) == [phase |-> phase, providers |-> <<p>>]
Providers == [p \in LProviders |-> CASE p = "p" -> Nests("Register", "n")
                                     [] p = "q" -> Nests("Boot", "m")
                                     [] OTHER -> [phase |-> "none", providers |-> <<>>]]
Typed == {[v |-> "x", type |-> "int"], [v |-> "x", type |-> "string"]}
Limit == "Throttle" :> 3 @@ "AuthThrottle" :> 2
Period == "Throttle" :> 1 @@ "AuthThrottle" :> 2
Config(store, middleware, signed, ids, provider) ==
  [store |-> store, middleware |-> middleware, signed |-> signed, ids |-> ids, provider |-> provider]
Configs == {Config("memory", "SessionMiddleware", FALSE, "int", "strict"),
            Config("redis", "SessionMiddleware", FALSE, "int", "lenient"),
            Config("db", "DBSessionMiddleware", TRUE, "int", "strict")}
Handlers == <<{"user", "login"}, {"login", "flash", "flashfunc"}, {"getflash", "logout", "regenerate"}>>

(* Routes of two segments or one and a star, on paths over two segments; layers; a body of  *)
(* one or two fields against rules of which some hold.                                       *)
Segs == {"a", "b"}
Segments == {Lit(s) : s \in Segs} \cup {Param(n) : n \in {"x", "y"}}
PatternSet == {p \in Algorithms!Upto(Segments, 2)
                      \cup {Append(q, Star) : q \in Algorithms!Upto(Segments, 1)} : p \in Patterns}
Paths == [segs : Algorithms!Upto(Segs, 2), slash : BOOLEAN] \ {[segs |-> <<>>, slash |-> TRUE]}
RoutesOf(methods) == {Route(m, p, FALSE) : m \in methods, p \in PatternSet}
Tables == {<<first, second>> : first \in RoutesOf({"GET"}), second \in RoutesOf({"GET", "POST"})}
Layers == {"pass", "wraps", "error", "301", "401"}
Stacks == UNION {{[group |-> SubSeq(layers, 1, n), extra |-> SubSeq(layers, n + 1, Len(layers))] :
                    n \in 0 .. Len(layers)} : layers \in Algorithms!Upto(Layers, 3)}
Texts == {[kind |-> "string", zero |-> FALSE, text |-> [len |-> 3, classes |-> {"email"}]],
          [kind |-> "string", zero |-> TRUE, text |-> [len |-> 0, classes |-> {"blank"}]],
          [kind |-> "int", zero |-> FALSE, text |-> [len |-> 1, classes |-> {"numeric"}]],
          [kind |-> "bool", zero |-> TRUE, text |-> [len |-> 5, classes |-> {}]]}
Unique(safe, answer) == [name |-> "IsUnique", safe |-> safe, answer |-> answer]
RuleSet == {[name |-> "Required"], [name |-> "IsNumeric"], [name |-> "IsEmail"],
            [name |-> "Matches", class |-> "email"], [name |-> "MinLength", n |-> 1],
            [name |-> "MaxLength", n |-> 1], Unique(TRUE, "error"), Unique(TRUE, "one"),
            Unique(TRUE, "zero"), Unique(FALSE, "zero")}
Bodies == {<<>>} \cup {"f" :> t : t \in Texts} \cup {"f" :> t @@ "g" :> u : t, u \in Texts}
Forms == {[decodes |-> decodes, body |-> body, set |-> "f" :> rules @@ "g" :> <<[name |-> "Required"]>>] :
            decodes \in BOOLEAN, body \in Bodies, rules \in Algorithms!Upto(RuleSet, 2)}

RelationsSound == Algorithms!RelationsSound
LookupsSound == Algorithms!LookupsSound
=============================================================================
