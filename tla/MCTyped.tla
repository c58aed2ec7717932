------------------------------ MODULE MCTyped ------------------------------
(***************************************************************************)
(* Programs for the type checker.  For its expressions and statements: a   *)
(* function over a value of every kind of type.  For its declarations: a   *)
(* class A with bases of its own, over a class B and an interface I.       *)
(***************************************************************************)
EXTENDS MCPrograms

Ref(name) == [name |-> name, args |-> <<>>, dims |-> 0, opt |-> FALSE]
Opt(r) == [r EXCEPT !.opt = TRUE]
ArrayRef(r) == [r EXCEPT !.dims = 1]
Field(name, r) == [is |-> "field", name |-> name, type |-> <<r>>, static |-> FALSE, init |-> <<>>]
Fn(name, names, types, ret, body) ==
    [is |-> "function", name |-> name, tps |-> <<>>, params |-> names, types |-> types,
     defaults |-> [i \in DOMAIN names |-> <<>>], ret |-> ret, how |-> "block", body |-> body,
     static |-> FALSE, async |-> FALSE, extension |-> FALSE, abstract |-> FALSE,
     virtual |-> FALSE, override |-> FALSE]
Method(name, names, types, ret, body) == [Fn(name, names, types, ret, body) EXCEPT !.is = "method"]
Class(name, bases, members) ==
    [is |-> "class", name |-> name, tps |-> <<>>, bases |-> bases, constraints |-> <<>>,
     abstract |-> FALSE, members |-> members]

\* The built-in function print, and no built-in types.
StdTypes == [n \in {} |-> 0]
StdFunctions == "print" :> [name |-> "print", params |-> <<>>, ret |-> <<"void">>, tps |-> <<>>, static |-> FALSE]

IntRef == Ref("int")
Items0 ==
    <<Class("C", <<>>, <<Field("id", IntRef), Field("next", Opt(Ref("C"))),
                         Method("Dispose", <<>>, <<>>, Ref("void"), <<>>)>>),
      Class("D", <<"C">>, <<Field("name", Ref("string"))>>),
      Fn("F", <<"x">>, <<IntRef>>, IntRef, <<Return0(Bin("Add", Id("x"), N(1)))>>)>>

\* The variables of the function, with their types and values in two worlds.
Vars ==
    << <<"a", IntRef, Num(1), Num(0)>>, <<"q", Opt(IntRef), Null, Num(4)>>,
       <<"d", Ref("double"), <<"float", 2>>, Num(3)>>,
       <<"s", Ref("string"), Str("s"), Str("")>>, <<"b", Ref("bool"), Bool(TRUE), Bool(FALSE)>>,
       <<"o", Ref("C"), <<"ref", 1>>, <<"ref", 2>> >>, <<"p", Opt(Ref("C")), Null, <<"ref", 1>> >>,
       <<"e", Ref("D"), <<"ref", 2>>, <<"ref", 2>> >>, <<"xs", ArrayRef(IntRef), <<"ref", 3>>, <<"ref", 3>> >>,
       <<"y", Ref("dyn"), Num(3), Str("y")>> >>
NameOf == [i \in DOMAIN Vars |-> Vars[i][1]]
TypesOf == [i \in DOMAIN Vars |-> Vars[i][2]]
Heap0 ==
    << <<"object", "id" :> Num(1) @@ "next" :> Null>>,
       <<"object", "id" :> Num(2) @@ "next" :> <<"ref", 1>> @@ "name" :> Str("n")>>,
       <<"array", <<Num(5), Num(6)>> >> >>
\* A world for Meaning: the second value of a variable is taken in the second.
World(k) ==
    [env |-> [i \in DOMAIN Vars |-> [name |-> Vars[i][1], at |-> 3 + i, captured |-> FALSE, owned |-> FALSE]],
     heap |-> Heap0 \o [i \in DOMAIN Vars |-> Vars[i][2 + k]],
     globals |-> "F" :> <<"fn", [params |-> <<"x">>, body |-> Items0[3].body], <<>> >>,
     out |-> <<>>, notes |-> {}, fuel |-> 12]

TypedDecl(kind, r, x, e) ==
    [is |-> "decl", name |-> x, e |-> e, owned |-> FALSE, kind |-> kind, type |-> r, bare |-> FALSE]
VarDecl(x, e) == TypedDecl("var", <<>>, x, e)
LamOf(names, types, e) ==
    [is |-> "lambda", params |-> names, types |-> types, arrow |-> TRUE, body |-> <<Return0(e)>>]
CallT(f, args) == [is |-> "call", to |-> f, args |-> args, targs |-> <<>>]
NewOf(r, init) == [is |-> "new", type |-> r, args |-> <<>>, init |-> init]
Foreach(x, e, b) == [is |-> "foreach", var |-> x, index |-> "", in |-> e, body |-> b]

TAtoms == {Id(NameOf[i]) : i \in DOMAIN Vars} \cup {N(1), Lit(Null), Lit(<<"float", 2>>), Lit(Str("t"))}
Fewer == {Id("a"), Id("q"), Id("d"), Id("s"), Id("o"), Id("p"), Lit(Null)}
Tern(c, l, r) == [is |-> "ternary", cond |-> c, then |-> l, else |-> r]
Both(x, y) ==
    {Bin(op, x, y) : op \in {"Add", "Sub", "Lt", "Eq", "NullCoalesce"}}
    \cup {[is |-> "and", l |-> x, r |-> y], Tern(Id("b"), x, y),
          [is |-> "array", items |-> <<x, y>>], CallT(x, <<y>>)}
    \* strings have no characters here
    \cup (IF x \in {Id("s"), Dot(Id("e"), "name")} \/ x.is = "lit" THEN {} ELSE {At(x, y)})
    \cup {Asg(op, x, y) : op \in IF x.is = "ident" THEN {"Assign", "Add", "NullCoalesce"} ELSE {}}
Only(x) ==
    {[is |-> "unary", op |-> op, e |-> x] : op \in {"Neg", "Not"}}
    \cup {Dot(x, "id"), Dot(x, "next"), Dot(x, "name"), Dot(x, "Length"), DotSafe(x, "id"), DotSafe(x, "next"),
          CallT(Id("F"), <<x>>), CallT(Id("print"), <<x>>), CallT(Dot(x, "Dispose"), <<>>),
          Asg("Assign", Dot(Id("o"), "id"), x), Asg("Assign", Dot(Id("e"), "next"), x),
          Asg("Assign", DotSafe(Id("p"), "id"), x),
          Asg("Assign", At(Id("xs"), N(1)), x), Asg("Add", At(Id("xs"), Id("a")), x),
          NewOf(Ref("C"), << <<"id", x>>, <<"next", Lit(Null)>> >>),
          NewOf(Ref("D"), << <<"id", N(1)>>, <<"next", x>>, <<"name", Id("s")>> >>),
          NewOf(Ref("C"), << <<"next", x>> >>),
          CallT(LamOf(<<"z">>, <<IntRef>>, x), <<N(2)>>),
          CallT(LamOf(<<"z">>, <<Ref("C")>>, Dot(Id("z"), "id")), <<x>>)}
    \cup (IF x.is = "ident" THEN {Step(x, 1, TRUE)} ELSE {})
TExprs == TAtoms \cup UNION {Both(x, y) : x \in TAtoms, y \in TAtoms} \cup UNION {Only(x) : x \in TAtoms}

\* The body of the function, with its result.
ResultTypes == {Ref("void"), IntRef, Opt(IntRef), Ref("double"), Ref("string"), Ref("C"), Opt(Ref("C")),
                Ref("D"), ArrayRef(IntRef)}
K == TypedDecl("const", <<IntRef>>, "k", N(1))
BodiesOver(x) ==
    {<<TypedDecl("typed", <<r>>, "v", x), Do(Asg("Assign", Id("y"), Id("v")))>> : r \in ResultTypes}
    \cup {<<K, Do(Asg("Assign", Id("k"), x))>>, <<K, Do(Step(Id("k"), 1, TRUE)), Do(x)>>,
          <<VarDecl("v", x), VarDecl("v", N(1))>>,
          <<BlockStmt(<<VarDecl("v", x)>>), Do(Asg("Assign", Id("s"), Id("v")))>>,
          <<BlockStmt(<<VarDecl("a", x), Do(Asg("Assign", Id("a"), Id("s")))>>), Do(Asg("Add", Id("a"), N(1)))>>,
          <<IfElse(x, <<Do(Asg("Assign", Id("a"), N(2)))>>, <<Do(Step(Id("a"), -1, FALSE))>>)>>,
          <<WhileOf(x, <<Do(Asg("Assign", Id("o"), Id("e"))), Break>>)>>,
          <<[is |-> "do", body |-> <<Do(Step(Id("a"), 1, FALSE))>>,
             cond |-> [is |-> "and", l |-> x, r |-> Bin("Lt", Id("a"), N(3))]]>>,
          <<[is |-> "for", init |-> VarDecl("i", x), cond |-> Bin("Lt", Id("i"), N(2)),
             step |-> Step(Id("i"), 1, TRUE), body |-> <<Do(Asg("Assign", Id("a"), Id("i"))), Continue>>]>>,
          <<Foreach("z", x, <<Do(Asg("Assign", Id("a"), Id("z")))>>)>>,
          <<SwitchOf(x, <<Case(<<Is(1)>>, <<>>, "", <<Break>>),
                          Case(<<>>, <<>>, "z", <<Do(Asg("Assign", Id("q"), Id("z"))), Break>>)>>)>>,
          <<SwitchOf(Id("a"), <<Case(<<>>, <<>>, "", <<Do(x), Continue>>)>>)>>,
          <<Do(x), Break>>, <<IfElse(Id("b"), <<Continue>>, <<Do(x)>>)>>,
          <<Try(<<Do(Asg("Assign", Id("o"), x))>>, <<Catch("", "", <<Do(Asg("Assign", Id("a"), x))>>)>>,
                << <<VarDecl("u", Id("a")), Do(Asg("Assign", Id("d"), Id("u")))>> >>)>>,
          <<VarDecl("f", LamOf(<<"z">>, <<IntRef>>, Bin("Add", Id("z"), x))),
            VarDecl("v", CallT(Id("f"), <<Id("a")>>)), Do(Asg("Assign", Id("a"), Id("v")))>>,
          <<WhileOf(Id("b"), <<VarDecl("f", [LamOf(<<>>, <<>>, x) EXCEPT !.arrow = FALSE, !.body = <<Break>>]),
                               Do(CallT(Id("f"), <<>>)), Break>>)>>,
          <<VarDecl("f", LamOf(<<"z">>, <<Ref("C")>>, Asg("Assign", Dot(Id("z"), "id"), x))),
            Do(CallT(Id("f"), <<Id("e")>>))>>}
Deeper == {Tern(Id("b"), Id("a"), Id("q")), Bin("Add", Id("a"), Id("d")), Bin("NullCoalesce", Id("p"), Id("o")),
           Dot(Id("o"), "next"), Dot(Id("e"), "name"), At(Id("xs"), N(0)), CallT(Id("F"), <<Id("a")>>),
           NewOf(Ref("D"), << <<"id", N(1)>>, <<"next", Id("o")>>, <<"name", Id("s")>> >>)}
Members == {"method", "static", "ctor", "indexer", "operator", "struct"}
\* Bodies with their result, of a function or of another kind of member: an
\* expression and its value, a statement or two, or a return.
TBodies ==
    {[how |-> "function", ret |-> Ref("void"), body |-> <<VarDecl("v", e), Do(Asg("Assign", Id("y"), Id("v")))>>] :
        e \in TExprs \cup UNION {Only(x) : x \in Deeper} \cup UNION {Both(x, y) : x \in Deeper, y \in Fewer}}
    \cup {[how |-> "function", ret |-> Ref("void"), body |-> b] :
             b \in UNION {BodiesOver(x) : x \in TAtoms \cup Deeper}}
    \cup {[how |-> "function", ret |-> r, body |-> <<Return0(x)>>] : r \in ResultTypes, x \in TAtoms \cup Deeper}
    \cup {[how |-> h, ret |-> Ref("void"), body |-> b] : h \in Members, b \in UNION {BodiesOver(x) : x \in Fewer}}
    \cup {[how |-> h, ret |-> r, body |-> <<Return0(x)>>] : h \in Members, r \in ResultTypes, x \in Fewer}

-----------------------------------------------------------------------------
\* Declarations: a class A over the class B and the interface I.
Bodyless == [Method("m", <<"x">>, <<IntRef>>, Ref("I"), <<>>) EXCEPT !.how = "none"]
Ms(types, ret) == {[Method("m", SubSeq(<<"x", "w">>, 1, Len(types)), types, ret, <<>>)
                      EXCEPT !.how = "none", !.static = how = "static", !.override = how = "override"] :
                     how \in {"", "static", "override"}}
MethodsOf(types) == UNION {Ms(t, r) : t \in types, r \in {Ref("I"), Ref("A")}}
MembersOf(fields, methods) == {<<>>} \cup {<<m>> : m \in fields \cup methods} \cup fields \X methods
Fields == {Field("f", IntRef), Field("f", Ref("string"))}
Tables0 == [is |-> "interface", name |-> "I", tps |-> <<>>, members |-> <<Bodyless>>]
Tables ==
    {<< Tables0, Class("B", b, bs), Class("A", a, as) >> :
       b \in {<<>>, <<"I">>, <<"A">>}, a \in {<<>>, <<"B">>, <<"B", "I">>, <<"I", "B">>, <<"A">>},
       bs \in MembersOf({Field("f", IntRef)}, {Bodyless}),
       as \in MembersOf(Fields, MethodsOf({<<IntRef>>, <<Ref("string")>>, <<IntRef, IntRef>>}))}

\* A generic class Box of a constrained parameter, and a field of a type made of it.
Ctor(names, types) ==
    [is |-> "ctor", params |-> names, types |-> types, defaults |-> [i \in DOMAIN names |-> <<>>],
     baseArgs |-> <<>>, body |-> <<>>]
Ctors == {<<>>, <<Ctor(<<>>, <<>>)>>, <<Ctor(<<"x">>, <<IntRef>>)>>}
Of(args) == [Ref("Box") EXCEPT !.args = args]
Arguments == {IntRef, Opt(IntRef), Ref("string"), Ref("A"), Opt(Ref("A")), ArrayRef(Ref("A")), Ref("I"), Ref("S"),
              Ref("dyn"), Of(<<Ref("A")>>)}
Instances ==
    {<<Tables0, [is |-> "struct", name |-> "S", tps |-> <<>>, members |-> <<>>],
       [Class("A", b, k \o <<Bodyless>>) EXCEPT !.abstract = abstract],
       [Class("Box", <<>>, <<Field("v", Ref("T"))>>)
          EXCEPT !.tps = <<"T">>, !.constraints = <<[param |-> "T", bounds |-> bounds]>>],
       Class("User", <<>>, <<Field("f", r)>>)>> :
       b \in {<<>>, <<"I">>}, k \in Ctors, abstract \in BOOLEAN,
       bounds \in {<<Ref("I")>>, <<Ref("new")>>, <<Ref("I"), Ref("new")>>},
       r \in UNION {{Of(<<x>>), Opt(Of(<<x>>)), Of(<<x, x>>)} : x \in Arguments}}
=============================================================================
