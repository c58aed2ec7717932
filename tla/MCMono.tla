------------------------------- MODULE MCMono -------------------------------
(* The programs for Mono: a main function with two uses, over a library of   *)
(* generic declarations that use one another.                                *)
EXTENDS Naturals, Sequences

LOCAL T(name, args) == [name |-> name, args |-> args, dims |-> 0, null |-> FALSE]
LOCAL N(name) == T(name, <<>>)
LOCAL U(site, t) == [site |-> site, t |-> t]
LOCAL D(kind, name, params, uses) ==
  [kind |-> kind, name |-> name, params |-> params, of |-> <<name, <<>>>>, uses |-> uses]

LOCAL Library ==
  <<D("class", "User", <<>>, <<U("field", N("int"))>>),
    D("class", "Admin", <<>>, <<U("base", N("User"))>>),
    D("function", "Id", <<"T">>, <<U("signature", N("T"))>>),
    D("function", "Make", <<"T">>,
      <<U("signature", T("Box", <<N("T")>>)), U("new", T("Box", <<N("T")>>)),
        U("call", T("Id", <<T("Box", <<N("T")>>)>>))>>),
    D("class", "Box", <<"T">>,
      <<U("field", N("T")), U("signature", [T("Box", <<N("T")>>) EXCEPT !.null = TRUE])>>),
    D("class", "Late", <<"T">>, <<U("base", T("Box", <<N("T")>>))>>),
    D("class", "Test", <<"T">>, <<U("field", N("User")), U("cast", T("Box", <<N("T")>>))>>),
    D("struct", "Pair", <<"A", "B">>,
      <<U("field", N("A")), U("field", [N("B") EXCEPT !.dims = 1]),
        U("signature", T("Pair", <<N("B"), N("A")>>)), U("call", T("Make", <<N("B")>>))>>),
    D("class", "Deep", <<"T">>, <<U("field", T("Deep", <<T("Box", <<N("T")>>)>>))>>)>>

LOCAL Box(t) == T("Box", <<t>>)
LOCAL FuncOf(args) == T("Func", args)
LOCAL Types ==
  {N("int"), Box(N("int")), Box(N("User")), Box(Box(N("int"))), T("List", <<Box(N("int"))>>),
   Box([N("int") EXCEPT !.dims = 2, !.null = TRUE]), T("Pair", <<N("int"), N("User")>>),
   T("Pair", <<FuncOf(<<N("int"), FuncOf(<<N("int")>>)>>), N("int")>>),
   T("Pair", <<FuncOf(<<N("int")>>), FuncOf(<<N("int"), N("int")>>)>>),
   Box(N("net.Host")), T("net.Box", <<N("int")>>), N("Box"), T("Pair", <<N("int")>>),
   T("Late", <<N("int")>>), T("Test", <<N("User")>>), T("Deep", <<N("int")>>)}

LOCAL TypeSites == {"signature", "local", "local const", "new", "typeof", "cast", "catch",
                    "lambda", "default", "asm operand"}

MoFirst == {U(s, t) : s \in TypeSites, t \in Types}
  \union {U("call", T(f, <<t>>)) : f \in {"Id", "Make"}, t \in Types}
  \union {U("call", N("Id"))}
LOCAL MoSecond == {U("new", Box(N("int"))), U("call", T("Make", <<Box(N("User"))>>)), U("call", N("Admin")),
             U("local", T("Pair", <<Box(N("int")), N("int")>>)), U("field of an instance", Box(N("int"))),
             U("local", T("Pair", <<FuncOf(<<N("int")>>), FuncOf(<<N("int"), N("int")>>)>>))}

MoInputs == {<<u, v>> : u \in MoFirst, v \in MoSecond}

(* A use at a "field of an instance" stands in a class of the name of an      *)
(* instance, in a union and in a constant too.                                *)
MoProgram(i) ==
  Library \o
  (IF i[2].site = "field of an instance"
   THEN <<D("function", "Main", <<>>, <<i[1]>>),
          D("class", IF i[1].site = "new" THEN "Box__int" ELSE "Taken", <<>>, <<U("base", N("Admin"))>>),
          D("union", "Bits", <<>>, <<U("union field", i[2].t)>>),
          D("const", "Zero", <<>>, <<U("top const", i[2].t)>>)>>
   ELSE <<D("function", "Main", <<>>, <<i[1], i[2]>>)>>)

MoDotted == [n \in {"net.Host", "net.Box"} |-> IF n = "net.Host" THEN "net_Host" ELSE "net_Box"]
=============================================================================
