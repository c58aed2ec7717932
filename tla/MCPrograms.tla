----------------------------- MODULE MCPrograms -----------------------------
(***************************************************************************)
(* Programs for the compiler: every statement of Parts in every two        *)
(* contexts of ContextNames, one in the other, and every operation on      *)
(* every two of Operands; and, for the optimizer, programs of the loops    *)
(* and branches its passes look for.                                       *)
(***************************************************************************)
EXTENDS Machine

Lit(v) == [is |-> "lit", value |-> v]
N(n) == Lit(Num(n))
Float(n) == Lit(<<"float", n>>)
Id(x) == [is |-> "ident", name |-> x]
Bin(op, l, r) == [is |-> "binary", op |-> op, l |-> l, r |-> r]
Step(x, by, post) == [is |-> "incdec", e |-> x, by |-> by, post |-> post]
Asg(op, to, e) == [is |-> "assign", op |-> op, to |-> to, value |-> e]
CallOf(f, args) == [is |-> "call", to |-> f, args |-> args]
Lam(params, body) == [is |-> "lambda", params |-> params, body |-> body]
Dot(o, name) == [is |-> "member", object |-> o, name |-> name, safe |-> FALSE]
DotSafe(o, name) == [is |-> "member", object |-> o, name |-> name, safe |-> TRUE]
At(a, i) == [is |-> "index", object |-> a, index |-> i]
New(init) == [is |-> "new", init |-> init]
Not(op, e) == [is |-> "unary", op |-> op, e |-> e]
IsOf(e, type) == [is |-> "is", e |-> e, type |-> type]
Interp(parts) == [is |-> "interpolated", parts |-> parts]
Do(e) == [is |-> "expr", e |-> e]
PrintOf(e) == Do(CallOf(Id("print"), <<e>>))
Decl(x, e) == [is |-> "decl", name |-> x, e |-> e, owned |-> FALSE]
Owned(x, e) == [is |-> "decl", name |-> x, e |-> e, owned |-> TRUE]
Default(x, struct) == [is |-> "default", name |-> x, struct |-> struct]
ForeachItem(x, i, b) == [is |-> "foreach", var |-> x, index |-> i, in |-> Id("xs"), body |-> b]
Match(e, arms) == [is |-> "match", e |-> e, arms |-> arms]
Arm(pattern, x, e) == [pattern |-> pattern, bind |-> x, body |-> e]
Return0(e) == [is |-> "return", e |-> e]
IfElse(c, t, e) == [is |-> "if", cond |-> c, then |-> t, else |-> e]
BlockStmt(b) == [is |-> "block", body |-> b]
Break == [is |-> "break"]
Continue == [is |-> "continue"]
Throw(s) == [is |-> "throw", e |-> Lit(Str(s))]
Try(b, catches, fin) == [is |-> "try", body |-> b, catches |-> catches, finally |-> fin]
Catch(type, x, b) == [type |-> type, name |-> x, body |-> b]
Case(patterns, guard, bind, b) == [patterns |-> patterns, guard |-> guard, bind |-> bind, body |-> b]
Is(n) == [is |-> "value", e |-> N(n)]
From(a, b) == [is |-> "range", lo |-> N(a), hi |-> N(b)]
SwitchOf(e, cases) == [is |-> "switch", e |-> e, cases |-> cases]
WhileOf(c, b) == [is |-> "while", cond |-> c, body |-> b]

\* A context: what it makes of statements, and whether a loop is in it.
ContextNames == {"block", "if", "while", "do", "for", "foreach", "catch", "typed", "finally",
                 "case", "default", "using", "lambda", "owned"}
Loops == {"while", "do", "for", "foreach"}
Made(id) == New(<< <<"id", N(id)>>, <<"ok", Lit(Bool(TRUE))>>, <<"value", N(3)>>, <<"Tag", Lit(Str("Some"))>> >>)
Failed(e) == New(<< <<"ok", Lit(Bool(FALSE))>>, <<"error", e>> >>)
In(c, b) ==
    CASE c = "block" -> <<BlockStmt(<<Decl("b", N(2))>> \o b \o <<PrintOf(Id("b"))>>)>>
      [] c = "if" -> <<IfElse(Bin("Lt", Id("a"), N(3)), b, <<PrintOf(N(40))>>)>>
      [] c = "while" -> <<Decl("i", N(0)), WhileOf(Bin("Lt", Id("i"), N(2)), <<Do(Step(Id("i"), 1, TRUE))>> \o b)>>
      [] c = "do" -> <<Decl("j", N(0)),
                       [is |-> "do", body |-> <<Do(Asg("Add", Id("j"), N(1)))>> \o b,
                        cond |-> Bin("Lt", Id("j"), N(2))]>>
      [] c = "for" -> <<[is |-> "for", init |-> Decl("k", N(2)), cond |-> Bin("Gt", Id("k"), N(0)),
                         step |-> Step(Id("k"), -1, FALSE), body |-> b]>>
      [] c = "foreach" -> <<ForeachItem("x", "", <<PrintOf(Id("x"))>> \o b)>>
      [] c = "catch" -> <<Try(b, <<Catch("", "e", <<PrintOf(Id("e"))>>)>>, <<>>), PrintOf(N(41))>>
      [] c = "typed" -> <<Try(b, <<Catch("A", "", <<PrintOf(N(42))>>), Catch("B", "", <<PrintOf(N(43))>>)>>, <<>>)>>
      [] c = "finally" -> <<Try(b, <<Catch("A", "", <<PrintOf(N(44))>>)>>, << <<PrintOf(N(45))>> >>)>>
      [] c = "case" -> <<SwitchOf(Id("a"), <<Case(<<Is(0)>>, <<>>, "", <<PrintOf(N(46))>>),
                                             Case(<<From(1, 2)>>, <<>>, "", b \o <<Break>>),
                                             Case(<<>>, <<>>, "", <<PrintOf(N(47)), Break>>)>>),
                           PrintOf(N(48))>>
      [] c = "default" -> <<SwitchOf(Id("a"), <<Case(<<Is(9)>>, <<>>, "", <<PrintOf(N(49))>>),
                                                Case(<<>>, <<>>, "", b \o <<Break>>)>>)>>
      [] c = "using" -> <<[is |-> "using", decl |-> Decl("r", Made(8)), body |-> b]>>
      [] c = "lambda" -> <<Decl("f", Lam(<<"p">>, b \o <<Do(Asg("Add", Id("a"), Id("p"))), Return0(Id("a"))>>)),
                           PrintOf(CallOf(Id("f"), <<N(10)>>)), PrintOf(CallOf(Id("f"), <<N(20)>>))>>
      [] c = "owned" -> <<BlockStmt(<<Owned("q", Made(9))>> \o b)>>

\* Parts, and parts that need a loop around them.
Parts ==
    << <<PrintOf(Id("a")), Do(Step(Id("a"), 1, FALSE))>>,
     <<Return0(N(1))>>,
     <<IfElse(Bin("Eq", Id("a"), N(2)), <<Throw("A")>>, <<Throw("B")>>)>>,
     <<Decl("c", Lam(<<>>, <<Return0(Step(Id("a"), 1, TRUE))>>)), Do(Asg("Assign", Id("a"), N(7))),
       PrintOf(CallOf(Id("c"), <<>>)), PrintOf(CallOf(Id("c"), <<>>)), PrintOf(Id("a"))>>,
     <<SwitchOf(Id("a"), <<Case(<<Is(1), Is(2)>>, <<>>, "", <<PrintOf(N(50)), Break>>)>>)>>,
     <<SwitchOf(Id("a"), <<Case(<<>>, <<Bin("Gt", Id("v"), N(1))>>, "v", <<PrintOf(Id("v")), Break>>),
                           Case(<<>>, <<>>, "", <<PrintOf(N(51))>>)>>)>>,
     <<Match(Id("o"), <<Arm("Error", "", N(0)), Arm("Ok", "m", CallOf(Id("print"), <<Id("m")>>))>>)>>,
     <<PrintOf(CallOf(Id("F"), <<Id("a")>>)), Do(Asg("Assign", Id("g"), Id("a")))>>,
     <<Match(Id("o"), <<Arm("None", "", N(0)), Arm("Some", "s", CallOf(Id("print"), <<Id("s")>>))>>),
       Match(Failed(Id("a")), <<Arm("Ok", "", N(0)), Arm("Err", "n", CallOf(Id("print"), <<Id("n")>>))>>)>>,
     <<ForeachItem("w", "y", <<Default("d", TRUE), Do(Asg("Assign", Dot(Id("d"), "id"), Id("y"))),
                           PrintOf(Dot(Id("d"), "id"))>>), Default("u", FALSE), PrintOf(Id("u"))>>,
     <<PrintOf(Interp(<<Lit(Str("a: ")), Id("a"), Id("z"), Id("h")>>)), PrintOf(IsOf(Id("a"), "int")),
       PrintOf(IsOf(Id("z"), "object")), PrintOf(IsOf(Id("xs"), "array")), PrintOf(IsOf(Id("o"), "C")),
       Do(Asg("BitOr", Id("a"), Bin("Shl", Id("g"), N(2)))), PrintOf(Bin("Mod", Not("Neg", Id("a")), N(4))),
       PrintOf(Bin("BitXor", Not("BitNot", Id("a")), Bin("BitAnd", Id("g"), N(6)))),
       PrintOf(Bin("Shr", Id("a"), N(1))), PrintOf(Bin("Mul", Id("h"), Not("Neg", Id("h"))))>> >>
LoopParts == << <<IfElse(Bin("Lt", Id("a"), N(2)), <<Do(Step(Id("a"), 1, TRUE)), Continue>>, <<Break>>)>>,
              <<IfElse(Bin("Lt", Id("a"), N(2)), <<Do(Step(Id("a"), 1, TRUE))>>, <<Break>>), PrintOf(Id("a"))>> >>

Operands ==
    {N(1), Lit(Null), Lit(Bool(TRUE)), Id("a"), Id("g"), Step(Id("a"), 1, TRUE), Step(Id("a"), -1, FALSE),
     Step(Id("g"), 1, FALSE), Step(Id("h"), 1, FALSE), Asg("Mul", Id("a"), N(3)),
     Asg("Assign", Dot(Id("o"), "id"), Id("a")), Asg("Sub", Dot(Id("o"), "value"), N(1)),
     Asg("Assign", At(Id("xs"), N(2)), N(6)), At(Id("xs"), Id("a")), Dot(Id("xs"), "Length"),
     DotSafe(Id("o"), "value"), DotSafe(Id("z"), "value"), CallOf(Id("F"), <<N(2)>>),
     CallOf(Dot(Id("o"), "Dispose"), <<>>), Not("Not", Id("z")),
     [is |-> "array", items |-> <<Id("a"), Id("g")>>], Bin("Div", N(1), N(0))}
Ops(l, r) ==
    {Bin(op, l, r) : op \in {"Sub", "NullCoalesce"}}
    \cup {[is |-> IF l.is = "lit" THEN "or" ELSE "and", l |-> l, r |-> r],
          [is |-> "ternary", cond |-> Bin("Ne", l, Lit(Null)), then |-> r, else |-> N(9)]}

Prologue == <<Decl("a", N(1)), Decl("o", Made(7)), Decl("z", Lit(Null)), Decl("h", Lit(<<"float", 2>>)),
              Decl("xs", [is |-> "array", items |-> <<N(5), N(6)>>])>>
Epilogue == <<PrintOf(Id("a")), PrintOf(Id("g"))>>
Program(b) ==
    [fns |-> <<[name |-> "F", params |-> <<"x">>,
                body |-> <<IfElse(Bin("Gt", Id("x"), N(0)),
                                  <<Return0(Bin("Add", Id("x"),
                                        CallOf(Id("F"), <<Bin("Sub", N(0), Id("x"))>>)))>>, <<>>),
                           Return0(Id("g"))>>],
               [name |-> "Main", params |-> <<>>, body |-> Prologue \o b \o Epilogue]>>,
     globals |-> << <<"g", Num(5)>> >>]

Nested(part, c, d) == Program(In(d, In(c, part)))
Printed(e) == Program(<<Try(<<Do(e), PrintOf(Bin("Eq", e, N(3)))>>, <<Catch("", "ex", <<PrintOf(Id("ex"))>>)>>, <<>>)>>)

-----------------------------------------------------------------------------
\* For the optimizer: every literal of a program is another one, since equal
\* constants of two blocks are taken for one (see SsaPasses).
PassContexts == {"block", "if", "while", "count", "do", "scale", "for", "foreach"}
PassParts ==
    << <<PrintOf(Id("a"))>>,
       <<Do(Step(Id("a"), 1, FALSE)), PrintOf(Id("g"))>>,
       <<Do(Asg("Assign", Id("a"), Bin("Mul", Id("a"), N(2)))), PrintOf(Bin("Add", Id("a"), N(12)))>>,
       <<IfElse(Bin("Lt", Id("a"), N(13)), <<Do(Asg("Assign", Id("a"), N(14)))>>,
                                           <<Do(Asg("Assign", Id("a"), N(15)))>>), PrintOf(Id("a"))>>,
       <<PrintOf(CallOf(Id("F"), <<Id("a")>>))>>,
       <<Decl("c", Lam(<<"p">>, <<Return0(Bin("Sub", Id("p"), N(16)))>>)), PrintOf(CallOf(Id("c"), <<Id("a")>>))>>,
       <<Do(Asg("Assign", Id("a"), Bin("Sub", N(17), Id("a")))), Return0(Id("a"))>>,
       <<Do(Asg("Assign", Id("m"), Id("a"))), PrintOf(Id("m"))>>,
       <<PrintOf(Bin("BitOr", Bin("Mod", Id("a"), N(18)), Bin("Shl", N(19), N(4)))),
         PrintOf(Bin("BitXor", Not("BitNot", N(73)), Bin("BitAnd", N(74), N(75)))),
         PrintOf(Bin("Mod", Not("Neg", N(76)), N(77))), PrintOf(Bin("Shr", N(78), N(6)))>>,
       <<PrintOf(Interp(<<Lit(Str("a")), Id("a")>>)), PrintOf(IsOf(Id("a"), "object")),
         PrintOf(Bin("Div", Bin("Mul", Float(80), Float(81)), Not("Neg", Float(82)))),
         PrintOf(Bin("Sub", Float(83), N(84)))>> >>
PassIn(c, b, k) ==
    CASE c = "block" -> <<BlockStmt(<<Decl("b", N(20 + k))>> \o b \o <<PrintOf(Id("b"))>>)>>
      [] c = "if" -> <<IfElse(Bin("Lt", Id("a"), N(30 + k)), b, <<PrintOf(N(40 + k))>>)>>
      [] c = "while" -> <<Decl("i", Id("g")),
                          WhileOf(Bin("Lt", Id("i"), N(8 - k)), <<Do(Asg("Add", Id("i"), N(1)))>> \o b)>>
      [] c = "count" -> <<Decl("n", N(50 + k)),
                          WhileOf(Bin("Lt", Id("n"), N(53 + k)), <<PrintOf(Bin("Mul", Id("n"), N(3)))>> \o b
                                                                 \o <<Do(Asg("Add", Id("n"), N(1)))>>)>>
      [] c = "do" -> <<Decl("j", N(60 + k)),
                       [is |-> "do", body |-> <<Do(Asg("Add", Id("j"), N(1)))>> \o b,
                        cond |-> Bin("Lt", Id("j"), N(63 + k))]>>
      [] c = "scale" -> <<[is |-> "for", init |-> Decl("k", Id("g")), cond |-> Bin("Lt", Id("k"), N(7)),
                           step |-> Step(Id("k"), 1, FALSE), body |-> b \o <<PrintOf(Bin("Mul", Id("k"), N(5)))>>]>>
      [] c = "for" -> <<[is |-> "for", init |-> Decl("k", Id("g")), cond |-> Bin("Gt", Id("k"), N(k)),
                         step |-> Step(Id("k"), -1, FALSE), body |-> b]>>
      [] c = "foreach" -> <<ForeachItem("x", "", <<PrintOf(Id("x"))>> \o b)>>
PassNested(part, c, d) ==
    [fns |-> <<[name |-> "F", params |-> <<"x">>, body |-> <<Return0(Bin("Add", Id("x"), Id("g")))>>],
               [name |-> "Main", params |-> <<>>,
                body |-> <<Decl("a", Id("g")), Decl("xs", [is |-> "array", items |-> <<N(71), N(72)>>])>>
                         \o PassIn(d, PassIn(c, part, 0), 1) \o <<PrintOf(Id("a"))>>]>>,
     globals |-> << <<"g", Num(5)>> >>]
=============================================================================
