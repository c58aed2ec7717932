------------------------------ MODULE Meaning ------------------------------
(***************************************************************************)
(* What a program means, by evaluating its statements and expressions: the *)
(* reference for what the compiler emits.  Scopes are those the program    *)
(* shows, an arm of a switch ends with its break or its end, finally       *)
(* blocks run and owned and used objects are disposed whichever way their  *)
(* scope is left.  A lambda has copies of the locals it was made among.    *)
(*                                                                         *)
(* Evaluation also notes, in "notes", that it came across something that   *)
(* compiler.rs compiles to something else: README.md lists what.           *)
(***************************************************************************)
EXTENDS Machine

\* A world: the variables in scope, innermost last, the cells, arrays and
\* objects, the globals, what was printed, the notes, and the loop iterations
\* and calls still allowed.
Ok(v, w) == [is |-> "normal", v |-> v, w |-> w]
Ends(is, v, w) == [is |-> is, v |-> v, w |-> w]
Thrown(e, w) == Ends("throw", Str(e), w)
Then(r, F(_, _)) == IF r.is = "normal" THEN F(r.v, r.w) ELSE r
Note(r, what) == [r EXCEPT !.w.notes = @ \cup {what}]
NoteIf(c, r, what) == IF c THEN Note(r, what) ELSE r
Spent(w) == [w EXCEPT !.fuel = @ - 1]

Binding(w, name) == SelectLastInSeq(w.env, LAMBDA b : b.name = name)
Declare(w, name, v, owned) ==
    [w EXCEPT !.heap = Append(@, v),
              !.env = Append(@, [name |-> name, at |-> Len(w.heap) + 1, captured |-> FALSE,
                                 owned |-> owned])]
Lookup(w, name) ==
    IF Binding(w, name) # 0 THEN w.heap[w.env[Binding(w, name)].at]
    ELSE IF name \in DOMAIN w.globals THEN w.globals[name] ELSE Null
Store(w, name, v) ==
    IF Binding(w, name) # 0 THEN [w EXCEPT !.heap[w.env[Binding(w, name)].at] = v]
    ELSE [w EXCEPT !.globals = (name :> v) @@ @]
IsGlobal(w, name) == Binding(w, name) = 0
IsLocal(w, name) == ~IsGlobal(w, name) /\ ~w.env[Binding(w, name)].captured
\* The innermost scope is left: n variables stay.
Leave(w, n) == [w EXCEPT !.env = SubSeq(@, 1, n)]
Visible(w, name) == Binding(w, name) # 0 \/ name \in DOMAIN w.globals

\* The operators of objects and of the machine's values are the machine's: a
\* world is put in its place and what it pushes is the value.
AsMachine(w) == [stack |-> <<>>, frames |-> <<>>, tries |-> <<>>, globals |-> w.globals,
                 heap |-> w.heap, out |-> w.out, ended |-> "", result |-> Null]
FromMachine(m, w) ==
    IF m.ended # "" THEN Thrown(m.result[2], w)
    ELSE Ok(Last(m.stack), [w EXCEPT !.heap = m.heap])

RECURSIVE Eval(_, _), Exec(_, _), ExecAll(_, _), Iterate(_, _, _), EachOf(_, _, _, _), Arms(_, _, _, _)

EvalAll(es, w) ==
    Fold(LAMBDA a, e : Then(a, LAMBDA vs, u : Then(Eval(e, u), LAMBDA v, t : Ok(Append(vs, v), t))),
             Ok(<<>>, w), es)

\* A call of a function value <<"fn", lambda, its copies>>.
CallFn(f, args, w) ==
    IF f[1] # "fn" THEN Thrown("type", w)
    ELSE IF w.fuel = 0 THEN Ends("slow", Null, w)
    ELSE LET params == f[2].params
             entered == Fold(LAMBDA a, i : Declare(a, params[i],
                                     IF i <= Len(args) THEN args[i] ELSE Null, FALSE),
                                 [Spent(w) EXCEPT !.env = f[3]], [i \in 1..Len(params) |-> i])
             r == ExecAll(f[2].body, entered)
             back == [r.w EXCEPT !.env = w.env]
         IN CASE r.is = "return" -> Ok(r.v, back)
              [] r.is = "normal" -> Ok(Null, back)
              [] OTHER -> [r EXCEPT !.w = back]

\* The copies a lambda takes: locals get cells of their own, what the function
\* it is made in had captured is shared.
Captured(w) ==
    Fold(LAMBDA a, b : IF b.captured THEN [a EXCEPT !.env = Append(@, b)]
                           ELSE [a EXCEPT !.heap = Append(@, w.heap[b.at]),
                                          !.env = Append(@, [b EXCEPT !.at = Len(a.heap) + 1,
                                                                      !.captured = TRUE,
                                                                      !.owned = FALSE])],
             [w EXCEPT !.env = <<>>], w.env)

Assigned(e, w) ==
    LET Combined(old, v) == IF e.op = "Assign" THEN v ELSE BinaryOp(e.op, old, v)
    IN CASE e.to.is = "ident" ->
            LET old == Lookup(w, e.to.name)
            IN Then(Eval(e.value, w), LAMBDA v, u :
                  IF Combined(old, v)[1] = "error" THEN Thrown(Combined(old, v)[2], u)
                  ELSE Ok(Combined(old, v), Store(u, e.to.name, Combined(old, v))))
         [] e.to.is = "member" ->
            Then(Eval(e.to.object, w), LAMBDA o, u :
              LET old == FromMachine(GetProperty(AsMachine(u), o, e.to.name), u)
              IN Then(IF e.op = "Assign" THEN Ok(Null, u) ELSE old, LAMBDA x, t :
                   Then(Eval(e.value, t), LAMBDA v, q :
                     LET n == Combined(x, v)
                     IN IF n[1] = "error" THEN Thrown(n[2], q)
                        ELSE IF o[1] # "ref" \/ IsArray(q, o) THEN Thrown("type", q)
                        ELSE Ok(n, [q EXCEPT !.heap[o[2]][2] = (e.to.name :> n) @@ @]))))
         [] e.to.is = "index" ->
            Then(EvalAll(<<e.to.object, e.to.index, e.value>>, w), LAMBDA vs, u :
              LET old == FromMachine(GetIndex(AsMachine(u), vs[1], vs[2]), u)
                  n == Combined(old.v, vs[3])
              IN IF e.op # "Assign" /\ old.is # "normal" THEN Note(old, "index")
                 ELSE IF n[1] = "error" THEN Note(Thrown(n[2], u), "index")
                 ELSE NoteIf(e.op # "Assign",
                             FromMachine(SetIndex(AsMachine(u), vs[1], vs[2], n), u), "index"))

Stepped(e, w) ==                                      \* ++ and --
    IF e.e.is # "ident" THEN Note(Eval(e.e, w), "step of no name")
    ELSE LET old == Lookup(w, e.e.name)
             new == BinaryOp("Add", old, Num(e.by))
             r == IF new[1] = "error" THEN Thrown(new[2], w)
                  ELSE Ok(IF e.post THEN old ELSE new, Store(w, e.e.name, new))
         IN NoteIf(IsGlobal(w, e.e.name) /\ e.post,
                   NoteIf(IsLocal(w, e.e.name) /\ old[1] # "int", r, "step of no int"), "global postfix")

Called0(e, w) ==
    CASE e.to.is = "ident" /\ e.to.name = "print" ->
            Then(EvalAll(e.args, w), LAMBDA vs, u :
              NoteIf(Len(vs) # 1, Ok(Null, [u EXCEPT !.out = @ \o vs]), "print of many"))
      [] e.to.is = "member" ->                        \* the only method is Dispose
            Then(Eval(e.to.object, w), LAMBDA o, u :
              NoteIf(e.to.object.is = "ident" /\ IsGlobal(w, e.to.object.name),
                     IF o[1] # "ref" THEN Thrown("property", u)
                     ELSE Ok(Null, [u EXCEPT !.out = Append(@, <<"disposed", Identity(u, o)>>)]),
                     "method of a global"))
      [] OTHER -> Then(Eval(e.to, w), LAMBDA f, u :
                    Then(EvalAll(e.args, u), LAMBDA vs, t : CallFn(f, vs, t)))

Eval(e, w) ==
    CASE e.is = "lit" -> Ok(e.value, w)
      [] e.is = "ident" -> Ok(Lookup(w, e.name), w)
      [] e.is = "and" -> Then(Eval(e.l, w), LAMBDA v, u : IF Truthy(u, v) THEN Eval(e.r, u) ELSE Ok(v, u))
      [] e.is = "or" -> Then(Eval(e.l, w), LAMBDA v, u : IF Truthy(u, v) THEN Ok(v, u) ELSE Eval(e.r, u))
      [] e.is = "binary" /\ e.op = "NullCoalesce" ->
            Then(Eval(e.l, w), LAMBDA v, u :
              IF v = Null THEN Eval(e.r, u)
              ELSE NoteIf(e.r.is \notin {"lit", "ident"}, Ok(v, u), "both sides"))
      [] e.is = "binary" /\ e.op # "NullCoalesce" ->
            Then(EvalAll(<<e.l, e.r>>, w), LAMBDA vs, u :
              LET v == BinaryOp(e.op, vs[1], vs[2])
              IN IF v[1] = "error" THEN Thrown(v[2], u) ELSE Ok(v, u))
      [] e.is = "unary" ->
            Then(Eval(e.e, w), LAMBDA v, u :
              FromMachine(DataOp(Push(AsMachine(u), v), <<e.op>>), u))
      [] e.is = "is" -> Then(Eval(e.e, w), LAMBDA v, u : Ok(Bool(IsInstance(AsMachine(u), v, e.type)), u))
      [] e.is = "interpolated" ->
            Then(EvalAll(e.parts, w), LAMBDA vs, u :
              Ok(Str(Fold(LAMBDA a, v : a \o Text(v), "", vs)), u))
      [] e.is = "ternary" ->
            Then(Eval(e.cond, w), LAMBDA v, u : Eval(IF Truthy(u, v) THEN e.then ELSE e.else, u))
      [] e.is = "assign" -> Assigned(e, w)
      [] e.is = "incdec" -> Stepped(e, w)
      [] e.is = "call" -> Called0(e, w)
      [] e.is = "member" ->
            Then(Eval(e.object, w), LAMBDA o, u :
              IF e.safe /\ o = Null THEN Ok(Null, u)
              ELSE FromMachine(GetProperty(AsMachine(u), o, e.name), u))
      [] e.is = "index" ->
            Then(EvalAll(<<e.object, e.index>>, w), LAMBDA vs, u :
              FromMachine(GetIndex(AsMachine(u), vs[1], vs[2]), u))
      [] e.is = "array" ->
            Then(EvalAll(e.items, w), LAMBDA vs, u :
              Ok(<<"ref", Len(u.heap) + 1>>, [u EXCEPT !.heap = Append(@, <<"array", vs>>)]))
      [] e.is = "new" ->
            LET made == [w EXCEPT !.heap = Append(@, <<"object", NoFields>>)]
                self == Len(w.heap) + 1
            IN Fold(LAMBDA a, f : Then(a, LAMBDA o, u : Then(Eval(f[2], u), LAMBDA v, t :
                            Ok(o, [t EXCEPT !.heap[self][2] = (f[1] :> v) @@ @]))),
                        Ok(<<"ref", self>>, made), e.init)
      [] e.is = "lambda" ->
            LET c == Captured(w)
            IN Ok(<<"fn", [params |-> e.params, body |-> e.body], c.env>>,
                  [w EXCEPT !.heap = c.heap])
      [] e.is = "await" -> Eval(e.e, w)

-----------------------------------------------------------------------------
\* A block: its variables go, its owned objects are disposed, the last first.
Block(stmts, w) ==
    LET r == ExecAll(stmts, w)
        mine == SelectSeq(SubSeq(r.w.env, Len(w.env) + 1, Len(r.w.env)), LAMBDA b : b.owned)
        dispose == [i \in 1..Len(mine) |->
                       <<"disposed", Identity(r.w, r.w.heap[mine[Len(mine) + 1 - i].at])>>]
    IN NoteIf(mine # <<>> /\ r.is # "normal",
              [r EXCEPT !.w = [Leave(@, Len(w.env)) EXCEPT !.out = @ \o dispose]], "owned left early")

ExecAll(stmts, w) ==
    Fold(LAMBDA r, t : IF r.is = "normal" THEN Exec(t, r.w) ELSE r, Ok(Null, w), stmts)

\* A loop: a step is a test, the body and what follows it.
Iterate(t, w, first) ==
    IF w.fuel = 0 THEN Ends("slow", Null, w)
    ELSE Then(IF first THEN Ok(Bool(TRUE), w) ELSE Eval(t.cond, w), LAMBDA v, u :
           IF ~Truthy(u, v) THEN Ok(Null, u)
           ELSE LET r == Block(t.body, Spent(u))
                IN CASE r.is = "break" -> Ok(Null, r.w)
                     [] r.is \in {"normal", "continue"} ->
                           IF t.is = "for" THEN Then(Eval(t.step, r.w), LAMBDA x, q : Iterate(t, q, FALSE))
                           ELSE Iterate(t, r.w, FALSE)
                     [] OTHER -> r)

\* Foreach over the items of an array, whose length is looked up at each step.
EachOf(t, a, i, w) ==
    IF w.fuel = 0 THEN Ends("slow", Null, w)
    ELSE IF ~IsArray(w, a) THEN Thrown("property", w)
    ELSE IF i > Len(Items(w, a)) THEN Ok(Null, w)
    ELSE LET item == Declare(Spent(w), t.var, Items(w, a)[i], FALSE)
             r == Block(t.body, IF t.index = "" THEN item ELSE Declare(item, t.index, Num(i - 1), FALSE))
             back == Leave(r.w, Len(w.env))
         IN CASE r.is = "break" -> Ok(Null, back)
              [] r.is \in {"normal", "continue"} -> EachOf(t, a, i + 1, back)
              [] OTHER -> [r EXCEPT !.w = back]

\* The arms of a switch from the k-th on.
Arms(t, v, k, w) ==
    IF k > Len(t.cases) THEN Ok(Null, w)
    ELSE LET c == t.cases[k]
             n == Len(c.patterns)
             default == n = 0 /\ c.guard = <<>> /\ c.bind = ""
             Matches(p) ==
                 IF p.is = "value" THEN Eval(p.e, w).v = v
                 ELSE v[1] = "int" /\ Eval(p.lo, w).v[2] <= v[2] /\ v[2] <= Eval(p.hi, w).v[2]
             hits == {i \in 1..n : Matches(c.patterns[i])}
             bound == IF c.bind = "" THEN w ELSE Declare(w, c.bind, v, FALSE)
             g == IF c.guard = <<>> THEN Ok(Bool(TRUE), bound) ELSE Eval(c.guard[1], bound)
             stop == SelectInSeq(c.body, LAMBDA x : x.is = "break")
             r == ExecAll(IF stop = 0 THEN c.body ELSE SubSeq(c.body, 1, stop - 1), g.w)
             left == IF r.is = "break" THEN Ok(Null, r.w) ELSE r
             gone == [left EXCEPT !.w = Leave(@, Len(w.env))]
             noted == NoteIf(n > 1 \/ c.guard # <<>>, NoteIf(r.is = "break", gone, "nested break"),
                             "many patterns or guard")
         IN IF n > 0 /\ hits = {}
            THEN LET next == Arms(t, v, k + 1, w)
                 IN NoteIf(n > 1, next, "many patterns or guard")
            ELSE Then(g, LAMBDA ok, u :
                   IF ~Truthy(u, ok) THEN Arms(t, v, k + 1, Leave(u, Len(w.env)))
                   ELSE NoteIf(default /\ r.is = "normal" /\ stop = 0,
                          NoteIf(c.bind # "" /\ Visible(w, c.bind), noted, "name taken"), "default"))

Caught(t, e, w) ==
    LET k == SelectInSeq(t.catches, LAMBDA c : c.type = "" \/ c.type = e[2])
        c == t.catches[k]
        r == Block(c.body, IF c.name = "" THEN w ELSE Declare(w, c.name, e, FALSE))
    IN IF k = 0 THEN Ends("throw", e, w)
       ELSE NoteIf(c.name # "" /\ Visible(w, c.name),
                   [r EXCEPT !.w = Leave(@, Len(w.env))], "name taken")

\* A try statement: its finally block runs whichever way it is left.
Tried(t, w) ==
    LET b == Block(t.body, w)
        r == IF b.is = "throw" THEN Caught(t, b.v, b.w) ELSE b
        left == NoteIf(b.is \in {"return", "break", "continue"}, r, "try left early")
    IN IF t.finally = <<>> \/ r.is = "slow" THEN left
       ELSE LET f == Block(t.finally[1], left.w)
            IN NoteIf(r.is # "normal", IF f.is = "normal" THEN [left EXCEPT !.w = f.w] ELSE f, "finally skipped")

Exec(t, w) ==
    CASE t.is = "expr" -> Then(Eval(t.e, w), LAMBDA v, u : Ok(Null, u))
      [] t.is = "decl" -> Then(Eval(t.e, w), LAMBDA v, u : Ok(Null, Declare(u, t.name, v, t.owned)))
      [] t.is = "default" ->
            LET made == [w EXCEPT !.heap = Append(@, <<"object", NoFields>>)]
            IN IF t.struct THEN Ok(Null, Declare(made, t.name, <<"ref", Len(made.heap)>>, FALSE))
               ELSE Ok(Null, Declare(w, t.name, Null, FALSE))
      [] t.is = "return" -> Then(Eval(t.e, w), LAMBDA v, u : Ends("return", v, u))
      [] t.is = "if" -> Then(Eval(t.cond, w), LAMBDA v, u : Block(IF Truthy(u, v) THEN t.then ELSE t.else, u))
      [] t.is = "while" -> Iterate(t, w, FALSE)
      [] t.is = "do" -> Iterate(t, w, TRUE)
      [] t.is = "for" -> Then(Exec(t.init, w), LAMBDA v, u :
                           LET r == Iterate(t, u, FALSE) IN [r EXCEPT !.w = Leave(@, Len(w.env))])
      [] t.is = "foreach" -> Then(Eval(t.in, w), LAMBDA a, u : EachOf(t, a, 1, u))
      [] t.is \in {"break", "continue"} -> Ends(t.is, Null, w)
      [] t.is = "block" -> Block(t.body, w)
      [] t.is = "switch" -> Then(Eval(t.e, w), LAMBDA v, u : Arms(t, v, 1, u))
      [] t.is = "throw" -> Then(Eval(t.e, w), LAMBDA v, u : Ends("throw", v, u))
      [] t.is = "try" -> Tried(t, w)
      [] t.is = "using" ->
            Then(Exec(t.decl, w), LAMBDA v, u :
              LET r == Block(t.body, u)
                  o == Lookup(r.w, t.decl.name)
              IN NoteIf(r.is # "normal",
                   [r EXCEPT !.w = [Leave(@, Len(w.env)) EXCEPT
                                      !.out = Append(@, <<"disposed", Identity(r.w, o)>>)]],
                   "owned left early"))
      [] t.is = "match" ->
            Then(Eval(t.e, w), LAMBDA v, u :
              LET Holds(a) == CASE a.pattern = "Ok" -> Items(u, v)["ok"] = Bool(TRUE)
                                [] a.pattern \in {"Error", "Err"} -> Items(u, v)["ok"] = Bool(FALSE)
                                [] OTHER -> Items(u, v)["Tag"] = Str(a.pattern)
                  k == SelectInSeq(t.arms, Holds)
                  a == t.arms[k]
                  held == Items(u, v)[IF a.pattern \in {"Error", "Err"} THEN "error" ELSE "value"]
                  in == IF a.bind = "" THEN u ELSE Declare(u, a.bind, held, FALSE)
                  r == Eval(a.body, in)
              IN IF k = 0 THEN Ok(Null, u)
                 ELSE NoteIf(a.bind # "" /\ Visible(u, a.bind),
                             [r EXCEPT !.v = Null, !.w = Leave(@, Len(u.env))], "name taken"))

\* The outcome of a program.
Meaning(p, fuel) ==
    LET fnOf(f) == <<"fn", [params |-> f.params, body |-> f.body], <<>> >>
        names == {p.fns[i].name : i \in DOMAIN p.fns} \cup {p.globals[i][1] : i \in DOMAIN p.globals}
        globals == [n \in names |->
                      IF \E i \in DOMAIN p.fns : p.fns[i].name = n
                      THEN fnOf(p.fns[CHOOSE i \in DOMAIN p.fns : p.fns[i].name = n])
                      ELSE p.globals[CHOOSE i \in DOMAIN p.globals : p.globals[i][1] = n][2]]
        w == [env |-> <<>>, heap |-> <<>>, globals |-> globals, out |-> <<>>, notes |-> {}, fuel |-> fuel]
    IN CallFn(globals["Main"], <<>>, w)
=============================================================================
