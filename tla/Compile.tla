------------------------------ MODULE Compile ------------------------------
(***************************************************************************)
(* The bytecode compiler (compiler.rs): functions, statements and          *)
(* expressions to chunks of instructions.                                  *)
(*                                                                         *)
(* What the compiler emits for a construct is a listing: a sequence of     *)
(* instructions, of parts that are compiled in their turn, of names that   *)
(* are resolved, of scopes that open and close, and of labels and jumps to *)
(* them (emit_jump and patch_jump).  Jumps to "break" and "continue" are   *)
(* left open for the enclosing loop (loop_stack), jumps to "end" for the   *)
(* enclosing switch.                                                       *)
(***************************************************************************)
EXTENDS Machine

\* Listings.
Ins(i) == <<"ins", i>>
Op(name) == <<"ins", <<name>> >>
Const(v) == <<"ins", <<"Constant", v>> >>
Ex(e) == <<"expr", e>>
Body(stmts) == <<"stmts", stmts>>
Label(l) == <<"label", <<l, 0>> >>
LabelOf(l, k) == <<"label", <<l, k>> >>       \* the k-th of several
Goto(op, l) == <<"goto", <<l, 0>>, op>>
GotoOf(op, l, k) == <<"goto", <<l, k>>, op>>
Open == <<"open">>
Close == <<"close">>
Bind(name, owned) == <<"bind", name, owned>>  \* add_local, and the value on top goes to it
Get(name) == <<"get", name>>
Set(name) == <<"set", name>>
OfLocal(op, name) == <<"local", op, name>>    \* an instruction on a local's slot
BlockOf(stmts) == <<Open, Body(stmts), Close>>
\* obj.Dispose() of a local
DisposeOf(name) == <<OfLocal("GetLocal", name), Op("Dup"), Const(Str("Dispose")),
                     Op("GetProperty"), Ins(<<"Call", 1>>), Op("Pop")>>

Concat(f, n) == FlattenSeq([i \in 1..n |-> f[i]])

(* The state of the compiler in a function: its locals, by slot, the       *)
(* upvalues it needs, the same of the enclosing functions, the depth of    *)
(* scopes, the most locals there were, and the chunks of the module.       *)
Fresh(chunks) == [locals |-> <<>>, ups |-> <<>>, outer |-> <<>>, depth |-> 0, most |-> 0,
                  chunks |-> chunks]

LastWith(seq, name) == SelectLastInSeq(seq, LAMBDA x : x.name = name)
FirstWith(seq, name) == SelectInSeq(seq, LAMBDA x : x.name = name)

\* add_local_ex
AddLocal0(s, name, owned) ==
    LET locals == Append(s.locals, [name |-> name, depth |-> s.depth, owned |-> owned])
    IN [s EXCEPT !.locals = locals, !.most = IF Len(locals) > @ THEN Len(locals) ELSE @]

\* capture_chain: where the innermost of the enclosing functions has name, and
\* those functions with the upvalues it takes to hand it down.
RECURSIVE CaptureChain(_, _)
CaptureChain(outer, name) ==
    IF outer = <<>> THEN [found |-> FALSE, outer |-> outer]
    ELSE LET e == Last(outer)
             l == LastWith(e.locals, name)
             u == FirstWith(e.ups, name)
         IN IF l # 0 THEN [found |-> TRUE, local |-> TRUE, index |-> l - 1, outer |-> outer]
            ELSE IF u # 0 THEN [found |-> TRUE, local |-> FALSE, index |-> u - 1, outer |-> outer]
            ELSE LET r == CaptureChain(Front(outer), name)
                     up == [name |-> name, local |-> r.local, index |-> r.index]
                 IN IF ~r.found THEN [found |-> FALSE, outer |-> outer]
                    ELSE [found |-> TRUE, local |-> FALSE, index |-> Len(e.ups),
                          outer |-> Append(r.outer, [e EXCEPT !.ups = Append(@, up)])]

\* resolve_name: a local, an upvalue (add_upvalue), or a global.
ResolveName(s, name) ==
    LET l == LastWith(s.locals, name)
        u == FirstWith(s.ups, name)
        r == CaptureChain(s.outer, name)
    IN IF l # 0 THEN [is |-> "Local", at |-> l - 1, s |-> s]
       ELSE IF u # 0 THEN [is |-> "Upvalue", at |-> u - 1, s |-> s]
       ELSE IF ~r.found THEN [is |-> "Global", at |-> name, s |-> s]
       ELSE [is |-> "Upvalue", at |-> Len(s.ups),
             s |-> [s EXCEPT !.outer = r.outer,
                             !.ups = Append(@, [name |-> name, local |-> r.local,
                                                index |-> r.index])]]

DropScope(s) ==    \* (mutant) owned locals are not disposed
    [code |-> <<>>, s |-> [s EXCEPT !.locals = SelectSeq(@, LAMBDA l : l.depth <= s.depth)]]
\* end_scope: the locals of the scope go, the last first; owned ones are disposed.
RECURSIVE CloseScope(_)
CloseScope(s) ==
    IF s.locals = <<>> \/ Last(s.locals).depth <= s.depth THEN [code |-> <<>>, s |-> s]
    ELSE LET l == Last(s.locals)
             r == CloseScope([s EXCEPT !.locals = Front(@)])
             slot == Len(s.locals) - 1
         IN [code |-> (IF l.owned
                       THEN << <<"GetLocal", slot>>, <<"Dup">>, <<"Constant", Str("Dispose")>>,
                               <<"GetProperty">>, <<"Call", 1>>, <<"Pop">> >>
                       ELSE <<>>) \o r.code,
             s |-> r.s]

\* patch_jump and emit_loop: the jumps to the labels of this listing get their
\* distances; those to other labels stay open.
Resolve(code) ==
    LET labels == {i \in 1..Len(code) : code[i][1] = "label"}
        At(i) == i - Cardinality({j \in labels : j < i})     \* address of the i-th entry
        Target(l) == {i \in labels : code[i][2] = l}
        Distance(i) == At(CHOOSE t \in Target(code[i][2]) : TRUE) - At(i) - 1
        Patched(i) == CASE code[i][1] # "goto" \/ Target(code[i][2]) = {} -> code[i]
                        [] code[i][3] = "Loop" -> <<"Loop", -Distance(i)>>
                        [] OTHER -> <<code[i][3], Distance(i)>>
    IN SelectSeq([i \in 1..Len(code) |-> Patched(i)], LAMBDA x : x[1] # "label")

-----------------------------------------------------------------------------
\* What is emitted for an expression, other than a name's ++ and --, and a lambda.

AssignListing(e) ==
    CASE e.to.is = "ident" ->
            (IF e.op = "Assign" THEN <<Ex(e.value)>>
             ELSE <<Get(e.to.name), Ex(e.value), Op(e.op)>>) \o <<Set(e.to.name)>>
      [] e.to.is = "member" ->
            <<Ex(e.to.object)>>
            \o (IF e.op = "Assign" THEN <<Ex(e.value)>>
                ELSE <<Op("Dup"), Const(Str(e.to.name)), Op("GetProperty"), Ex(e.value), Op(e.op)>>)
            \o <<Const(Str(e.to.name)), Op("SetProperty")>>
      [] e.to.is = "index" ->         \* a compound assignment is compiled as a plain one
            <<Ex(e.to.object), Ex(e.to.index), Ex(e.value), Op("SetIndex")>>

IsType(e, s) == e.is = "ident" /\ ResolveName(s, e.name).is = "Global"

\* A method call.  A receiver that is a name and neither a local nor captured is
\* taken for a type: the method is called without it.
CallListing(e, s) ==
    LET args == [i \in 1..Len(e.args) |-> Ex(e.args[i])]
    IN CASE e.to.is = "ident" /\ e.to.name = "print" -> args \o <<Op("Print")>>
         [] e.to.is = "member" /\ IsType(e.to.object, s) ->
               <<Ex(e.to.object), Const(Str(e.to.name)), Op("GetProperty")>>
               \o args \o <<Ins(<<"Call", Len(args)>>)>>
         [] e.to.is = "member" /\ ~IsType(e.to.object, s) ->
               <<Ex(e.to.object), Op("Dup"), Const(Str(e.to.name)), Op("GetProperty")>>
               \o args \o <<Ins(<<"Call", Len(args) + 1>>)>>
         [] OTHER -> <<Ex(e.to)>> \o args \o <<Ins(<<"Call", Len(args)>>)>>

ExprListing(e, s) ==
    CASE e.is = "lit" -> <<Const(e.value)>>
      [] e.is = "ident" -> <<Get(e.name)>>
      [] e.is = "and" -> <<Ex(e.l), Goto("JumpIfFalse", "out"), Op("Pop"), Ex(e.r), Label("out")>>
      [] e.is = "or" -> <<Ex(e.l), Goto("JumpIfTrue", "out"), Op("Pop"), Ex(e.r), Label("out")>>
      [] e.is = "binary" -> <<Ex(e.l), Ex(e.r), Op(e.op)>>
      [] e.is = "unary" -> <<Ex(e.e), Op(e.op)>>
      [] e.is = "is" -> <<Ex(e.e), Const(<<"type", e.type>>), Op("IsInstance")>>
      [] e.is = "interpolated" ->
            <<Const(Str(""))>>
            \o Concat([i \in 1..Len(e.parts) |->
                          IF e.parts[i].is = "lit" THEN <<Ex(e.parts[i]), Op("Add")>>
                          ELSE <<Ex(e.parts[i]), Op("ToString"), Op("Add")>>], Len(e.parts))
      [] e.is = "ternary" ->
            <<Ex(e.cond), Goto("JumpIfFalse", "else"), Op("Pop"), Ex(e.then), Goto("Jump", "out"),
              Label("else"), Op("Pop"), Ex(e.else), Label("out")>>
      [] e.is = "assign" -> AssignListing(e)
      [] e.is = "call" -> CallListing(e, s)
      [] e.is = "member" ->
            <<Ex(e.object)>>
            \o (IF ~e.safe THEN <<Const(Str(e.name)), Op("GetProperty")>>
                ELSE <<Op("Dup"), Op("IsNull"), Goto("JumpIfTrue", "null"), Op("Pop"),
                       Const(Str(e.name)), Op("GetProperty"), Goto("Jump", "out"),
                       Label("null"), Op("Pop"), Op("Pop"), Const(Null), Label("out")>>)
      [] e.is = "index" -> <<Ex(e.object), Ex(e.index), Op("GetIndex")>>
      [] e.is = "array" -> [i \in 1..Len(e.items) |-> Ex(e.items[i])]
                           \o <<Ins(<<"NewArray", Len(e.items)>>)>>
      [] e.is = "new" ->
            <<Op("NewObject")>>
            \o Concat([i \in 1..Len(e.init) |->
                          <<Op("Dup"), Ex(e.init[i][2]), Const(Str(e.init[i][1])),
                            Op("SetProperty"), Op("Pop")>>], Len(e.init))
      [] e.is = "await" -> <<Ex(e.e), Op("Await")>>

\* ++ and --, by where the name is.
IncDec(e, r) ==
    LET step == IF e.by = 1 THEN "IncLocal" ELSE "DecLocal"
        plus == IF e.by = 1 THEN "Add" ELSE "Sub"
    IN CASE e.e.is # "ident" -> <<Ex(e.e)>>
         [] e.e.is = "ident" /\ r.is = "Local" ->
               IF e.post THEN <<Ins(<<"GetLocal", r.at>>), Ins(<<step, r.at>>)>>
               ELSE <<Ins(<<step, r.at>>), Ins(<<"GetLocal", r.at>>)>>
         [] e.e.is = "ident" /\ r.is = "Upvalue" ->
               <<Ins(<<"GetUpvalue", r.at>>)>> \o (IF e.post THEN <<Op("Dup")>> ELSE <<>>)
               \o <<Const(Num(1)), Op(plus), Ins(<<"SetUpvalue", r.at>>)>>
               \o (IF e.post THEN <<Op("Pop")>> ELSE <<>>)
         [] OTHER -> <<Ins(<<"GetGlobal", r.at>>), Const(Num(1)), Op(plus),
                       Ins(<<"SetGlobal", r.at>>)>>

-----------------------------------------------------------------------------
\* What is emitted for a statement.
Loop(start, cond, exit) ==        \* the test of a loop
    <<Label(start), Ex(cond), Goto("JumpIfFalse", exit), Op("Pop")>>

ForeachListing(t) ==
    <<Open, Ex(t.in), Bind("__iter", FALSE), Const(Num(0)), Bind("__i", FALSE),
      Label("start"), OfLocal("GetLocal", "__i"), OfLocal("GetLocal", "__iter"),
      Const(Str("Length")), Op("GetProperty"), Op("Lt"), Goto("JumpIfFalse", "exit"), Op("Pop"),
      OfLocal("GetLocal", "__iter"), OfLocal("GetLocal", "__i"), Op("GetIndex"),
      Bind(t.var, FALSE)>>
    \o (IF t.index = "" THEN <<>> ELSE <<OfLocal("GetLocal", "__i"), Bind(t.index, FALSE)>>)
    \o BlockOf(t.body)
    \o <<Label("continue"), OfLocal("IncLocal", "__i"), Goto("Loop", "start"),
         Label("exit"), Op("Pop"), Label("break"), Close>>

\* A pattern of a case: the last one falls into the arm if it matches, the
\* others jump to a place of their own before the arm that starts with a Pop.
\* A value below a range goes to the next case, whatever patterns follow.
PatternListing(c, k) ==
    LET p == c.patterns[k]
        hit == IF k = Len(c.patterns) THEN <<GotoOf("JumpIfFalse", "next", c.at), Op("Pop")>>
               ELSE <<GotoOf("JumpIfTrue", "skip", <<c.at, k>>), Op("Pop")>>
    IN IF p.is = "value" THEN <<Op("Dup"), Ex(p.e), Op("Eq")>> \o hit
       ELSE <<Op("Dup"), Ex(p.lo), Op("Ge"), GotoOf("JumpIfFalse", "low", <<c.at, k>>), Op("Pop"),
              Op("Dup"), Ex(p.hi), Op("Le")>> \o hit
            \o <<GotoOf("Jump", "clean", <<c.at, k>>),
                 LabelOf("low", <<c.at, k>>), Op("Pop"), GotoOf("Jump", "guard", c.at),
                 LabelOf("clean", <<c.at, k>>)>>

\* compile_switch_body: a break directly in the arm ends the switch; any other
\* break is that of a loop around it.
SwitchBody(stmts) ==
    Concat([i \in 1..Len(stmts) |-> IF stmts[i].is = "break" THEN <<Goto("Jump", "end")>>
                                    ELSE <<Body(<<stmts[i]>>)>>], Len(stmts))

ArmListing(c) ==
    LET n == Len(c.patterns)
        body == <<Op("Pop")>> \o SwitchBody(c.body)
        bind == IF c.bind = "" THEN <<>> ELSE <<Op("Dup"), Bind(c.bind, FALSE)>>
        guard == IF c.guard = <<>> THEN <<>>
                 ELSE <<Ex(c.guard[1]), GotoOf("JumpIfFalse", "fail", c.at)>>
        fail == IF c.guard = <<>> THEN <<>> ELSE <<LabelOf("fail", c.at), Op("Pop")>>
    IN CASE n = 0 /\ c.guard = <<>> /\ c.bind = "" -> body         \* default
         [] n = 0 /\ ~(c.guard = <<>> /\ c.bind = "") ->
               bind \o guard \o body \o <<Goto("Jump", "end")>> \o fail
         [] n > 0 ->
               Concat([k \in 1..n |-> PatternListing(c, k)], n)
               \o Concat([k \in 1..(n - 1) |-> <<LabelOf("skip", <<c.at, k>>), Op("Pop")>>], n - 1)
               \o bind \o guard \o body \o <<Goto("Jump", "end")>>
               \o (IF fail = <<>> THEN <<>> ELSE fail \o <<GotoOf("Jump", "guard", c.at)>>)
               \o <<LabelOf("next", c.at), Op("Pop"), LabelOf("guard", c.at)>>

SwitchListing(t) ==
    <<Ex(t.e)>>
    \o Concat([i \in 1..Len(t.cases) |-> ArmListing([at |-> i] @@ t.cases[i])], Len(t.cases))
    \o <<Op("Pop"), Label("end")>>

\* A typed catch that does not match jumps to the place kept for as many typed
\* catches as there are so far, which is put after the catch of that position.
TryListing(t) ==
    LET Typed(i) == Cardinality({j \in 1..i : t.catches[j].type # ""})
        Arm(i) ==
            LET c == t.catches[i] IN
            (IF c.type = "" THEN <<>>
             ELSE <<Op("Dup"), Const(Str(c.type)), Op("StringStartsWith"),
                    GotoOf("JumpIfFalse", "unmatched", Typed(i)), Op("Pop")>>)
            \o (IF c.name = "" THEN <<Op("Pop")>> ELSE <<Bind(c.name, FALSE)>>)
            \o BlockOf(c.body) \o <<Goto("Jump", "done")>>
            \o (IF i > Typed(i) THEN <<>> ELSE <<LabelOf("unmatched", i), Op("Pop")>>)
        catchAll == \E i \in DOMAIN t.catches : t.catches[i].type = ""
    IN <<Goto("TryBegin", "handler")>> \o BlockOf(t.body) \o <<Op("TryEnd"), Goto("Jump", "done"),
         Label("handler")>>
       \o Concat([i \in 1..Len(t.catches) |-> Arm(i)], Len(t.catches))
       \o <<IF catchAll THEN Op("Pop") ELSE Op("Throw"), Label("done")>>
       \o (IF t.finally = <<>> THEN <<>> ELSE BlockOf(t.finally[1]))

\* Results are told apart by their property ok, other values by their Tag.
Failing == {"Error", "Err"}
MatchListing(t) ==
    LET Arm(i) ==
            LET a == t.arms[i]
                result == a.pattern \in Failing \cup {"Ok"}
            IN
            <<Op("Dup"), Const(Str(IF result THEN "ok" ELSE "Tag")), Op("GetProperty"),
              Const(IF result THEN Bool(a.pattern = "Ok") ELSE Str(a.pattern)), Op("Eq"),
              GotoOf("JumpIfFalse", "next", i), Op("Pop")>>
            \o (IF a.bind = "" THEN <<>>
                ELSE <<Op("Dup"), Const(Str(IF a.pattern \in Failing THEN "error" ELSE "value")),
                       Op("GetProperty"), Bind(a.bind, FALSE)>>)
            \o <<Op("Pop"), Ex(a.body), Op("Pop"), Goto("Jump", "out"), LabelOf("next", i), Op("Pop")>>
    IN <<Ex(t.e)>> \o Concat([i \in 1..Len(t.arms) |-> Arm(i)], Len(t.arms))
       \o <<Op("Pop"), Label("out")>>

StmtListing(t, s) ==
    CASE t.is = "expr" -> <<Ex(t.e), Op("Pop")>>
      [] t.is = "default" ->          \* without a value: structs are made
            <<IF t.struct THEN Op("NewObject") ELSE Const(Null),
              IF s.depth > 0 THEN Bind(t.name, FALSE) ELSE Ins(<<"DefineGlobal", t.name>>)>>
      [] t.is = "decl" ->
            <<Ex(t.e), IF s.depth > 0 THEN Bind(t.name, t.owned) ELSE Ins(<<"DefineGlobal", t.name>>)>>
      [] t.is = "return" -> <<Ex(t.e), Op("Return")>>
      [] t.is = "if" ->
            <<Ex(t.cond), Goto("JumpIfFalse", "else"), Op("Pop")>> \o BlockOf(t.then)
            \o <<Goto("Jump", "out"), Label("else"), Op("Pop")>> \o BlockOf(t.else) \o <<Label("out")>>
      [] t.is = "while" ->
            Loop("start", t.cond, "exit") \o BlockOf(t.body)
            \o <<Label("continue"), Goto("Loop", "start"), Label("exit"), Op("Pop"), Label("break")>>
      [] t.is = "do" ->
            <<Label("start")>> \o BlockOf(t.body)
            \o <<Label("continue"), Ex(t.cond), Goto("JumpIfFalse", "exit"), Op("Pop"),
                 Goto("Loop", "start"), Label("exit"), Op("Pop"), Label("break")>>
      [] t.is = "for" ->
            <<Open, Body(<<t.init>>)>> \o Loop("start", t.cond, "exit") \o BlockOf(t.body)
            \o <<Label("continue"), Ex(t.step), Op("Pop"), Goto("Loop", "start"),
                 Label("exit"), Op("Pop"), Label("break"), Close>>
      [] t.is = "foreach" -> ForeachListing(t)
      [] t.is = "break" -> <<Goto("Jump", "break")>>
      [] t.is = "continue" -> <<Goto("Jump", "continue")>>
      [] t.is = "block" -> BlockOf(t.body)
      [] t.is = "switch" -> SwitchListing(t)
      [] t.is = "throw" -> <<Ex(t.e), Op("Throw")>>
      [] t.is = "try" -> TryListing(t)
      [] t.is = "using" -> <<Body(<<t.decl>>)>> \o BlockOf(t.body) \o DisposeOf(t.decl.name)
      [] t.is = "match" -> MatchListing(t)

-----------------------------------------------------------------------------
RECURSIVE Assemble(_, _), Lambda(_, _)

GetOp == [Local |-> "GetLocal", Upvalue |-> "GetUpvalue", Global |-> "GetGlobal"]
SetOp == [Local |-> "SetLocal", Upvalue |-> "SetUpvalue", Global |-> "SetGlobal"]
Emit(r, code, s) == [code |-> r.code \o code, s |-> s]

\* compile_expr, compile_stmt, and the rest of a listing.
Entry(r, x) ==
    LET s == r.s
        name == ResolveName(s, x[2])
        slot == LastWith(s.locals, x[3]) - 1
        IncDecName(e) == IF e.e.is = "ident" THEN ResolveName(s, e.e.name) ELSE [s |-> s]
    IN CASE x[1] = "ins" -> Emit(r, <<x[2]>>, s)
         [] x[1] \in {"label", "goto"} -> Emit(r, <<x>>, s)
         [] x[1] = "open" -> Emit(r, <<>>, [s EXCEPT !.depth = @ + 1])
         [] x[1] = "close" -> LET c == CloseScope([s EXCEPT !.depth = @ - 1]) IN Emit(r, c.code, c.s)
         [] x[1] = "bind" -> Emit(r, << <<"SetLocal", Len(s.locals)>>, <<"Pop">> >>,
                                  AddLocal0(s, x[2], x[3]))
         [] x[1] \in {"get", "set"} ->
               Emit(r, << <<IF x[1] = "get" THEN GetOp[name.is] ELSE SetOp[name.is], name.at>> >>, name.s)
         [] x[1] = "local" -> Emit(r, << <<x[2], slot>> >>, s)
         [] x[1] = "expr" ->
               LET e == x[2]
                   a == CASE e.is = "lambda" -> Lambda(e, s)
                          [] e.is = "incdec" -> Assemble(IncDec(e, IncDecName(e)), IncDecName(e).s)
                          [] OTHER -> Assemble(ExprListing(e, s), s)
               IN Emit(r, a.code, a.s)
         [] x[1] = "stmts" ->
               LET All == Fold(LAMBDA a, t : LET b == Assemble(StmtListing(t, a.s), a.s)
                                                 IN Emit(a, b.code, b.s),
                                   [code |-> <<>>, s |-> s], x[2])
               IN Emit(r, All.code, All.s)

Assemble(listing, s) ==
    LET r == Fold(Entry, [code |-> <<>>, s |-> s], listing)
    IN [code |-> Resolve(r.code), s |-> r.s]

Lambda(e, s) ==
    LET inner == [Fresh(s.chunks) EXCEPT !.outer = Append(s.outer, [locals |-> s.locals, ups |-> s.ups])]
        withParams == Fold(LAMBDA a, p : AddLocal0(a, p, FALSE), [inner EXCEPT !.depth = 1], e.params)
        r == Assemble(BlockOf(e.body) \o <<Const(Null), Op("Return"), Close>>, withParams)
        enclosing == Last(r.s.outer)
        chunk == [code |-> r.code, arity |-> Len(e.params), locals |-> r.s.most]
        captures == [i \in 1..Len(r.s.ups) |-> [local |-> r.s.ups[i].local, index |-> r.s.ups[i].index]]
    IN [code |-> << <<"Constant", <<"fn", Len(r.s.chunks) + 1, <<>> >> >> >>
                 \o (IF captures = <<>> THEN <<>> ELSE << <<"MakeClosure", captures>> >>),
        s |-> [s EXCEPT !.outer = Front(r.s.outer), !.ups = enclosing.ups,
                        !.chunks = Append(r.s.chunks, chunk)]]

\* compile_function: chunks 1.. are those of the lambdas so far; the function's is next.
Function(f, chunks) ==
    LET s == Fold(LAMBDA a, p : AddLocal0(a, p, FALSE), [Fresh(chunks) EXCEPT !.depth = 1], f.params)
        r == Assemble(BlockOf(f.body) \o <<Const(Null), Op("Return"), Close>>, s)
    IN Append(r.s.chunks, [code |-> r.code, arity |-> Len(f.params), locals |-> r.s.most])

\* Compiler::compile: the functions, the script that defines them and the
\* globals and calls Main.  A program is [fns, globals, main].
Module0(p) ==
    LET one == Fold(LAMBDA a, f : LET cs == Function(f, a.chunks)
                                      IN [chunks |-> cs, at |-> Append(a.at, Len(cs))],
                        [chunks |-> <<>>, at |-> <<>>], p.fns)
        define == Concat([i \in 1..Len(p.fns) |->
                             << <<"Constant", <<"fn", one.at[i], <<>> >> >>,
                                <<"DefineGlobal", p.fns[i].name>> >>], Len(p.fns))
        globals == Concat([i \in 1..Len(p.globals) |->
                             << <<"Constant", p.globals[i][2]>>, <<"DefineGlobal", p.globals[i][1]>> >>],
                          Len(p.globals))
        script == globals \o define \o << <<"GetGlobal", "Main">>, <<"Call", 0>>, <<"Await">>,
                                          <<"Pop">>, <<"Halt">> >>
    IN Append(one.chunks, [code |-> script, arity |-> 0, locals |-> 0])
=============================================================================
