-------------------------------- MODULE Sema --------------------------------
(***************************************************************************)
(* The type checker (sema.rs): the declarations of a program are entered   *)
(* in tables, the inheritance is checked, then the bodies.  A checker is a *)
(* record that is passed along; "errs" are the kinds of errors reported,   *)
(* and a program is accepted when there are none.  A check of an           *)
(* expression gives [c, t], the checker after it and the type.             *)
(*                                                                         *)
(* Warnings are left out, namespaces are taken as flat, and an index       *)
(* expression has one index.  "notes" is not in the code: it names where   *)
(* the checker lets something pass that it has not established.            *)
(***************************************************************************)
EXTENDS Types, SequencesExt, TLC

CONSTANTS StdTypes, StdFunctions     \* the built-in types and functions, by name

Ma == INSTANCE Machine

NoNames == [name \in {} |-> 0]
Clean == [errs |-> {}, notes |-> {}, types |-> StdTypes, fns |-> StdFunctions, globals |-> NoNames,
          scopes |-> <<>>, ret |-> <<>>, this |-> <<>>, base |-> <<>>, tps |-> {}, bases |-> NoNames,
          constraints |-> NoNames, exts |-> NoNames, cur |-> "", loops |-> 0, unsafe |-> FALSE]
R(c, t) == [c |-> c, t |-> t]
Err(c, what) == [c EXCEPT !.errs = @ \cup {what}]
Need(c, ok, what) == IF ok THEN c ELSE Err(c, what)
Failing(c, what) == R(Err(c, what), Bad)
Trust(c, when, what) == IF when THEN [c EXCEPT !.notes = @ \cup {what}] ELSE c

TypeNames == {"void", "bool", "char", "string", "dyn", "var", "ptr", "object"} \cup IntegerNames \cup Floats

-----------------------------------------------------------------------------
\* Inheritance.  Where the bases run in a circle, which the code follows for
\* ever, a walk ends here when it comes to a type again.
RECURSIVE Above(_, _)
Above(c, names) ==
    LET more == names \cup UNION {Range(c.bases[n]) : n \in names \cap DOMAIN c.bases}
    IN IF more = names THEN names ELSE Above(c, more)
IsAncestor(c, ancestor, name) == ancestor \in Above(c, {name})
IsSubtype(c, child, parent) ==
    /\ child[1] \in {"named", "generic"}
    /\ \/ parent[1] = "named"
       \/ child[1] = "generic" /\ parent[1] = "generic"
    /\ IsAncestor(c, parent[2], child[2])

\* The types that a lookup visits: the type, its first base, and so on.
RECURSIVE ChainFrom(_, _, _)
ChainFrom(c, name, seen) ==
    IF name \notin DOMAIN c.types \/ name \in seen THEN <<>>
    ELSE <<name>> \o (IF c.types[name].bases = <<>> THEN <<>>
                      ELSE ChainFrom(c, Head(c.types[name].bases), seen \cup {name}))
Holders(c, name, parts, member) ==
    SelectSeq(ChainFrom(c, name, {}), LAMBDA n : \E p \in parts : member \in DOMAIN c.types[n][p])
LookupMethod(c, name, method) ==               \* <<signature>> or <<>>
    LET at == Holders(c, name, {"methods"}, method)
    IN IF at = <<>> THEN <<>> ELSE <<c.types[Head(at)].methods[method]>>
LookupStatic(c, name, field) ==
    LET at == Holders(c, name, {"statics", "sprops"}, field)
    IN IF at = <<>> THEN <<>>
       ELSE LET d == c.types[Head(at)]
            IN <<IF field \in DOMAIN d.statics THEN d.statics[field] ELSE d.sprops[field]>>

\* type_category and is_semantically_assignable.
CategoryOf(c, t) ==
    IF t[1] \in {"named", "generic"} /\ t[2] \in DOMAIN c.types
    THEN IF c.types[t[2]].kind = "struct" THEN "value" ELSE "reference" ELSE Category(t)
RECURSIVE Assignable(_, _, _)
SameArguments(c, as, bs) ==
    \A i \in DOMAIN as : Assignable(c, as[i], bs[i]) /\ Assignable(c, bs[i], as[i])
Assignable(c, from, to) ==
    IF {Bad, Dyn} \cap {from, to} # {} THEN TRUE
    ELSE IF from = NullTy THEN CategoryOf(c, to) \in Nullish
    ELSE IF to[1] = "nullable" THEN Assignable(c, from, to[2])
    ELSE /\ from[1] # "nullable"
         /\ IF /\ from[1] = "generic" /\ to[1] = "generic"
               /\ from[2] = to[2] /\ Len(from[3]) = Len(to[3])
            THEN SameArguments(c, from[3], to[3])
            ELSE \/ IsIntegral(from) /\ IsIntegral(to)
                 \/ {from[1], to[1]} = {"float", "double"}
                 \/ AssignableTo(from, to)
                 \/ IsSubtype(c, from, to)

\* What an assignment takes on trust: a dyn, null as an object, an array as
\* one of wider elements.
RECURSIVE HasDyn(_)
HasDyn(t) ==
    CASE t[1] \in {"array", "nullable", "ptr"} -> HasDyn(t[2])
      [] t[1] = "generic" -> \E i \in DOMAIN t[3] : HasDyn(t[3][i])
      [] t[1] = "func" -> HasDyn(t[3]) \/ \E i \in DOMAIN t[2] : HasDyn(t[2][i])
      [] OTHER -> t \in {Dyn, Bad}
Passing(c, from, to) ==
    LET a == Unwrapped(from)
        b == Unwrapped(to)
    IN Trust(Trust(Trust(c, to # Dyn /\ HasDyn(from), "dyn"),
                   from = NullTy /\ to[1] \notin {"nullable", "dyn"}, "null"),
             a[1] = "array" /\ b[1] = "array" /\ a # b, "array")
\* expect_assignable
Expect(c, from, to, what) == Need(Passing(c, from, to), Assignable(c, from, to), what)
ExpectAll(c, froms, tos, what) ==
    Ma!Fold(LAMBDA x, i : IF tos[i] = Dyn THEN x ELSE Expect(x, froms[i], tos[i], what),
            c, [i \in 1..(IF Len(froms) < Len(tos) THEN Len(froms) ELSE Len(tos)) |-> i])

-----------------------------------------------------------------------------
\* Types as they are written.
HasDefault(c, t) ==
    CASE t[1] \in {"named", "generic"} ->
           /\ t[2] \in DOMAIN c.types
           /\ \/ c.types[t[2]].kind = "struct"
              \/ \E i \in DOMAIN c.types[t[2]].ctors : c.types[t[2]].ctors[i].params = <<>>
      [] OTHER -> t[1] \notin {"void", "null", "func", "param"}
RECURSIVE Resolve(_, _), Validated(_, _), HasGeneric(_)
HasGeneric(t) ==
    CASE t[1] \in {"array", "nullable", "ptr"} -> HasGeneric(t[2])
      [] OTHER -> t[1] = "generic"
\* Only a generic type that stands by itself is validated.
Inner(t) == IF t[1] = "generic" THEN \E i \in DOMAIN t[3] : HasGeneric(t[3][i]) ELSE HasGeneric(t)
Resolve(c, ref) ==
    LET plain == ref.args = <<>>
        param == <<"param", ref.name>>
        t == TypeOf(ref)
        known == TypeNames \cup DOMAIN c.types \cup c.tps \cup {c.cur}
    IN CASE plain /\ ref.name = c.cur -> R(c, t)
         [] plain /\ ref.name \in c.tps /\ ref.name # c.cur /\ ref.dims = 0 ->
              R(c, IF ref.opt THEN MakeNullable(param) ELSE param)
         [] OTHER ->
              CASE t[1] = "named" /\ t[2] \notin known -> Failing(c, "unknown type")
                [] t[1] = "generic" -> R(Trust(Validated(c, t), Inner(t), "inner"), t)
                [] OTHER -> R(Trust(c, Inner(t), "inner"), t)
ResolveAll(c, refs) ==
    Ma!Fold(LAMBDA x, r : LET y == Resolve(x.c, r) IN R(y.c, Append(x.t, y.t)), R(c, <<>>), refs)

\* validate_named_generic_instantiation
Satisfies(c, arg, bound) ==
    IF bound.name = "new" /\ bound.args = <<>>
    THEN Trust(Need(c, HasDefault(c, arg), "constraint"),
               \/ arg[1] = "nullable"
               \/ arg[1] = "named" /\ arg[2] \in DOMAIN c.types /\ c.types[arg[2]].abstract, "default")
    ELSE LET r == Resolve(c, bound) IN Need(Passing(r.c, arg, r.t), Assignable(r.c, arg, r.t), "constraint")
Validated(c, t) ==
    IF t[2] \notin DOMAIN c.types THEN c
    ELSE LET tps == c.types[t[2]].tps
             declared == IF t[2] \in DOMAIN c.constraints THEN c.constraints[t[2]] ELSE <<>>
         IN IF Len(tps) # Len(t[3]) THEN Err(c, "number of type arguments")
            ELSE Ma!Fold(LAMBDA x, gc :
                     LET at == SelectInSeq(tps, LAMBDA p : p = gc.param)
                     IN IF at = 0 THEN x
                        ELSE Ma!Fold(LAMBDA y, b : Satisfies(y, t[3][at], b), x, gc.bounds),
                 c, declared)

-----------------------------------------------------------------------------
\* Declarations.
NewDef(d) ==
    [kind |-> d.is, tps |-> d.tps, fields |-> NoNames, statics |-> NoNames, props |-> NoNames,
     sprops |-> NoNames, methods |-> NoNames, ctors |-> <<>>,
     bases |-> IF d.is = "class" THEN d.bases ELSE <<>>,
     abstract |-> IF d.is = "class" THEN d.abstract ELSE d.is = "interface"]
Predeclare(c, d) ==
    IF d.is \notin {"class", "struct", "interface"} \/ d.name \in DOMAIN c.types THEN c
    ELSE LET named == [c EXCEPT !.types = (d.name :> NewDef(d)) @@ @]
         IN IF d.is # "class" THEN [named EXCEPT !.constraints = (d.name :> <<>>) @@ @]
            ELSE [named EXCEPT !.constraints = (d.name :> d.constraints) @@ @,
                               !.bases = (d.name :> d.bases) @@ @]

\* A function is [name, tps, params, types, ret, static, async, ...].
TaskOf(t) == IF t[1] \in {"generic", "named"} /\ t[2] = "Task" THEN t ELSE <<"generic", "Task", <<t>> >>
OutOfTask(t) ==
    CASE t[1] = "generic" /\ t[2] = "Task" -> IF t[3] = <<>> THEN Void ELSE Head(t[3])
      [] t = <<"named", "Task">> -> Dyn
      [] OTHER -> t
Sig(name, params, ret, tps, static) ==
    [name |-> name, params |-> params, ret |-> ret, tps |-> tps, static |-> static]
SigOf(c, f) ==
    LET ps == ResolveAll([c EXCEPT !.tps = @ \cup Range(f.tps)], f.types)
        r == Resolve(ps.c, f.ret)
    IN R([r.c EXCEPT !.tps = c.tps],
         Sig(f.name, ps.t, IF f.async THEN TaskOf(r.t) ELSE r.t, f.tps, f.static))

With(f, name, x) == (name :> x) @@ f
WithNew(f, name, x) == f @@ (name :> x)
CollectMember(x, m, owner) ==                  \* x is [c, def]
    LET typed == IF m.type = <<>> THEN R(x.c, Dyn) ELSE Resolve(x.c, m.type[1])
        params == ResolveAll(x.c, m.types)
        part == IF m.static THEN "statics" ELSE "fields"
        prop == IF m.static THEN "sprops" ELSE "props"
    IN CASE m.is = "field" ->
              [c |-> Need(typed.c, m.name \notin DOMAIN x.def[part], "duplicate field"),
               def |-> [x.def EXCEPT ![part] = With(@, m.name, typed.t)]]
         [] m.is = "property" ->
              LET named == [x.def EXCEPT ![prop] = With(@, m.name, typed.t)]
              IN [c |-> typed.c,
                  def |-> IF m.auto THEN [named EXCEPT ![part] = WithNew(@, m.name, typed.t)] ELSE named]
         [] m.is = "method" ->
              LET s == SigOf(x.c, m)
              IN [c |-> Need(s.c, m.name \notin DOMAIN x.def.methods, "duplicate method"),
                  def |-> [x.def EXCEPT !.methods = With(@, m.name, s.t)]]
         [] m.is = "ctor" ->
              [c |-> params.c,
               def |-> [x.def EXCEPT !.ctors =
                          Append(@, Sig("new", params.t, <<"named", owner>>, x.def.tps, TRUE))]]
         [] m.is = "indexer" ->
              LET r == Resolve(params.c, m.type[1])
                  get == With(x.def.methods, "get_Item", Sig("get_Item", params.t, r.t, <<>>, FALSE))
              IN [c |-> r.c,
                  def |-> [x.def EXCEPT !.methods =
                    IF m.setter = <<>> THEN get
                    ELSE With(get, "set_Item", Sig("set_Item", Append(params.t, r.t), Void, <<>>, FALSE))]]
         [] OTHER -> x                         \* destructors and operators

CollectType(c, d) ==
    LET as == IF d.is = "union" THEN [d EXCEPT !.is = "struct"] ELSE d
        known == Predeclare(c, as)
        empty == [known.types[d.name] EXCEPT !.fields = NoNames, !.statics = NoNames, !.props = NoNames,
                      !.sprops = NoNames, !.methods = NoNames,
                      !.ctors = IF d.is = "interface" THEN @ ELSE <<>>]
        def == IF d.is = "class" THEN [empty EXCEPT !.bases = d.bases, !.abstract = d.abstract] ELSE empty
        in == [known EXCEPT !.tps = @ \cup Range(d.tps), !.cur = d.name,
                            !.bases = IF d.is = "class" THEN With(@, d.name, d.bases) ELSE @]
        x == Ma!Fold(LAMBDA y, m : CollectMember(y, m, d.name), [c |-> in, def |-> def], d.members)
    IN [x.c EXCEPT !.tps = c.tps, !.cur = "", !.types = With(@, d.name, x.def)]

CollectFunction(c, f) ==
    LET s == SigOf(c, f)
        receiver == f.types[1].name
        methods == IF receiver \in DOMAIN s.c.exts THEN s.c.exts[receiver] ELSE NoNames
        extended == IF f.extension /\ f.types # <<>>
                    THEN [s.c EXCEPT !.exts = With(@, receiver, With(methods, f.name, s.t))] ELSE s.c
        once == f.name \in DOMAIN StdFunctions \/ f.name \notin DOMAIN c.fns
    IN [Need(extended, once, "duplicate function") EXCEPT !.fns = With(@, f.name, s.t)]

Collect(c, d) ==
    CASE d.is \in {"class", "struct", "union", "interface"} -> CollectType(c, d)
      [] d.is = "function" -> CollectFunction(c, d)
      [] d.is = "const" ->
           LET r == Resolve(c, d.type)
           IN [r.c EXCEPT !.globals = With(@, d.name, [t |-> r.t, const |-> TRUE])]

\* check_interface_contract and check_inheritance.
Contract(c, child, i) ==
    LET mine == c.types[child]
        its == c.types[i]
        Meets(m) ==
            /\ Len(mine.methods[m].params) = Len(its.methods[m].params)
            /\ Assignable(c, mine.methods[m].ret, its.methods[m].ret)
            /\ mine.methods[m].static = its.methods[m].static
    IN Need(Need(c, DOMAIN its.methods \subseteq DOMAIN mine.methods
                      /\ DOMAIN its.props \subseteq DOMAIN mine.props, "not implemented"),
            /\ \A m \in DOMAIN its.methods \cap DOMAIN mine.methods : Meets(m)
            /\ \A p \in DOMAIN its.props \cap DOMAIN mine.props :
                 Assignable(c, mine.props[p], its.props[p]) /\ Assignable(c, its.props[p], mine.props[p]),
            "implements otherwise")
OverridesWithAnyResult(c, name, base) ==       \* (mutant)
    Need(c, \A m \in DOMAIN c.types[name].methods :
              LookupMethod(c, base, m) # <<>> =>
                Len(c.types[name].methods[m].params) = Len(LookupMethod(c, base, m)[1].params), "overrides otherwise")
Overrides(c, name, base) ==
    LET Inherited(m) == LookupMethod(c, base, m)
        Fits(mine, its) == /\ Len(mine.params) = Len(its.params)
                           /\ mine.ret = its.ret \/ Assignable(c, mine.ret, its.ret)
        methods == {m \in DOMAIN c.types[name].methods : Inherited(m) # <<>>}
        Same(m) == LET mine == c.types[name].methods[m]
                       its == Inherited(m)[1]
                   IN mine.params = its.params /\ mine.static = its.static
    IN Trust(Need(c, \A m \in methods : Fits(c.types[name].methods[m], Inherited(m)[1]), "overrides otherwise"),
             \E m \in methods : ~Same(m), "override")
\* A field is not compared with the one it hides.
Hidden(c, name, base) ==
    \E f \in DOMAIN c.types[name].fields, n \in Range(ChainFrom(c, base, {name})) :
      f \in DOMAIN c.types[n].fields /\ c.types[n].fields[f] # c.types[name].fields[f]
\* A lookup follows the first bases only.
Lost(c, name, base) ==
    LET At(n) == UNION {DOMAIN c.types[x].fields \cup DOMAIN c.types[x].methods : x \in Range(ChainFrom(c, n, {}))}
    IN ~(At(base) \subseteq At(name))
\* The code follows a circle of bases for ever if it does not come to the type.
Circle(c, base) == \E n \in Above(c, {base}) \cap DOMAIN c.bases :
                     \E b \in Range(c.bases[n]) : n \in Above(c, {b})
CheckBase(c, name, base) ==
    LET known == Need(Need(c, name = base \/ ~IsAncestor(c, name, base), "cycle"),
                      IsAncestor(c, name, base) \/ ~Circle(c, base), "endless")
        met == IF c.types[base].kind = "interface" THEN Contract(known, name, base) ELSE known
        noted == Trust(Trust(Trust(met, name = base, "own base"), Lost(c, name, base), "second base"),
                       Hidden(c, name, base), "hidden field")
    IN Overrides(noted, name, base)
CheckInheritance(c) ==
    LET pairs == UNION {{<<n, b>> : b \in Range(c.bases[n])} : n \in DOMAIN c.bases}
        One(x, e) == IF e[2] \in DOMAIN c.types THEN CheckBase(x, e[1], e[2]) ELSE Err(x, "unknown base")
    IN Ma!Fold(One, c, SetToSeq(pairs))

-----------------------------------------------------------------------------
\* Scopes.
Enter(c) == [c EXCEPT !.scopes = Append(@, NoNames)]
Exit(c) == [c EXCEPT !.scopes = Front(@)]
DeclareAs(c, name, t, const) ==
    LET var == [t |-> t, const |-> const]
        n == Len(c.scopes)
    IN IF n = 0 THEN [c EXCEPT !.globals = With(@, name, var)]
       ELSE [Need(c, name \notin DOMAIN c.scopes[n], "already declared")
               EXCEPT !.scopes[n] = With(@, name, var)]
Declare(c, name, t) == DeclareAs(c, name, t, FALSE)
LookupVar(c, name) ==                          \* <<variable>> or <<>>
    LET at == SelectLastInSeq(c.scopes, LAMBDA s : name \in DOMAIN s)
    IN IF at # 0 THEN <<c.scopes[at][name]>>
       ELSE IF name \in DOMAIN c.globals THEN <<c.globals[name]>> ELSE <<>>
IsConst(c, name) == LookupVar(c, name) # <<>> /\ LookupVar(c, name)[1].const

-----------------------------------------------------------------------------
\* Members.
FuncOf(sig) == <<"func", sig.params, sig.ret>>
Named(tps, args) ==
    LET n == IF Len(tps) < Len(args) THEN Len(tps) ELSE Len(args)
    IN [p \in {tps[i] : i \in 1..n} |-> args[CHOOSE i \in 1..n : tps[i] = p]]
SubstitutedSig(sig, by) ==
    [sig EXCEPT !.params = [i \in DOMAIN @ |-> Substituted(@[i], by)], !.ret = Substituted(@, by)]
\* substitute_for_obj: the parameters are taken to have the usual names.
ForObject(t, o) ==
    LET n == IF o[1] = "generic" THEN Len(o[3]) ELSE 0
    IN Substituted(t, CASE n = 1 -> "T" :> o[3][1]
                        [] n = 2 -> Named(<<"T", "U", "TKey", "TValue">>, o[3] \o o[3])
                        [] OTHER -> NoNames)

ArrayOf(t) == <<"array", t, 1>>
ArraySame == {"Distinct", "Sort", "SortAsc", "SortDesc", "Reverse", "Copy"}
ArrayResult(o, name) ==                        \* what an array's method returns
    CASE name \in ArraySame \cup {"Take", "Skip"} -> o
      [] name \in {"Count", "IndexOf"} -> IntTy
      [] name = "Chunk" -> ArrayOf(ArrayOf(o[2]))
      [] name = "Flatten" -> IF o[2][1] = "array" THEN ArrayOf(o[2][2]) ELSE o
      [] name = "Zip" -> ArrayOf(ArrayOf(Dyn))
      [] OTHER -> NoType
ArrayParams(name) ==
    CASE name \in {"Take", "Skip", "Chunk"} -> <<IntTy>>
      [] name = "IndexOf" -> <<Dyn>>
      [] name = "Zip" -> <<ArrayOf(Dyn)>>
      [] OTHER -> <<>>
FindMethod(c, o, name) ==                      \* <<signature>> or <<>>
    CASE o[1] = "array" -> IF ArrayResult(o, name) = NoType THEN <<>>
                           ELSE <<Sig(name, ArrayParams(name), ArrayResult(o, name), <<>>, FALSE)>>
      [] o = Dyn -> <<Sig(name, <<>>, Dyn, <<>>, FALSE)>>
      [] o[1] \in {"named", "generic", "string"} ->
           SelectSeq(LookupMethod(c, IF o[1] = "string" THEN "string" ELSE o[2], name),
                     LAMBDA sig : ~sig.static)
      [] OTHER -> <<>>
Extension(c, name, field) ==
    IF name \in DOMAIN c.exts /\ field \in DOMAIN c.exts[name]
    THEN LET sig == c.exts[name][field] IN <<FuncOf([sig EXCEPT !.params = SubSeq(@, 2, Len(@))])>>
    ELSE <<>>
Found(c, types, what) == IF types = <<>> THEN Failing(c, what) ELSE R(c, types[1])

\* lookup_field_or_prop: the type of a member, or an error.
MemberOf(c, d, o, field) ==
    CASE field \in DOMAIN d.fields -> ForObject(d.fields[field], o)
      [] field \in DOMAIN d.props \ DOMAIN d.fields -> ForObject(d.props[field], o)
      [] OTHER -> FuncOf(SubstitutedSig(d.methods[field],
                                        IF o[1] = "generic" THEN Named(d.tps, o[3]) ELSE NoNames))
FieldOrProp(c0, ot, field) ==
    LET o == Unwrapped(ot)
        c == Trust(c0, ot[1] = "nullable", "nullable")
        name == IF o[1] = "string" THEN "string" ELSE o[2]
        parts == IF o[1] = "string" THEN {"props", "methods"} ELSE {"fields", "props", "methods"}
        at == Holders(c, name, parts, field)
    IN CASE o \in {Dyn, Bad} -> R(Trust(c, TRUE, "dyn"), Dyn)
         [] o[1] \in {"string", "named", "generic"} ->
              Found(c, IF at # <<>> THEN <<MemberOf(c, c.types[at[1]], o, field)>> ELSE Extension(c, name, field),
                    "no such member")
         [] o[1] = "array" ->
              IF field \in {"Length", "Count"} THEN R(c, IntTy)
              ELSE Found(c, IF ArrayResult(o, field) = NoType THEN <<>> ELSE <<ArrayResult(o, field)>>,
                         "no such member")
         [] OTHER -> Failing(c, "no such member")

\* check_args
CheckArgs(c, sig, args) ==
    LET n == Len(args)
        max == Len(sig.params)
    IN IF sig.name \in {"print", "write"} THEN c
       ELSE IF n > max \/ \E i \in (n + 1)..max : sig.params[i] # Dyn THEN Err(c, "number of arguments")
       ELSE ExpectAll(c, args, sig.params, "argument")

ElementType(t) ==                              \* of what foreach goes through
    CASE t[1] = "array" -> t[2]
      [] t[1] = "generic" -> IF t[2] \in {"List", "Set", "Queue", "Stack"} THEN t[3][1] ELSE NoType
      [] t = StringTy -> CharTy
      [] t = Dyn -> Dyn
      [] OTHER -> NoType

-----------------------------------------------------------------------------
\* Expressions.
LitType(v) ==
    CASE v[1] = "float" -> <<"double">>
      [] v[1] = "str" -> StringTy
      [] OTHER -> <<v[1]>>                     \* int, uint, decimal, bool, char, null
CheckIdent(c, name) ==
    LET var == LookupVar(c, name)
    IN IF var # <<>> THEN R(c, var[1].t)
       ELSE IF name \in DOMAIN c.fns THEN R(c, FuncOf(c.fns[name]))
       ELSE IF name \in DOMAIN c.types \cup TypeNames THEN R(Trust(c, TRUE, "type"), <<"named", name>>)
       ELSE Failing(c, "undefined name")

Sums == {"Add", "Sub", "Mul", "Div", "Mod"}
Relations == {"Lt", "Le", "Gt", "Ge"}
Bits == {"BitAnd", "BitOr", "BitXor", "Shl", "Shr"}
ArithmeticType(c, op, l, r, overloads) ==
    CASE op = "Add" /\ StringTy \in {l, r} -> R(c, StringTy)
      [] overloads /\ l = r /\ l[1] = "named" -> R(Trust(c, TRUE, "operator"), l)
      [] OTHER -> Found(c, IF Promoted(l, r) = NoType THEN <<>> ELSE <<Promoted(l, r)>>, "operands")
BitsType(c, l, r) ==
    IF ~(IsIntegral(l) /\ IsIntegral(r)) THEN Failing(c, "operands")
    ELSE R(c, IF Promoted(l, r) = NoType THEN IntTy ELSE Promoted(l, r))
BinaryType(c, op, l, r) ==
    IF {Dyn, Bad} \cap {l, r} # {}
    THEN R(Trust(c, TRUE, "dyn"), IF op \in Relations \cup {"Eq", "Ne", "And", "Or"} THEN BoolTy ELSE Dyn)
    ELSE CASE op \in Sums -> ArithmeticType(c, op, l, r, TRUE)
           [] op \in Bits -> BitsType(c, l, r)
           [] op \in {"Eq", "Ne"} ->
                R(Need(c, \/ Assignable(c, l, r) \/ Assignable(c, r, l) \/ NullTy \in {l, r}
                          \/ IsSubtype(c, l, r) \/ IsSubtype(c, r, l), "operands"), BoolTy)
           [] op \in Relations ->
                R(Need(c, {l, r} = {CharTy} \/ (IsNumeric(l) /\ IsNumeric(r)), "operands"), BoolTy)
           [] op \in {"And", "Or"} -> R(Need(c, IsBoolLike(l) /\ IsBoolLike(r), "operands"), BoolTy)
           [] op = "NullCoalesce" -> R(c, Unified(Unwrapped(l), r))

RECURSIVE CheckExpr(_, _), CheckStmt(_, _), IsLvalue(_, _)
CheckAll(c, es) ==
    Ma!Fold(LAMBDA x, e : LET y == CheckExpr(x.c, e) IN R(y.c, Append(x.t, y.t)), R(c, <<>>), es)
CheckBlock(c, stmts) == Exit(Ma!Fold(CheckStmt, Enter(c), stmts))
CheckLoop(c, stmts) ==
    [CheckBlock([c EXCEPT !.loops = @ + 1], stmts) EXCEPT !.loops = c.loops]
Condition(c, e) == LET r == CheckExpr(c, e) IN Need(r.c, IsBoolLike(r.t), "condition")

IsLvalueWhenConst(c, e) == e.is \in {"ident", "member", "index"}           \* (mutant)
IsLvalue(c, e) ==
    CASE e.is = "ident" -> ~IsConst(c, e.name)
      [] e.is = "group" -> IsLvalue(c, e.e)
      [] OTHER -> e.is \in {"member", "index", "ptrmember", "deref"}
CheckUnary(c, e) ==                            \* -, !, ~
    LET r == CheckExpr(c, e.e)
        x == [r EXCEPT !.c = Trust(@, r.t \in {Dyn, Bad}, "dyn")]
    IN CASE e.op = "Neg" -> IF IsNumeric(r.t) THEN x ELSE Failing(r.c, "operands")
         [] e.op = "BitNot" -> IF IsIntegral(r.t) THEN x ELSE Failing(r.c, "operands")
         [] e.op = "Not" -> R(Need(r.c, IsBoolLike(r.t), "operands"), BoolTy)
CheckStep(c, e) ==                             \* ++, --
    LET r == CheckExpr(c, e.e)
        known == Need(r.c, IsLvalue(r.c, e.e), "not assignable")
    IN IF IsNumeric(r.t) \/ r.t = CharTy THEN R(Trust(known, r.t \in {Dyn, Bad}, "dyn"), r.t)
       ELSE Failing(known, "operands")
CheckAssign(c, e) ==
    LET known == Trust(Need(c, IsLvalue(c, e.to), "not assignable"), e.to.is = "member" /\ e.to.safe, "target")
        to == CheckExpr(known, e.to)
        v == CheckExpr(to.c, e.value)
        sum == CASE {to.t, v.t} \cap {Dyn} # {} -> R(Trust(v.c, TRUE, "dyn"), Dyn)
                 [] e.op \in Sums /\ Dyn \notin {to.t, v.t} -> ArithmeticType(v.c, e.op, to.t, v.t, FALSE)
                 [] OTHER -> BitsType(v.c, to.t, v.t)
    IN CASE e.op = "Assign" -> R(Expect(v.c, v.t, to.t, "assignment"), v.t)
         [] e.op = "NullCoalesce" ->
              R(Expect(Trust(v.c, Unwrapped(to.t) # v.t, "kept"), v.t, Unwrapped(to.t), "assignment"), v.t)
         [] OTHER -> R(Expect(sum.c, sum.t, to.t, "assignment"), sum.t)

\* check_call: the arguments come first, then what is called.
CheckMethodCall(c0, e, args) ==
    LET o == CheckExpr(c0, e.to.object)
        on == Unwrapped(o.t)
        c == Trust(Trust(o.c, o.t[1] = "nullable", "nullable"), on \in {Dyn, Bad}, "dyn")
        found == FindMethod(c, on, e.to.name)
        by == IF on[1] = "generic" /\ on[2] \in DOMAIN c.types THEN Named(c.types[on[2]].tps, on[3]) ELSE NoNames
        sig == SubstitutedSig(found[1], by)
        f == FieldOrProp(c, on, e.to.name)
    IN IF e.to.safe /\ o.t = NullTy THEN R(o.c, NullTy)
       ELSE IF found # <<>> THEN R(CheckArgs(c, sig, args), sig.ret)
       ELSE IF f.t[1] = "func"
       THEN R(Trust(Need(f.c, Len(f.t[2]) = Len(args), "number of arguments"), args # <<>>, "arguments"), f.t[3])
       ELSE R(Need(f.c, on \in {Dyn, Bad}, "no such method"), Dyn)
CheckCall(c, e) ==
    LET args == CheckAll(c, e.args)
        targs == ResolveAll(args.c, e.targs)
        f == CheckExpr(targs.c, e.to)
        name == e.to.name
        local == Trust(f.c, LookupVar(c, name) # <<>>, "shadowed")
        sig == SubstitutedSig(f.c.fns[name], Named(f.c.fns[name].tps, targs.t))
        ctors == f.c.types[name].ctors
        params == f.t[2]
        counted == Need(f.c, params = <<>> \/ Len(params) = Len(args.t), "number of arguments")
    IN CASE e.to.is = "member" -> CheckMethodCall(targs.c, e, args.t)
         [] e.to.is = "ident" /\ name \in DOMAIN f.c.fns -> R(CheckArgs(local, sig, args.t), sig.ret)
         [] OTHER ->
            IF e.to.is = "ident" /\ name \in DOMAIN f.c.types /\ ctors # <<>>
            THEN R(CheckArgs(f.c, ctors[1], args.t), <<"named", name>>)
            ELSE CASE f.t[1] = "func" -> R(ExpectAll(counted, args.t, params, "argument"), f.t[3])
                   [] f.t \in {Dyn, Bad} -> R(Trust(f.c, TRUE, "dyn"), Dyn)
                   [] OTHER -> Failing(f.c, "not callable")

CheckMember(c, e) ==
    LET o == CheckExpr(c, e.object)
        type == e.object.name
        sigs == LookupMethod(o.c, type, e.name)
        static == LookupStatic(o.c, type, e.name)
                    \o [i \in DOMAIN sigs |-> IF sigs[i].static THEN FuncOf(sigs[i]) ELSE NoType]
        inner == FieldOrProp(o.c, Unwrapped(o.t), e.name)
    IN IF e.safe THEN R(inner.c, MakeNullable(inner.t))
       ELSE IF e.object.is = "ident" /\ type \in DOMAIN o.c.types \cup TypeNames
               /\ static # <<>> /\ static[1] # NoType
       THEN R(o.c, static[1])
       ELSE FieldOrProp(o.c, o.t, e.name)

CheckIndex(c, e) ==
    LET o == CheckExpr(c, e.object)
        on == Unwrapped(o.t)
        i == CheckExpr(o.c, e.index)
        typed == on[1] \in {"named", "generic"} /\ on[2] \in DOMAIN o.c.types
        get == IF typed /\ "get_Item" \in DOMAIN o.c.types[on[2]].methods
               THEN <<o.c.types[on[2]].methods["get_Item"]>> ELSE <<>>
        dictionary == o.t[1] = "generic" /\ o.t[2] = "Dictionary"
        any == dictionary \/ o.t[1] \in {"dyn", "error", "named"} \/ i.t = StringTy
        x == Trust(Trust(Need(i.c, any \/ IsIntegral(i.t), "index"), i.t = StringTy /\ ~dictionary, "index"),
                   on[1] \in {"dyn", "error", "named"} \/ i.t \in {Dyn, Bad}, "dyn")
    IN IF get # <<>>
       THEN R(IF get[1].params = <<>> THEN i.c ELSE Expect(i.c, i.t, get[1].params[1], "index"), get[1].ret)
       ELSE CASE o.t[1] = "array" -> R(x, o.t[2])
              [] o.t = StringTy -> R(x, CharTy)
              [] o.t[1] \in {"dyn", "error", "named"} -> R(x, Dyn)
              [] dictionary -> R(x, IF Len(o.t[3]) > 1 THEN o.t[3][2] ELSE Dyn)
              [] o.t[1] = "generic" /\ o.t[2] = "List" -> R(x, o.t[3][1])
              [] OTHER -> Failing(x, "index")

\* check_new: the constructor, then the fields or items of the initializer.
Constructed(c, t, args) ==
    LET d == c.types[t[2]]
        counted == SelectSeq(d.ctors, LAMBDA k : Len(k.params) = Len(args))
        Fits(k) == \A i \in DOMAIN args : Assignable(c, args[i], ForObject(k.params[i], t))
        x == Need(c, ~(d.abstract /\ d.kind = "class"), "abstract")
    IN IF t[2] \notin DOMAIN c.types THEN c
       ELSE IF d.ctors = <<>> THEN Need(x, args = <<>>, "no such constructor")
       ELSE IF counted = <<>> THEN Err(x, "no such constructor")
       ELSE IF \E k \in Range(counted) : Fits(k) THEN x
       ELSE CheckArgs(x, counted[1], args)
Initialized(c, t, part) ==                     \* <<field, expression>>, the field "" for an item
    LET f == IF part[1] = "" THEN R(c, ElementType(t)) ELSE FieldOrProp(c, t, part[1])
        v == CheckExpr(f.c, part[2])
    IN IF f.t = NoType THEN v.c ELSE Expect(v.c, v.t, f.t, "initializer")
CheckNew(c, e) ==
    LET r == Resolve(c, e.type)
        t == r.t
        args == CheckAll(r.c, e.args)
        object == t[1] \in {"named", "generic"}
        d == r.c.types[t[2]]
        all == object => \A n \in Range(ChainFrom(r.c, t[2], {})) :
                             DOMAIN r.c.types[n].fields \subseteq {e.init[i][1] : i \in DOMAIN e.init}
    IN IF e.type.dims > 0
       THEN R(CheckAll(CheckAll(r.c, [i \in DOMAIN e.init |-> e.init[i][2]]).c, e.args).c, t)
       ELSE IF ~object
       THEN IF IsNumeric(t) \/ t \in {BoolTy, CharTy, StringTy} THEN R(args.c, t)
            ELSE Failing(args.c, "cannot construct")
       ELSE IF t[2] \in DOMAIN r.c.types /\ d.kind = "interface" THEN Failing(args.c, "cannot construct")
       ELSE R(Ma!Fold(LAMBDA x, p : Initialized(x, t, p),
                      Trust(Constructed(args.c, t, args.t), ~all, "no value"), e.init), t)

CheckArray(c, e) ==
    LET items == CheckAll(c, e.items)
    IN R(items.c, ArrayOf(IF items.t = <<>> THEN Dyn
                          ELSE Ma!Fold(Unified, items.t[1], Tail(items.t))))
CheckLambda(c, e) ==                           \* "arrow": the body is the return of an expression
    LET ps == ResolveAll(Enter(c), e.types)
        in == Ma!Fold(LAMBDA x, i : Declare(x, e.params[i], ps.t[i]), ps.c, [i \in DOMAIN e.params |-> i])
        r == CheckExpr(in, e.body[1].e)
        noted == Trust(in, c.loops # 0 /\ \E i \in DOMAIN e.body : e.body[i].is \in {"break", "continue"}, "lambda")
        b == [CheckBlock([noted EXCEPT !.ret = <<Dyn>>], e.body) EXCEPT !.ret = c.ret]
    IN IF e.arrow THEN R(Exit(r.c), <<"func", ps.t, r.t>>) ELSE R(Exit(b), <<"func", ps.t, Dyn>>)
CheckTernary(c, e) ==
    LET both == CheckAll(Condition(c, e.cond), <<e.then, e.else>>)
    IN R(both.c, Unified(both.t[1], both.t[2]))
Pointer(c, e) ==                               \* *e, &e, the object of e->f
    LET r == CheckExpr(Need(c, c.unsafe, "unsafe"), IF e.is = "ptrmember" THEN e.object ELSE e.e)
        target == IF r.t[1] = "ptr" THEN r.t[2] ELSE r.t
    IN CASE e.is = "addr" -> R(r.c, <<"ptr", r.t>>)
         [] e.is = "ptrmember" -> FieldOrProp(r.c, target, e.name)
         [] OTHER -> IF r.t[1] \in {"ptr", "dyn"} THEN R(r.c, target) ELSE Failing(r.c, "dereference")
\* A cast, as, is, typeof, nameof, sizeof, offsetof, await and the question mark.
Conversion(c, e) ==
    LET v == IF e.is \in {"typeof", "nameof", "sizeof"} THEN R(c, NoType) ELSE CheckExpr(c, e.e)
        to == Resolve(v.c, e.type)
        x == Trust(to.c, TRUE, "cast")
    IN CASE e.is = "cast" -> R(x, to.t)
         [] e.is = "as" -> R(x, MakeNullable(to.t))
         [] e.is = "is" -> R(v.c, BoolTy)
         [] e.is = "typeof" -> R(c, <<"named", "Type">>)
         [] e.is = "nameof" -> R(c, StringTy)
         [] e.is = "sizeof" -> R(to.c, IntTy)
         [] e.is = "await" -> R(v.c, IF v.t[1] = "generic" THEN OutOfTask(v.t) ELSE v.t)
         [] e.is = "try" -> R(Trust(v.c, TRUE, "cast"),
                              IF v.t[1] = "generic" /\ v.t[2] = "Result" THEN v.t[3][1] ELSE Unwrapped(v.t))

CheckExpr(c, e) ==
    CASE e.is = "lit" -> R(c, LitType(e.value))
      [] e.is = "interpolated" -> R(CheckAll(c, e.items).c, StringTy)
      [] e.is = "ident" -> CheckIdent(c, e.name)
      [] e.is \in {"this", "base"} -> Found(c, c[e.is], "no " \o e.is)
      [] e.is = "group" -> CheckExpr(c, e.e)
      [] e.is \in {"binary", "and", "or"} ->
           LET both == CheckAll(c, <<e.l, e.r>>)
           IN BinaryType(both.c, CASE e.is = "and" -> "And" [] e.is = "or" -> "Or" [] OTHER -> e.op,
                         both.t[1], both.t[2])
      [] e.is = "unary" -> CheckUnary(c, e)
      [] e.is = "incdec" -> CheckStep(c, e)
      [] e.is = "assign" -> CheckAssign(c, e)
      [] e.is = "call" -> CheckCall(c, e)
      [] e.is = "member" -> CheckMember(c, e)
      [] e.is = "index" -> CheckIndex(c, e)
      [] e.is = "new" -> CheckNew(c, e)
      [] e.is = "array" -> CheckArray(c, e)
      [] e.is = "lambda" -> CheckLambda(c, e)
      [] e.is = "ternary" -> CheckTernary(c, e)
      [] e.is \in {"deref", "addr", "ptrmember"} -> Pointer(c, e)
      [] OTHER -> Conversion(c, e)

-----------------------------------------------------------------------------
\* Statements.
CheckDecl(c, d) ==
    LET typed == Resolve(c, d.type[1])
        declared == IF d.type = <<>> THEN R(c, Dyn) ELSE typed
        value(x) == IF d.bare THEN R(x, NoType) ELSE CheckExpr(x, d.e)
        Given(r) ==                            \* with a value of that type
            LET v == value(r.c)
            IN R(IF d.bare THEN Trust(v.c, r.t[1] \notin {"nullable", "dyn"}, "no value")
                 ELSE Expect(v.c, v.t, r.t, "initializer"), r.t)
        inferred == value(c)
        r == CASE d.kind = "dyn" -> R(inferred.c, Dyn)
               [] d.kind \in {"typed", "const"} -> Given(declared)
               [] d.kind \in {"var", "stack", "owned"} /\ d.type # <<>> -> Given(typed)
               [] OTHER ->
                    IF inferred.t \in {NoType, NullTy, Void} THEN R(Err(inferred.c, "cannot infer"), Dyn)
                    ELSE inferred
    IN DeclareAs(r.c, d.name, r.t, d.kind = "const")
CheckConst(c, t) ==
    LET r == Resolve(c, t.type)
        v == CheckExpr(r.c, t.value)
    IN DeclareAs(Expect(v.c, v.t, r.t, "initializer"), t.name, r.t, TRUE)
CheckReturn(c, t) ==                           \* "leave" is a return without a value
    LET ret == IF c.ret = <<>> THEN Void ELSE c.ret[1]
        v == CheckExpr(c, t.e)
    IN IF t.is = "leave" THEN Need(c, ret = Void, "return")
       ELSE IF ret = Void THEN Err(v.c, "return") ELSE Expect(v.c, v.t, ret, "return")
CheckForeach(c, t) ==
    LET r == CheckExpr(c, t.in)
        elem == ElementType(r.t)
        known == Trust(Need(r.c, elem # NoType, "not iterable"), r.t = Dyn, "dyn")
        var == Declare(Enter(known), t.var, IF elem = NoType THEN Dyn ELSE elem)
    IN Exit(CheckLoop(IF t.index = "" THEN var ELSE Declare(var, t.index, IntTy), t.body))
CheckFor(c, t) ==
    LET cond == Condition(CheckStmt(Enter(c), t.init), t.cond)
    IN Exit(CheckLoop(CheckExpr(cond, t.step).c, t.body))
CheckCase(c, case, t) ==                       \* break is allowed in an arm, and continue
    LET PatternsOf(p) == IF p.is = "value" THEN <<p.e>> ELSE <<p.lo, p.hi>>
        seen == CheckAll(c, FlattenSeq([i \in DOMAIN case.patterns |-> PatternsOf(case.patterns[i])])).c
        bound == IF case.bind = "" THEN Enter(seen) ELSE Declare(Enter(seen), case.bind, t)
        noted == Trust(bound, c.loops = 0 /\ \E i \in DOMAIN case.body : case.body[i].is = "continue", "continue")
        arm == [CheckAll(noted, case.guard).c EXCEPT !.loops = @ + 1]
    IN [Exit(Ma!Fold(CheckStmt, arm, case.body)) EXCEPT !.loops = c.loops]
CheckSwitch(c, t) ==
    LET v == CheckExpr(c, t.e)
    IN Ma!Fold(LAMBDA x, case : CheckCase(x, case, v.t), v.c, t.cases)
CheckMatch(c, t) ==
    LET Arm(x, a) == Exit(CheckExpr(IF a.bind = "" THEN Enter(x) ELSE Declare(Enter(x), a.bind, Dyn), a.body).c)
    IN Ma!Fold(Arm, CheckExpr(c, t.e).c, t.arms)
CheckTry(c, t) ==
    LET Named1(x, k) ==
            IF k.name = "" THEN x
            ELSE Trust(Declare(x, k.name, <<"named", IF k.type = "" THEN "Exception" ELSE k.type>>), TRUE, "caught")
        One(x, k) == Exit(CheckBlock(Named1(Enter(x), k), k.body))
        caught == Ma!Fold(One, CheckBlock(c, t.body), t.catches)
    IN IF t.finally = <<>> THEN caught ELSE CheckBlock(caught, t.finally[1])

CheckStmt(c, t) ==
    CASE t.is \in {"expr", "throw"} -> CheckExpr(c, t.e).c
      [] t.is = "decl" -> CheckDecl(c, t)
      [] t.is = "const" -> CheckConst(c, t)
      [] t.is \in {"return", "leave"} -> CheckReturn(c, t)
      [] t.is = "if" -> CheckBlock(CheckBlock(Condition(c, t.cond), t.then), t.else)
      [] t.is = "while" -> CheckLoop(Condition(c, t.cond), t.body)
      [] t.is = "do" -> Condition(CheckLoop(c, t.body), t.cond)
      [] t.is = "for" -> CheckFor(c, t)
      [] t.is = "foreach" -> CheckForeach(c, t)
      [] t.is = "switch" -> CheckSwitch(c, t)
      [] t.is = "match" -> CheckMatch(c, t)
      [] t.is = "try" -> CheckTry(c, t)
      [] t.is \in {"break", "continue"} -> Need(c, c.loops # 0, t.is)
      [] t.is = "using" -> Exit(CheckBlock(CheckDecl(Enter(c), t.decl), t.body))
      [] t.is = "unsafe" -> [CheckBlock([c EXCEPT !.unsafe = TRUE], t.body) EXCEPT !.unsafe = c.unsafe]
      [] t.is = "asm" -> CheckAll(Need(c, c.unsafe, "unsafe"), t.operands).c
      [] t.is = "block" -> CheckBlock(c, t.body)

-----------------------------------------------------------------------------
\* Functions and members.
EndsWithReturn(body) == body # <<>> /\ Last(body).is \in {"return", "throw"}
Parameters(c, f, types) ==                     \* declared, with their default values
    Ma!Fold(LAMBDA x, i :
              LET d == Declare(x, f.params[i], types[i])
                  v == CheckExpr(d, f.defaults[i][1])
              IN IF f.defaults[i] = <<>> THEN d ELSE Expect(v.c, v.t, types[i], "default argument"),
            c, [i \in DOMAIN f.params |-> i])
Returned(c, body, ret) == CheckBlock([c EXCEPT !.ret = <<ret>>], body)
\* "how": the body is a block, the return of an expression, or there is none.
CheckFunction(c, f, this, base) ==
    LET r == Resolve([c EXCEPT !.tps = @ \cup Range(f.tps)], f.ret)
        ps == ResolveAll(r.c, f.types)
        ret == IF f.async THEN OutOfTask(r.t) ELSE r.t
        in == Parameters(Enter([ps.c EXCEPT !.ret = <<ret>>, !.this = this, !.base = base]), f, ps.t)
        v == CheckExpr(in, f.body[1].e)
        out == CASE f.how = "block" ->
                      Trust(CheckBlock(in, f.body), ret # Void /\ ~EndsWithReturn(f.body), "no return")
                 [] f.how = "arrow" -> IF ret = Void THEN v.c ELSE Expect(v.c, v.t, ret, "return")
    IN IF f.how = "none" THEN [ps.c EXCEPT !.tps = c.tps]
       ELSE [Exit(out) EXCEPT !.ret = <<>>, !.this = <<>>, !.base = <<>>, !.tps = c.tps]
CheckConstructor(c, k, this, base) ==
    LET ps == ResolveAll(c, k.types)
        in == Parameters(Enter([ps.c EXCEPT !.ret = <<Void>>, !.this = <<this>>, !.base = base]), k, ps.t)
    IN [Exit(CheckBlock(CheckAll(in, k.baseArgs).c, k.body)) EXCEPT !.ret = <<>>, !.this = <<>>, !.base = <<>>]
\* A field keeps "this" and "base" as they were, or sets them.
CheckField(c, m, this, base) ==
    LET r == IF m.type = <<>> THEN R(c, Dyn) ELSE Resolve(c, m.type[1])
        v == CheckExpr([r.c EXCEPT !.this = this, !.base = base], m.init[1])
    IN IF m.init = <<>> THEN c ELSE Expect(v.c, v.t, r.t, "initializer")

\* What a method of a class must be to its first base.
CheckOverriding(c, d, f, base) ==
    LET below == d.bases[1] \in DOMAIN c.types /\ c.types[d.bases[1]].kind = "class"
        has == LookupMethod(c, d.bases[1], f.name) # <<>>
        x == Need(c, ~(f.static /\ (f.virtual \/ f.override)), "static override")
        y == Need(Need(x, f.static \/ f.override \/ ~(below /\ has), "hides"),
                  f.override => below /\ has, "overrides nothing")
    IN Need(IF base = <<>> THEN x ELSE y, ~(f.abstract /\ f.how # "none"), "abstract")
CheckProperty(c, m, this) ==
    LET r == Resolve(c, m.type[1])
        in == [r.c EXCEPT !.this = IF m.static THEN <<>> ELSE <<this>>]
        got == IF m.getter = <<>> THEN in ELSE Exit(Returned(Enter(in), m.getter[1], r.t))
        set == IF m.setter = <<>> THEN got
               ELSE Exit(Returned(Declare(Enter(got), "value", r.t), m.setter[1], Void))
    IN [set EXCEPT !.this = <<>>, !.ret = <<>>]
CheckIndexer(c, m, this) ==
    LET r == Resolve(c, m.type[1])
        ps == ResolveAll(Enter([r.c EXCEPT !.this = <<this>>]), m.types)
        in == Ma!Fold(LAMBDA x, i : Declare(x, m.params[i], ps.t[i]), ps.c, [i \in DOMAIN m.params |-> i])
        got == IF m.getter = <<>> THEN in ELSE Returned(in, m.getter[1], r.t)
        set == IF m.setter = <<>> THEN got ELSE Returned(Declare(got, "value", r.t), m.setter[1], Void)
    IN [Exit(set) EXCEPT !.this = <<>>, !.ret = <<>>]
CheckOperator(c, m) ==
    LET r == Resolve(c, m.type[1])
        ps == ResolveAll(Enter(r.c), m.types)
        in == Ma!Fold(LAMBDA x, i : Declare(x, m.params[i], ps.t[i]), ps.c, [i \in DOMAIN m.params |-> i])
    IN [Exit(Returned(in, m.body, r.t)) EXCEPT !.ret = <<>>]
CheckDestructor(c, m, this, base) ==
    LET in == Enter([c EXCEPT !.this = <<this>>, !.base = base])
    IN [Exit(Returned(in, m.body, Void)) EXCEPT !.this = <<>>, !.base = <<>>, !.ret = <<>>]

CheckClass(c, d) ==
    LET this == IF d.tps = <<>> THEN <<"named", d.name>>
                ELSE <<"generic", d.name, [i \in DOMAIN d.tps |-> <<"param", d.tps[i]>>]>>
        base == IF d.bases = <<>> THEN <<>> ELSE << <<"named", d.bases[1]>> >>
        One(x, m) ==
            CASE m.is = "field" -> CheckField(x, m, <<this>>, base)
              [] m.is = "method" ->
                   CheckFunction(CheckOverriding(x, d, m, base), m, IF m.static THEN <<>> ELSE <<this>>,
                                 IF m.static THEN <<>> ELSE base)
              [] m.is = "ctor" -> CheckConstructor(x, m, this, base)
              [] m.is = "destructor" -> CheckDestructor(x, m, this, base)
              [] m.is = "property" -> CheckProperty(x, m, this)
              [] m.is = "indexer" -> CheckIndexer(x, m, this)
              [] m.is = "operator" -> CheckOperator(x, m)
    IN [Ma!Fold(One, [c EXCEPT !.tps = @ \cup Range(d.tps)], d.members) EXCEPT !.tps = c.tps]
CheckStruct(c, d) ==                           \* and a union
    LET this == <<"named", d.name>>
        One(x, m) ==
            CASE m.is = "field" -> CheckField(x, m, x.this, x.base)
              [] m.is = "method" -> CheckFunction(x, m, IF m.static THEN <<>> ELSE <<this>>, <<>>)
              [] m.is = "ctor" -> CheckConstructor(x, m, this, <<>>)
              [] OTHER -> x
        in == [c EXCEPT !.tps = @ \cup IF d.is = "union" THEN {} ELSE Range(d.tps)]
    IN [Ma!Fold(One, in, d.members) EXCEPT !.tps = c.tps]
CheckItem(c, d) ==
    CASE d.is = "class" -> CheckClass(c, d)
      [] d.is \in {"struct", "union"} -> CheckStruct(c, d)
      [] d.is = "interface" -> c
      [] d.is = "function" -> CheckFunction(Need(c, ~d.static, "static function"), d, <<>>, <<>>)
      [] d.is = "const" ->
           LET r == Resolve(c, d.type)
               v == CheckExpr(r.c, d.value)
           IN Expect(v.c, v.t, r.t, "initializer")

\* The passes of the checker.
Declared(items) == CheckInheritance(Ma!Fold(Collect, Ma!Fold(Predeclare, Clean, items), items))
Check(items) == Ma!Fold(CheckItem, Declared(items), items)
=============================================================================
