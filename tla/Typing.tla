------------------------------- MODULE Typing -------------------------------
(***************************************************************************)
(* What a program that the checker accepts is sure of: a value is of the   *)
(* type of its variable, and a type has the members of those above it.     *)
(* Both hold but for the programs with a note of Sema, each a place where  *)
(* the checker passes what it has not established (README.md lists them).  *)
(***************************************************************************)
EXTENDS Sema

CONSTANTS Items0,                    \* the declarations around the function
          Params, ParamTypes         \* its parameters

Me == INSTANCE Meaning

Around == Declared(Items0)
FieldsOf(name) ==
    LET holders == Range(ChainFrom(Around, name, {}))
    IN UNION {{<<f, Around.types[n].fields[f]>> : f \in DOMAIN Around.types[n].fields} : n \in holders}

\* v is of type t, and what it refers to, n objects deep.
RECURSIVE Conforms(_, _, _, _)
Conforms(w, v, t, n) ==
    LET items == Me!Items(w, v)
    IN CASE t[1] = "int" -> v[1] = "int"
         [] t[1] = "double" -> Me!Numeric(v)              \* no assignment converts a value
         [] t[1] = "string" -> v[1] = "str"
         [] t[1] = "bool" -> v[1] = "bool"
         [] t[1] = "func" -> v[1] = "fn"
         [] t[1] \in {"null", "void"} -> v = Me!Null
         [] t[1] = "nullable" -> v = Me!Null \/ Conforms(w, v, t[2], n)
         [] t[1] = "array" -> /\ v[1] = "ref" /\ Me!IsArray(w, v)
                              /\ \A i \in DOMAIN items : Conforms(w, items[i], t[2], n)
         [] t[1] = "named" -> /\ v[1] = "ref" /\ ~Me!IsArray(w, v)
                              /\ \/ n = 0
                                 \/ \A f \in FieldsOf(t[2]) : /\ f[1] \in DOMAIN items
                                                              /\ Conforms(w, items[f[1]], f[2], n - 1)
         [] t = Dyn -> TRUE

\* The function with that body, or another kind of member, and its class or struct.
Written(how, body, ret) ==
    LET f == [is |-> "function", name |-> "R", tps |-> <<>>, params |-> Params, types |-> ParamTypes,
              defaults |-> [i \in DOMAIN Params |-> <<>>], ret |-> ret, how |-> "block", body |-> body,
              static |-> how = "static", async |-> FALSE, extension |-> FALSE,
              abstract |-> FALSE, virtual |-> FALSE, override |-> FALSE]
        asMember == "type" :> <<ret>> @@ "getter" :> <<body>> @@ "setter" :> <<>> @@ "baseArgs" :> <<>> @@ f
    IN IF how = "function" THEN f
       ELSE [is |-> IF how = "struct" THEN how ELSE "class", name |-> "M", tps |-> <<>>, bases |-> <<>>,
             constraints |-> <<>>, abstract |-> FALSE,
             members |-> <<"is" :> (IF how \in {"ctor", "indexer", "operator"} THEN how ELSE "method") @@ asMember>>]
KeepsTypes(how, body, ret, worlds) ==
    LET item == Written(how, body, ret)
        c == CheckItem(Collect(Predeclare(Around, item), item), item)
        Kept(r) ==
            /\ r.is \in {"normal", "return", "throw"}
            /\ r.is = "throw" => r.v \notin {Me!Str("type"), Me!Str("property")}
            /\ r.is = "return" => Conforms(r.w, r.v, TypeOf(ret), 2)
            /\ \A i \in DOMAIN Params : Conforms(r.w, r.w.heap[r.w.env[i].at], TypeOf(ParamTypes[i]), 2)
            /\ \A i \in DOMAIN r.w.env : r.w.env[i].name = "k" => r.w.heap[r.w.env[i].at] = Me!Num(1)
    IN c.errs = {} /\ c.notes = {} => \A w \in worlds : Kept(Me!ExecAll(body, w))

\* A type below another has its fields and methods, and they fit.
KeepsMembers(items) ==
    LET c == Check(items)
        names == {items[i].name : i \in DOMAIN items}
        Type(n) == <<"named", n>>
        FieldsAt(n) == UNION {DOMAIN c.types[x].fields : x \in Range(ChainFrom(c, n, {}))}
        MethodsAt(n) == UNION {DOMAIN c.types[x].methods : x \in Range(ChainFrom(c, n, {}))}
        Fits(mine, its) ==
            /\ mine.static = its.static /\ Len(mine.params) = Len(its.params)
            /\ Assignable(c, mine.ret, its.ret)
            /\ \A i \in DOMAIN its.params : Assignable(c, its.params[i], mine.params[i])
        Below(a, b) ==
            /\ \A f \in FieldsAt(b) : FieldOrProp(c, Type(a), f) = FieldOrProp(c, Type(b), f)
            /\ \A m \in MethodsAt(b) : /\ LookupMethod(c, a, m) # <<>>
                                       /\ Fits(LookupMethod(c, a, m)[1], LookupMethod(c, b, m)[1])
    IN c.errs = {} /\ c.notes = {} =>
         \A a, b \in names : IsSubtype(c, Type(a), Type(b)) =>
           /\ Below(a, b)
           /\ a # b => ~IsSubtype(c, Type(b), Type(a))

\* The arguments of a generic type are what its constraints ask for: below a
\* type, or such that a new expression without arguments is accepted.
RECURSIVE Instantiations(_)
Instantiations(ref) == {ref} \cup UNION {Instantiations(ref.args[i]) : i \in DOMAIN ref.args}
KeepsConstraints(items) ==
    LET c == Check(items)
        Meets(arg, bound) ==
            IF bound.name = "new"
            THEN CheckNew(c, [is |-> "new", type |-> arg, args |-> <<>>, init |-> <<>>]).c.errs = {}
            ELSE arg.dims = 0 /\ ~arg.opt /\ bound.name \in Above(c, {arg.name})
        Right(ref) ==
            ref.name \in DOMAIN c.constraints =>
              /\ Len(ref.args) = Len(c.types[ref.name].tps)
              /\ \A k \in DOMAIN c.constraints[ref.name] :
                   LET gc == c.constraints[ref.name][k]
                       at == SelectInSeq(c.types[ref.name].tps, LAMBDA p : p = gc.param)
                   IN \A j \in DOMAIN gc.bounds : Meets(ref.args[at], gc.bounds[j])
        written == {m.type[1] : m \in {x \in UNION {Range(items[i].members) : i \in DOMAIN items} : x.is = "field"}}
    IN c.errs = {} /\ c.notes = {} => \A ref \in UNION {Instantiations(r) : r \in written} : Right(ref)
=============================================================================
