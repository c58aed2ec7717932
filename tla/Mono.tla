-------------------------------- MODULE Mono --------------------------------
(* Monomorphisation (mono.rs) and the pass of the compiler that declares its *)
(* result (compiler.rs, declare_item): the generic functions, classes and    *)
(* structs are put aside as templates, the instances the rest of the program *)
(* names are asked for, made one after the other (each may ask for more), and *)
(* the places that named them are rewritten to the names of the instances.   *)
(*                                                                           *)
(* A declaration is the sequence of its uses: the places where it names a    *)
(* type or calls a generic function.  What the walks over the syntax tree do *)
(* at a place depends on the kind of place only: whether it is collected, and *)
(* whether it is rewritten.                                                   *)
EXTENDS Naturals, Sequences, FiniteSets, SequencesExt

CONSTANTS Inputs,        \* the programs, by any description
          Program(_),    \* the declarations of one, in order
          Dotted,        \* the identifier that each qualified name is turned into
          MaxInstances   \* the bound on the instances of one program

VARIABLES input, queue, enqueued, done, made, items, bases, stage

vars == <<input, queue, enqueued, done, made, items, bases, stage>>

(* A type: its name, its arguments, the dimensions of an array of it, and    *)
(* whether it may be null.                                                   *)
Of(name, args) == [name |-> name, args |-> args, dims |-> 0, null |-> FALSE]

BuiltinGeneric ==
  {"List", "Dictionary", "Dict", "Set", "Queue", "Stack", "Task", "Result",
   "Option", "ptr", "Array", "Span", "Func", "Action", "Nullable"}

Sanitize(name) == IF name \in DOMAIN Dotted THEN Dotted[name] ELSE name

RECURSIVE MangleType(_)
MangleInstanceOf(base, args) ==
  FoldLeft(LAMBDA s, a : s \o "__" \o MangleType(a), Sanitize(base), args)
MangleType(t) ==
  MangleInstanceOf(t.name, t.args)
    \o FoldLeft(LAMBDA s, i : s \o "__arr", "", [i \in 1..t.dims |-> i])
    \o (IF t.null THEN "__n" ELSE "")
MangleInstance(base, args) == MangleInstanceOf(base, args)

RECURSIVE SubstType(_, _)
SubstType(t, subst) ==
  IF t.args = <<>> /\ t.name \in DOMAIN subst
  THEN LET r == subst[t.name]
       IN  [r EXCEPT !.null = r.null \/ t.null,
                     !.dims = IF t.dims > r.dims THEN t.dims ELSE r.dims]
  ELSE [t EXCEPT !.args = [i \in DOMAIN t.args |-> SubstType(t.args[i], subst)]]

BuildSubst(params, args) ==
  LET n == IF Len(args) < Len(params) THEN Len(args) ELSE Len(params)
  IN  [p \in ToSet(SubSeq(params, 1, n)) |-> args[IndexFirstSubSeq(<<p>>, params)]]

-----------------------------------------------------------------------------
(* The kinds of place: where the instances named are asked for, and where    *)
(* the name is rewritten.  A call names a function, the others a type.       *)
CollectedInDeclarations == {"signature", "field", "base", "default"}
CollectedInBodies == {"local", "local const", "new", "call", "typeof"}
CollectedSites == CollectedInDeclarations \union CollectedInBodies
RewrittenInDeclarations == {"signature", "field", "base", "top const", "union field"}
RewrittenInBodies == {"local", "local const", "new", "call", "cast", "asm operand"}
RewrittenSites == RewrittenInDeclarations \union RewrittenInBodies

IsTemplate(d) == d.params # <<>> /\ d.name \notin BuiltinGeneric
Kept(p) == SelectSeq(p, LAMBDA d : ~IsTemplate(d))
TemplatesOf(p, kind) == {p[i] : i \in {j \in DOMAIN p : IsTemplate(p[j]) /\ p[j].kind = kind}}
HasTemplate(p, kind, name) == \E d \in TemplatesOf(p, kind) : d.name = name
Template(p, kind, name) == CHOOSE d \in TemplatesOf(p, kind) : d.name = name

(* What a place asks for, in order: a type is asked for as a class and as a  *)
(* struct, and then its arguments are.                                       *)
RECURSIVE TypeRequests(_)
TypeRequests(t) ==
  (IF t.args = <<>> THEN <<>>
   ELSE [i \in 1..2 |-> [kind |-> <<"class", "struct">>[i], name |-> t.name, args |-> t.args]])
  \o FlattenSeq([i \in DOMAIN t.args |-> TypeRequests(t.args[i])])

Requests(u) ==
  CASE u.site \notin CollectedSites -> <<>>
    [] u.site = "call" -> <<[kind |-> "function", name |-> u.t.name, args |-> u.t.args]>>
    [] OTHER -> TypeRequests(u.t)

RequestOncePerTemplate(p, s, r) ==     \* (mutant) the arguments are no part of the key
  IF r.args = <<>> \/ ~HasTemplate(p, r.kind, r.name) \/ r.name \in s.enqueued THEN s
  ELSE [queue |-> Append(s.queue, r), enqueued |-> s.enqueued \union {r.name}]
Request(p, s, r) ==
  LET key == <<r.name, MangleInstance(r.name, r.args)>>
  IN  IF \/ r.args = <<>> \/ r.name \in BuiltinGeneric
         \/ ~HasTemplate(p, r.kind, r.name) \/ key \in s.enqueued
      THEN s
      ELSE [queue |-> Append(s.queue, r), enqueued |-> s.enqueued \union {key}]

Collect(p, s, decls) ==
  FoldLeft(LAMBDA acc, r : Request(p, acc, r), s,
           FlattenSeq([i \in DOMAIN decls |->
             FlattenSeq([j \in DOMAIN decls[i].uses |-> Requests(decls[i].uses[j])])]))

(* Substitution reaches every place, whatever its kind.                      *)
SubstUse(u, subst) == [u EXCEPT !.t = SubstType(u.t, subst)]
SubstUses(uses, subst) == [i \in DOMAIN uses |-> SubstUse(uses[i], subst)]
Specialized(d, args) ==
  [kind |-> d.kind, name |-> MangleInstance(d.name, args), params |-> <<>>,
   of |-> <<d.name, args>>, uses |-> SubstUses(d.uses, BuildSubst(d.params, args))]

-----------------------------------------------------------------------------
Made(kind, name) == \E d \in made : d.kind = kind /\ d.name = name

RECURSIVE RewriteType(_, _)
RewriteType(p, t) ==
  LET args == [i \in DOMAIN t.args |-> RewriteType(p, t.args[i])]
      name == MangleInstance(t.name, args)
  IN  IF /\ args # <<>>
         /\ \E kind \in {"class", "struct"} : HasTemplate(p, kind, t.name) \/ Made(kind, name)
      THEN [t EXCEPT !.name = name, !.args = <<>>]
      ELSE [t EXCEPT !.args = args]

RewriteUse(p, u) ==
  CASE u.site \notin RewrittenSites -> u
    [] u.site = "call" ->
         LET name == MangleInstance(u.t.name, u.t.args)
         IN  IF u.t.args # <<>> /\ (HasTemplate(p, "function", u.t.name) \/ Made("function", name))
             THEN [u EXCEPT !.t = Of(name, <<>>)]
             ELSE [u EXCEPT !.t.args = <<>>]
    [] OTHER -> [u EXCEPT !.t = RewriteType(p, u.t)]

RewriteItem(p, d) == [d EXCEPT !.uses = [i \in DOMAIN d.uses |-> RewriteUse(p, d.uses[i])]]

(* The instances of a kind come in the order of a hash table, in any order;   *)
(* it can tell only for classes, which are linked to those before them.      *)
Orders(s) == {f \in [1..Cardinality(s) -> s] : ToSet(f) = s}
MadeOf(kind) == {d \in made : d.kind = kind}

-----------------------------------------------------------------------------
Init ==
  /\ input = "none" /\ queue = <<>> /\ enqueued = {} /\ done = {}
  /\ made = {} /\ items = <<>> /\ bases = <<>> /\ stage = "start"

(* Templates are put aside and the rest of the program is walked over.       *)
Ingest(i) ==
  /\ stage = "start"
  /\ LET p == Program(i)
         s == Collect(p, [queue |-> <<>>, enqueued |-> {}], Kept(p))
     IN  queue' = s.queue /\ enqueued' = s.enqueued
  /\ input' = i /\ stage' = "specialize"
  /\ UNCHANGED <<done, made, items, bases>>

(* The next instance asked for is made, and walked over in its turn.         *)
Specialize ==
  /\ stage = "specialize" /\ queue # <<>> /\ Cardinality(done) < MaxInstances
  /\ LET p == Program(input)
         r == Head(queue)
         name == MangleInstance(r.name, r.args)
         d == Specialized(Template(p, r.kind, r.name), r.args)
         s == Collect(p, [queue |-> Tail(queue), enqueued |-> enqueued], <<d>>)
     IN  IF name \in done
         THEN queue' = Tail(queue) /\ UNCHANGED <<enqueued, done, made>>
         ELSE /\ done' = done \union {name}
              /\ made' = {m \in made : ~(m.kind = r.kind /\ m.name = name)} \union {d}
              /\ queue' = s.queue /\ enqueued' = s.enqueued
  /\ UNCHANGED <<input, items, bases, stage>>

(* The program is put together and rewritten; the walk is done twice.        *)
Emit ==
  /\ stage = "specialize" /\ queue = <<>>
  /\ \E c \in Orders(MadeOf("class")) :
       LET p == Program(input)
           all == [i \in DOMAIN Kept(p) |-> RewriteItem(p, Kept(p)[i])]
                    \o SetToSeq(MadeOf("function")) \o c \o SetToSeq(MadeOf("struct"))
       IN  items' = [i \in DOMAIN all |-> RewriteItem(p, all[i])]
  /\ stage' = "emitted" /\ made' = {} /\ enqueued' = {}
  /\ UNCHANGED <<input, queue, done, bases>>

(* declare_item: the class a class extends is the one of that name among     *)
(* those declared so far, 0 when there is none.                              *)
BaseOf(d) == LET u == SelectSeq(d.uses, LAMBDA v : v.site = "base")
             IN  IF d.kind # "class" \/ u = <<>> THEN "" ELSE u[1].t.name
DeclaredAt(name, n) ==
  LET at == {i \in 1..n : items[i].name = name /\ items[i].kind \in {"class", "struct", "union"}}
  IN  IF at = {} THEN 0 ELSE CHOOSE i \in at : \A j \in at : j <= i

Declare ==
  /\ stage = "emitted"
  /\ bases' = [i \in DOMAIN items |-> DeclaredAt(BaseOf(items[i]), i - 1)]
  /\ stage' = "declared"
  /\ UNCHANGED <<input, queue, enqueued, done, made, items>>

Next == (\E i \in Inputs : Ingest(i)) \/ Specialize \/ Emit \/ Declare

Spec == Init /\ [][Next]_vars

-----------------------------------------------------------------------------
(* What a program needs, written without the queue: the least set of         *)
(* instances that holds those named at its places, and at the places of the  *)
(* instances in it; it has no end where an instance needs a larger one.      *)
Generic(p, kinds, t) ==
  t.args # <<>> /\ \E kind \in kinds : HasTemplate(p, kind, t.name)

RECURSIVE InstancesIn(_, _)
InstancesIn(p, t) ==
  (IF Generic(p, {"class", "struct"}, t) THEN {<<t.name, t.args>>} ELSE {})
    \union UNION {InstancesIn(p, t.args[i]) : i \in DOMAIN t.args}

NamedAt(p, u) == IF u.site = "call"
                 THEN IF Generic(p, {"function"}, u.t) THEN {<<u.t.name, u.t.args>>} ELSE {}
                 ELSE InstancesIn(p, u.t)

UsesOf(p, instance) ==
  LET d == CHOOSE x \in ToSet(p) : IsTemplate(x) /\ x.name = instance[1]
  IN  ToSet(Specialized(d, instance[2]).uses)

KeptUses(p) == UNION {ToSet(Kept(p)[i].uses) : i \in DOMAIN Kept(p)}

RECURSIVE NeedFrom(_, _, _, _)
NeedFrom(p, sites, need, new) ==
  IF new = {} \/ Cardinality(need) > MaxInstances THEN need
  ELSE LET uses == UNION {UsesOf(p, x) : x \in new}
           named == UNION {NamedAt(p, u) : u \in {v \in uses : v.site \in sites}}
       IN  NeedFrom(p, sites, need \union new, named \ (need \union new))
Needed(p, sites) ==
  NeedFrom(p, sites, {}, UNION {NamedAt(p, u) : u \in {v \in KeptUses(p) : v.site \in sites}})

Sites(p) == {u.site : u \in UNION {ToSet(p[i].uses) : i \in DOMAIN p}}
ReachedUses(p) == KeptUses(p) \union UNION {UsesOf(p, x) : x \in Needed(p, Sites(p))}

(* Where the code does something else, each described in the README.         *)
RECURSIVE TypesIn(_)
TypesIn(t) == {t} \union UNION {TypesIn(t.args[i]) : i \in DOMAIN t.args}

Odd(p) ==
  LET need == Needed(p, Sites(p))
      uses == ReachedUses(p)
      types == UNION {TypesIn(u.t) : u \in uses}
      kept == Kept(p)
      note(text, holds) == IF holds THEN {text} ELSE {}
  IN  note("endless", Cardinality(need) > MaxInstances)
      \union note("not asked for", need # Needed(p, CollectedSites))
      \union note("not rewritten", \E u \in uses : u.site \notin RewrittenSites /\ NamedAt(p, u) # {})
      \union note("one name for two", \E x, y \in need : x # y /\ MangleInstance(x[1], x[2]) = MangleInstance(y[1], y[2]))
      \union note("name taken", \E x \in need, i \in DOMAIN kept : MangleInstance(x[1], x[2]) = kept[i].name)
      \union note("no arguments", \E t \in types, d \in ToSet(p) : IsTemplate(d) /\ t.name = d.name /\ t.args = <<>>)
      \union note("number of arguments", \E x \in need, d \in ToSet(p) :
                    IsTemplate(d) /\ d.name = x[1] /\ Len(d.params) # Len(x[2]))
      \union note("qualified name", \E t \in types : t.name \in DOMAIN Dotted /\ t.args # <<>>)
      \union note("base declared later",
                  \/ \E u \in uses : u.site = "base" /\ InstancesIn(p, u.t) # {}
                  \/ \E i \in DOMAIN kept, j \in DOMAIN kept :
                       i <= j /\ BaseOf(kept[i]) # "" /\ BaseOf(kept[i]) = kept[j].name)

(* A rewritten type stands for the type as written: an instance by its name,  *)
(* and everything else unchanged.                                            *)
Instance(x, kinds) ==
  {i \in DOMAIN items : items[i].of = x /\ items[i].kind \in kinds}

RECURSIVE StandsFor(_, _, _, _)
StandsFor(p, kinds, is, t) ==
  /\ is.dims = t.dims /\ is.null = t.null
  /\ IF Generic(p, kinds, t)
     THEN /\ is.args = <<>>
          /\ {i \in DOMAIN items : items[i].name = is.name} = Instance(<<t.name, t.args>>, kinds)
          /\ Cardinality(Instance(<<t.name, t.args>>, kinds)) = 1
     ELSE /\ is.name = t.name
          /\ kinds = {"function"} \/ Len(is.args) = Len(t.args)
          /\ \A i \in DOMAIN is.args : StandsFor(p, kinds, is.args[i], t.args[i])

Written(p, d) == IF d.of[2] = <<>> THEN CHOOSE k \in ToSet(Kept(p)) : k.name = d.of[1]
                 ELSE Specialized(CHOOSE k \in ToSet(p) : IsTemplate(k) /\ k.name = d.of[1], d.of[2])

(* The program that reaches the compiler has exactly the instances it needs,  *)
(* each once, every place that named one names it, nothing of a template is   *)
(* left, and every class is linked to the class it extends.                   *)
InstancesClosed ==
  stage = "declared" =>
    LET p == Program(input)
    IN  Odd(p) = {} =>
          /\ {items[i].of : i \in {j \in DOMAIN items : items[j].of[2] # <<>>}} = Needed(p, Sites(p))
          /\ \A i \in DOMAIN items :
               LET w == Written(p, items[i])
               IN  \A j \in DOMAIN w.uses :
                     StandsFor(p, IF w.uses[j].site = "call" THEN {"function"} ELSE {"class", "struct"},
                               items[i].uses[j].t, w.uses[j].t)
          /\ \A i \in DOMAIN items :
               BaseOf(items[i]) # "" =>
                 bases[i] # 0 /\ items[bases[i]].name = BaseOf(items[i])
=============================================================================
