----------------------------- MODULE SsaPasses -----------------------------
(***************************************************************************)
(* The optimizer (ssa/passes, ssa/pass.rs): each pass on a function, the   *)
(* inliner on a module, and the pipelines of the two levels.               *)
(*                                                                         *)
(* A pass adds a note to a function where it takes one thing for another   *)
(* that it is not always: a value of a block that need not have run, a     *)
(* read from before a write, a trap that did not happen yet, a constant    *)
(* concluded from a path before all of it was known.                       *)
(***************************************************************************)
EXTENDS Ssa

Insts(f, b) == f.blk[b].ids
\* A division that may be by zero.
Divides(f, v) == /\ IsOp(f, v, "bin") /\ f.inst[v].x \in {"Div", "Mod"}
                 /\ LET by == ConstOf(f, f.inst[v].args[2]) IN ~Numeric(by) \/ by[2] = 0
Only(f, ops) == SelectSeq(Values(f), LAMBDA v : f.inst[v[2]].op \in ops)
SetConst(f, v, c) == [f EXCEPT !.inst[v] = [New("const", <<>>, c) EXCEPT !.eff = FALSE]]

\* CfgSimplify: branches on a constant, and what is not reached then.
Branch(f, known) ==
    Fold(LAMBDA g, b : LET t == g.blk[b].term IN
                 IF t.is = "cond" /\ known[t.v][1] = "bool"
                 THEN SetTerm(g, b, "br", -1, <<t.to[IF known[t.v][2] THEN 1 ELSE 2]>>) ELSE g,
             f, Ids(f))
CfgSimplify(f) ==
    LET g == Branch(f, [v \in DOMAIN f.inst |-> ConstOf(f, v)])
        live == Reachable(g)
        gone == UNION {Range(Insts(g, b)) : b \in DOMAIN g.blk \ live}
    IN [Without(g, gone) EXCEPT !.blk = Table([b \in live |-> @[b]])]

-----------------------------------------------------------------------------
\* Mem2Reg: the loads of a slot become the value that was stored last.
Unknown == 0
RECURSIVE PhiBlocks(_, _)
PhiBlocks(frontiers, blocks) ==
    LET more == UNION {frontiers[b] : b \in blocks}
    IN IF more \subseteq blocks THEN more ELSE PhiBlocks(frontiers, blocks \cup more)

\* rename_block, with the value that reaches the block's end of its
\* predecessor on top.
RECURSIVE Rename(_, _, _, _, _)
Rename(f, seen, b, slot, top) ==
    IF b \in seen THEN [f |-> f, seen |-> seen]
    ELSE LET phis == {v \in Range(Insts(f, b)) : f.inst[v].op = "phi" /\ f.inst[v].eff}
             One(a, v) ==
                 LET i == f.inst[v] IN
                 IF i.op \notin {"load", "store"} \/ i.args[1] # slot THEN a
                 ELSE IF i.op = "store" THEN [a EXCEPT !.top = i.args[2]]
                 ELSE [a EXCEPT !.pairs = Append(@, <<v, a.top>>)]
             walk == Fold(One, [top |-> IF phis = {} THEN top ELSE CHOOSE v \in phis : TRUE,
                                    pairs |-> <<>>], Insts(f, b))
             Incoming(g, s) ==
                 Fold(LAMBDA h, v :
                          IF h.inst[v].op # "phi" \/ ~h.inst[v].eff THEN h
                          ELSE [h EXCEPT !.inst[v].args =
                                   Table([k \in DOMAIN @ |-> IF h.inst[v].x[k] = b THEN walk.top ELSE @[k]])],
                      g, Insts(g, s))
         IN Fold(LAMBDA r, s : Rename(Incoming(r.f, s), r.seen, s, slot, walk.top),
                     [f |-> ReplaceEach(f, walk.pairs), seen |-> seen \cup {b}], Succs(f, b))

\* While a slot is promoted its phis are marked by eff.
Promote(f, slot) ==
    LET Access(v) == f.inst[v].op \in {"load", "store"} /\ f.inst[v].args[1] = slot
        stores == {b \in DOMAIN f.blk : \E v \in Range(Insts(f, b)) : Access(v) /\ f.inst[v].op = "store"}
        joins == PhiBlocks(Frontiers(f), stores)
        AddPhi(g, b) ==
            LET preds == Preds(g, b)
                h == AddFirst(g, b, "phi", [k \in DOMAIN preds |-> Unknown], preds)
            IN [h EXCEPT !.inst[g.next].eff = TRUE]
        withPhis == Fold(AddPhi, f, SelectSeq(Ids(f), LAMBDA b : b \in joins))
        undef == AddFirst(withPhis, Entry, "const", <<>>, Null)
        renamed == Rename(undef, {}, Entry, slot, withPhis.next).f
        unmarked == [renamed EXCEPT !.inst = Table([v \in DOMAIN @ |->
                        IF @[v].op = "phi" THEN [@[v] EXCEPT !.eff = FALSE] ELSE @[v]])]
    IN IF ~\E v \in DOMAIN f.inst : Access(v) THEN Without(f, {slot})
       ELSE Without(unmarked, {slot} \cup {v \in DOMAIN f.inst : Access(v)})
Mem2Reg(f) ==
    LET slots == Only(f, {"alloca"})
        self == \E v \in DOMAIN f.inst : f.inst[v].op = "store"
                   /\ IsOp(f, f.inst[v].args[2], "load") /\ f.inst[f.inst[v].args[2]].args = <<f.inst[v].args[1]>>
    IN Fold(LAMBDA g, s : Promote(g, s[2]), Note(f, "assigned to itself", self),
                IF f.up THEN slots ELSE Reverse(slots))

-----------------------------------------------------------------------------
\* Folding of two constants of one kind, for the operators ops of that kind
\* (fold_bin, with fewer in Sccp).
FoldBin(ops, op, l, r) ==
    CASE l[1] # r[1] \/ l[1] \notin DOMAIN ops -> <<"none">>
      [] l[1] = r[1] /\ l[1] \in DOMAIN ops ->
            IF op \notin ops[l[1]] \/ (op \in {"Div", "Mod"} /\ r[2] = 0) THEN <<"none">>
            ELSE IF op = "And" THEN Bool(l[2] /\ r[2])
            ELSE IF op = "Or" THEN Bool(l[2] \/ r[2])
            ELSE BinaryOp(op, l, r)
Logical == {"And", "Or"}
FoldOps == [int |-> IntegerOps \cup {"Add", "Sub", "Mul", "Div", "Eq", "Ne", "Lt", "Le", "Gt", "Ge"},
            bool |-> Logical, float |-> {"Add", "Sub", "Mul", "Div"}]
FoldUn(op, a) ==
    CASE op = "Neg" /\ a[1] \in {"int", "float"} -> <<a[1], -a[2]>>
      [] op = "BitNot" /\ a[1] = "int" -> Num(-a[2] - 1)
      [] op = "Not" /\ a[1] = "bool" -> Bool(~a[2])
      [] op = "IsNull" /\ a[1] # "none" -> Bool(a = Null)
      [] OTHER -> <<"none">>

\* try_fold, with its identities of + and *.
TryFold(f, i) ==
    LET l == ConstOf(f, i.args[1])
        r == ConstOf(f, i.args[2])
        folded == FoldBin(FoldOps, i.x, l, r)
    IN CASE i.op = "un" -> FoldUn(i.x, l)
         [] i.op = "bin" /\ folded[1] # "none" -> folded
         [] i.op = "bin" /\ i.x = "Add" /\ r = Num(0) -> l
         [] i.op = "bin" /\ i.x = "Add" /\ l = Num(0) -> r
         [] i.op = "bin" /\ i.x = "Mul" /\ r = Num(1) -> l
         [] i.op = "bin" /\ i.x = "Mul" /\ l = Num(1) -> r
         [] i.op = "bin" /\ i.x = "Mul" /\ Num(0) \in {l, r} -> Num(0)
         [] OTHER -> <<"none">>
ConstFold(f) ==
    Fold(LAMBDA g, v : LET c == TryFold(g, g.inst[v[2]])
                           IN IF c[1] = "none" THEN g ELSE SetConst(g, v[2], c),
             f, Only(f, {"bin", "un"}))

(* Sccp.  A value is undefined, a constant or overdefined.  A block is     *)
(* visited when an edge to it is taken for the first time; a value that    *)
(* changes is evaluated again, those that use it are not.                  *)
Undef == <<"undef">>
Over == <<"over">>
MeetOfFirst(a, b) == IF a = Undef THEN b ELSE a    \* (mutant) two constants are not told apart
Compared == {"null", "bool", "int", "float", "str"}        \* const_eq
Meet(a, b) == IF a = Undef THEN b ELSE IF b = Undef THEN a
              ELSE IF a[1] \in Compared /\ a = b THEN a ELSE Over
SccpOps == [int |-> {"Add", "Sub", "Mul", "Eq", "Lt"}, bool |-> Logical]
Settled(c) == IF c[1] = "none" THEN Over ELSE c
EvalLat(f, val, v) ==
    LET i == f.inst[v]
        In(k) == IF i.args[k] \in DOMAIN val THEN val[i.args[k]] ELSE Undef
        ins == {In(k) : k \in DOMAIN i.args}
    IN CASE i.op = "const" -> i.x
         [] i.op = "bin" -> IF Over \in ins THEN Over ELSE IF Undef \in ins THEN Undef
                            ELSE Settled(FoldBin(SccpOps, i.x, In(1), In(2)))
         [] i.op = "un" -> IF In(1) \in {Over, Undef} THEN In(1)
                           ELSE IF <<i.x, In(1)[1]>> \in {<<"Not", "bool">>, <<"Neg", "int">>}
                                THEN Settled(FoldUn(i.x, In(1))) ELSE Over
         [] i.op = "phi" -> Fold(LAMBDA a, k : Meet(a, In(k)), Undef, [k \in DOMAIN i.args |-> k])
         [] OTHER -> Over
Visit(f, s, v) ==
    LET new == Meet(s.val[v], EvalLat(f, s.val, v))
    IN IF new = s.val[v] THEN s ELSE [s EXCEPT !.val[v] = new, !.again = Append(@, v)]
Take1(s, edge) == IF edge \in s.edges THEN s
                  ELSE [s EXCEPT !.edges = @ \cup {edge}, !.todo = Append(@, edge[2])]
VisitBlock(f, s0, b) ==
    LET s == Fold(LAMBDA a, v : Visit(f, a, v), [s0 EXCEPT !.todo = Tail(@)], Insts(f, b))
        t == f.blk[b].term
        c == IF t.v \in DOMAIN s.val THEN s.val[t.v] ELSE Undef
    IN CASE t.is = "br" -> Take1(s, <<b, t.to[1]>>)
         [] t.is = "cond" /\ c = Bool(TRUE) -> Take1(s, <<b, t.to[1]>>)
         [] t.is = "cond" /\ c = Bool(FALSE) -> Take1(s, <<b, t.to[2]>>)
         [] t.is = "cond" /\ c[1] \notin {"bool", "undef"} ->
               Take1(Take1(s, <<b, t.to[1]>>), <<b, t.to[2]>>)
         [] OTHER -> s
RECURSIVE Lattice(_, _)
Lattice(f, s) ==
    IF s.todo # <<>> THEN Lattice(f, VisitBlock(f, s, Head(s.todo)))
    ELSE IF s.again # <<>> THEN Lattice(f, Visit(f, [s EXCEPT !.again = Tail(@)], Head(s.again)))
    ELSE s
Sccp(f) ==
    LET Initial(v) == CASE f.inst[v].op = "const" -> f.inst[v].x
                        [] f.inst[v].op = "param" -> Over
                        [] OTHER -> Undef
        s == Lattice(f, [val |-> Table([v \in DOMAIN f.inst |-> Initial(v)]), edges |-> {<<Entry, Entry>>},
                         todo |-> <<Entry>>, again |-> <<>>])
        Known(v) == IF v \in DOMAIN s.val /\ s.val[v] \notin {Undef, Over} THEN s.val[v] ELSE <<"none">>
        visited == {e[2] : e \in s.edges}
        \* the conclusion does not follow from the rest of it
        stale == \E b \in visited :
                    \/ \E v \in Range(Insts(f, b)) : Meet(s.val[v], EvalLat(f, s.val, v)) # s.val[v]
                    \/ Known(f.blk[b].term.v)[1] # "bool"
                       /\ \E k \in DOMAIN Succs(f, b) : Succs(f, b)[k] \notin visited
        folded == [f EXCEPT !.inst = Table([v \in DOMAIN @ |->
                      IF Known(v)[1] # "none" /\ ~@[v].eff THEN New("const", <<>>, Known(v)) ELSE @[v]])]
    IN Note(Branch(folded, [v \in DOMAIN s.val |-> Known(v)]), "constant of one path", stale)

-----------------------------------------------------------------------------
\* CopyProp: a phi of one value is that value.
CopyProp(f) ==
    LET phis == SelectSeq(Only(f, {"phi"}), LAMBDA v : Cardinality(Range(f.inst[v[2]].args)) = 1)
    IN ReplaceEach(f, [k \in DOMAIN phis |-> <<phis[k][2], f.inst[phis[k][2]].args[1]>>])

\* Is what v reads written by the module?
Written(M, f, v) ==
    LET Some(g, ops) == {w \in DOMAIN g.inst : g.inst[w].op \in ops}
    IN CASE f.inst[v].op = "getglobal" ->
               \E k \in DOMAIN M : \E w \in Some(M[k], {"setglobal"}) : M[k].inst[w].x = f.inst[v].x
         [] f.inst[v].op \in {"getproperty", "getindex"} ->
               Some(f, {"setproperty", "setindex", "call"}) # {}
         [] OTHER -> FALSE

\* Gvn: the first of equal expressions, in reverse postorder, replaces the
\* others, wherever they are.
Reads == {"load", "getglobal", "getproperty", "getindex"}
Gvn(f, M) ==
    LET pure == ConcatOver(Rpo(f), LAMBDA b :
                   SelectSeq([k \in DOMAIN Insts(f, b) |-> <<b, Insts(f, b)[k]>>], LAMBDA v :
                      f.inst[v[2]].op \in Reads \cup {"bin", "un", "const"} /\ ~f.inst[v[2]].eff))
        Same(j, k) == LET a == f.inst[pure[j][2]] b == f.inst[pure[k][2]]
                      IN a.op = b.op /\ a.args = b.args /\ a.x = b.x
        First(k) == CHOOSE j \in 1..k : Same(j, k) /\ \A i \in 1..(j - 1) : ~Same(i, k)
        first == Table([k \in DOMAIN pure |-> First(k)])
        dom == Dominators(f)
        twice == {k \in DOMAIN pure : first[k] # k}
        Elsewhere(k) == pure[first[k]][1] \notin dom[pure[k][1]]
        noted == Note(Note(f, "value of a block beside", \E k \in twice : Elsewhere(k)),
                      "read before a write", \E k \in twice : Written(M, f, pure[k][2]))
    IN ReplaceEach(noted, [k \in DOMAIN pure |-> <<pure[k][2], pure[first[k]][2]>>])

\* Dce: what has an effect, what a branch or a return takes, and what they use.
RECURSIVE Uses(_, _)
Uses(f, live) ==
    LET more == (UNION {Range(f.inst[v].args) : v \in live \cap DOMAIN f.inst}) \ live
    IN IF more = {} THEN live ELSE Uses(f, live \cup more)
Dce(f) ==
    LET live == Uses(f, {v \in DOMAIN f.inst : f.inst[v].eff}
                        \cup {f.blk[b].term.v : b \in DOMAIN f.blk})
        gone == {v \in DOMAIN f.inst : v \notin live /\ f.inst[v].op # "param"}
    IN Note(Without(f, gone), "error not raised",
            \E v \in gone : f.inst[v].op \in {"getproperty", "getindex"} \/ Divides(f, v))

\* Licm: to the end of the one block before the loop.
Hoist(f, loop, M) ==
    LET before == SelectSeq(Preds(f, loop.header), LAMBDA p : p \notin loop.body)
        inside == ConcatOver(SelectSeq(Ids(f), LAMBDA b : b \in loop.body), LAMBDA b : Insts(f, b))
        \* the operands that are not constants are computed outside
        Invariant(v) ==
            /\ ~f.inst[v].eff
            /\ f.inst[v].op \in {"const", "bin", "un", "getglobal"}
            /\ \A d \in Range(f.inst[v].args) : d \in Range(inside) => IsOp(f, d, "const")
        moved == SelectSeq(inside, Invariant)
        Move(g, v) == [[g EXCEPT !.blk = Table([b \in DOMAIN @ |->
                                               [@[b] EXCEPT !.ids = SelectSeq(@, LAMBDA w : w # v)]])]
                          EXCEPT !.blk[before[1]].ids = Append(@, v)]
        noted == Note(Note(f, "read before a write", \E v \in Range(moved) : Written(M, f, v)),
                      "error raised early", \E v \in Range(moved) : Divides(f, v))
    IN IF Len(before) # 1 THEN f ELSE Fold(Move, noted, moved)
Licm(f, M) == Fold(LAMBDA g, l : Hoist(g, l, M), f, Loops0(f))

\* StrengthReduce: an induction variable times a constant is a variable of
\* its own, which starts at 0 if the start is not a constant.
StepOf0(f, phi, v) ==
    LET a == f.inst[v].args IN
    CASE IsOp(f, v, "bin") /\ f.inst[v].x = "Add" /\ a[1] = phi -> ConstOf(f, a[2])
      [] IsOp(f, v, "bin") /\ f.inst[v].x = "Add" /\ a[1] # phi /\ a[2] = phi -> ConstOf(f, a[1])
      [] OTHER -> <<"none">>
Reduce(f, loop, phi, b, mul) ==
    LET i == f.inst[mul]
        c == ConstOf(f, IF i.args[1] = phi THEN i.args[2] ELSE i.args[1])
        x == f.inst[phi].x
        Inner(k) == x[k] \in loop.body
        steps == SelectSeq([k \in DOMAIN x |-> k],
                           LAMBDA k : Inner(k) /\ StepOf0(f, phi, f.inst[phi].args[k])[1] = "int")
        outer == SelectSeq([k \in DOMAIN x |-> k], LAMBDA k : ~Inner(k))
        step == StepOf0(f, phi, f.inst[phi].args[Last(steps)])
        start == ConstOf(f, f.inst[phi].args[outer[1]])
        first == AddLast(f, x[outer[1]], "const", <<>>,
                         IF start[1] = "int" THEN Num(start[2] * c[2]) ELSE Num(0))
        derived == f.next + 1
        stride == AddLast([first EXCEPT !.next = derived + 1], loop.latch, "const", <<>>, Num(step[2] * c[2]))
        next == AddLast(stride, loop.latch, "bin", <<derived, derived + 1>>, "Add")
        phi2 == New("phi", <<f.next, derived + 2>>, <<x[outer[1]], loop.latch>>)
        put == [next EXCEPT !.inst = (derived :> phi2) @@ @, !.blk[loop.header].ids = <<derived>> \o @]
    IN IF \/ mul \notin DOMAIN f.inst \/ ~IsOp(f, phi, "phi") \/ Len(x) # 2
          \/ ~(IsOp(f, mul, "bin") /\ i.x = "Mul" /\ phi \in Range(i.args)) \/ c[1] # "int"
          \/ steps = <<>> \/ outer = <<>>
       THEN f
       ELSE Note(Without(ReplaceUses(put, mul, derived), {mul}), "start taken for 0", start[1] # "int")
StrengthReduce(f) ==
    Fold(LAMBDA g, l :
        Fold(LAMBDA h, phi :
            Fold(LAMBDA k, b : Fold(LAMBDA n, v : Reduce(n, l, phi, b, v), k, Insts(k, b)),
                     h, SelectSeq(Ids(g), LAMBDA b : b \in l.body)),
            g, Insts(g, l.header)),
        f, Loops0(f))

-----------------------------------------------------------------------------
\* Inline, on a module: calls of a constant function of one block.
Callee(f, call) == LET c == ConstOf(f, f.inst[call].args[1]) IN IF c[1] = "fn" THEN c[2] ELSE 0
Sites(M) == ConcatOver([k \in DOMAIN M |-> k], LAMBDA k :
               ConcatOver(Only(M[k], {"call"}), LAMBDA v :
                  IF Callee(M[k], v[2]) = 0 THEN <<>>
                  ELSE << [at |-> k, block |-> v[1], call |-> v[2], of |-> Callee(M[k], v[2])] >>))
SizeOf(f) == Cardinality(DOMAIN f.inst)
Chosen(M, most, often) ==
    SelectSeq(Sites(M), LAMBDA s :
        /\ s.of # s.at
        /\ Only(M[s.of], {"closure", "getupvalue"}) = <<>>
        /\ SizeOf(M[s.of]) <= most
        /\ often \/ Len(SelectSeq(Sites(M), LAMBDA o : o.of = s.of)) = 1)

\* remap_kind knows the operands of these.
Remapped == {"bin", "un", "call", "print"}
Skipped == {"alloca", "param", "store", "load"}
InlineCall(M, s) ==
    LET f == M[s.at]
        callee == M[s.of]
        body == Insts(callee, Entry)
        args == Tail(f.inst[s.call].args)
        new == SelectSeq(body, LAMBDA v : callee.inst[v].op \notin Skipped)
        \* what a value of the callee is in the caller
        Map(v) ==
            LET at == SelectInSeq(new, LAMBDA w : w = v) IN
            CASE at # 0 -> f.next + at - 1
              [] IsOp(callee, v, "param") /\ callee.inst[v].x < Len(args) -> args[callee.inst[v].x + 1]
              [] OTHER -> v
        Unmapped(v) == Map(v) = v
        Copy(v) == LET i == callee.inst[v] IN
                   IF i.op \in Remapped THEN [i EXCEPT !.args = [k \in DOMAIN @ |-> Map(@[k])]] ELSE i
        ret == callee.blk[Entry].term
        n == Len(new)
        pos == SelectInSeq(Insts(f, s.block), LAMBDA v : v = s.call)
        nullId == IF ret.v = -1 THEN <<f.next + n>> ELSE <<>>
        insts == [k \in (f.next .. (f.next + n - 1)) |-> Copy(new[k - f.next + 1])]
        f2 == [f EXCEPT !.inst = insts @@ [k \in Range(nullId) |-> New("const", <<>>, Null)] @@ @,
                        !.next = @ + n + 1,
                        !.blk[s.block].ids = SubSeq(@, 1, pos - 1) \o nullId
                                             \o [k \in 1..n |-> f.next + k - 1] \o SubSeq(@, pos, Len(@))]
        lost == \E v \in Range(new) : IF callee.inst[v].op \in Remapped
                                      THEN \E k \in DOMAIN callee.inst[v].args : Unmapped(callee.inst[v].args[k])
                                      ELSE callee.inst[v].args # <<>>
    IN IF \/ Cardinality(DOMAIN callee.blk) # 1 \/ ret.is # "return" \/ pos = 0
          \/ \E v \in Range(new) : callee.inst[v].eff /\ callee.inst[v].op # "print"
       THEN M
       ELSE [M EXCEPT ![s.at] = Note(Without(ReplaceUses(f2, s.call, IF ret.v = -1 THEN nullId[1] ELSE Map(ret.v)),
                                             {s.call}),
                                     "value of the callee", lost \/ (ret.v # -1 /\ Unmapped(ret.v)))]
Inline(M, most, often) == Fold(InlineCall, M, Chosen(M, most, often))

-----------------------------------------------------------------------------
\* pipeline_for
Speed == <<"cfg", "mem2reg", "sccp", "fold", "copy", "gvn", "dce", "licm", "strength",
           "inline", "cfg", "copy", "dce">>
Size == <<"cfg", "mem2reg", "sccp", "fold", "copy", "gvn", "dce", "licm", "inline few", "cfg", "dce">>

RunPass(M, pass) ==
    LET One(f) == CASE pass = "cfg" -> CfgSimplify(f)
                    [] pass = "mem2reg" -> Mem2Reg(f)
                    [] pass = "sccp" -> Sccp(f)
                    [] pass = "fold" -> ConstFold(f)
                    [] pass = "copy" -> CopyProp(f)
                    [] pass = "gvn" -> Gvn(f, M)
                    [] pass = "dce" -> Dce(f)
                    [] pass = "licm" -> Licm(f, M)
                    [] pass = "strength" -> StrengthReduce(f)
    IN CASE pass = "inline" -> Inline(M, 40, TRUE)
         [] pass = "inline few" -> Inline(M, 8, FALSE)
         [] OTHER -> Table([k \in DOMAIN M |-> One(M[k])])

\* compile_via_ssa: the module for a list of chunks, what was noted, and
\* whether the compiler panicked.
Optimized(P, pipeline, up) ==
    LET M == Fold(RunPass, Table([k \in DOMAIN P |-> Lift(P[k], up)]), pipeline)
        N == Table([k \in DOMAIN M |-> EliminatePhis(M[k])])
        panic == \E k \in DOMAIN N : N[k].panic
    IN [notes |-> (UNION {N[k].notes : k \in DOMAIN N}) \cup (IF panic THEN {"panic"} ELSE {}),
        chunks |-> Table([k \in DOMAIN N |-> EmitFunction(N[k])])]
=============================================================================
