-------------------------------- MODULE Ssa --------------------------------
(***************************************************************************)
(* The mid-level IR (ssa/): a chunk lifted to blocks of instructions that  *)
(* name their operands (lift.rs), the analyses of the graph of blocks      *)
(* (cfg.rs), the replacement of phis by slots (phi_elim.rs) and the chunk  *)
(* emitted again (emit.rs).  The passes between are in SsaPasses.          *)
(*                                                                         *)
(* A function is [blk, inst, next, locals, arity, up, notes, panic]: blk   *)
(* takes a block to the ids of its instructions and its terminator         *)
(* [is, v, to], inst takes an id to [op, args, x, eff].  Block 1 is the    *)
(* entry.  The code keeps blocks in a HashMap, whose order is any: up says *)
(* whether it is that of the numbers or the reverse.  notes are the places *)
(* where what the lifter and the passes do is not what the chunk says, and *)
(* panic is a block that is used after it was removed.                     *)
(***************************************************************************)
EXTENDS Machine

Entry == 1
Effects == {"store", "call", "setglobal", "defglobal", "setproperty", "setindex", "print",
            "await", "setupvalue", "newobject", "newarray", "closure"}
Note(f, what, when) == IF when THEN [f EXCEPT !.notes = @ \cup {what}] ELSE f

\* alloc_value and push_inst: the instruction is f.next.
New(op, args, x) == [op |-> op, args |-> args, x |-> x, eff |-> op \in Effects]
Inst(f, op, args, x) == [f EXCEPT !.inst = (f.next :> New(op, args, x)) @@ @, !.next = @ + 1]
AddLast(f, b, op, args, x) == [Inst(f, op, args, x) EXCEPT !.blk[b].ids = Append(@, f.next)]
AddFirst(f, b, op, args, x) == [Inst(f, op, args, x) EXCEPT !.blk[b].ids = <<f.next>> \o @]
SetTerm(f, b, is, v, to) == [f EXCEPT !.blk[b].term = [is |-> is, v |-> v, to |-> to]]
Without(f, gone) ==                \* instructions that are removed
    [f EXCEPT !.inst = Table([v \in DOMAIN @ \ gone |-> @[v]]),
              !.blk = Table([b \in DOMAIN @ |->
                          [@[b] EXCEPT !.ids = SelectSeq(@, LAMBDA v : v \notin gone)]])]
ReplaceUses(f, from, to) ==
    LET Sub(v) == IF v = from THEN to ELSE v
        Uses(v) == from \in Range(f.inst[v].args)
        args(v) == Table([i \in DOMAIN f.inst[v].args |-> Sub(f.inst[v].args[i])])
    IN [f EXCEPT !.inst = Table([v \in DOMAIN @ |-> IF Uses(v) THEN [@[v] EXCEPT !.args = args(v)] ELSE @[v]]),
                 !.blk = Table([b \in DOMAIN @ |-> [@[b] EXCEPT !.term.v = Sub(@)]])]
ReplaceEach(f, pairs) == Fold(LAMBDA g, p : ReplaceUses(g, p[1], p[2]), f, pairs)

IsOp(f, v, op) == v \in DOMAIN f.inst /\ f.inst[v].op = op
ConstOf(f, v) == IF IsOp(f, v, "const") THEN f.inst[v].x ELSE <<"none">>

\* The blocks, and the instructions with their blocks, in the order of the map.
Ids(f) == LET n == f.blocks
          IN SelectSeq([i \in 1..n |-> IF f.up THEN i ELSE n + 1 - i], LAMBDA b : b \in DOMAIN f.blk)
ConcatOver(seq, F(_)) == Fold(LAMBDA a, x : a \o F(x), <<>>, seq)
Values(f) == ConcatOver(Ids(f), LAMBDA b : [i \in DOMAIN f.blk[b].ids |-> <<b, f.blk[b].ids[i]>>])

-----------------------------------------------------------------------------
\* lift.rs.  st is [f, b, stack]: the block's own stack of values.
Put(st, op, args, x) == [st EXCEPT !.f = AddLast(@, st.b, op, args, x)]
Result(st, op, args, x) == [Put(st, op, args, x) EXCEPT !.stack = Append(@, st.f.next)]
Noted(st, what, when) == [st EXCEPT !.f = Note(@, what, when)]
Drop(st) == [st EXCEPT !.stack = IF @ = <<>> THEN @ ELSE Front(@)]

\* The values on top; one that is missing in this block is null.
RECURSIVE Take(_, _)
Take(st, n) ==
    IF n = 0 THEN [st |-> st, args |-> <<>>]
    ELSE LET empty == st.stack = <<>>
             v == IF empty THEN st.f.next ELSE Last(st.stack)
             one == IF empty THEN Noted(Put(st, "const", <<>>, Null), "value of another block", TRUE)
                    ELSE Drop(st)
             rest == Take(one, n - 1)
         IN [st |-> rest.st, args |-> Append(rest.args, v)]
Taking(st, n, op, x) == LET t == Take(st, n) IN Result(t.st, op, t.args, x)
Consuming(st, n, op, x) ==           \* the machine pushes a result; the lifter does not
    LET t == Take(st, n) IN Noted(Put(t.st, op, t.args, x), "result not kept", t.st.stack # <<>>)
Peeking(st, op, args, x) ==
    LET t == Take(st, 1)
    IN [Put(t.st, op, args \o t.args, x) EXCEPT !.stack = st.stack]

Ended(st, is, v, to) == [Noted(st, "value left", is \in {"br", "cond"} /\ st.stack # <<>>)
                            EXCEPT !.f = SetTerm(@, st.b, is, v, to)]

\* translate_range for the instruction i at ip; leaders are where the blocks
\* begin.
LiftInstruction(st, i, ip, leaders) ==
    LET At(d) == SelectInSeq(leaders, LAMBDA k : k = ip + 1 + d)
        t == Take(st, 1)
        v == t.args[1]
        load == st.f.next
    IN CASE i[1] = "Constant" /\ i[2][1] # "type" -> Result(st, "const", <<>>, i[2])
         [] i[1] = "Constant" /\ i[2][1] = "type" ->    \* the type is lost: all but null are of it
               Noted(Result(st, "const", <<>>, Null), "type test", i[2][2] # "object")
         [] i[1] = "Pop" -> Drop(st)
         [] i[1] = "Dup" -> IF st.stack = <<>> THEN st ELSE [st EXCEPT !.stack = Append(@, Last(@))]
         [] i[1] = "GetLocal" -> Result(st, "load", <<i[2]>>, 0)
         [] i[1] = "SetLocal" -> Peeking(st, "store", <<i[2]>>, 0)
         [] i[1] \in {"IncLocal", "DecLocal"} ->
               Put(Put(Put(Put(st, "load", <<i[2]>>, 0), "const", <<>>, Num(1)), "bin",
                       <<load, load + 1>>, IF i[1] = "IncLocal" THEN "Add" ELSE "Sub"),
                   "store", <<i[2], load + 2>>, 0)
         [] i[1] = "GetGlobal" -> Result(st, "getglobal", <<>>, i[2])
         [] i[1] = "SetGlobal" -> Peeking(st, "setglobal", <<>>, i[2])
         [] i[1] = "DefineGlobal" -> Put(t.st, "defglobal", t.args, i[2])
         [] i[1] = "GetUpvalue" -> Result(st, "getupvalue", <<>>, i[2])
         [] i[1] = "SetUpvalue" -> Peeking(st, "setupvalue", <<>>, i[2])
         [] i[1] \in Binary -> Taking(st, 2, "bin", i[1])
         [] i[1] \in {"Neg", "Not", "BitNot", "ToString", "IsNull"} -> Taking(st, 1, "un", i[1])
         [] i[1] = "IsInstance" ->
               LET of == Take(Drop(st), 1)
               IN Result(Put(of.st, "un", of.args, "IsNull"), "un", <<of.st.f.next>>, "Not")
         [] i[1] = "GetProperty" -> Taking(st, 2, "getproperty", 0)
         [] i[1] = "GetIndex" -> Taking(st, 2, "getindex", 0)
         [] i[1] = "SetProperty" -> Consuming(st, 3, "setproperty", 0)
         [] i[1] = "SetIndex" -> Consuming(st, 3, "setindex", 0)
         [] i[1] = "Print" -> Consuming(st, 1, "print", 0)
         [] i[1] = "Call" -> Taking(st, i[2] + 1, "call", 0)
         [] i[1] = "NewArray" -> Taking(st, i[2], "newarray", 0)
         [] i[1] = "NewObject" -> Result(st, "newobject", <<>>, 0)
         [] i[1] = "Await" -> Taking(st, 1, "await", 0)
         [] i[1] = "MakeClosure" ->
               Noted(Taking(st, 1, "closure", i[2]), "captured local",
                     \E c \in Range(i[2]) : c.local)
         [] i[1] \in {"TryBegin", "TryEnd"} -> Noted(st, "try", TRUE)
         [] i[1] = "StringStartsWith" ->
               LET of == Take(Drop(st), 1).st
               IN [Noted(Result(of, "const", <<>>, Bool(TRUE)), "string test", TRUE)
                      EXCEPT !.f.inst[of.f.next].eff = TRUE]
         [] i[1] = "Jump" -> Ended(st, "br", -1, <<At(i[2])>>)
         [] i[1] = "Loop" -> Ended(st, "br", -1, <<At(-i[2])>>)
         [] i[1] = "JumpIfFalse" -> Ended(t.st, "cond", v, <<At(0), At(i[2])>>)
         [] i[1] = "JumpIfTrue" -> Ended(t.st, "cond", v, <<At(i[2]), At(0)>>)
         [] i[1] = "Return" -> Ended(st, "return", IF st.stack = <<>> THEN -1 ELSE v, <<>>)
         [] i[1] = "Halt" -> Ended(st, "halt", -1, <<>>)
         [] i[1] = "Throw" -> Ended(t.st, "throw", v, <<>>)

Target(code, k) == IF code[k][1] = "Loop" THEN k + 1 - code[k][2] ELSE k + 1 + code[k][2]
\* find_leaders
Leaders(code) ==
    LET Is(ops) == {k \in 1..Len(code) : code[k][1] \in ops}
    IN {1} \cup {Target(code, k) : k \in Is({"Jump", "Loop", "JumpIfFalse", "JumpIfTrue", "TryBegin"})}
           \cup {k + 1 : k \in Is({"JumpIfFalse", "JumpIfTrue"})}
Terminators == {"Jump", "Loop", "JumpIfFalse", "JumpIfTrue", "Return", "Halt", "Throw"}

\* lift_chunk: a slot is an alloca, whose id is the slot; a parameter is
\* stored to its slot at the entry.
Lift(chunk, up) ==
    LET code == chunk.code
        leaders == SelectSeq([i \in 1..(Len(code) + 1) |-> i], LAMBDA i : i \in Leaders(code))
        n == Len(leaders)
        End(b) == IF b = n THEN Len(code) ELSE leaders[b + 1] - 1
        locals == IF chunk.locals > chunk.arity THEN chunk.locals ELSE chunk.arity
        empty == [blk |-> Table([b \in 1..n |-> [ids |-> <<>>, term |-> [is |-> "open", v |-> -1, to |-> <<>>]]]),
                  inst |-> <<>>, next |-> 0, blocks |-> n, locals |-> locals, arity |-> chunk.arity,
                  up |-> up, notes |-> {}, panic |-> FALSE]
        slots == Fold(LAMBDA f, s : AddLast(f, Entry, "alloca", <<>>, s - 1), empty,
                          [s \in 1..locals |-> s])
        params == Fold(LAMBDA f, p : AddLast(AddLast(f, Entry, "param", <<>>, p - 1),
                                                 Entry, "store", <<p - 1, f.next>>, 0),
                           slots, [p \in 1..chunk.arity |-> p])
        Translate(st, ip) ==
            IF st.f.blk[st.b].term.is # "open" THEN st
            ELSE LiftInstruction(st, code[ip], ip, leaders)
        Block(f, b) ==
            LET st == Fold(Translate, [f |-> f, b |-> b, stack |-> <<>>],
                               [k \in 1..(End(b) - leaders[b] + 1) |-> leaders[b] + k - 1])
            IN IF st.f.blk[b].term.is # "open" THEN st.f
               ELSE IF b < n THEN Ended(st, "br", -1, <<b + 1>>).f
               ELSE Ended(Put(st, "const", <<>>, Null), "return", st.f.next, <<>>).f
        all == Fold(Block, params, [b \in 1..n |-> b])
    IN Note(all, "loop at the entry", \E b \in 1..n : \E k \in DOMAIN all.blk[b].term.to :
                                          all.blk[b].term.to[k] = Entry)

-----------------------------------------------------------------------------
\* cfg.rs
Succs(f, b) == f.blk[b].term.to
Preds(f, b) == SelectSeq(Ids(f), LAMBDA p : b \in Range(Succs(f, p)))

RECURSIVE Closure(_, _, _)
Closure(f, seen, avoid) ==
    LET more == (UNION {Range(Succs(f, b)) : b \in seen}) \ (seen \cup avoid)
    IN IF more = {} THEN seen ELSE Closure(f, seen \cup more, avoid)
Reachable(f) == Closure(f, {Entry}, {})
\* compute_dominators: the blocks every path from the entry passes.
Dominators(f) ==
    LET past == Table([a \in DOMAIN f.blk |-> IF a = Entry THEN {} ELSE Closure(f, {Entry}, {a})])
    IN Table([b \in DOMAIN f.blk |-> {a \in DOMAIN f.blk : b \notin past[a]}])
\* dominance_frontiers: from each of several predecessors up to what
\* dominates the block.
Frontiers(f) ==
    LET dom == Dominators(f)
        Joins == {b \in DOMAIN f.blk : Len(Preds(f, b)) >= 2}
    IN Table([r \in DOMAIN f.blk |->
                {b \in Joins : /\ r \notin dom[b] \ {b}
                               /\ \E p \in Range(Preds(f, b)) : r \in dom[p]}])

RECURSIVE BackTo(_, _, _)
BackTo(f, body, from) ==
    LET more == (UNION {Range(Preds(f, b)) : b \in from}) \ body
    IN IF more = {} THEN body ELSE BackTo(f, body \cup more, more)
\* find_loops: one for every edge to a block that dominates its source.
Loops0(f) ==
    LET dom == Dominators(f)
    IN ConcatOver(Ids(f), LAMBDA latch :
          LET heads == SelectSeq(Succs(f, latch), LAMBDA h : h \in dom[latch])
          IN [i \in DOMAIN heads |-> [header |-> heads[i], latch |-> latch,
                                      body |-> BackTo(f, {heads[i], latch}, {latch})]])

\* block_rpo
RECURSIVE Post(_, _, _)
Post(f, b, st) ==
    IF b \in st.seen THEN st
    ELSE LET r == Fold(LAMBDA a, s : Post(f, s, a), [st EXCEPT !.seen = @ \cup {b}], Succs(f, b))
         IN [r EXCEPT !.post = Append(@, b)]
Rpo(f) == Reverse(Post(f, Entry, [seen |-> {}, post |-> <<>>]).post)

-----------------------------------------------------------------------------
\* eliminate_phis
PhiSlots == 254
EliminatePhi(f, b, phi) ==
    LET slot == IF f.locals < PhiSlots THEN f.locals ELSE PhiSlots
        ptr == f.next
        withSlot == [AddFirst(f, Entry, "alloca", <<>>, slot) EXCEPT !.locals = slot + 1]
        Store(g, k) == LET p == f.inst[phi].x[k] IN
            IF p \notin DOMAIN g.blk THEN [g EXCEPT !.panic = TRUE]
            ELSE AddLast(g, p, "store", <<ptr, f.inst[phi].args[k]>>, 0)
        stored == Fold(Store, withSlot, [k \in DOMAIN f.inst[phi].x |-> k])
    IN [stored EXCEPT !.inst[phi] = New("load", <<ptr>>, 0)]
EliminatePhis(f) ==
    Fold(LAMBDA g, v : EliminatePhi(g, v[1], v[2]), f,
             SelectSeq(Values(f), LAMBDA v : f.inst[v[2]].op = "phi"))

-----------------------------------------------------------------------------
\* emit.rs.  e is [code, spill, next]: what every value that was computed is
\* kept in, and the next slot.
Out(e, i) == [e EXCEPT !.code = Append(@, i)]
\* A slot is a byte: the values that find none left share the last.
LastSlot == 255
SpillSlot(e, v) == IF v \in DOMAIN e.spill THEN e.spill[v] ELSE e.next
Spill(e, v) == IF v \in DOMAIN e.spill THEN e
               ELSE [e EXCEPT !.spill = (v :> e.next) @@ @,
                              !.next = IF @ < LastSlot THEN @ + 1 ELSE @]
Kept(e, v) == Out(Out(Spill(e, v), <<"SetLocal", SpillSlot(e, v)>>), <<"Pop">>)

Operation(i) ==
    CASE i.op = "bin" -> <<i.x>>
      [] i.op = "un" -> <<i.x>>
      [] i.op = "call" -> <<"Call", Len(i.args) - 1>>
      [] i.op = "getglobal" -> <<"GetGlobal", i.x>>
      [] i.op = "setglobal" -> <<"SetGlobal", i.x>>
      [] i.op = "defglobal" -> <<"DefineGlobal", i.x>>
      [] i.op = "getproperty" -> <<"GetProperty">>
      [] i.op = "setproperty" -> <<"SetProperty">>
      [] i.op = "getindex" -> <<"GetIndex">>
      [] i.op = "setindex" -> <<"SetIndex">>
      [] i.op = "newobject" -> <<"NewObject">>
      [] i.op = "newarray" -> <<"NewArray", Len(i.args)>>
      [] i.op = "print" -> <<"Print">>
      [] i.op = "await" -> <<"Await">>
      [] i.op = "getupvalue" -> <<"GetUpvalue", i.x>>
      [] i.op = "setupvalue" -> <<"SetUpvalue", i.x>>
      [] i.op = "closure" -> <<"MakeClosure", i.x>>
Recomputed == {"bin", "un", "call", "getglobal", "getproperty", "getindex", "newobject",
               "newarray", "await", "getupvalue", "closure"}
LoadOf(f, i) == IF IsOp(f, i.args[1], "alloca") THEN <<"GetLocal", f.inst[i.args[1]].x>>
                ELSE <<"Constant", Null>>

\* push_value: from its slot, or computed again (recompute).
RECURSIVE PushValue(_, _, _)
PushAll(f, e, args) == Fold(LAMBDA a, v : PushValue(f, a, v), e, args)
PushValue(f, e, v) ==
    IF v \in DOMAIN e.spill THEN Out(e, <<"GetLocal", e.spill[v]>>)
    ELSE IF v \notin DOMAIN f.inst THEN Out(e, <<"Constant", Null>>)
    ELSE LET i == f.inst[v]
             again == Out(PushAll(f, e, i.args), Operation(i))
         IN CASE i.op = "const" -> Out(e, <<"Constant", i.x>>)
              [] i.op = "load" -> Out(e, LoadOf(f, i))
              [] i.op = "param" -> Out(e, <<"GetLocal", i.x>>)
              [] i.op \in Recomputed -> Out(Spill(again, v), <<"SetLocal", SpillSlot(again, v)>>)
              [] OTHER -> Out(e, <<"Constant", Null>>)

\* emit_inst
EmitInst(f, e, v) ==
    LET i == f.inst[v]
        done == Out(PushAll(f, e, i.args), Operation(i))
    IN CASE i.op \in {"alloca", "param"} -> e
         [] i.op = "const" -> Kept(Out(e, <<"Constant", i.x>>), v)
         [] i.op = "load" -> Kept(Out(e, LoadOf(f, i)), v)
         [] i.op = "store" ->
               LET p == PushValue(f, e, i.args[2])
               IN Out(IF IsOp(f, i.args[1], "alloca") THEN Out(p, <<"SetLocal", f.inst[i.args[1]].x>>)
                      ELSE p, <<"Pop">>)
         [] i.op \in {"setglobal", "setupvalue"} -> Out(done, <<"Pop">>)
         [] i.op \in {"defglobal", "setproperty", "setindex", "print"} -> done
         [] OTHER -> Kept(done, v)

\* emit_function: the blocks in reverse postorder, each with its jumps, which
\* get their distances at the end.  A test leaves its value on the stack.
EmitTerm(f, e, b) ==
    LET t == f.blk[b].term
        To(k) == <<"to", t.to[k]>>
        v == PushValue(f, e, t.v)
    IN CASE t.is = "br" -> Out(e, <<"Jump", To(1)>>)
         [] t.is = "cond" -> Out(Out(v, <<"JumpIfFalse", To(2)>>), <<"Jump", To(1)>>)
         [] t.is = "return" -> Out(IF t.v = -1 THEN Out(e, <<"Constant", Null>>) ELSE v, <<"Return">>)
         [] t.is = "halt" -> Out(e, <<"Halt">>)
         [] t.is = "throw" -> Out(v, <<"Throw">>)
EmitFunction(f) ==
    LET Block(e, b) ==
            LET at == [e EXCEPT !.start = (b :> Len(e.code) + 1) @@ @]
            IN EmitTerm(f, Fold(LAMBDA a, v : EmitInst(f, a, v), at, f.blk[b].ids), b)
        e == Fold(Block, [code |-> <<>>, spill |-> <<>>, next |-> IF f.locals < LastSlot THEN f.locals ELSE LastSlot,
                           start |-> <<>>], Rpo(f))
        Patch(k) ==
            LET i == e.code[k]
                d == e.start[i[2][2]] - (k + 1)
            IN IF Len(i) < 2 \/ i[1] \notin {"Jump", "JumpIfFalse"} THEN i
               ELSE IF d >= 0 THEN <<i[1], d>>
               ELSE IF i[1] = "Jump" THEN <<"Loop", -d>>
               ELSE <<i[1], 0>>                       \* a test cannot jump back
    IN [code |-> Table([k \in DOMAIN e.code |-> Patch(k)]), arity |-> f.arity,
        locals |-> IF e.next > f.locals THEN e.next ELSE f.locals]
=============================================================================
